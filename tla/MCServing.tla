----------------------------- MODULE MCServing ------------------------------
(***************************************************************************)
(* Three systems with liveness properties, for TLC: the HTTP server with   *)
(* every kind of request on one connection at a time, the HTTP server out  *)
(* of descriptors with clients that send nothing, and the processes of a   *)
(* daemon: two sub-processes, or one and two fibers that fork workers.  A  *)
(* behaviour is one of a single system, `which', and the variables of the  *)
(* others stay as they were initialised.                                   *)
(***************************************************************************)
EXTENDS HttpServer

CONSTANTS f1, f2

VARIABLES which,
          bl_linked, bl_shut, bl_backlog, bl_conns, bl_enfile, bl_reserved, bl_open,
          bl_sock, bl_ready, bl_owner, bl_running, bl_freelist, bl_made, bl_fiber,
          dm_main, dm_subs, dm_forked, dm_kid, dm_slot, dm_logger, dm_pidfile, dm_token, dm_launcher,
          dm_pend, dm_masked, dm_sigint, dm_control, dm_handler, dm_worker, dm_waits,
          dm_last, dm_got, dm_deaths

blvars == <<bl_linked, bl_shut, bl_backlog, bl_conns, bl_enfile, bl_reserved, bl_open,
            bl_sock, bl_ready, bl_owner, bl_running, bl_freelist, bl_made, bl_fiber>>

dmvars == <<dm_main, dm_subs, dm_forked, dm_kid, dm_slot, dm_logger, dm_pidfile, dm_token,
            dm_launcher, dm_pend, dm_masked, dm_sigint, dm_control, dm_handler, dm_worker,
            dm_waits, dm_last, dm_got, dm_deaths>>

mcvars == <<which, vars, blvars, dmvars>>

BL == INSTANCE HttpServer WITH
    Fds <- {f1, f2}, Kinds <- {}, Replies <- {"respond"}, MaxFiles <- 2, NumStacks <- 1,
    MaxCtx <- 2, TxCap <- 1, MaxConns <- 3, MaxReqs <- 1, MaxEnfile <- 1,
    linked <- bl_linked, shut <- bl_shut, backlog <- bl_backlog, conns <- bl_conns,
    enfile <- bl_enfile, reserved <- bl_reserved, open <- bl_open, sock <- bl_sock,
    ready <- bl_ready, owner <- bl_owner, running <- bl_running, freelist <- bl_freelist,
    made <- bl_made, fiber <- bl_fiber

DM == INSTANCE Daemonize WITH
    Kids <- 2, Fibers <- {f1, f2}, MaxDeaths <- 1, main <- dm_main, subs <- dm_subs, forked <- dm_forked,
    kid <- dm_kid, slot <- dm_slot, logger <- dm_logger, pidfile <- dm_pidfile,
    token <- dm_token, launcher <- dm_launcher, pend <- dm_pend, masked <- dm_masked,
    sigint <- dm_sigint, control <- dm_control, handler <- dm_handler, worker <- dm_worker,
    waits <- dm_waits, last <- dm_last, got <- dm_got, deaths <- dm_deaths
-----------------------------------------------------------------------------
MCInit ==
    /\ which \in {"requests", "backlog", "daemonize"}
    /\ Init
    /\ BL!Init
    /\ DM!Init /\ (which # "daemonize" => dm_subs = 1)

Requests(A) == which = "requests" /\ A /\ UNCHANGED <<which, blvars, dmvars>>

Backlog(A) == which = "backlog" /\ A /\ UNCHANGED <<which, vars, dmvars>>

Daemon(A) == which = "daemonize" /\ A /\ UNCHANGED <<which, vars, blvars, dm_subs>>

(* Bounds: fibers fork workers only beside a single sub-process, and there *)
(* nobody interrupts the main process.                                     *)
OneOrTheOther ==
    \/ dm_subs = 2 /\ dm_waits' = {}
    \/ dm_subs = 1 /\ dm_sigint' = "none"

MCNext == Requests(Next) \/ Backlog(BL!Next) \/ Daemon(DM!Next /\ OneOrTheOther)

(* The fairness of each system.  Since `which' never changes, assumptions  *)
(* about different systems can be made as one.  The clients of `backlog'   *)
(* send no requests, so that the application never runs there.             *)
MCFairness ==
    /\ T!Promise /\ BL!T!Promise
    /\ SF_mcvars(\/ Requests(Accept \/ AcceptFailed)
                 \/ Backlog(BL!Accept \/ BL!AcceptFailed)
                 \/ Daemon(DM!handler_dequeued))
    /\ SF_mcvars(Requests(Dispatch(f1)) \/ Backlog(BL!Dispatch(f1)) \/ Daemon(DM!read_sigfd))
    /\ SF_mcvars(\/ Requests(user_func(1))
                 \/ Backlog(BL!Dispatch(f2))
                 \/ Daemon(DM!reap_worker(f1)))
    /\ SF_mcvars(Requests(UserResume(1)) \/ Daemon(\E k \in DM!KidIds : DM!reap_kid(k)))
    /\ SF_mcvars(Daemon(DM!reap_worker(f2)))
    /\ WF_mcvars(\/ Requests(ReadRequest(1) \/ WriteOut(1))
                 \/ Backlog(BL!ReadRequest(1) \/ BL!WriteOut(1))
                 \/ Daemon(DM!MainStep))
    /\ WF_mcvars(Backlog(BL!ReadRequest(2) \/ BL!WriteOut(2)) \/ Daemon(DM!launcher_reads))
    /\ \A k \in DM!KidIds : WF_mcvars(Daemon(DM!KidStep(k)))

MCSpec == MCInit /\ [][MCNext]_mcvars /\ MCFairness
-----------------------------------------------------------------------------
(* http_server: whatever its client does or omits, a connection ends,      *)
(* unless it is sent a file that shrank; and every connection in the       *)
(* backlog is accepted or refused, even when the process has no descriptor *)
(* left.                                                                   *)
ClientsServed ==
    /\ which = "requests" => ConnectionsEnd
    /\ which = "backlog" => BL!BacklogDrains

(* daemonize: an orderly stop leaves no sub-process and no pidfile behind, *)
(* and ribs_fork_and_wait returns the fate of its own worker.              *)
DaemonKeepsCount == which = "daemonize" => DM!NothingLeftRunning /\ DM!OwnWorker

(* daemonize: the death of a sub-process stops the server, a fiber that    *)
(* waits for its worker is resumed, and the launcher learns that the       *)
(* daemon is up or has failed.                                             *)
DaemonLearns == which = "daemonize" => DM!DeathNoticed /\ DM!WaiterResumed /\ DM!LauncherAnswered
=============================================================================
