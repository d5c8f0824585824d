----------------------------- MODULE MCServices -----------------------------
(***************************************************************************)
(* The parts that wait for time, for other processes or for a server, for  *)
(* TLC, and the binary search. They do not interact here: a behaviour is   *)
(* one of a single component, `which', and the variables of the others     *)
(* stay as they were initialised.                                          *)
(***************************************************************************)
EXTENDS TimeoutHandler, Search

CONSTANTS f1, f2, f3, s1, auto, l1, l2

VARIABLES which,
          ew_current, ew_waiting, ew_last_fd, ew_fd_map, ew_ready, ew_pipe, ew_read_ofs,
          ew_avail, ew_pc, ew_ops, ew_previous_context, ew_save_ctx,
          re_left, re_ticks, re_run, re_cut, re_status, re_counter, re_recent,
          re_global_status, re_held,
          sl_tfd, sl_left, sl_readable, sl_at, sl_owes, sl_ready, sl_early,
          se_stage, se_pc, se_unsent, se_iov, se_sent, se_lines, se_tail, se_cut, se_served,
          se_code, se_pieces, se_shut, se_event, se_fd, se_linked, se_accepted, se_result,
          mp_known, mp_idle, mp_made, mp_connected, mp_caller

ewvars == <<ew_current, ew_waiting, ew_last_fd, ew_fd_map, ew_ready, ew_pipe, ew_read_ofs,
            ew_avail, ew_pc, ew_ops, ew_previous_context, ew_save_ctx>>

revars == <<re_left, re_ticks, re_run, re_cut, re_status, re_counter, re_recent,
            re_global_status, re_held>>

slvars == <<sl_tfd, sl_left, sl_readable, sl_at, sl_owes, sl_ready, sl_early>>

sevars == <<se_stage, se_pc, se_unsent, se_iov, se_sent, se_lines, se_tail, se_cut,
            se_served, se_code, se_pieces, se_shut, se_event, se_fd, se_linked, se_accepted,
            se_result>>

mpvars == <<mp_known, mp_idle, mp_made, mp_connected, mp_caller>>

mcvars == <<which, vars, search_vars, ewvars, revars, slvars, sevars, mpvars>>

EW == INSTANCE EpollWorker WITH
    NFibers <- 8, NPages <- 1, PageSize <- 2, MaxOps <- 3, Ops <- {"handover"},
    current <- ew_current, waiting <- ew_waiting, last_fd <- ew_last_fd,
    fd_map <- ew_fd_map, ep_ready <- ew_ready, pipe <- ew_pipe, read_ofs <- ew_read_ofs,
    avail <- ew_avail, pc <- ew_pc, ops <- ew_ops, previous_context <- ew_previous_context,
    save_ctx <- ew_save_ctx

RE == INSTANCE Ribeye WITH
    Services <- {s1}, AutoUp <- auto, Timers <- {s1, auto}, healthy_count <- 3,
    unhealthy_count <- 2, Interval <- 2, PerSecond <- 1, IntMod <- 4, Periods <- {0, 1, 3},
    left <- re_left, ticks <- re_ticks, run <- re_run, cut <- re_cut, status <- re_status,
    counter <- re_counter, recent <- re_recent, global_status <- re_global_status,
    held <- re_held

SL == INSTANCE Sleep WITH
    Fibers <- {f1, f2}, Delays <- {0, 1, 2}, tfd <- sl_tfd, left <- sl_left,
    readable <- sl_readable, at <- sl_at, owes <- sl_owes, ready <- sl_ready,
    early <- sl_early

SE == INSTANCE SendEmail WITH
    Recipients <- 1, CmdLen <- 2, DataLen <- 2, DotLen <- 2, MaxPieces <- 1,
    stage <- se_stage, pc <- se_pc, unsent <- se_unsent, iov <- se_iov, sent <- se_sent,
    lines <- se_lines, tail <- se_tail, cut <- se_cut, served <- se_served, code <- se_code,
    pieces <- se_pieces, shut <- se_shut, event <- se_event, fd <- se_fd,
    linked <- se_linked, accepted <- se_accepted, result <- se_result

MP == INSTANCE MysqlPool WITH
    Logins <- {l1, l2}, Callers <- {f1, f2, f3}, MaxEntries <- 4, known <- mp_known,
    idle <- mp_idle, made <- mp_made, connected <- mp_connected, caller <- mp_caller
-----------------------------------------------------------------------------
(* A component that is not the one looked at has one initial state.        *)
MCInit ==
    /\ which \in {"timeout_handler", "search", "epoll_worker", "ribeye", "sleep",
                  "sendemail", "mysql_pool"}
    /\ Init
    /\ SearchInit
    /\ which # "search" => fn = "lower_bound" /\ nmemb = 0 /\ \A m \in Members : key <= m
    /\ EW!EpollInit
    /\ RE!Init
    /\ SL!Init
    /\ SE!Init
    /\ MP!Init

MCNext ==
    /\ UNCHANGED which
    /\ \/ which = "timeout_handler" /\ Next
          /\ UNCHANGED <<search_vars, ewvars, revars, slvars, sevars, mpvars>>
       \/ which = "search" /\ SearchNext
          /\ UNCHANGED <<vars, ewvars, revars, slvars, sevars, mpvars>>
       \/ which = "epoll_worker" /\ EW!EpollNext
          /\ UNCHANGED <<vars, search_vars, revars, slvars, sevars, mpvars>>
       \/ which = "ribeye" /\ RE!Next
          /\ UNCHANGED <<vars, search_vars, ewvars, slvars, sevars, mpvars>>
       \/ which = "sleep" /\ SL!Next
          /\ UNCHANGED <<vars, search_vars, ewvars, revars, sevars, mpvars>>
       \/ which = "sendemail" /\ SE!Next
          /\ UNCHANGED <<vars, search_vars, ewvars, revars, slvars, mpvars>>
       \/ which = "mysql_pool" /\ MP!Next
          /\ UNCHANGED <<vars, search_vars, ewvars, revars, slvars, sevars>>

(* The fairness of each component, for the component looked at.            *)
MCFairness ==
    /\ WF_vars(which = "timeout_handler" /\ Tick)
    /\ WF_vars(which = "timeout_handler" /\ expiration_handler)
    /\ WF_search_vars(which = "search" /\ SearchNext)
    /\ WF_ewvars(which = "epoll_worker" /\ EW!Scheduler)
    /\ WF_ewvars(which = "epoll_worker" /\ \E f \in EW!Fibers : EW!RunFiber(f))
    /\ WF_revars(which = "ribeye" /\ RE!Passes)
    /\ WF_revars(which = "ribeye" /\ RE!auto_up_worker)
    /\ WF_revars(which = "ribeye" /\ RE!probe(s1))
    /\ WF_revars(which = "ribeye" /\ RE!answered(s1))
    /\ WF_slvars(which = "sleep" /\ SL!Tick)
    /\ \A f \in {f1, f2} : WF_slvars(which = "sleep" /\ SL!resumed_by_timer(f))
    /\ WF_sevars(which = "sendemail" /\ SE!Runs)
    /\ WF_sevars(which = "sendemail" /\ SE!resumed)
    /\ WF_sevars(which = "sendemail" /\ SE!timeout)

MCSpec == MCInit /\ [][MCNext]_mcvars /\ MCFairness
-----------------------------------------------------------------------------
(* epoll_worker: without courtesy_yield no context is resumed after its    *)
(* end or while it is still queued, none is queued twice, and those that   *)
(* wait for room in the pipe form a stack that loses none of them.         *)
EpollWaitersKept ==
    which = "epoll_worker" =>
        EW!EpollTypeOK /\ EW!WaitersStacked /\ EW!QueuedOnce /\ EW!NoResumeOfFinished

(* epoll_worker, sleep, sendemail, search: whoever waits returns: every    *)
(* fiber, however full the pipe; every sleep of a positive time; every     *)
(* call of the mail client, also when the server is silent; every search.  *)
WaitersReturn ==
    /\ which = "epoll_worker" => EW!EveryFiberReturns
    /\ which = "sleep" => SL!SleepEnds
    /\ which = "sendemail" => SE!Returns
    /\ which = "search" => SearchEnds

(* timer_worker, sleep, ribeye: no timer does something it should not do   *)
(* yet or any more: no probe is cut short by the next one, no sleep ends   *)
(* early, and no old timer undoes a /down that was given without a period. *)
TimersNotEarly ==
    /\ which = "ribeye" => RE!NotCutShort /\ RE!DownHolds
    /\ which = "sleep" => SL!NotEarly

(* ribeye: every service is probed again and again; its status is left     *)
(* only after enough contrary results in a row, and is in the end that of  *)
(* a service whose probes all end the same way; and /down?t=N is undone.   *)
MonitorReports ==
    /\ RE!StatusEarned
    /\ which = "ribeye" => RE!SteadyReported /\ RE!ProbedForever /\ RE!UpAgain

(* sendemail: success is reported only for a message the server accepted,  *)
(* each byte of the body is sent once and in order, and no call leaves its *)
(* socket open.                                                            *)
EmailFaithful == which = "sendemail" => SE!SentMeansAccepted /\ SE!BodyExact /\ SE!SocketClosed

(* mysql_pool: a connection has one user, is connected with the login of   *)
(* that user, and at most one per login is lost to the pool.               *)
PoolAccounted == which = "mysql_pool" => MP!OneUser /\ MP!LostPerLogin
=============================================================================
