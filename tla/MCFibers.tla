----------------------------- MODULE MCFibers -------------------------------
(***************************************************************************)
(* Two systems of fibers, for TLC: the queue of contexts of epoll_worker,  *)
(* and the HTTP server with three connections, two at a time.  A behaviour *)
(* is one of a single system, `which', and the variables of the other stay *)
(* as they were initialised.                                               *)
(***************************************************************************)
EXTENDS EpollWorker, HttpServer, TLC

VARIABLE which

(* The descriptors of the server are interchangeable. *)
Symmetry == Permutations(Fds)

MCInit == which \in {"queue", "server"} /\ EpollInit /\ Init

MCNext ==
    \/ which = "queue" /\ EpollNext /\ UNCHANGED <<which, vars>>
    \/ which = "server" /\ Next /\ UNCHANGED <<which, epoll_vars>>

MCSpec == MCInit /\ [][MCNext]_<<which, epoll_vars, vars>>
=============================================================================
