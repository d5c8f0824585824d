--------------------------- MODULE HttpFileServer ---------------------------
(***************************************************************************)
(* http_file_server_run2 serving one file, in the forked server processes, *)
(* with the cached .gz file it keeps beside the original.  The handler     *)
(* does not yield before it sends the body, but the processes share the    *)
(* files with one another and with whoever edits them, so every system     *)
(* call is a step.                                                         *)
(*                                                                         *)
(* A content is the version of the file it was made from; all versions     *)
(* have the same size.  Time is in seconds, as st_mtime is compared.       *)
(* Requests for directories and for names outside base_dir, which are      *)
(* answered at once, are left out.                                         *)
(***************************************************************************)
EXTENDS Naturals, FiniteSets

CONSTANTS Procs,      \* server processes
          MaxClock,   \* bound: seconds
          MaxEdits,   \* bound: edits of the file
          MaxReqs,    \* bound: requests
          MaxFaults   \* bound: system calls that fail

VARIABLES clock, orig, gz,  \* the time, the file and the compressed file
          req,        \* the handler of each process
          client,     \* the copy the client keeps: its ETag and its version
          last,       \* the last response
          edits, reqs, faults,
          late        \* history: the file was edited when that cannot be noticed

vars == <<clock, orig, gz, req, client, last, edits, reqs, faults, late>>

Gone == [there |-> FALSE, ver |-> 0, whole |-> FALSE, mtime |-> 0]

File(ver, whole) == [there |-> TRUE, ver |-> ver, whole |-> whole, mtime |-> clock]

Size(f) == IF f.whole THEN 1 ELSE 0

NoCopy == [etag |-> <<0, 0>>, ver |-> 0]

Idle == [pc |-> "idle", fd |-> "none", mtime |-> 0, st |-> <<0, 0>>, copy |-> NoCopy, map |-> 0]

NoResponse == [code |-> 0, gzip |-> FALSE, ver |-> 0, whole |-> FALSE]

Busy(p) == req[p].pc # "idle"
-----------------------------------------------------------------------------
Init ==
    /\ clock = 1
    /\ orig = [there |-> TRUE, ver |-> 1, whole |-> TRUE, mtime |-> 1]
    /\ gz = Gone
    /\ req = [p \in Procs |-> Idle]
    /\ client = NoCopy
    /\ last = NoResponse
    /\ edits = 0 /\ reqs = 0 /\ faults = 0
    /\ late = FALSE

At(p, pc) == req[p].pc = pc

Goto(p, r) == req' = [req EXCEPT ![p] = r]

Step(p, pc) == Goto(p, [req[p] EXCEPT !.pc = pc])

Answer(p, code, fd) ==
    /\ Goto(p, [Idle EXCEPT !.fd = fd])
    /\ last' = [NoResponse EXCEPT !.code = code]

Fault == faults < MaxFaults /\ faults' = faults + 1

(* The client sends the ETag of its copy, and may accept gzip.  realpath   *)
(* finds the file, or nothing.                                             *)
http_file_server_run(p) ==
    /\ ~Busy(p) /\ reqs < MaxReqs
    /\ reqs' = reqs + 1
    /\ \/ /\ orig.there
          /\ \E pc \in {"stat", "open"}, copy \in {client, NoCopy} :
               Goto(p, [Idle EXCEPT !.pc = pc, !.copy = copy, !.fd = req[p].fd])
          /\ UNCHANGED last
       \/ ~orig.there /\ Answer(p, 404, req[p].fd)
    /\ UNCHANGED <<clock, orig, gz, client, edits, faults, late>>

stat(p) ==
    /\ At(p, "stat")
    /\ IF orig.there THEN Goto(p, [req[p] EXCEPT !.pc = "open_gz", !.mtime = orig.mtime])
                          /\ UNCHANGED last
                     ELSE Answer(p, 404, "none")
    /\ UNCHANGED <<clock, orig, gz, client, edits, reqs, faults, late>>

open_compressed(p) ==
    /\ At(p, "open_gz")
    /\ IF gz.there THEN Goto(p, [req[p] EXCEPT !.pc = "fstat_gz", !.fd = "gz"])
                   ELSE Step(p, "create")
    /\ UNCHANGED <<clock, orig, gz, client, last, edits, reqs, faults, late>>

stale_never(r, mtime) == FALSE

(* The compressed file is older than the original.                         *)
stale(r, mtime) == mtime < r.mtime

fstat_compressed(p) ==
    /\ At(p, "fstat_gz")
    /\ IF stale(req[p], gz.mtime)
       THEN Goto(p, [req[p] EXCEPT !.pc = "create", !.fd = "none"])
       ELSE Goto(p, [req[p] EXCEPT !.pc = "respond", !.st = <<req[p].mtime, Size(gz)>>])
    /\ UNCHANGED <<clock, orig, gz, client, last, edits, reqs, faults, late>>

(* Every early return closes what the handler opened.                      *)
fd_after_error(p) == "none"

fstat_fails(p) ==
    /\ req[p].pc \in {"fstat_gz", "reopened", "fstat"}
    /\ Fault
    /\ Answer(p, 500, fd_after_error(p))
    /\ UNCHANGED <<clock, orig, gz, client, edits, reqs, late>>

(* gzopen truncates what is there, under whoever is sending it.            *)
gzopen(p) ==
    /\ At(p, "create")
    /\ gz' = File(0, FALSE)
    /\ Step(p, "map")
    /\ UNCHANGED <<clock, orig, client, last, edits, reqs, faults, late>>

gzopen_fails(p) ==
    /\ At(p, "create")
    /\ Fault
    /\ Answer(p, 500, "none")
    /\ UNCHANGED <<clock, orig, gz, client, edits, reqs, late>>

file_mapper_init(p) ==
    /\ At(p, "map")
    /\ IF orig.there THEN Goto(p, [req[p] EXCEPT !.pc = "write", !.map = orig.ver])
                          /\ UNCHANGED last
                     ELSE Answer(p, 404, "none")
    /\ UNCHANGED <<clock, orig, gz, client, edits, reqs, faults, late>>

gzwrite(p) ==
    /\ At(p, "write")
    /\ gz' = File(req[p].map, TRUE)
    /\ Step(p, "reopen")
    /\ UNCHANGED <<clock, orig, client, last, edits, reqs, faults, late>>

(* The file that could not be written in full stays.                       *)
gzwrite_fails(p) ==
    /\ At(p, "write")
    /\ Fault
    /\ gz' = File(req[p].map, FALSE)
    /\ Answer(p, 500, "none")
    /\ UNCHANGED <<clock, orig, client, edits, reqs, late>>

reopen(p) ==
    /\ At(p, "reopen")
    /\ Goto(p, [req[p] EXCEPT !.pc = "reopened", !.fd = "gz"])
    /\ UNCHANGED <<clock, orig, gz, client, last, edits, reqs, faults, late>>

reopen_fails(p) ==
    /\ At(p, "reopen")
    /\ Fault
    /\ Answer(p, 404, "none")
    /\ UNCHANGED <<clock, orig, gz, client, edits, reqs, late>>

fstat_reopened(p) ==
    /\ At(p, "reopened")
    /\ Goto(p, [req[p] EXCEPT !.pc = "respond", !.st = <<req[p].mtime, Size(gz)>>])
    /\ UNCHANGED <<clock, orig, gz, client, last, edits, reqs, faults, late>>

open_plain(p) ==
    /\ At(p, "open")
    /\ IF orig.there THEN Goto(p, [req[p] EXCEPT !.pc = "fstat", !.fd = "orig"]) /\ UNCHANGED last
                     ELSE Answer(p, 404, "none")
    /\ UNCHANGED <<clock, orig, gz, client, edits, reqs, faults, late>>

fstat_plain(p) ==
    /\ At(p, "fstat")
    /\ Goto(p, [req[p] EXCEPT !.pc = "respond", !.st = <<orig.mtime, Size(orig)>>])
    /\ UNCHANGED <<clock, orig, gz, client, last, edits, reqs, faults, late>>

(* The ETag is the time of the original and the size of what is sent.      *)
matches(r) == r.copy.etag = r.st

not_modified(p) ==
    /\ At(p, "respond")
    /\ matches(req[p])
    /\ Goto(p, Idle)
    /\ last' = [NoResponse EXCEPT !.code = 304, !.ver = req[p].copy.ver]
    /\ UNCHANGED <<clock, orig, gz, client, edits, reqs, faults, late>>

(* The body is what the file holds when it is sent, up to the size it had  *)
(* at fstat; _http_server_sendfile waits while there is less.              *)
http_server_sendfile_payload(p) ==
    /\ At(p, "respond")
    /\ ~matches(req[p])
    /\ LET f == IF req[p].fd = "gz" THEN gz ELSE orig
       IN /\ Size(f) >= req[p].st[2]
          /\ last' = [code |-> 200, gzip |-> req[p].fd = "gz", ver |-> f.ver,
                      whole |-> f.whole /\ req[p].st[2] = Size(f)]
          /\ client' = [etag |-> req[p].st, ver |-> IF last'.whole THEN f.ver ELSE 0]
    /\ Goto(p, Idle)
    /\ UNCHANGED <<clock, orig, gz, edits, reqs, faults, late>>

(* The client goes away: the descriptor is closed all the same.            *)
sendfile_fails(p) ==
    /\ At(p, "respond")
    /\ ~matches(req[p])
    /\ Fault
    /\ Answer(p, 200, fd_after_error(p))
    /\ UNCHANGED <<clock, orig, gz, client, edits, reqs, late>>

(* The author.  An edit during a request, or in a second in which a copy   *)
(* of the file has been made, cannot be told from none.                    *)
Noticed == clock > orig.mtime /\ (gz.there => clock > gz.mtime) /\ \A p \in Procs : ~Busy(p)

Edit ==
    /\ edits < MaxEdits
    /\ edits' = edits + 1
    /\ \/ orig' = File(edits + 2, TRUE)
       \/ orig.there /\ orig' = Gone
    /\ late' = (late \/ ~Noticed)
    /\ UNCHANGED <<clock, gz, req, client, last, reqs, faults>>

Tick ==
    /\ clock < MaxClock
    /\ clock' = clock + 1
    /\ UNCHANGED <<orig, gz, req, client, last, edits, reqs, faults, late>>

Handler(p) ==
    \/ stat(p) \/ open_compressed(p) \/ fstat_compressed(p) \/ fstat_fails(p)
    \/ gzopen(p) \/ gzopen_fails(p) \/ file_mapper_init(p)
    \/ gzwrite(p) \/ gzwrite_fails(p) \/ reopen(p) \/ reopen_fails(p) \/ fstat_reopened(p)
    \/ open_plain(p) \/ fstat_plain(p)
    \/ not_modified(p) \/ http_server_sendfile_payload(p) \/ sendfile_fails(p)

Next == \/ \E p \in Procs : http_file_server_run(p) \/ Handler(p)
        \/ Edit
        \/ Tick

Spec == Init /\ [][Next]_vars
-----------------------------------------------------------------------------
(* Whatever fails on the way, a handler that has answered has closed the   *)
(* file it opened: the process serves for ever on a limited number.        *)
DescriptorsClosed == \A p \in Procs : ~Busy(p) => req[p].fd = "none"

Unfinished(r) == r.st[2] = 0

(* A body is the file as it is now, all of it, compressed or not, and a    *)
(* client is told to keep its copy only if that is so of the copy, also    *)
(* when other processes make the compressed file again meanwhile: as long  *)
(* as edits are at least a second away from requests and from one another, *)
(* and this handler's fstat did not find a compressed file that another    *)
(* process was still making, or had failed to finish.                      *)
ServesCurrent ==
    [][\A p \in Procs :
         (Busy(p) /\ req'[p].pc = "idle" /\ last'.code \in {200, 304} /\ faults' = faults
            /\ ~late /\ ~Unfinished(req[p])) =>
           last'.ver = orig.ver /\ (last'.code = 200 => last'.whole)]_vars
=============================================================================
