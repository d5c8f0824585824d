----------------------------- MODULE SendEmail ------------------------------
(***************************************************************************)
(* sendemail.c: one call of sendemail2 (a fiber) against a mail server.    *)
(* Stage 1 is the greeting; the stages after it are EHLO, MAIL FROM, one   *)
(* RCPT TO per recipient, DATA, the body and QUIT: each sends something    *)
(* and reads one reply.  A command is CmdLen bytes in `request'; the body  *)
(* is written with writev from two pieces, the data and the terminating    *)
(* line.  A reply has one or more lines, which may arrive in pieces, and   *)
(* read_data takes whatever has arrived, once that contains a line, for    *)
(* the reply: the rest of a reply is then read as the one to the next      *)
(* command.  sendemail_yield links the socket into the mta's timeout       *)
(* handler, which shuts it down when its time is over.                     *)
(***************************************************************************)
EXTENDS Integers, Sequences

CONSTANTS Recipients, CmdLen, DataLen, DotLen,
          MaxPieces    \* bound: pieces a reply comes in besides its last line

Quit == Recipients + 6
Body == Recipients + 5
Data == Recipients + 4

Sends(s) == s \notin {1, Body}

Refused == 550
Garbled == -1

(* The codes sendemail2 expects.                                           *)
Code(s) == CASE s = 1 -> 220 [] s = Data -> 354 [] s = Quit -> 221 [] OTHER -> 250

VARIABLES stage, pc,   \* pc: "send", "write", "wyield", "rewrite", "read", "yield", "returned"
          unsent,      \* bytes of commands still in `request'
          iov,         \* the two pieces of the body: [at, len]
          sent,        \* body bytes the server was sent, in order
          lines,       \* codes of the lines received and not yet taken as a reply
          tail,        \* what follows the last CRLF: "none", "plain", or with a "dash"
          cut,         \* the line being received has lost its beginning to a reply
          served,      \* stages the server has replied to
          code,        \* the code of the reply it is sending, or 0
          pieces,      \* pieces of that reply so far
          shut,        \* "no", "peer" closed it, or the "timeout" handler did
          event,       \* what epoll has to report for the socket: {"in", "out"}
          fd, linked,
          accepted,    \* the server has taken the message
          result

inbox == <<lines, tail, cut>>
server == <<served, code, pieces, accepted>>
vars == <<stage, pc, unsent, iov, sent, inbox, server, shut, event, fd, linked, result>>

Init ==
    /\ stage = 1 /\ pc = "read" /\ unsent = 0
    /\ iov = <<[at |-> 1, len |-> DataLen], [at |-> DataLen + 1, len |-> DotLen]>>
    /\ sent = <<>>
    /\ lines = <<>> /\ tail = "none" /\ cut = FALSE
    /\ served = 0 /\ code = 0 /\ pieces = 0 /\ accepted = FALSE
    /\ shut = "no" /\ event = {"out"}
    /\ fd = "open" /\ linked = FALSE
    /\ result = "pending"

(* Every error path closes the socket, some of them twice in one go.       *)
fails == result' = "failed" /\ pc' = "returned" /\ fd' = "closed"

yield_unlinked == FALSE

(* Every wait is under the timeout handler.                                *)
sendemail_yield == TRUE

Min(a, b) == IF a < b THEN a ELSE b
-----------------------------------------------------------------------------
(* SEND_DATA: what the socket does not take stays in `request' and goes    *)
(* out in front of the next command; the reply is awaited all the same.    *)
send_command ==
    /\ pc = "send" /\ shut # "timeout"
    /\ \/ /\ \E k \in 0..(unsent + CmdLen) : unsent' = unsent + CmdLen - k
          /\ pc' = "read" /\ UNCHANGED <<fd, result>>
       \/ fails /\ UNCHANGED unsent
    /\ UNCHANGED <<stage, iov, sent, inbox, server, shut, event, linked>>

Bytes(p, n) == [i \in 1..Min(p.len, n) |-> p.at + i - 1]

iov_keeping_second(k) ==
    IF k >= iov[1].len
    THEN <<[at |-> iov[2].at + k - iov[1].len, len |-> iov[2].len - (k - iov[1].len)], iov[2]>>
    ELSE <<[at |-> iov[1].at + k, len |-> iov[1].len - k], iov[2]>>

iov_after(k) ==
    IF k >= iov[1].len
    THEN <<[at |-> iov[2].at + k - iov[1].len, len |-> iov[2].len - (k - iov[1].len)],
           [iov[2] EXCEPT !.len = 0]>>
    ELSE <<[at |-> iov[1].at + k, len |-> iov[1].len - k], iov[2]>>

(* The socket is full: epoll reports it writable when there is room again. *)
yields_full ==
    pc' = "wyield" /\ linked' = sendemail_yield /\ event' = event \ {"out"}

(* writev takes k bytes, or none (EAGAIN, unless epoll has just reported   *)
(* the socket writable), and the fiber yields until all are taken.         *)
write_body ==
    /\ pc \in {"write", "rewrite"} /\ shut # "timeout"
    /\ \/ \E k \in 1..(iov[1].len + iov[2].len) :
            LET rest == iov_after(k)
                n1 == Min(iov[1].len, k)
            IN  /\ sent' = sent \o Bytes(iov[1], k) \o Bytes(iov[2], k - n1)
                /\ iov' = rest
                /\ IF k >= iov[1].len /\ rest[1].len = 0
                   THEN pc' = "read" /\ linked' = FALSE /\ UNCHANGED event
                   ELSE yields_full
                /\ UNCHANGED <<fd, result>>
       \/ pc = "write" /\ yields_full /\ UNCHANGED <<sent, iov, fd, result>>
       \/ fails /\ UNCHANGED <<sent, iov, linked, event>>
    /\ UNCHANGED <<stage, unsent, inbox, server, shut>>

code_matches(c) == c = Code(stage)

(* CHECK_CODE, then the next stage or the end.                             *)
next_stage(c) ==
    IF ~code_matches(c) THEN fails /\ UNCHANGED stage
    ELSE IF stage = Quit
         THEN result' = "sent" /\ pc' = "returned" /\ fd' = "closed" /\ UNCHANGED stage
         ELSE /\ stage' = stage + 1
              /\ pc' = IF Sends(stage + 1) THEN "send" ELSE "write"
              /\ UNCHANGED <<fd, result>>

(* A line, and nothing with a dash after it (after QUIT, just a line).     *)
reply_read == lines # <<>> /\ (tail # "dash" \/ stage = Quit)

(* The code is that of the first line; ofs moves past all that was read.   *)
take_reply ==
    /\ reply_read
    /\ next_stage(lines[1])
    /\ lines' = <<>> /\ tail' = "none" /\ cut' = (tail # "none")
    /\ UNCHANGED linked

(* End of file without a reply; after QUIT the beginning of a line may do. *)
end_of_file ==
    /\ ~reply_read /\ shut # "no"
    /\ \/ fails /\ UNCHANGED stage
       \/ stage = Quit /\ tail # "none" /\ ~cut /\ next_stage(code)
    /\ UNCHANGED <<inbox, linked>>

(* A short read hides the end of file that follows the data.               *)
wait_for_more ==
    /\ ~reply_read
    /\ shut = "no" \/ (shut = "peer" /\ (lines # <<>> \/ tail # "none"))
    /\ pc' = "yield" /\ linked' = sendemail_yield
    /\ UNCHANGED <<stage, inbox, fd, result>>

read_data ==
    /\ pc = "read"
    /\ take_reply \/ end_of_file \/ wait_for_more
    /\ UNCHANGED <<unsent, iov, sent, server, shut, event>>

(* Epoll reports an event; edge triggered, it does so once.                *)
resumed ==
    /\ event # {}
    /\ \/ pc = "yield" /\ pc' = "read"
       \/ pc = "wyield" /\ pc' = IF "out" \in event THEN "rewrite" ELSE "write"
    /\ linked' = FALSE /\ event' = {}
    /\ UNCHANGED <<stage, unsent, iov, sent, inbox, server, shut, fd, result>>
-----------------------------------------------------------------------------
(* Stages the server has received: all that were sent but for commands     *)
(* that are not completely written.                                        *)
Received ==
    (IF pc \in {"send", "write", "wyield", "rewrite"} THEN stage - 1 ELSE stage)
        - (unsent + CmdLen - 1) \div CmdLen

LineCode(c) == IF cut THEN Garbled ELSE c

(* The server replies to what it has received, in order: with the end of   *)
(* the last line, or with a piece, which ends within a line or after one   *)
(* that is not the last.                                                   *)
ends_reply(c) ==
    /\ lines' = Append(lines, LineCode(c)) /\ tail' = "none" /\ cut' = FALSE
    /\ served' = served + 1 /\ code' = 0 /\ pieces' = 0
    /\ accepted' = (accepted \/ (served + 1 = Body /\ c = Code(Body)))

sends_piece(c) ==
    /\ pieces < MaxPieces /\ pieces' = pieces + 1 /\ code' = c
    /\ \/ tail' \in {"plain", "dash"} /\ UNCHANGED <<lines, cut>>
       \/ lines' = Append(lines, LineCode(c)) /\ tail' = "none" /\ cut' = FALSE
    /\ UNCHANGED <<served, accepted>>

server_replies ==
    /\ fd = "open" /\ shut = "no" /\ served < Received
    /\ \E c \in IF code # 0 THEN {code} ELSE {Code(served + 1), Refused} :
          ends_reply(c) \/ sends_piece(c)
    /\ event' = event \cup {"in"}
    /\ UNCHANGED <<stage, pc, unsent, iov, sent, shut, fd, linked, result>>

Shuts(by) ==
    /\ fd = "open" /\ shut' = by /\ event' = event \cup {"in"}
    /\ UNCHANGED <<stage, pc, unsent, iov, sent, inbox, server, fd, linked, result>>

server_closes == shut = "no" /\ Shuts("peer")

writable ==
    /\ pc = "wyield" /\ "out" \notin event /\ event' = event \cup {"out"}
    /\ UNCHANGED <<stage, pc, unsent, iov, sent, inbox, server, shut, fd, linked, result>>

(* The timeout handler: only what is linked is shut down.                  *)
timeout == linked /\ shut # "timeout" /\ Shuts("timeout")

broken_pipe ==
    /\ pc \in {"send", "write", "rewrite"} /\ shut # "no"
    /\ fails
    /\ UNCHANGED <<stage, unsent, iov, sent, inbox, server, shut, event, linked>>

Done == pc = "returned" /\ UNCHANGED vars

Runs == send_command \/ write_body \/ read_data \/ broken_pipe

Next == \/ Runs \/ resumed
        \/ server_replies \/ server_closes \/ writable \/ timeout \/ Done

(* The fiber runs when it can and is resumed by an event; nothing is       *)
(* assumed of the server.  A wait that no event ends is timed out.         *)
Fairness == /\ WF_vars(Runs)
            /\ WF_vars(resumed) /\ WF_vars(timeout)

Spec == Init /\ [][Next]_vars /\ Fairness
-----------------------------------------------------------------------------
(* Success is only reported for a message the server has accepted, even    *)
(* though read_data may take a part of a reply for all of it and the next  *)
(* part, or several replies at once, for the reply to the next command.    *)
(* (The converse does not hold: a call that gets out of step, or loses the *)
(* reply to QUIT, may fail although the message was taken.)                *)
SentMeansAccepted == result = "sent" => accepted

(* "Keep reading if 1.you don't see a CRLF OR 2.see a dash and CRLF in the *)
(* current line" (read_data): the call goes on to the next command only    *)
(* after the last line of the reply.                                       *)
RepliesWhole == served >= stage - 1

(* Whatever pieces writev takes, the server is sent the data and then the  *)
(* terminating line, each byte once, before its reply is awaited.          *)
BodyExact ==
    /\ \A i \in 1..Len(sent) : sent[i] = i
    /\ (stage > Body \/ (stage = Body /\ pc \in {"read", "yield"})) => Len(sent) = DataLen + DotLen

(* No call leaves its socket open, however it ends.                        *)
SocketClosed == pc = "returned" => fd = "closed"

(* Every call returns, also when the server says nothing or a command was  *)
(* only partly written: the timeout handler ends the wait.  (A server that *)
(* keeps sending pieces of a reply restarts the time with each of them.)   *)
Returns == <>(pc = "returned")
=============================================================================
