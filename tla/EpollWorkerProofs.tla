-------------------------- MODULE EpollWorkerProofs --------------------------
(***************************************************************************)
(* What TLAPS proves about the event loop, for every number of fibers,     *)
(* every size of the pipe and every mix of operations.                     *)
(*                                                                         *)
(* EInv is inductive.  NoLostWakeup and QueuedKept are nearly so; what     *)
(* they lack is that the map is exact (Map: a socket's events go to its    *)
(* fiber if and only if the fiber waits for them, so the event that        *)
(* epoll_wait removes is delivered to the fiber that needs it), that a     *)
(* descriptor is in the ready list once, and for PipeReadsPipe that a      *)
(* fiber waiting for room holds on to an event of the pipe (LastEvent).    *)
(***************************************************************************)
EXTENDS EpollWorker, FiniteSetTheorems, WellFoundedInduction, TLAPS

(* The types.  A descriptor is reported at most once per call, so the list *)
(* of ready ones has no duplicates.                                        *)
Types ==
    /\ current \in Contexts /\ waiting \in BOOLEAN /\ last_fd \in Descriptors
    /\ fd_map \in [Descriptors -> Contexts]
    /\ ep_ready \in Seq(Descriptors) /\ pipe \in Seq(Fibers)
    /\ read_ofs \in 0..(PageSize - 1)
    /\ read_ofs + Len(pipe) <= NPages * PageSize
    /\ avail \in [Fibers -> BOOLEAN]
    /\ pc \in [Fibers -> Places] /\ ops \in [Fibers -> 0..MaxOps]
    /\ previous_context \in [Fibers -> Contexts]
    /\ save_ctx \in [Fibers -> Contexts]

(* The descriptor map: exact for every socket.                             *)
Map ==
    /\ fd_map[QueueR] = PipeCtx /\ fd_map[QueueW] # PipeCtx
    /\ \A f \in Fibers : /\ previous_context[f] # PipeCtx
                         /\ fd_map[f] = IF pc[f] = "fd" THEN f ELSE EventLoop

(* The pipe reader, and a fiber that waits for room in the pipe, are       *)
(* resumed only after an event of the pipe.                                *)
LastEvent ==
    ~waiting /\ (current = PipeCtx \/ (current \in Fibers /\ pc[current] = "full"))
        => last_fd \in {QueueR, QueueW}

(* The inductive invariant.                                                *)
EInv == Types /\ IsInjective(ep_ready) /\ Map /\ LastEvent /\ QueuedKept /\ NoLostWakeup

-----------------------------------------------------------------------------
(* The contexts and descriptors are numbers, all different where it        *)
(* matters.                                                                *)
LEMMA Names ==
    /\ Fibers \subseteq Nat /\ 1 \in Fibers /\ EventLoop \notin Fibers /\ PipeCtx \notin Fibers
    /\ QueueR \notin Fibers /\ QueueW \notin Fibers /\ QueueR # QueueW /\ EventLoop # PipeCtx
    /\ NPages * PageSize \in Nat \ {0} /\ PageSize \in Nat \ {0} /\ MaxOps \in Nat
  <1>1. NPages * PageSize \in Nat \ {0}
    BY EpollAssumption
  <1> QED
    BY <1>1, EpollAssumption DEF Fibers, EventLoop, PipeCtx, QueueR, QueueW

(* A set of natural numbers has a least one.                               *)
LEMMA Least ==
    ASSUME NEW I, I \subseteq Nat, I # {}
    PROVE  Min(I) \in I /\ \A j \in I : Min(I) <= j
  <1>1. PICK x \in I : \A y \in I : ~(<<y, x>> \in OpToRel(<, Nat))
    BY NatLessThanWellFounded, WFMin
  <1>2. ASSUME NEW y \in I PROVE x <= y
    <2>1. x \in Nat /\ y \in Nat
      OBVIOUS
    <2>2. ASSUME y < x PROVE FALSE
      <3>1. PICK p : p = <<y, x>>
        OBVIOUS
      <3>2. p \in Nat \X Nat /\ p[1] < p[2]
        BY <2>1, <2>2, <3>1
      <3>3. p \in OpToRel(<, Nat)
        BY <3>2 DEF OpToRel
      <3> QED
        BY <1>1, <3>1, <3>3
    <2> QED
      BY <2>1, <2>2
  <1>3. \E z \in I : \A y \in I : z <= y
    BY <1>2
  <1> QED
    BY <1>3 DEF Min

(* epoll_wait reports the first descriptor of the list that is ready.      *)
LEMMA Reports ==
    ASSUME ep_ready \in Seq(Descriptors)
    PROVE  /\ Reported # 0 => /\ Reported \in 1..Len(ep_ready) /\ Pollable(ep_ready[Reported])
                              /\ \A i \in 1..Len(ep_ready) : i < Reported => ~Pollable(ep_ready[i])
           /\ Reported = 0 => \A i \in 1..Len(ep_ready) : ~Pollable(ep_ready[i])
  <1> DEFINE I == {i \in 1..Len(ep_ready) : Pollable(ep_ready[i])}
  <1>1. Reported = IF I # {} THEN Min(I) ELSE 0
    BY DEF Reported, SelectInSeq
  <1>2. I \subseteq Nat /\ 0 \notin I
    OBVIOUS
  <1>3. CASE I = {}
    BY <1>1, <1>3
  <1>4. CASE I # {}
    <2>1. Reported \in I /\ \A j \in I : Reported <= j
      BY <1>1, <1>2, <1>4, Least
    <2> QED
      BY <2>1
  <1> QED
    BY <1>3, <1>4

(* What is left of the list: nothing that is ready but the one reported,   *)
(* unless that is the reading end of the pipe, is dropped.                 *)
LEMMA After ==
    ASSUME Types, IsInjective(ep_ready), Reported # 0
    PROVE  /\ AfterReport \in Seq(Descriptors) /\ IsInjective(AfterReport)
           /\ ep_ready[Reported] \in Descriptors
           /\ \A f \in Fibers : f # ep_ready[Reported] /\ Contains(ep_ready, f) => Contains(AfterReport, f)
  <1> DEFINE r == Reported
             rest == SubSeq(ep_ready, r + 1, Len(ep_ready))
  <1>1. /\ r \in 1..Len(ep_ready) /\ Pollable(ep_ready[r]) /\ Len(ep_ready) \in Nat /\ ep_ready \in Seq(Descriptors)
        /\ \A i \in 1..Len(ep_ready) : i < r => ~Pollable(ep_ready[i])
    BY Reports DEF Types
  <1>2. /\ rest \in Seq(Descriptors) /\ Len(rest) = Len(ep_ready) - r
        /\ \A i \in 1..(Len(ep_ready) - r) : rest[i] = ep_ready[i + r]
    BY <1>1
  <1>3. QueueR \in Descriptors
    BY DEF Descriptors
  <1> DEFINE a == AfterReport
  <1>4. a = IF ep_ready[r] = QueueR THEN Append(rest, QueueR) ELSE rest
    BY DEF AfterReport
  <1>5. \A f \in Fibers : Pollable(f)
    BY Names DEF Pollable
  <1> HIDE DEF r, rest, a
  <1>6. /\ a \in Seq(Descriptors) /\ Len(a) \in Nat
        /\ \A i \in 1..(Len(ep_ready) - r) : a[i] = ep_ready[i + r]
        /\ Len(ep_ready) - r \in 0..Len(a)
        /\ \A i \in 1..Len(a) : i > Len(ep_ready) - r => a[i] = QueueR /\ ep_ready[r] = QueueR /\ i = Len(ep_ready) - r + 1
    <2>1. CASE ep_ready[r] = QueueR
      <3>1. a = Append(rest, QueueR)
        BY <1>4, <2>1
      <3>2. /\ a \in Seq(Descriptors) /\ Len(a) = Len(rest) + 1 /\ a[Len(rest) + 1] = QueueR
            /\ \A i \in 1..Len(rest) : a[i] = rest[i]
        BY <1>2, <1>3, <3>1
      <3>3. PICK n \in Nat : n = Len(ep_ready) - r
        BY <1>1
      <3>4. /\ Len(rest) = n /\ Len(a) = n + 1 /\ a[n + 1] = QueueR
            /\ \A i \in 1..n : a[i] = ep_ready[i + r]
        BY <1>2, <3>2, <3>3
      <3>5. \A i \in 1..(n + 1) : i > n => i = n + 1
        BY <3>3
      <3> QED
        BY <2>1, <3>2, <3>3, <3>4, <3>5
    <2>2. CASE ep_ready[r] # QueueR
      <3>1. a = rest
        BY <1>4, <2>2
      <3> QED
        BY <1>1, <1>2, <3>1
    <2> QED
      BY <2>1, <2>2
  <1>7. IsInjective(a)
    <2> SUFFICES ASSUME NEW i \in 1..Len(a), NEW j \in 1..Len(a), a[i] = a[j], i < j PROVE FALSE
      <3>1. DOMAIN a = 1..Len(a)
        BY <1>6
      <3> QED
        BY <3>1, <1>6 DEF IsInjective
    <2>0. \A m, n \in 1..Len(ep_ready) : ep_ready[m] = ep_ready[n] => m = n
      BY <1>1 DEF IsInjective
    <2>1. i \in 1..(Len(ep_ready) - r)
      BY <1>1, <1>6
    <2>2. a[i] = ep_ready[i + r] /\ i + r \in 1..Len(ep_ready) /\ i + r # r
      BY <1>1, <1>6, <2>1
    <2>3. CASE j \in 1..(Len(ep_ready) - r)
      <3>1. a[j] = ep_ready[j + r] /\ j + r \in 1..Len(ep_ready)
        BY <1>1, <1>6, <2>3
      <3>2. i + r = j + r
        BY <2>0, <2>2, <3>1
      <3> QED
        BY <3>2, <1>1, <1>6
    <2>4. CASE j > Len(ep_ready) - r
      <3>1. a[j] = ep_ready[r]
        BY <1>6, <2>4
      <3> QED
        BY <2>0, <2>2, <3>1, <1>1
    <2> QED
      BY <1>1, <2>3, <2>4
  <1>8. ASSUME NEW f \in Fibers, f # ep_ready[r], Contains(ep_ready, f)
        PROVE  Contains(a, f)
    <2>1. PICK i \in 1..Len(ep_ready) : ep_ready[i] = f
      BY <1>8 DEF Contains
    <2>2. i > r
      BY <1>1, <1>5, <1>8, <2>1
    <2>3. i - r \in 1..(Len(ep_ready) - r) /\ a[i - r] = ep_ready[(i - r) + r] /\ (i - r) + r = i
      BY <1>1, <1>6, <2>1, <2>2
    <2>4. i - r \in 1..Len(a)
      BY <1>6, <2>3
    <2> QED
      BY <2>1, <2>3, <2>4 DEF Contains
  <1> QED
    BY <1>1, <1>6, <1>7, <1>8 DEF a, r

(* An edge is added to the list unless it is there.                        *)
LEMMA Notifies ==
    ASSUME NEW r \in Seq(Descriptors), IsInjective(r), NEW fd \in Descriptors
    PROVE  /\ Notify(r, fd) \in Seq(Descriptors) /\ IsInjective(Notify(r, fd)) /\ Contains(Notify(r, fd), fd)
           /\ \A e : Contains(r, e) => Contains(Notify(r, fd), e)
  <1>1. CASE Contains(r, fd)
    BY <1>1 DEF Notify
  <1>2. CASE ~Contains(r, fd)
    <2> DEFINE a == Append(r, fd)
    <2>1. Notify(r, fd) = a
      BY <1>2 DEF Notify
    <2>2. /\ a \in Seq(Descriptors) /\ Len(a) = Len(r) + 1 /\ Len(r) \in Nat /\ a[Len(r) + 1] = fd
          /\ \A i \in 1..Len(r) : a[i] = r[i]
      OBVIOUS
    <2> HIDE DEF a
    <2>3. IsInjective(a)
      <3>1. DOMAIN a = 1..(Len(r) + 1) /\ DOMAIN r = 1..Len(r)
        BY <2>2
      <3>2. \A i \in 1..Len(r) : r[i] # fd
        BY <1>2 DEF Contains
      <3>3. \A i, j \in 1..Len(r) : r[i] = r[j] => i = j
        BY <3>1 DEF IsInjective
      <3> QED
        BY <2>2, <3>1, <3>2, <3>3 DEF IsInjective
    <2>4. Contains(a, fd)
      BY <2>2 DEF Contains
    <2>5. ASSUME NEW e, Contains(r, e)
          PROVE  Contains(a, e)
      BY <2>2, <2>5 DEF Contains
    <2> QED
      BY <2>1, <2>2, <2>3, <2>4, <2>5
  <1> QED
    BY <1>1, <1>2

(* Closing a socket takes its descriptor off the list.                     *)
LEMMA Removes ==
    ASSUME NEW r \in Seq(Descriptors), IsInjective(r), NEW fd
    PROVE  /\ RemoveFirst(r, fd) \in Seq(Descriptors) /\ IsInjective(RemoveFirst(r, fd))
           /\ \A e : e # fd /\ Contains(r, e) => Contains(RemoveFirst(r, fd), e)
  <1>1. CASE ~\E i \in 1..Len(r) : r[i] = fd
    <2>1. RemoveFirst(r, fd) = r
      BY <1>1 DEF RemoveFirst, Contains
    <2> QED
      BY <2>1
  <1>2. CASE \E i \in 1..Len(r) : r[i] = fd
    <2> DEFINE I == {i \in 1..Len(r) : r[i] = fd}
    <2>1. SelectInSeq(r, LAMBDA v : v = fd) = Min(I)
      BY <1>2 DEF SelectInSeq
    <2>2. I \subseteq Nat /\ I # {}
      BY <1>2
    <2>3. PICK n : n = Min(I)
      OBVIOUS
    <2>4. n \in 1..Len(r) /\ r[n] = fd
      BY <2>2, <2>3, Least
    <2> DEFINE b == SubSeq(r, 1, n - 1)
               c == SubSeq(r, n + 1, Len(r))
               a == b \o c
    <2>5. RemoveFirst(r, fd) = a
      BY <1>2, <2>1, <2>3 DEF RemoveFirst, RemoveAt, Contains
    <2>6. /\ b \in Seq(Descriptors) /\ Len(b) = n - 1 /\ \A i \in 1..(n - 1) : b[i] = r[i]
      BY <2>4
    <2>7. /\ c \in Seq(Descriptors) /\ Len(c) = Len(r) - n /\ \A i \in 1..(Len(r) - n) : c[i] = r[i + n]
      BY <2>4
    <2>8. Len(r) \in Nat /\ n \in Nat
      BY <2>4
    <2> HIDE DEF b, c
    <2>9. /\ a \in Seq(Descriptors) /\ Len(a) = Len(r) - 1
          /\ \A i \in 1..(Len(r) - 1) : a[i] = IF i <= Len(b) THEN b[i] ELSE c[i - Len(b)]
      BY <2>4, <2>6, <2>7, <2>8
    <2> HIDE DEF a
    <2>10. \A i \in 1..(Len(r) - 1) : a[i] = IF i < n THEN r[i] ELSE r[i + 1]
      <3> SUFFICES ASSUME NEW i \in 1..(Len(r) - 1) PROVE a[i] = IF i < n THEN r[i] ELSE r[i + 1]
        OBVIOUS
      <3>1. CASE i < n
        BY <2>6, <2>8, <2>9, <3>1
      <3>2. CASE i >= n
        <4>1. i - (n - 1) \in 1..(Len(r) - n) /\ (i - (n - 1)) + n = i + 1 /\ ~(i <= n - 1)
          BY <2>4, <2>8, <3>2
        <4>2. c[i - (n - 1)] = r[i + 1]
          BY <2>7, <4>1
        <4> QED
          BY <2>6, <2>8, <2>9, <3>2, <4>1, <4>2
      <3> QED
        BY <2>8, <3>1, <3>2
    <2>11. IsInjective(a)
      <3>1. DOMAIN a = 1..(Len(r) - 1) /\ DOMAIN r = 1..Len(r)
        BY <2>8, <2>9
      <3>2. \A i, j \in 1..Len(r) : r[i] = r[j] => i = j
        BY <3>1 DEF IsInjective
      <3>3. ASSUME NEW i \in 1..(Len(r) - 1), NEW j \in 1..(Len(r) - 1), a[i] = a[j]
            PROVE  i = j
        BY <2>8, <2>10, <3>2, <3>3
      <3> QED
        BY <3>1, <3>3 DEF IsInjective
    <2>12. ASSUME NEW e, e # fd, Contains(r, e)
           PROVE  Contains(a, e)
      <3>1. PICK i \in 1..Len(r) : r[i] = e
        BY <2>12 DEF Contains
      <3>2. CASE i < n
        <4>1. i \in 1..(Len(r) - 1) /\ a[i] = e
          BY <2>4, <2>8, <2>10, <3>1, <3>2
        <4> QED
          BY <2>9, <4>1 DEF Contains
      <3>3. CASE i > n
        <4>1. i - 1 \in 1..(Len(r) - 1) /\ ~(i - 1 < n) /\ (i - 1) + 1 = i
          BY <2>4, <2>8, <3>1, <3>3
        <4>2. a[i - 1] = e
          BY <2>10, <3>1, <4>1
        <4> QED
          BY <2>9, <4>1, <4>2 DEF Contains
      <3> QED
        BY <2>4, <2>8, <2>12, <3>1, <3>2, <3>3
    <2> QED
      BY <2>5, <2>9, <2>11, <2>12
  <1> QED
    BY <1>1, <1>2

-----------------------------------------------------------------------------
(* queue_context_swap by the fiber that runs: its entry is written to the  *)
(* pipe before the swap, or it waits for room and remembers whom to swap   *)
(* to.                                                                     *)
LEMMA Queues ==
    ASSUME EInv, NEW f \in Fibers, Running(f), pc[f] \in {"run", "full"},
           NEW r \in Seq(Descriptors), IsInjective(r),
           NEW m \in [Descriptors -> Contexts], m[QueueR] = PipeCtx, m[QueueW] # PipeCtx,
           \A g \in Fibers : m[g] = fd_map[g],
           NEW p \in [Fibers -> Places],
           \A g \in Fibers : p[g] = pc[g] \/ (pc[g] = "new" /\ p[g] = "created"),
           NEW t \in Contexts, queue_context_swap(f, r, m, p, t),
           UNCHANGED <<read_ofs, avail>>, last_fd' \in Descriptors, ops' \in [Fibers -> 0..MaxOps],
           save_ctx' \in [Fibers -> Contexts], save_ctx'[f] = t,
           \A g \in Fibers : g # f => save_ctx'[g] = save_ctx[g],
           pc[f] = "full" => t = save_ctx[f],
           t = PipeCtx \/ (t \in Fibers /\ t # f /\ p[t] = "full") => last_fd' \in {QueueR, QueueW},
           \A g \in Fibers : pc[g] = "fd" /\ Contains(ep_ready, g) => Contains(r, g) \/ t = g
    PROVE  EInv'
  <1> USE DEF EInv
  <1>a. current = f /\ waiting = FALSE
    BY Zenon DEF Running, Types
  <1>b. read_ofs + Len(pipe) \in Nat /\ Len(pipe) \in Nat
    BY Names DEF Types
  <1>0. /\ current = f /\ waiting = FALSE /\ f \in Contexts /\ f # PipeCtx /\ p[f] = pc[f]
        /\ {"queued", "full"} \subseteq Places /\ QueueW \in Descriptors /\ QueueR \in Descriptors
        /\ QueueW # QueueR /\ QueueW \notin Fibers /\ QueueR \notin Fibers
        /\ Fibers \subseteq Descriptors
    BY <1>a, Names DEF Contexts, Places, Descriptors
  <1>1. \A g \in Fibers : g # f /\ p[g] = "fd" => pc[g] = "fd"
    OBVIOUS
  <1>2. \A g \in Fibers : pc[g] = "fd" => p[g] = "fd" /\ g # f
    BY <1>0
  <1>3. CASE CanWrite
    <2>1. /\ pipe' = Append(pipe, f) /\ ep_ready' = Notify(r, QueueR) /\ pc' = [p EXCEPT ![f] = "queued"]
          /\ current' = t /\ fd_map' = m /\ waiting' = FALSE /\ previous_context' = previous_context
      BY <1>0, <1>3 DEF queue_context_swap, Enqueue
    <2>2. /\ pipe' \in Seq(Fibers) /\ Len(pipe') = Len(pipe) + 1 /\ pipe'[Len(pipe) + 1] = f
          /\ \A i \in 1..Len(pipe) : pipe'[i] = pipe[i]
          /\ DOMAIN pipe = 1..Len(pipe) /\ DOMAIN pipe' = 1..(Len(pipe) + 1)
      BY <2>1 DEF Types
    <2>3. /\ pc' \in [Fibers -> Places] /\ pc'[f] = "queued" /\ \A g \in Fibers : g # f => pc'[g] = p[g]
      BY <1>0, <2>1
    <2>4. /\ ep_ready' \in Seq(Descriptors) /\ IsInjective(ep_ready') /\ \A e : Contains(r, e) => Contains(ep_ready', e)
      BY <1>0, <2>1, Notifies
    <2>5. Types'
      <3>1. read_ofs' + Len(pipe') <= NPages * PageSize
        <4>1. PICK K \in Nat : K = NPages * PageSize
          BY Names
        <4>2. read_ofs + Len(pipe) < K /\ read_ofs' = read_ofs /\ read_ofs \in Nat
          BY <1>3, <4>1, Names DEF CanWrite, Types
        <4> QED
          BY <1>b, <2>2, <4>1, <4>2
      <3> QED
        BY <2>1, <2>2, <2>3, <2>4, <3>1 DEF Types
    <2>6. Map'
      <3>1. \A g \in Fibers : fd_map'[g] = IF pc'[g] = "fd" THEN g ELSE EventLoop
        BY <1>1, <1>2, <2>1, <2>3 DEF Map
      <3> QED
        BY <2>1, <3>1 DEF Map
    <2>7. LastEvent'
      BY <2>1, <2>3 DEF LastEvent
    <2>8. QueuedKept'
      <3> SUFFICES ASSUME NEW g \in Fibers, pc'[g] = "queued" PROVE \E i \in DOMAIN pipe' : pipe'[i] = g
        BY DEF QueuedKept
      <3>1. CASE g = f
        BY <1>b, <2>2, <3>1
      <3>2. CASE g # f
        <4>1. pc[g] = "queued" /\ ~Running(g)
          BY <1>0, <2>3, <3>2 DEF Running
        <4>2. PICK i \in DOMAIN pipe : pipe[i] = g
          BY <4>1 DEF QueuedKept
        <4> QED
          BY <1>b, <2>2, <4>2
      <3> QED
        BY <3>1, <3>2
    <2>9. NoLostWakeup'
      <3> SUFFICES ASSUME NEW g \in Fibers, pc'[g] = "fd", avail'[g], ~Running(g)'
                   PROVE  Contains(ep_ready', g) \/ \E h \in Fibers : pc'[h] = "full" /\ save_ctx'[h] = g
        BY DEF NoLostWakeup
      <3>1. g # f /\ pc[g] = "fd" /\ avail[g] /\ ~Running(g) /\ t # g
        BY <1>0, <1>1, <2>1, <2>3 DEF Running
      <3>2. CASE Contains(ep_ready, g)
        BY <2>4, <3>1, <3>2
      <3>3. ASSUME NEW h \in Fibers, pc[h] = "full", save_ctx[h] = g
            PROVE  pc'[h] = "full" /\ save_ctx'[h] = g
        BY <2>3, <3>1, <3>3
      <3> QED
        BY <3>1, <3>2, <3>3 DEF NoLostWakeup
    <2> QED
      BY <2>4, <2>5, <2>6, <2>7, <2>8, <2>9
  <1>4. CASE ~CanWrite
    <2>1. /\ previous_context' = [previous_context EXCEPT ![f] = m[QueueW]]
          /\ fd_map' = [m EXCEPT ![QueueW] = f] /\ pc' = [p EXCEPT ![f] = "full"]
          /\ ep_ready' = r /\ waiting' = TRUE /\ current' = current /\ pipe' = pipe
      BY <1>4 DEF queue_context_swap, AwaitRoom, EnterWait
    <2>2. /\ pc' \in [Fibers -> Places] /\ pc'[f] = "full" /\ \A g \in Fibers : g # f => pc'[g] = p[g]
      BY <1>0, <2>1
    <2>3. /\ fd_map' \in [Descriptors -> Contexts] /\ fd_map'[QueueR] = PipeCtx /\ fd_map'[QueueW] # PipeCtx
          /\ \A g \in Fibers : fd_map'[g] = fd_map[g]
      <3>1. fd_map'[QueueW] = f /\ \A d \in Descriptors : d # QueueW => fd_map'[d] = m[d]
        BY <1>0, <2>1
      <3> QED
        BY <1>0, <2>1, <3>1
    <2>4. /\ previous_context' \in [Fibers -> Contexts] /\ \A g \in Fibers : previous_context'[g] # PipeCtx
      <3>1. m[QueueW] \in Contexts /\ previous_context \in [Fibers -> Contexts]
        BY <1>0 DEF Types
      <3> QED
        BY <2>1, <3>1 DEF Map
    <2>5. Types'
      BY <2>1, <2>2, <2>3, <2>4 DEF Types
    <2>6. Map'
      <3>1. \A g \in Fibers : fd_map'[g] = IF pc'[g] = "fd" THEN g ELSE EventLoop
        BY <1>1, <1>2, <2>2, <2>3 DEF Map
      <3> QED
        BY <2>3, <2>4, <3>1 DEF Map
    <2>7. LastEvent'
      BY <2>1 DEF LastEvent
    <2>8. QueuedKept'
      <3> SUFFICES ASSUME NEW g \in Fibers, pc'[g] = "queued" PROVE \E i \in DOMAIN pipe' : pipe'[i] = g
        BY DEF QueuedKept
      <3>1. pc[g] = "queued" /\ ~Running(g)
        BY <1>0, <2>2 DEF Running
      <3> QED
        BY <2>1, <3>1 DEF QueuedKept
    <2>9. NoLostWakeup'
      <3> SUFFICES ASSUME NEW g \in Fibers, pc'[g] = "fd", avail'[g]
                   PROVE  Contains(ep_ready', g) \/ \E h \in Fibers : pc'[h] = "full" /\ save_ctx'[h] = g
        BY DEF NoLostWakeup
      <3>1. g # f /\ pc[g] = "fd" /\ avail[g] /\ ~Running(g)
        BY <1>0, <1>1, <2>2 DEF Running
      <3>2. CASE Contains(ep_ready, g)
        BY <2>1, <2>2, <3>1, <3>2
      <3>3. ASSUME NEW h \in Fibers, pc[h] = "full", save_ctx[h] = g
            PROVE  pc'[h] = "full" /\ save_ctx'[h] = g
        BY <2>2, <3>3
      <3> QED
        BY <3>1, <3>2, <3>3 DEF NoLostWakeup
    <2> QED
      BY <2>1, <2>5, <2>6, <2>7, <2>8, <2>9
  <1> QED
    BY <1>3, <1>4

(* courtesy_yield consumes one event and swaps to its context by way of    *)
(* queue_context_swap, or finds nothing ready.                             *)
LEMMA CourtesyKept == ASSUME EInv, NEW f \in Fibers, courtesy_yield(f) PROVE EInv'
  <1> USE DEF EInv
  <1>1. /\ Running(f) /\ pc[f] = "run" /\ ops[f] < MaxOps /\ ops' = [ops EXCEPT ![f] = @ + 1]
        /\ UNCHANGED <<read_ofs, avail>>
    BY DEF courtesy_yield, Begin, At
  <1>2. ops' \in [Fibers -> 0..MaxOps]
    <2>1. ops \in [Fibers -> 0..MaxOps] /\ ops[f] + 1 \in 0..MaxOps
      BY <1>1, Names DEF Types
    <2> QED
      BY <1>1, <2>1
  <1>3. CASE Reported = 0
    <2>1. ep_ready' = <<>> /\ UNCHANGED <<pipe, loopVars, pc, previous_context, save_ctx>>
      BY <1>3 DEF courtesy_yield
    <2>2. \A g \in Fibers : ~Contains(ep_ready, g)
      <3>1. \A g \in Fibers : Pollable(g)
        BY Names DEF Pollable
      <3> QED
        BY <1>3, <3>1, Reports DEF Contains, Types
    <2>3. ep_ready' \in Seq(Descriptors) /\ IsInjective(ep_ready')
      BY <2>1 DEF IsInjective
    <2>4. Types'
      BY <1>1, <1>2, <2>1, <2>3 DEF Types, loopVars
    <2>5. Map' /\ LastEvent' /\ QueuedKept'
      BY <2>1 DEF Map, LastEvent, QueuedKept, Running, loopVars
    <2>6. NoLostWakeup'
      BY <1>1, <2>1, <2>2 DEF NoLostWakeup, Running, loopVars
    <2> QED
      BY <2>3, <2>4, <2>5, <2>6
  <1>4. CASE Reported # 0
    <2>1. PICK e, t : e = ep_ready[Reported] /\ t = fd_map[e]
      OBVIOUS
    <2>2. /\ last_fd' = e /\ save_ctx' = [save_ctx EXCEPT ![f] = t]
          /\ queue_context_swap(f, AfterReport, fd_map, pc, save_ctx'[f])
      BY <1>4, <2>1 DEF courtesy_yield
    <2>3. /\ AfterReport \in Seq(Descriptors) /\ IsInjective(AfterReport) /\ e \in Descriptors
          /\ \A g \in Fibers : g # e /\ Contains(ep_ready, g) => Contains(AfterReport, g)
      BY <1>4, <2>1, After
    <2>4. t \in Contexts /\ save_ctx' \in [Fibers -> Contexts] /\ save_ctx'[f] = t
          /\ \A g \in Fibers : g # f => save_ctx'[g] = save_ctx[g]
      <3>1. t \in Contexts
        BY <2>1, <2>3 DEF Types
      <3> QED
        BY <2>2, <3>1 DEF Types
    <2>5. e \in Fibers => t = IF pc[e] = "fd" THEN e ELSE EventLoop
      BY <2>1 DEF Map
    <2>6. t = PipeCtx \/ (t \in Fibers /\ t # f /\ pc[t] = "full") => e \in {QueueR, QueueW}
      BY <2>3, <2>5, Names DEF Descriptors
    <2>7. \A g \in Fibers : pc[g] = "fd" /\ Contains(ep_ready, g) => Contains(AfterReport, g) \/ t = g
      BY <2>3, <2>5
    <2>8. fd_map \in [Descriptors -> Contexts] /\ pc \in [Fibers -> Places]
          /\ fd_map[QueueR] = PipeCtx /\ fd_map[QueueW] # PipeCtx /\ pc[f] \in {"run", "full"} /\ pc[f] # "full"
      BY <1>1 DEF Types, Map
    <2> QED
      BY <1>1, <1>2, <2>2, <2>3, <2>4, <2>6, <2>7, <2>8, Queues
  <1> QED
    BY <1>3, <1>4

(* A fiber queues itself and swaps to one it has just created.             *)
LEMMA HandOverKept == ASSUME EInv, NEW f \in Fibers, HandOver(f) PROVE EInv'
  <1> USE DEF EInv
  <1>1. /\ Running(f) /\ pc[f] = "run" /\ ops[f] < MaxOps /\ ops' = [ops EXCEPT ![f] = @ + 1]
        /\ UNCHANGED <<last_fd, read_ofs, avail>>
    BY DEF HandOver, Begin, At
  <1>2. ops' \in [Fibers -> 0..MaxOps]
    <2>1. ops \in [Fibers -> 0..MaxOps] /\ ops[f] + 1 \in 0..MaxOps
      BY <1>1, Names DEF Types
    <2> QED
      BY <1>1, <2>1
  <1>3. PICK g \in Fibers : /\ pc[g] = "new" /\ save_ctx' = [save_ctx EXCEPT ![f] = g]
                            /\ queue_context_swap(f, ep_ready, fd_map, [pc EXCEPT ![g] = "created"], g)
    BY DEF HandOver
  <1>4. PICK p : p = [pc EXCEPT ![g] = "created"]
    OBVIOUS
  <1>5. p \in [Fibers -> Places] /\ p[g] = "created" /\ \A h \in Fibers : h # g => p[h] = pc[h]
    BY <1>4 DEF Types, Places
  <1>6. g \in Contexts /\ save_ctx' \in [Fibers -> Contexts] /\ save_ctx'[f] = g
        /\ \A h \in Fibers : h # f => save_ctx'[h] = save_ctx[h]
    BY <1>3 DEF Types, Contexts
  <1>7. \A h \in Fibers : p[h] = pc[h] \/ (pc[h] = "new" /\ p[h] = "created")
    BY <1>3, <1>5
  <1>8. /\ fd_map \in [Descriptors -> Contexts] /\ ep_ready \in Seq(Descriptors) /\ last_fd' \in Descriptors
        /\ fd_map[QueueR] = PipeCtx /\ fd_map[QueueW] # PipeCtx /\ pc[f] \in {"run", "full"} /\ pc[f] # "full"
        /\ g # PipeCtx /\ p[g] # "full" /\ IsInjective(ep_ready)
    BY <1>1, <1>5, Names DEF Types, Map
  <1> QED
    BY <1>1, <1>2, <1>3, <1>4, <1>5, <1>6, <1>7, <1>8, Queues

(* The retry in queue_context_swap after the yield: it writes the entry,   *)
(* or the fiber waits again.                                               *)
LEMMA FullKept == ASSUME EInv, NEW f \in Fibers, WakeFromFull(f) PROVE EInv'
  <1> USE DEF EInv
  <1> DEFINE m == [fd_map EXCEPT ![QueueW] = previous_context[f]]
  <1>1. /\ Running(f) /\ pc[f] = "full" /\ queue_context_swap(f, ep_ready, m, pc, save_ctx[f])
        /\ UNCHANGED <<last_fd, read_ofs, avail, ops, save_ctx>>
    BY DEF WakeFromFull, At
  <1>2. /\ m \in [Descriptors -> Contexts] /\ m[QueueW] = previous_context[f]
        /\ \A d \in Descriptors : d # QueueW => m[d] = fd_map[d]
    BY DEF Types, Descriptors
  <1> HIDE DEF m
  <1>3. /\ m[QueueR] = PipeCtx /\ m[QueueW] # PipeCtx /\ \A g \in Fibers : m[g] = fd_map[g]
    BY <1>2, Names DEF Map, Descriptors
  <1>4. last_fd' \in {QueueR, QueueW} /\ last_fd' \in Descriptors
    BY <1>1 DEF LastEvent, Running, Types
  <1>5. /\ save_ctx[f] \in Contexts /\ save_ctx' \in [Fibers -> Contexts] /\ pc \in [Fibers -> Places]
        /\ ep_ready \in Seq(Descriptors) /\ ops' \in [Fibers -> 0..MaxOps] /\ IsInjective(ep_ready)
    BY <1>1 DEF Types
  <1> QED
    BY <1>1, <1>2, <1>3, <1>4, <1>5, Queues

-----------------------------------------------------------------------------
(* SocketInput and SocketWritable add an edge to the ready list and        *)
(* nothing else that a waiting fiber depends on.                           *)
LEMMA InputKept ==
    ASSUME EInv, NEW f \in Fibers, SocketInput(f) \/ SocketWritable(f)
    PROVE  EInv'
  <1> USE DEF EInv
  <1>1. /\ ep_ready' = Notify(ep_ready, f) /\ avail' \in [Fibers -> BOOLEAN]
        /\ \A g \in Fibers : g # f => avail'[g] = avail[g]
        /\ UNCHANGED <<pipe, read_ofs, loopVars, fiberVars>>
    BY DEF SocketInput, SocketWritable, Types
  <1>2. f \in Descriptors /\ ep_ready \in Seq(Descriptors)
    BY DEF Descriptors, Types
  <1>3. /\ ep_ready' \in Seq(Descriptors) /\ IsInjective(ep_ready') /\ Contains(ep_ready', f)
        /\ \A e : Contains(ep_ready, e) => Contains(ep_ready', e)
    BY <1>1, <1>2, Notifies
  <1>4. Types'
    BY <1>1, <1>3 DEF Types, loopVars, fiberVars
  <1>5. Map' /\ LastEvent' /\ QueuedKept'
    BY <1>1 DEF Map, LastEvent, QueuedKept, Running, loopVars, fiberVars
  <1>6. NoLostWakeup'
    BY <1>1, <1>3 DEF NoLostWakeup, Running, loopVars, fiberVars
  <1> QED
    BY <1>3, <1>4, <1>5, <1>6

(* yield: the event it consumes is the wake-up of the context it resumes.  *)
LEMMA YieldKept == ASSUME EInv, yield PROVE EInv'
  <1> USE DEF EInv
  <1>1. PICK e : e = ep_ready[Reported]
    OBVIOUS
  <1>2. /\ waiting /\ Reported # 0 /\ last_fd' = e /\ ep_ready' = AfterReport /\ waiting' = FALSE
        /\ current' = fd_map[e] /\ UNCHANGED <<fd_map, pipe, read_ofs, avail, fiberVars>>
    BY <1>1 DEF yield
  <1>3. /\ ep_ready' \in Seq(Descriptors) /\ IsInjective(ep_ready') /\ e \in Descriptors
        /\ \A g \in Fibers : g # e /\ Contains(ep_ready, g) => Contains(ep_ready', g)
    BY <1>1, <1>2, After
  <1>4. e \in Fibers => current' = IF pc[e] = "fd" THEN e ELSE EventLoop
    BY <1>2 DEF Map
  <1>5. Types'
    <2>1. current' \in Contexts
      BY <1>2, <1>3 DEF Types
    <2> QED
      BY <1>2, <1>3, <2>1 DEF Types, fiberVars
  <1>6. Map' /\ QueuedKept'
    BY <1>2 DEF Map, QueuedKept, Running, fiberVars
  <1>7. LastEvent'
    BY <1>2, <1>3, <1>4, Names DEF LastEvent, Descriptors, fiberVars
  <1>8. NoLostWakeup'
    <2> SUFFICES ASSUME NEW g \in Fibers, pc'[g] = "fd", avail'[g], ~Running(g)'
                 PROVE  Contains(ep_ready', g) \/ \E h \in Fibers : pc'[h] = "full" /\ save_ctx'[h] = g
      BY DEF NoLostWakeup
    <2>1. pc[g] = "fd" /\ avail[g] /\ ~Running(g) /\ g # e
      BY <1>2, <1>4 DEF Running, fiberVars
    <2> QED
      BY <1>2, <1>3, <2>1 DEF NoLostWakeup, fiberVars
  <1> QED
    BY <1>3, <1>5, <1>6, <1>7, <1>8

(* event_loop enters epoll_wait: no context changes.                       *)
LEMMA LoopKept == ASSUME EInv, event_loop PROVE EInv'
  <1> USE DEF EInv
  <1>1. ~waiting /\ current = EventLoop /\ waiting' = TRUE /\ UNCHANGED <<current, last_fd, fd_map, kernelVars, fiberVars>>
    BY DEF event_loop, Running, EnterWait
  <1>2. Types' /\ IsInjective(ep_ready') /\ Map'
    BY <1>1 DEF Types, Map, kernelVars, fiberVars
  <1>3. LastEvent'
    BY <1>1 DEF LastEvent
  <1>4. \A f \in Fibers : ~Running(f)
    BY <1>1, Names DEF Running
  <1>5. QueuedKept' /\ NoLostWakeup'
    BY <1>1, <1>4 DEF QueuedKept, NoLostWakeup, kernelVars, fiberVars
  <1> QED
    BY <1>2, <1>3, <1>5

(* pipe_to_context resumes the first entry, which is the only reason a     *)
(* queued fiber leaves the pipe, and a page freed notifies the writers.    *)
LEMMA PipeKept == ASSUME EInv, pipe_to_context PROVE EInv'
  <1> USE DEF EInv
  <1>1. ~waiting /\ current = PipeCtx /\ UNCHANGED <<last_fd, fd_map, avail, fiberVars>>
    BY DEF pipe_to_context, Running
  <1>2. \A f \in Fibers : ~Running(f)
    BY <1>1, Names DEF Running
  <1>3. CASE last_fd = QueueR /\ pipe # <<>>
    <2>1. /\ current' = Head(pipe) /\ pipe' = Tail(pipe) /\ waiting' = waiting
          /\ read_ofs' = IF Len(pipe) = 1 \/ read_ofs + 1 = PageSize THEN 0 ELSE read_ofs + 1
          /\ ep_ready' = IF PagesUsed = NPages THEN Notify(ep_ready, QueueW) ELSE ep_ready
      BY <1>3 DEF pipe_to_context
    <2>2. /\ ep_ready' \in Seq(Descriptors) /\ IsInjective(ep_ready') /\ \A e : Contains(ep_ready, e) => Contains(ep_ready', e)
      <3>1. QueueW \in Descriptors /\ ep_ready \in Seq(Descriptors)
        BY DEF Descriptors, Types
      <3>2. /\ Notify(ep_ready, QueueW) \in Seq(Descriptors) /\ IsInjective(Notify(ep_ready, QueueW))
            /\ \A e : Contains(ep_ready, e) => Contains(Notify(ep_ready, QueueW), e)
        BY <3>1, Notifies
      <3> QED
        BY <2>1, <3>1, <3>2, Zenon
    <2>3. pipe \in Seq(Fibers) /\ pipe # <<>> /\ Len(pipe) \in Nat /\ Len(pipe) # 0
      BY <1>3 DEF Types
    <2>4. /\ current' = pipe[1] /\ current' \in Fibers /\ pipe' \in Seq(Fibers) /\ Len(pipe') = Len(pipe) - 1
          /\ \A i \in 1..(Len(pipe) - 1) : pipe'[i] = pipe[i + 1]
          /\ DOMAIN pipe = 1..Len(pipe) /\ DOMAIN pipe' = 1..(Len(pipe) - 1)
      BY <2>1, <2>3
    <2>5. read_ofs' \in 0..(PageSize - 1) /\ read_ofs' + Len(pipe') <= NPages * PageSize
      <3>1. PICK K \in Nat : K = NPages * PageSize
        BY Names
      <3>2. read_ofs \in 0..(PageSize - 1) /\ PageSize \in Nat \ {0} /\ read_ofs + Len(pipe) <= K
        BY <3>1, Names DEF Types
      <3>3. read_ofs' \in 0..(PageSize - 1) /\ read_ofs' + Len(pipe') <= K
        BY <2>1, <2>3, <2>4, <3>2
      <3> QED
        BY <3>1, <3>3
    <2>6. Types'
      BY <1>1, <2>1, <2>2, <2>4, <2>5 DEF Types, Contexts, fiberVars
    <2>7. Map'
      BY <1>1 DEF Map, fiberVars
    <2>8. LastEvent'
      BY <1>1, <1>3 DEF LastEvent
    <2>9. QueuedKept'
      <3> SUFFICES ASSUME NEW g \in Fibers, pc'[g] = "queued", ~Running(g)'
                   PROVE  \E i \in DOMAIN pipe' : pipe'[i] = g
        BY DEF QueuedKept
      <3>1. pc[g] = "queued" /\ g # pipe[1]
        BY <1>1, <2>1, <2>4 DEF Running, fiberVars
      <3>2. PICK i \in 1..Len(pipe) : pipe[i] = g
        BY <1>2, <2>4, <3>1 DEF QueuedKept
      <3>3. i - 1 \in 1..(Len(pipe) - 1) /\ (i - 1) + 1 = i
        BY <2>3, <3>1, <3>2
      <3>4. pipe'[i - 1] = g
        BY <2>4, <3>2, <3>3
      <3> QED
        BY <2>4, <3>3, <3>4
    <2>10. NoLostWakeup'
      BY <1>1, <1>2, <2>2 DEF NoLostWakeup, fiberVars
    <2> QED
      BY <2>2, <2>6, <2>7, <2>8, <2>9, <2>10
  <1>4. CASE ~(last_fd = QueueR /\ pipe # <<>>)
    <2>1. waiting' = TRUE /\ UNCHANGED <<current, ep_ready, pipe, read_ofs>>
      BY <1>4 DEF pipe_to_context, EnterWait
    <2>2. Types' /\ IsInjective(ep_ready') /\ Map'
      BY <1>1, <2>1 DEF Types, Map, fiberVars
    <2>3. LastEvent'
      BY <2>1 DEF LastEvent
    <2>4. QueuedKept' /\ NoLostWakeup'
      BY <1>1, <1>2, <2>1 DEF QueuedKept, NoLostWakeup, fiberVars
    <2> QED
      BY <2>2, <2>3, <2>4
  <1> QED
    BY <1>3, <1>4

(* A step of the fiber that runs, that leaves the pipe and every other     *)
(* fiber alone.                                                            *)
LEMMA AloneKept ==
    ASSUME EInv, NEW f \in Fibers, Running(f), pc[f] # "full",
           UNCHANGED <<last_fd, pipe, read_ofs, previous_context, save_ctx>>,
           current' \in {f, EventLoop}, waiting' \in BOOLEAN, ops' \in [Fibers -> 0..MaxOps],
           NEW q \in Places \ {"full"}, pc' = [pc EXCEPT ![f] = q],
           fd_map' = [fd_map EXCEPT ![f] = IF q = "fd" THEN f ELSE EventLoop],
           avail' \in [Fibers -> BOOLEAN], \A g \in Fibers : g # f => avail'[g] = avail[g],
           ep_ready' \in Seq(Descriptors), IsInjective(ep_ready'),
           \A g \in Fibers : g # f /\ Contains(ep_ready, g) => Contains(ep_ready', g),
           q = "queued" => Running(f)', q = "fd" => ~avail'[f]
    PROVE  EInv'
  <1> USE DEF EInv
  <1>1. /\ pc' \in [Fibers -> Places] /\ pc'[f] = q /\ \A g \in Fibers : g # f => pc'[g] = pc[g]
    BY DEF Types
  <1>2. f \in Descriptors /\ f # QueueR /\ f # QueueW /\ f \in Contexts /\ EventLoop \in Contexts /\ QueueR \in Descriptors
        /\ Fibers \subseteq Descriptors /\ QueueW \in Descriptors
    BY Names DEF Descriptors, Contexts
  <1>3. /\ fd_map' \in [Descriptors -> Contexts] /\ fd_map'[f] = (IF q = "fd" THEN f ELSE EventLoop)
        /\ \A d \in Descriptors : d # f => fd_map'[d] = fd_map[d]
    BY <1>2 DEF Types
  <1>4. Types'
    BY <1>1, <1>2, <1>3 DEF Types
  <1>5. Map'
    BY <1>1, <1>2, <1>3 DEF Map
  <1>6. LastEvent'
    BY <1>1, Names DEF LastEvent
  <1>7. \A g \in Fibers : g # f => ~Running(g)
    BY DEF Running
  <1>8. QueuedKept'
    BY <1>1, <1>7 DEF QueuedKept
  <1>9. NoLostWakeup'
    BY <1>1, <1>7 DEF NoLostWakeup
  <1> QED
    BY <1>4, <1>5, <1>6, <1>8, <1>9

(* Every step of a fiber that does not touch the pipe: what it reads,      *)
(* where it waits, and how it ends.                                        *)
LEMMA FiberKept ==
    ASSUME EInv, NEW f \in Fibers,
           Receive(f) \/ WaitForInput(f) \/ WakeFromInput(f) \/ Continue(f) \/ Finish(f)
    PROVE  EInv'
  <1> USE DEF EInv
  <1>0. /\ pc \in [Fibers -> Places] /\ fd_map \in [Descriptors -> Contexts] /\ f \in Descriptors
        /\ avail \in [Fibers -> BOOLEAN] /\ waiting \in BOOLEAN /\ ep_ready \in Seq(Descriptors)
        /\ ops \in [Fibers -> 0..MaxOps] /\ fd_map[f] = IF pc[f] = "fd" THEN f ELSE EventLoop
        /\ {"run", "fd", "done"} \subseteq Places \ {"full"}
    BY DEF Types, Map, Descriptors, Places
  <1>1. CASE Receive(f)
    <2>1. /\ Running(f) /\ pc[f] = "run" /\ ops[f] < MaxOps /\ avail' = [avail EXCEPT ![f] = FALSE]
          /\ ops' = [ops EXCEPT ![f] = @ + 1]
          /\ UNCHANGED <<ep_ready, pipe, read_ofs, loopVars, pc, previous_context, save_ctx>>
      BY <1>1 DEF Receive, Begin, At
    <2>2. ops' \in [Fibers -> 0..MaxOps]
      <3>1. ops[f] + 1 \in 0..MaxOps
        BY <1>0, <2>1, Names
      <3> QED
        BY <1>0, <2>1, <3>1
    <2>3. /\ pc' = [pc EXCEPT ![f] = "run"] /\ fd_map' = [fd_map EXCEPT ![f] = EventLoop]
      BY <1>0, <2>1 DEF loopVars
    <2>4. /\ current' \in {f, EventLoop} /\ waiting' \in BOOLEAN /\ avail' \in [Fibers -> BOOLEAN]
          /\ \A g \in Fibers : g # f => avail'[g] = avail[g]
          /\ UNCHANGED <<last_fd, pipe, read_ofs, previous_context, save_ctx, ep_ready>>
      BY <1>0, <2>1 DEF loopVars, Running
    <2>5. /\ ep_ready' \in Seq(Descriptors) /\ IsInjective(ep_ready')
          /\ \A g \in Fibers : g # f /\ Contains(ep_ready, g) => Contains(ep_ready', g)
      BY <1>0, <2>4
    <2>6. "run" \in Places \ {"full"} /\ fd_map' = [fd_map EXCEPT ![f] = IF "run" = "fd" THEN f ELSE EventLoop]
      BY <1>0, <2>3
    <2> HIDE DEF EInv
    <2> QED
      BY <2>1, <2>2, <2>3, <2>4, <2>5, <2>6, AloneKept, Zenon
  <1>2. CASE WaitForInput(f)
    <2>1. /\ Running(f) /\ pc[f] = "run" /\ ~avail[f] /\ fd_map' = [fd_map EXCEPT ![f] = f]
          /\ pc' = [pc EXCEPT ![f] = "fd"] /\ waiting' = TRUE
          /\ UNCHANGED <<current, last_fd, kernelVars, ops, previous_context, save_ctx>>
      BY <1>2 DEF WaitForInput, Begin, At, EnterWait
    <2>2. /\ UNCHANGED <<last_fd, pipe, read_ofs, previous_context, save_ctx, ep_ready, avail, ops>>
          /\ current' \in {f, EventLoop} /\ waiting' \in BOOLEAN
      BY <2>1 DEF kernelVars, Running
    <2> QED
      BY <1>0, <2>1, <2>2, AloneKept
  <1>3. CASE WakeFromInput(f)
    <2>1. /\ Running(f) /\ pc[f] = "fd" /\ fd_map' = [fd_map EXCEPT ![f] = EventLoop]
          /\ pc' = [pc EXCEPT ![f] = "run"]
          /\ UNCHANGED <<current, waiting, last_fd, kernelVars, ops, previous_context, save_ctx>>
      BY <1>3 DEF WakeFromInput, At
    <2>2. /\ UNCHANGED <<last_fd, pipe, read_ofs, previous_context, save_ctx, ep_ready, avail, ops>>
          /\ current' \in {f, EventLoop} /\ waiting' \in BOOLEAN
      BY <1>0, <2>1 DEF kernelVars, Running
    <2> QED
      BY <1>0, <2>1, <2>2, AloneKept
  <1>4. CASE Continue(f)
    <2>1. /\ Running(f) /\ pc[f] \in {"created", "queued"} /\ pc' = [pc EXCEPT ![f] = "run"]
          /\ UNCHANGED <<loopVars, kernelVars, ops, previous_context, save_ctx>>
      BY <1>4 DEF Continue, At
    <2>2. fd_map' = [fd_map EXCEPT ![f] = EventLoop]
      BY <1>0, <2>1 DEF loopVars
    <2>3. UNCHANGED <<current, waiting, last_fd, pipe, read_ofs, ep_ready, avail>> /\ current' \in {f, EventLoop}
      BY <2>1 DEF loopVars, kernelVars, Running
    <2> QED
      BY <1>0, <2>1, <2>2, <2>3, AloneKept
  <1>5. CASE Finish(f)
    <2>1. /\ Running(f) /\ pc[f] = "run" /\ pc' = [pc EXCEPT ![f] = "done"]
          /\ fd_map' = [fd_map EXCEPT ![f] = EventLoop] /\ ep_ready' = RemoveFirst(ep_ready, f)
          /\ avail' = [avail EXCEPT ![f] = FALSE] /\ current' = EventLoop
          /\ UNCHANGED <<waiting, last_fd, pipe, read_ofs, ops, previous_context, save_ctx>>
      BY <1>5 DEF Finish, At
    <2>2. /\ ep_ready' \in Seq(Descriptors) /\ IsInjective(ep_ready')
          /\ \A e : e # f /\ Contains(ep_ready, e) => Contains(ep_ready', e)
      BY <1>0, <2>1, Removes
    <2>3. avail' \in [Fibers -> BOOLEAN] /\ \A g \in Fibers : g # f => avail'[g] = avail[g]
      BY <1>0, <2>1
    <2> QED
      BY <1>0, <2>1, <2>2, <2>3, AloneKept
  <1> QED
    BY <1>1, <1>2, <1>3, <1>4, <1>5
-----------------------------------------------------------------------------
(* After epoll_worker_init the invariant holds: one fiber runs, nobody is  *)
(* queued and no socket has input.                                         *)
LEMMA Start == ASSUME EpollInit PROVE EInv
  <1> USE DEF EpollInit
  <1>1. /\ 0 \in 0..MaxOps /\ 0 \in 0..(PageSize - 1) /\ 0 <= NPages * PageSize /\ 1 \in Fibers
        /\ QueueW \in Descriptors /\ QueueR \in Descriptors /\ QueueR # QueueW /\ EventLoop # PipeCtx
        /\ QueueW \notin Fibers /\ QueueR \notin Fibers /\ 1 # PipeCtx /\ Fibers \subseteq Descriptors
        /\ {EventLoop, PipeCtx, 1} \subseteq Contexts /\ EventLoop \notin Fibers
    BY Names DEF Descriptors, Contexts
  <1>2. ep_ready \in Seq(Descriptors) /\ IsInjective(ep_ready) /\ pipe \in Seq(Fibers) /\ Len(pipe) = 0
    BY <1>1 DEF IsInjective
  <1>3. Types
    <2>1. pc \in [Fibers -> Places]
      BY DEF Places
    <2>2. read_ofs + Len(pipe) <= NPages * PageSize
      BY <1>1, <1>2
    <2> QED
      BY <1>1, <1>2, <2>1, <2>2 DEF Types
  <1>4. Map
    BY <1>1 DEF Map
  <1>5. LastEvent /\ QueuedKept /\ NoLostWakeup
    BY <1>1 DEF LastEvent, QueuedKept, NoLostWakeup
  <1> QED
    BY <1>2, <1>3, <1>4, <1>5 DEF EInv

(* Every step of the event loop, of a fiber and of the kernel keeps it.    *)
LEMMA Step == ASSUME EInv, [EpollNext]_epoll_vars PROVE EInv'
  <1>1. ASSUME NEW f \in Fibers, RunFiber(f) \/ SocketInput(f) \/ SocketWritable(f)
        PROVE  EInv'
    BY <1>1, FiberKept, CourtesyKept, HandOverKept, FullKept, InputKept DEF RunFiber
  <1>2. CASE Scheduler
    BY <1>2, YieldKept, LoopKept, PipeKept DEF Scheduler
  <1>3. CASE UNCHANGED epoll_vars
    <2>1. UNCHANGED <<current, waiting, last_fd, fd_map, ep_ready, pipe, read_ofs, avail, pc, ops,
                      previous_context, save_ctx>>
      BY <1>3 DEF epoll_vars, kernelVars, loopVars, fiberVars
    <2>2. Types' /\ IsInjective(ep_ready') /\ Map' /\ LastEvent'
      BY <2>1 DEF EInv, Types, Map, LastEvent
    <2>3. QueuedKept' /\ NoLostWakeup'
      BY <2>1 DEF EInv, QueuedKept, NoLostWakeup, Running
    <2> QED
      BY <2>2, <2>3 DEF EInv
  <1> QED
    BY <1>1, <1>2, <1>3 DEF EpollNext

(* The invariant of the event loop, for every number of fibers and size of *)
(* the pipe, whatever the fibers do.                                       *)
THEOREM Invariance == EpollSpec => []EInv
  BY Start, Step, PTL DEF EpollSpec

(* A fiber that queued itself is never forgotten.                          *)
THEOREM QueuedNotLost == EpollSpec => []QueuedKept
  <1>1. EInv => QueuedKept
    BY DEF EInv
  <1> QED
    BY <1>1, Invariance, PTL

(* Input for a fiber that waits for it always has a wake-up on its way.    *)
THEOREM WakeupsKept == EpollSpec => []NoLostWakeup
  <1>1. EInv => NoLostWakeup
    BY DEF EInv
  <1> QED
    BY <1>1, Invariance, PTL

(* pipe_to_context never takes a socket's bytes for a context.             *)
THEOREM PipeOnly == EpollSpec => []PipeReadsPipe
  <1>1. EInv => PipeReadsPipe
    BY DEF EInv, LastEvent, PipeReadsPipe, Running
  <1> QED
    BY <1>1, Invariance, PTL

(* The state of the event loop keeps its types; the pipe holds no more     *)
(* than it has room for.                                                   *)
THEOREM LoopTypes == EpollSpec => []EpollTypeOK
  <1>1. EInv => EpollTypeOK
    BY DEF EInv, Types, EpollTypeOK
  <1> QED
    BY <1>1, Invariance, PTL
=============================================================================
