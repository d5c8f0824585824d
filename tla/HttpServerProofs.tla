-------------------------- MODULE HttpServerProofs --------------------------
(***************************************************************************)
(* Theorems about HttpServer, for every number of descriptors and contexts *)
(* and whatever clients send: the timeout chain, the descriptor map and    *)
(* the context pool agree with what every connection is doing.             *)
(*                                                                         *)
(* The three properties hold together or not at all.  A context from the   *)
(* pool serves nobody only because the pool is exact; an event resumes a   *)
(* fiber that waits only because the map is; and timeout_handler_add_fd_   *)
(* data never links twice only because the chain is.  AInv says the same   *)
(* from the side of the fibers, which is how the handlers change it.       *)
(***************************************************************************)
EXTENDS HttpServer, FiniteSetTheorems, TLAPS

Busy(c) == fiber[c].pc # "free"

IsFiber(f) ==
    /\ {"pc", "fd"} \subseteq DOMAIN f
    /\ f.pc \in Waiting \cup {"free", "user"}

(* What the steps need to know of the variables' shape; sock is left out:  *)
(* nothing here depends on what was read or written.                       *)
Shape ==
    /\ open \subseteq Fds /\ ready \subseteq open
    /\ owner \in [Fds -> Int]
    /\ running \in Ctxs \cup {LOOP}
    /\ fiber = [c \in Ctxs |-> fiber[c]]
    /\ \A c \in Ctxs : IsFiber(fiber[c])

(* Fibers and the descriptor map. *)
Map ==
    /\ running \in Ctxs => Busy(running)
    /\ \A c \in Ctxs : Busy(c) =>
         /\ fiber[c].fd \in open
         /\ owner[fiber[c].fd] = IF fiber[c].pc = "user" THEN LOOP ELSE c
    /\ \A c, d \in Ctxs : Busy(c) /\ Busy(d) /\ fiber[c].fd = fiber[d].fd => c = d
    /\ \A fd \in open : owner[fd] = IDLE \/ \E c \in Ctxs : Serves(c, fd)
    /\ \A fd \in Fds \ open : owner[fd] = LOOP

(* Fibers and the timeout chain. *)
Chain ==
    /\ linked \subseteq open
    /\ \A c \in Ctxs : Busy(c) => (fiber[c].fd \in linked <=> Suspended(c))
    /\ \A fd \in open : owner[fd] = IDLE => fd \in linked

(* Fibers and the free list. *)
Pool ==
    /\ freelist \in Seq(Ctxs) /\ made \in Ctxs
    /\ \A i \in 1..Len(freelist) : freelist[i] <= made /\ ~Busy(freelist[i])
    /\ \A i, j \in 1..Len(freelist) : freelist[i] = freelist[j] => i = j
    /\ \A c \in Ctxs : ~Busy(c) => c > made \/ \E i \in 1..Len(freelist) : freelist[i] = c
    /\ \A c \in Ctxs : c > made => ~Busy(c)
    /\ made < Cardinality(Fds) + NumStacks

(* A step of fiber c that keeps its connection. *)
Keeps(c) ==
    /\ fiber' = [d \in Ctxs |-> IF d = c THEN fiber'[c] ELSE fiber[d]]
    /\ IsFiber(fiber'[c]) /\ fiber'[c].fd = fiber[c].fd

AInv == Shape /\ Map /\ Chain /\ Pool

(* IDLE, LOOP and the contexts are all different.                          *)
LEMMA Owners ==
    /\ MaxCtx \in Nat /\ NumStacks \in Nat \ {0} /\ NumStacks <= MaxCtx
    /\ Ctxs \subseteq Int /\ LOOP \in Int /\ IDLE \in Int
    /\ LOOP \notin Ctxs /\ IDLE \notin Ctxs /\ LOOP # IDLE
    /\ "user" \notin Waiting /\ "free" \notin Waiting
  BY ServerAssumption DEF Ctxs, LOOP, IDLE, Waiting

LEMMA PutFirst ==
    ASSUME NEW S, NEW s \in Seq(S), NEW x \in S, NEW t, t = <<x>> \o s
    PROVE  /\ t \in Seq(S) /\ Len(t) = Len(s) + 1
           /\ t[1] = x
           /\ \A i \in 1..Len(s) : t[i + 1] = s[i]
  <1>1. <<x>> \in Seq(S) /\ Len(<<x>>) = 1 /\ <<x>>[1] = x /\ Len(s) \in Nat
    OBVIOUS
  <1>2. /\ <<x>> \o s \in Seq(S)
        /\ Len(<<x>> \o s) = 1 + Len(s)
        /\ \A i \in 1..(1 + Len(s)) : (<<x>> \o s)[i] = IF i <= 1 THEN <<x>>[i] ELSE s[i - 1]
    BY <1>1
  <1>3. ASSUME NEW i \in 1..Len(s)
        PROVE  t[i + 1] = s[i]
    <2>1. i + 1 \in 1..(1 + Len(s)) /\ ~(i + 1 <= 1) /\ (i + 1) - 1 = i
      BY <1>1
    <2> QED
      BY <1>2, <2>1
  <1>4. 1 \in 1..(1 + Len(s)) /\ 1 <= 1
    BY <1>1
  <1> QED
    BY <1>1, <1>2, <1>3, <1>4

LEMMA ListOf ==
    ASSUME NEW n \in Nat, NEW S, NEW f \in [1..n -> S]
    PROVE  f \in Seq(S) /\ Len(f) = n
  OBVIOUS

(* What the invariant says in the words of the properties.                 *)
LEMMA Meaning ==
    ASSUME AInv
    PROVE  LinkedIffWaiting /\ EventsReachOwner /\ PoolExact
  <1> USE DEF AInv, Busy, Serves
  <1>1. LinkedIffWaiting
    <2>1. ASSUME NEW fd \in Fds, fd \in linked
          PROVE  owner[fd] = IDLE \/ \E c \in Ctxs : Serves(c, fd) /\ Suspended(c)
      BY <2>1 DEF Map, Chain
    <2>2. ASSUME NEW fd \in Fds, owner[fd] = IDLE
          PROVE  fd \in linked
      BY <2>2, Owners DEF Map, Chain
    <2>3. ASSUME NEW fd \in Fds, NEW c \in Ctxs, Serves(c, fd), Suspended(c)
          PROVE  fd \in linked
      BY <2>3 DEF Chain
    <2> QED
      BY <2>1, <2>2, <2>3 DEF LinkedIffWaiting
  <1>2. EventsReachOwner
    <2>1. ASSUME NEW fd \in open, owner[fd] = IDLE
          PROVE  \A c \in Ctxs : ~Serves(c, fd)
      BY <2>1, Owners DEF Map
    <2>2. ASSUME NEW fd \in open, NEW c \in Ctxs, Serves(c, fd)
          PROVE  /\ \A d \in Ctxs \ {c} : ~Serves(d, fd)
                 /\ owner[fd] = IF fiber[c].pc = "user" THEN LOOP ELSE c
      BY <2>2 DEF Map
    <2>3. \A fd \in Fds \ open : owner[fd] = LOOP /\ \A c \in Ctxs : ~Serves(c, fd)
      BY DEF Map
    <2>4. \A fd \in open : owner[fd] = IDLE \/ \E c \in Ctxs : Serves(c, fd)
      BY DEF Map
    <2> QED
      BY <2>1, <2>2, <2>3, <2>4 DEF EventsReachOwner
  <1>3. PoolExact
    <2>1. 1..made \subseteq Ctxs
      BY Owners DEF Pool, Ctxs
    <2>2. ASSUME NEW c \in 1..made
          PROVE  (fiber[c].pc = "free") <=> \E i \in 1..Len(freelist) : freelist[i] = c
      BY <2>1, <2>2, Owners DEF Pool
    <2> QED
      BY <2>2 DEF PoolExact, Pool
  <1> QED
    BY <1>1, <1>2, <1>3

(* The start: no connection, and a pool of NumStacks contexts.             *)
LEMMA Start == ASSUME Init PROVE AInv
  <1> USE DEF Init, T!Init
  <1>1. Shape
    BY Owners DEF Shape, NoFiber, IsFiber
  <1>2. Map
    BY Owners DEF Map, Busy, NoFiber
  <1>3. Chain
    BY DEF Chain, Busy, NoFiber
  <1>4. Pool
    <2>1. Cardinality(Fds) \in Nat /\ Cardinality(Fds) # 0
      BY ServerAssumption, FS_CardinalityType, FS_EmptySet
    <2>2. /\ freelist \in [1..NumStacks -> Ctxs]
          /\ made \in Ctxs /\ made = NumStacks
      BY Owners DEF Ctxs
    <2>3. freelist \in Seq(Ctxs) /\ Len(freelist) = NumStacks
      BY <2>2, Owners, ListOf
    <2>4. /\ \A i \in 1..NumStacks : freelist[i] <= made
          /\ \A i, j \in 1..NumStacks : freelist[i] = freelist[j] => i = j
      BY Owners
    <2>5. ASSUME NEW c \in Ctxs, ~(c > made)
          PROVE  \E i \in 1..NumStacks : freelist[i] = c
      <3>1. NumStacks + 1 - c \in 1..NumStacks /\ freelist[NumStacks + 1 - c] = c
        BY <2>5, Owners DEF Ctxs
      <3> QED
        BY <3>1
    <2>6. \A c \in Ctxs : ~Busy(c)
      BY DEF Busy, NoFiber
    <2>7. \A i \in 1..NumStacks : freelist[i] \in Ctxs
      BY <2>2
    <2>8. made < Cardinality(Fds) + NumStacks
      BY <2>1, <2>2, Owners
    <2> QED
      BY <2>2, <2>3, <2>4, <2>5, <2>6, <2>7, <2>8 DEF Pool
  <1> QED
    BY <1>1, <1>2, <1>3, <1>4 DEF AInv

(* The free list does not care what a busy fiber does.                     *)
LEMMA PoolKept ==
    ASSUME AInv, UNCHANGED <<freelist, made>>,
           \A c \in Ctxs : Busy(c)' <=> Busy(c)
    PROVE  Pool'
  <1>1. \A i \in 1..Len(freelist) : freelist[i] \in Ctxs
    BY DEF AInv, Pool
  <1> QED
    BY <1>1 DEF AInv, Pool

(* A fiber that is not a context's first or last step: it goes on, or      *)
(* reaches http_server_yield(), or the application takes over or returns   *)
(* (epoll_worker_ignore_events, epoll_worker_resume_events).               *)
LEMMA Moves ==
    ASSUME AInv, NEW c \in Ctxs, running = c, Keeps(c), fiber'[c].pc # "free",
           owner' = [owner EXCEPT ![fiber[c].fd] = IF fiber'[c].pc = "user" THEN LOOP ELSE c],
           UNCHANGED <<open, ready, freelist, made>>,
           \/ UNCHANGED <<linked, running>>
           \/ linked' = linked \cup {fiber[c].fd} /\ running' = LOOP /\ fiber'[c].pc \in Waiting
    PROVE  AInv'
  <1> USE Owners DEF AInv
  <1> DEFINE f == fiber'[c]
  <1>1. /\ fiber'[c] = f /\ f.pc # "free" /\ f.fd = fiber[c].fd /\ IsFiber(f)
        /\ \A d \in Ctxs : d # c => fiber'[d] = fiber[d]
        /\ fiber' = [d \in Ctxs |-> fiber'[d]]
    BY DEF Keeps
  <1> HIDE DEF f
  <1>2. Busy(c) /\ f.fd \in open /\ f.fd \in Fds
    BY <1>1 DEF Map, Shape
  <1>3. \A d \in Ctxs : Busy(d) /\ d # c => fiber[d].fd # f.fd
    BY <1>1, <1>2 DEF Map
  <1>4. \A d \in Ctxs : (Busy(d)' <=> Busy(d)) /\ fiber'[d].fd = fiber[d].fd
    BY <1>1, <1>2 DEF Busy
  <1>5. /\ owner' \in [Fds -> Int]
        /\ owner'[f.fd] = IF f.pc = "user" THEN LOOP ELSE c
        /\ \A fd \in Fds : fd # f.fd => owner'[fd] = owner[fd]
    BY <1>1, <1>2 DEF Shape
  <1>6. Shape'
    BY <1>1, <1>5 DEF Shape
  <1>7. Map'
    <2>1. running' \in Ctxs => Busy(running)'
      BY <1>1, <1>2, <1>4
    <2>2. ASSUME NEW d \in Ctxs, Busy(d)'
          PROVE  /\ fiber'[d].fd \in open'
                 /\ owner'[fiber'[d].fd] = IF fiber'[d].pc = "user" THEN LOOP ELSE d
      <3>1. CASE d = c
        BY <1>1, <1>2, <1>5, <3>1
      <3>2. CASE d # c
        <4>1. Busy(d) /\ fiber[d].fd \in open /\ fiber[d].fd \in Fds /\ fiber[d].fd # f.fd
          BY <1>3, <1>4, <2>2, <3>2 DEF Map, Shape
        <4> QED
          BY <1>1, <1>5, <3>2, <4>1 DEF Map
      <3> QED
        BY <3>1, <3>2
    <2>3. \A d, e \in Ctxs : (Busy(d)' /\ Busy(e)' /\ fiber'[d].fd = fiber'[e].fd) => d = e
      BY <1>4 DEF Map
    <2>4. ASSUME NEW fd \in open'
          PROVE  owner'[fd] = IDLE \/ \E d \in Ctxs : Serves(d, fd)'
      <3>1. CASE fd = f.fd
        BY <1>1, <3>1 DEF Serves
      <3>2. CASE fd # f.fd
        <4>1. owner'[fd] = owner[fd]
          BY <1>5, <3>2 DEF Shape
        <4>2. owner[fd] = IDLE \/ \E d \in Ctxs : Serves(d, fd)
          BY DEF Map
        <4> QED
          BY <1>4, <4>1, <4>2 DEF Serves, Busy
      <3> QED
        BY <3>1, <3>2
    <2>5. \A fd \in Fds \ open' : owner'[fd] = LOOP
      BY <1>2, <1>5 DEF Map
    <2> QED
      BY <2>1, <2>2, <2>3, <2>4, <2>5 DEF Map
  <1>8. Chain'
    <2>1. f.fd \notin linked
      BY <1>1, <1>2 DEF Chain, Suspended
    <2>2. \A d \in Ctxs : d # c => (Suspended(d)' <=> Suspended(d))
      BY <1>1 DEF Suspended
    <2>3. Suspended(c)' <=> running' = LOOP
      BY <1>1 DEF Suspended
    <2>4. \A fd \in open : owner'[fd] = IDLE => owner[fd] = IDLE
      BY <1>5 DEF Shape
    <2> QED
      BY <1>1, <1>2, <1>3, <1>4, <2>1, <2>2, <2>3, <2>4 DEF Chain
  <1>9. Pool'
    BY <1>4, PoolKept
  <1> QED
    BY <1>6, <1>7, <1>8, <1>9

(* The fiber ends: its connection becomes idle or is closed, and its       *)
(* context goes back to the pool, where it was not.                        *)
LEMMA Returns ==
    ASSUME AInv, NEW c \in Ctxs, running = c, NEW p, NEW s, Return(c, p, s)
    PROVE  AInv'
  <1> USE Owners DEF AInv
  <1> DEFINE fd == fiber[c].fd
  <1>1. /\ fiber'[c] = NoFiber
        /\ \A d \in Ctxs : d # c => fiber'[d] = fiber[d]
        /\ fiber' = [d \in Ctxs |-> fiber'[d]]
        /\ freelist' = <<c>> \o freelist /\ made' = made /\ running' = LOOP
    BY DEF Shape, Return, ctx_pool_put
  <1>2. Busy(c) /\ fd \in open /\ fd \in Fds
    BY DEF Map, Shape
  <1>3. /\ ~Busy(c)'
        /\ \A d \in Ctxs : d # c => (Busy(d)' <=> Busy(d)) /\ (Suspended(d)' <=> Suspended(d))
        /\ \A d \in Ctxs : Busy(d) /\ d # c => fiber[d].fd # fd
    BY <1>1, <1>2 DEF Busy, Suspended, Map, NoFiber
  <1>4. \/ /\ open' = open /\ ready' = ready /\ linked' = linked \cup {fd}
           /\ owner' = [owner EXCEPT ![fd] = IDLE]
        \/ /\ open' = open \ {fd} /\ ready' = ready \ {fd} /\ linked' = linked
           /\ owner' = [owner EXCEPT ![fd] = LOOP]
    BY DEF Return, Idle, ribs_close, T!Add, tvars
  <1>5. /\ owner' \in [Fds -> Int]
        /\ owner'[fd] = IF fd \in open' THEN IDLE ELSE LOOP
        /\ \A x \in Fds : x # fd => owner'[x] = owner[x] /\ (x \in open' <=> x \in open)
    BY <1>2, <1>4 DEF Shape
  <1>6. Shape'
    <2>1. open' \subseteq Fds /\ ready' \subseteq open'
      BY <1>4 DEF Shape
    <2>2. IsFiber(NoFiber)
      BY DEF IsFiber, NoFiber
    <2>3. \A d \in Ctxs : IsFiber(fiber'[d])
      BY <1>1, <2>2 DEF Shape
    <2> QED
      BY <1>1, <1>5, <2>1, <2>3 DEF Shape
  <1>7. Map'
    <2>1. ASSUME NEW d \in Ctxs, Busy(d)'
          PROVE  /\ fiber'[d].fd \in open'
                 /\ owner'[fiber'[d].fd] = IF fiber'[d].pc = "user" THEN LOOP ELSE d
      <3>1. d # c /\ Busy(d) /\ fiber'[d] = fiber[d]
        BY <1>1, <1>3, <2>1
      <3>2. fiber[d].fd \in open /\ fiber[d].fd \in Fds /\ fiber[d].fd # fd
        BY <1>3, <3>1 DEF Map, Shape
      <3> QED
        BY <1>5, <3>1, <3>2 DEF Map
    <2>2. ASSUME NEW d \in Ctxs, NEW e \in Ctxs, Busy(d)', Busy(e)', fiber'[d].fd = fiber'[e].fd
          PROVE  d = e
      <3>1. d # c /\ e # c /\ Busy(d) /\ Busy(e)
        BY <1>3, <2>2
      <3>2. fiber[d].fd = fiber[e].fd
        BY <1>1, <2>2, <3>1
      <3> QED
        BY <3>1, <3>2 DEF Map
    <2>3. ASSUME NEW x \in open'
          PROVE  owner'[x] = IDLE \/ \E d \in Ctxs : Serves(d, x)'
      <3>1. CASE x = fd
        BY <1>5, <3>1
      <3>2. CASE x # fd
        <4>1. x \in open /\ owner'[x] = owner[x]
          BY <1>5, <1>6, <3>2 DEF Shape
        <4>2. owner[x] = IDLE \/ \E d \in Ctxs : Serves(d, x)
          BY <4>1 DEF Map
        <4> QED
          BY <1>1, <1>2, <3>2, <4>1, <4>2 DEF Serves
      <3> QED
        BY <3>1, <3>2
    <2>4. \A x \in Fds \ open' : owner'[x] = LOOP
      BY <1>5 DEF Map
    <2> QED
      BY <1>1, <2>1, <2>2, <2>3, <2>4 DEF Map
  <1>8. Chain'
    <2>1. fd \notin linked
      BY <1>2 DEF Chain, Suspended
    <2>2. linked' \subseteq open'
      BY <1>2, <1>4, <2>1 DEF Chain
    <2>3. ASSUME NEW d \in Ctxs, Busy(d)'
          PROVE  fiber'[d].fd \in linked' <=> Suspended(d)'
      BY <1>1, <1>3, <1>4, <2>3 DEF Chain
    <2>4. ASSUME NEW x \in open', owner'[x] = IDLE
          PROVE  x \in linked'
      BY <1>4, <1>5, <1>6, <2>4 DEF Chain, Shape
    <2> QED
      BY <2>2, <2>3, <2>4 DEF Chain
  <1>9. Pool'
    <2>1. /\ Len(freelist) \in Nat
          /\ \A i \in 1..Len(freelist) : freelist[i] \in Ctxs /\ freelist[i] # c
      BY <1>2 DEF Pool
    <2>2. /\ freelist' \in Seq(Ctxs) /\ Len(freelist') = Len(freelist) + 1
          /\ freelist'[1] = c
          /\ \A i \in 1..Len(freelist) : freelist'[i + 1] = freelist[i]
      <3>1. freelist \in Seq(Ctxs)
        BY DEF Pool
      <3>2. freelist' = <<c>> \o freelist
        BY <1>1
      <3> QED
        BY <3>1, <3>2, PutFirst
    <2>3. c <= made
      BY <1>2 DEF Pool, Ctxs
    <2>4. ASSUME NEW i \in 1..Len(freelist')
          PROVE  i = 1 \/ \E k \in 1..Len(freelist) : i = k + 1 /\ freelist'[i] = freelist[k]
      <3>1. i = 1 \/ (i - 1 \in 1..Len(freelist) /\ i = (i - 1) + 1)
        BY <2>1, <2>2
      <3> QED
        BY <2>2, <3>1
    <2>5. ASSUME NEW i \in 1..Len(freelist')
          PROVE  freelist'[i] <= made' /\ fiber'[freelist'[i]].pc = "free"
      <3>1. CASE i = 1
        BY <1>1, <2>2, <2>3, <3>1 DEF NoFiber
      <3>2. CASE i # 1
        <4>1. PICK k \in 1..Len(freelist) : freelist'[i] = freelist[k]
          BY <2>4, <3>2
        <4>2. freelist[k] \in Ctxs /\ freelist[k] # c /\ freelist[k] <= made /\ fiber[freelist[k]].pc = "free"
          BY <2>1 DEF Pool, Busy
        <4> QED
          BY <1>1, <4>1, <4>2, Zenon
      <3> QED
        BY <3>1, <3>2
    <2>9. ASSUME NEW i \in 1..Len(freelist'), NEW j \in 1..Len(freelist'), freelist'[i] = freelist'[j]
          PROVE  i = j
      <3>1. \A k \in 1..Len(freelist) : freelist[k] # freelist'[1]
        BY <2>1, <2>2
      <3>2. \A k, l \in 1..Len(freelist) : freelist[k] = freelist[l] => k = l
        BY DEF Pool
      <3>3. CASE i = 1
        BY <2>4, <2>9, <3>1, <3>3
      <3>4. CASE j = 1
        BY <2>4, <2>9, <3>1, <3>4
      <3>5. CASE i # 1 /\ j # 1
        <4>1. PICK k \in 1..Len(freelist) : i = k + 1 /\ freelist'[i] = freelist[k]
          BY <2>4, <3>5
        <4>2. PICK l \in 1..Len(freelist) : j = l + 1 /\ freelist'[j] = freelist[l]
          BY <2>4, <3>5
        <4> QED
          BY <2>9, <3>2, <4>1, <4>2
      <3> QED
        BY <3>3, <3>4, <3>5
    <2>6. ASSUME NEW d \in Ctxs, ~Busy(d)'
          PROVE  d > made' \/ \E i \in 1..Len(freelist') : freelist'[i] = d
      <3>1. CASE d = c
        BY <2>1, <2>2, <3>1
      <3>2. CASE d # c
        <4>1. d > made \/ \E i \in 1..Len(freelist) : freelist[i] = d
          BY <1>3, <2>6, <3>2 DEF Pool
        <4>2. ASSUME NEW i \in 1..Len(freelist), freelist[i] = d
              PROVE  i + 1 \in 1..Len(freelist') /\ freelist'[i + 1] = d
          BY <2>1, <2>2, <4>2
        <4> QED
          BY <1>1, <4>1, <4>2
      <3> QED
        BY <3>1, <3>2
    <2>7. \A d \in Ctxs : d > made' => ~Busy(d)'
      BY <1>1, <1>3 DEF Pool
    <2> QED
      BY <1>1, <2>2, <2>5, <2>6, <2>7, <2>9 DEF Pool, Busy
  <1> QED
    BY <1>6, <1>7, <1>8, <1>9

(* Only epoll's ready list changes: clients, and events that are ignored.  *)
LEMMA EdgesOnly ==
    ASSUME AInv, ready' \subseteq open,
           UNCHANGED <<linked, open, owner, running, freelist, made, fiber>>
    PROVE  AInv'
  <1>1. Shape'
    BY DEF AInv, Shape
  <1>2. Map'
    BY DEF AInv, Map, Busy, Serves
  <1>3. Chain'
    BY DEF AInv, Chain, Busy, Suspended
  <1>4. Pool'
    BY PoolKept DEF Busy
  <1> QED
    BY <1>1, <1>2, <1>3, <1>4 DEF AInv

(* A fiber whose application is suspended or resumed was in no chain, and  *)
(* one that an event resumes leaves it.                                    *)
LEMMA Switches ==
    ASSUME AInv, ready' \subseteq open, NEW c \in Ctxs, Busy(c),
           UNCHANGED <<open, owner, freelist, made, fiber>>,
           \/ fiber[c].pc = "user" /\ running = c /\ running' = LOOP /\ linked' = linked
           \/ fiber[c].pc = "user" /\ running = LOOP /\ running' = c /\ linked' = linked
           \/ /\ fiber[c].pc \in Waiting /\ running = LOOP /\ running' = c
              /\ linked' = linked \ {fiber[c].fd}
    PROVE  AInv'
  <1> USE Owners DEF AInv
  <1>1. Shape'
    BY DEF Shape
  <1>2. Map'
    BY DEF Map, Busy, Serves
  <1>3. Chain'
    <2>1. \A d \in Ctxs : d # c => (Suspended(d)' <=> Suspended(d))
      BY DEF Suspended
    <2>2. fiber[c].pc = "user" => ~Suspended(c) /\ ~Suspended(c)'
      BY DEF Suspended
    <2>3. fiber[c].pc \in Waiting => ~Suspended(c)'
      BY DEF Suspended
    <2>4. \A d \in Ctxs : Busy(d) /\ d # c => fiber[d].fd # fiber[c].fd
      BY DEF Map
    <2>5. linked' \subseteq open'
      BY DEF Chain
    <2>6. ASSUME NEW d \in Ctxs, Busy(d)'
          PROVE  fiber'[d].fd \in linked' <=> Suspended(d)'
      <3>1. Busy(d) /\ fiber'[d] = fiber[d] /\ (fiber[d].fd \in linked <=> Suspended(d))
        BY <2>6 DEF Busy, Chain
      <3> QED
        BY <2>1, <2>2, <2>3, <2>4, <3>1
    <2>7. ASSUME NEW fd \in open', owner'[fd] = IDLE
          PROVE  fd \in linked'
      <3>1. fd \in linked
        BY <2>7 DEF Chain
      <3>2. fd # fiber[c].fd
        BY <2>7 DEF Map
      <3> QED
        BY <3>1, <3>2
    <2> QED
      BY <2>5, <2>6, <2>7 DEF Chain
  <1>4. Pool'
    BY PoolKept DEF Busy
  <1> QED
    BY <1>1, <1>2, <1>3, <1>4

(* A new connection waits for its first request.                           *)
LEMMA Accepts ==
    ASSUME AInv, NEW fd \in Fds \ open, running = LOOP, Accepted(fd),
           UNCHANGED <<running, freelist, made, fiber>>
    PROVE  AInv'
  <1> USE Owners DEF AInv
  <1>1. /\ open' = open \cup {fd} /\ ready' = ready \cup {fd} /\ linked' = linked \cup {fd}
        /\ owner' \in [Fds -> Int] /\ owner'[fd] = IDLE
        /\ \A x \in Fds : x # fd => owner'[x] = owner[x]
    BY DEF Accepted, T!Add, Shape
  <1>2. \A c \in Ctxs : Busy(c) => fiber[c].fd # fd /\ fiber[c].fd \in Fds
    BY DEF Map, Shape
  <1>3. Shape'
    BY <1>1 DEF Shape
  <1>4. Map'
    <2>1. \A c \in Ctxs : Busy(c)' =>
            /\ fiber'[c].fd \in open'
            /\ owner'[fiber'[c].fd] = IF fiber'[c].pc = "user" THEN LOOP ELSE c
      BY <1>1, <1>2 DEF Map, Busy
    <2>2. ASSUME NEW x \in open'
          PROVE  owner'[x] = IDLE \/ \E c \in Ctxs : Serves(c, x)'
      BY <1>1, <2>2 DEF Map, Serves, Shape
    <2>3. \A x \in Fds \ open' : owner'[x] = LOOP
      BY <1>1 DEF Map
    <2> QED
      BY <2>1, <2>2, <2>3 DEF Map, Busy
  <1>5. Chain'
    <2>1. \A c \in Ctxs : Suspended(c)' <=> Suspended(c)
      BY DEF Suspended
    <2>2. linked' \subseteq open'
      BY <1>1 DEF Chain
    <2>3. \A c \in Ctxs : Busy(c)' => (fiber'[c].fd \in linked' <=> Suspended(c)')
      BY <1>1, <1>2, <2>1 DEF Chain, Busy
    <2>4. \A x \in open' : owner'[x] = IDLE => x \in linked'
      BY <1>1 DEF Chain, Shape
    <2> QED
      BY <2>2, <2>3, <2>4 DEF Chain
  <1>6. Pool'
    BY PoolKept DEF Busy
  <1> QED
    BY <1>3, <1>4, <1>5, <1>6

(* When every context is busy, each serves a connection of its own, none   *)
(* of them the one that has just woken up.                                 *)
LEMMA AllBusy ==
    ASSUME AInv, NEW fd \in open, owner[fd] = IDLE, freelist = <<>>
    PROVE  made < Cardinality(Fds)
  <1> USE Owners DEF AInv
  <1> DEFINE served == [d \in 1..made |-> fiber[d].fd]
  <1>1. made \in Nat /\ 1..made \subseteq Ctxs /\ Len(freelist) = 0
    BY DEF Pool, Ctxs
  <1>2. \A d \in 1..made : Busy(d) /\ fiber[d].fd \in Fds /\ fiber[d].fd # fd
    <2> SUFFICES ASSUME NEW d \in 1..made
                 PROVE  Busy(d) /\ fiber[d].fd \in Fds /\ fiber[d].fd # fd
      OBVIOUS
    <2>1. d \in Ctxs /\ ~(d > made)
      BY <1>1
    <2>2. Busy(d)
      BY <1>1, <2>1 DEF Pool
    <2> QED
      BY <2>1, <2>2 DEF Map, Shape
  <1>3. served \in Injection(1..made, Fds \ {fd})
    <2>1. served \in [1..made -> Fds \ {fd}]
      BY <1>2
    <2>2. \A d, e \in 1..made : served[d] = served[e] => d = e
      BY <1>1, <1>2 DEF Map
    <2> QED
      BY <2>1, <2>2 DEF Injection, IsInjective
  <1>4. IsFiniteSet(Fds) /\ fd \in Fds /\ Cardinality(Fds) \in Nat
    BY ServerAssumption, FS_CardinalityType DEF Shape
  <1>5. IsFiniteSet(Fds \ {fd}) /\ Cardinality(Fds \ {fd}) = Cardinality(Fds) - 1
    BY <1>4, FS_RemoveElement
  <1>6. Cardinality(1..made) <= Cardinality(Fds \ {fd})
    BY <1>3, <1>5, FS_Injection
  <1>7. Cardinality(1..made) = made
    BY <1>1, FS_Interval
  <1> QED
    BY <1>1, <1>4, <1>5, <1>6, <1>7

(* ctx_pool_get returns a context that serves nobody, and leaves the       *)
(* others where they were; a pool that grows has all of its new contexts   *)
(* but one in the free list.                                               *)
LEMMA Gets ==
    ASSUME AInv, NEW fd \in open, owner[fd] = IDLE, NEW c \in Ctxs, ctx_pool_get(c)
    PROVE  /\ ~Busy(c)
           /\ made' \in Ctxs /\ made <= made' /\ c <= made'
           /\ made' < Cardinality(Fds) + NumStacks
           /\ freelist' \in Seq(Ctxs)
           /\ \A i \in 1..Len(freelist') :
                /\ freelist'[i] \in Ctxs /\ freelist'[i] <= made' /\ freelist'[i] # c
                /\ ~Busy(freelist'[i])
           /\ \A i, j \in 1..Len(freelist') : freelist'[i] = freelist'[j] => i = j
           /\ \A d \in Ctxs : ~Busy(d) /\ d # c =>
                d > made' \/ \E i \in 1..Len(freelist') : freelist'[i] = d
  <1> USE Owners DEF AInv
  <1>1. CASE freelist # <<>>
    <2>1. /\ c = Head(freelist) /\ freelist' = Tail(freelist) /\ made' = made
      BY <1>1 DEF ctx_pool_get
    <2>2. /\ freelist \in Seq(Ctxs) /\ Len(freelist) \in Nat \ {0} /\ c = freelist[1]
          /\ freelist' \in Seq(Ctxs) /\ Len(freelist') = Len(freelist) - 1
          /\ \A i \in 1..Len(freelist') : freelist'[i] = freelist[i + 1]
      BY <1>1, <2>1 DEF Pool
    <2>3. \A i \in 1..Len(freelist') : i + 1 \in 1..Len(freelist) /\ i + 1 # 1
      BY <2>2
    <2>4. 1 \in 1..Len(freelist)
      BY <2>2
    <2>5. /\ \A i \in 1..Len(freelist) : freelist[i] \in Ctxs /\ freelist[i] <= made /\ ~Busy(freelist[i])
          /\ \A i, j \in 1..Len(freelist) : freelist[i] = freelist[j] => i = j
          /\ made \in Ctxs /\ made < Cardinality(Fds) + NumStacks
      BY DEF Pool
    <2>6. ASSUME NEW i \in 1..Len(freelist')
          PROVE  /\ freelist'[i] \in Ctxs /\ freelist'[i] <= made' /\ freelist'[i] # c
                 /\ ~Busy(freelist'[i])
      BY <2>1, <2>2, <2>3, <2>4, <2>5
    <2>7. ASSUME NEW i \in 1..Len(freelist'), NEW j \in 1..Len(freelist'), freelist'[i] = freelist'[j]
          PROVE  i = j
      <3>1. i + 1 = j + 1
        BY <2>2, <2>3, <2>5, <2>7, Zenon
      <3> QED
        BY <2>2, <3>1
    <2>8. ASSUME NEW d \in Ctxs, ~Busy(d), d # c
          PROVE  d > made' \/ \E i \in 1..Len(freelist') : freelist'[i] = d
      <3>1. CASE d > made
        BY <2>1, <3>1
      <3>2. ASSUME NEW k \in 1..Len(freelist), freelist[k] = d
            PROVE  k - 1 \in 1..Len(freelist') /\ freelist'[k - 1] = d
        <4>1. k # 1
          BY <2>2, <2>8, <3>2
        <4>2. k - 1 \in 1..Len(freelist') /\ (k - 1) + 1 = k
          BY <2>2, <4>1
        <4> QED
          BY <2>2, <3>2, <4>2
      <3> QED
        BY <2>8, <3>1, <3>2 DEF Pool
    <2> QED
      BY <2>1, <2>2, <2>4, <2>5, <2>6, <2>7, <2>8
  <1>2. CASE freelist = <<>>
    <2> DEFINE grown == [i \in 1..NumStacks |-> made + NumStacks + 1 - i]
    <2>1. /\ c = Head(grown) /\ freelist' = Tail(grown) /\ made' = made + NumStacks
          /\ made + NumStacks <= MaxCtx
      BY <1>2 DEF ctx_pool_get
    <2>2. made \in Ctxs /\ made \in Nat /\ made' \in Ctxs
      BY <2>1 DEF Pool, Ctxs
    <2>3. grown \in [1..NumStacks -> Ctxs]
      BY <2>1, <2>2 DEF Ctxs
    <2>4. /\ grown \in Seq(Ctxs) /\ Len(grown) = NumStacks
          /\ \A i \in 1..NumStacks : grown[i] = made + NumStacks + 1 - i
      BY <2>3, ListOf
    <2>5. /\ freelist' \in Seq(Ctxs) /\ Len(freelist') = NumStacks - 1
          /\ \A i \in 1..Len(freelist') : freelist'[i] = grown[i + 1]
          /\ c = grown[1]
      <3> HIDE DEF grown
      <3>1. grown # <<>>
        BY <2>4
      <3> QED
        BY <2>1, <2>4, <3>1
    <2> HIDE DEF grown
    <2>a. /\ NumStacks \in Nat /\ made \in Nat /\ made' = made + NumStacks
          /\ 1..Len(freelist') = 1..(NumStacks - 1)
      BY <2>1, <2>2, <2>5
    <2>b. \A i \in 1..(NumStacks - 1) :
            /\ i \in Int /\ i + 1 \in 1..NumStacks
            /\ made + NumStacks + 1 - (i + 1) = (made + NumStacks) - i
            /\ made < (made + NumStacks) - i /\ (made + NumStacks) - i < made + NumStacks
      BY <2>a
    <2>6. /\ c = made'
          /\ \A i \in 1..Len(freelist') : freelist'[i] = made' - i
      <3>1. 1 \in 1..NumStacks /\ made + NumStacks + 1 - 1 = made + NumStacks
        BY <2>a
      <3>2. c = made'
        BY <2>4, <2>5, <2>a, <3>1
      <3>3. ASSUME NEW i \in 1..Len(freelist')
            PROVE  freelist'[i] = made' - i
        BY <2>4, <2>5, <2>a, <2>b
      <3> QED
        BY <3>2, <3>3
    <2>7. /\ \A d \in Ctxs : d > made => ~Busy(d)
          /\ \A d \in Ctxs : ~Busy(d) => d > made
      BY <1>2 DEF Pool
    <2>8. ~Busy(c)
      BY <2>1, <2>2, <2>6, <2>7
    <2>9. ASSUME NEW i \in 1..Len(freelist')
          PROVE  /\ freelist'[i] \in Ctxs /\ freelist'[i] <= made' /\ freelist'[i] # c
                 /\ ~Busy(freelist'[i])
      <3>1. made' - i \in Int /\ made' - i < made' /\ made < made' - i
        BY <2>a, <2>b
      <3>2. made' - i \in Ctxs
        BY <2>1, <2>a, <3>1 DEF Ctxs
      <3> QED
        BY <2>6, <2>7, <2>a, <3>1, <3>2
    <2>10. \A i, j \in 1..Len(freelist') : freelist'[i] = freelist'[j] => i = j
      BY <2>2, <2>5, <2>6
    <2>11. ASSUME NEW d \in Ctxs, ~Busy(d), d # c
           PROVE  d > made' \/ \E i \in 1..Len(freelist') : freelist'[i] = d
      <3>1. CASE d > made'
        BY <3>1
      <3>2. CASE ~(d > made')
        <4>1. d \in Int /\ made < d /\ d < made'
          BY <2>6, <2>7, <2>11, <2>a, <3>2 DEF Ctxs
        <4>2. made' - d \in 1..(NumStacks - 1) /\ made' - (made' - d) = d
          BY <2>a, <4>1
        <4> QED
          BY <2>6, <2>a, <4>2
      <3> QED
        BY <3>1, <3>2
    <2>12. made' < Cardinality(Fds) + NumStacks
      <3>1. made < Cardinality(Fds)
        BY <1>2, AllBusy
      <3>2. Cardinality(Fds) \in Nat
        BY ServerAssumption, FS_CardinalityType
      <3> QED
        BY <2>1, <2>2, <3>1, <3>2
    <2>13. made <= made' /\ c <= made'
      BY <2>1, <2>2, <2>6
    <2> QED
      BY <2>2, <2>5, <2>8, <2>9, <2>10, <2>11, <2>12, <2>13
  <1> QED
    BY <1>1, <1>2

(* An idle connection wakes up and gets a context.                         *)
LEMMA Wakes ==
    ASSUME AInv, NEW fd \in open, owner[fd] = IDLE, running = LOOP,
           http_server_idle_handler(fd), ready' \subseteq open, open' = open
    PROVE  AInv'
  <1> USE Owners DEF AInv
  <1>1. PICK c \in Ctxs :
           /\ ctx_pool_get(c)
           /\ fiber' = [fiber EXCEPT ![c] = [NoFiber EXCEPT !.pc = "read", !.fd = fd]]
           /\ owner' = [owner EXCEPT ![fd] = c]
           /\ linked' = linked \ {fd}
           /\ running' = c
    BY DEF http_server_idle_handler, Unlinked, T!Remove
  <1> DEFINE new == [NoFiber EXCEPT !.pc = "read", !.fd = fd]
  <1>2. IsFiber(new) /\ new.pc = "read" /\ new.fd = fd /\ "read" \in Waiting
    BY DEF IsFiber, NoFiber, Waiting
  <1> HIDE DEF new
  <1>3. /\ fiber'[c] = new
        /\ \A d \in Ctxs : d # c => fiber'[d] = fiber[d]
        /\ fiber' = [d \in Ctxs |-> fiber'[d]]
    BY <1>1 DEF Shape, new
  <1>4. /\ fd \in Fds /\ owner' \in [Fds -> Int] /\ owner'[fd] = c
        /\ \A x \in Fds : x # fd => owner'[x] = owner[x]
    BY <1>1 DEF Shape
  <1>5. \A d \in Ctxs : Busy(d) => fiber[d].fd # fd /\ fiber[d].fd \in Fds
    BY DEF Map, Shape
  <1>6. /\ ~Busy(c) /\ Busy(c)'
        /\ \A d \in Ctxs : d # c => (Busy(d)' <=> Busy(d)) /\ (Suspended(d)' <=> Suspended(d))
    <2>1. ~Busy(c)
      BY <1>1, Gets
    <2> QED
      BY <1>1, <1>2, <1>3, <2>1 DEF Busy, Suspended
  <1>7. Shape'
    BY <1>1, <1>2, <1>3, <1>4 DEF Shape
  <1>8. Map'
    <2>1. ASSUME NEW d \in Ctxs, Busy(d)'
          PROVE  /\ fiber'[d].fd \in open'
                 /\ owner'[fiber'[d].fd] = IF fiber'[d].pc = "user" THEN LOOP ELSE d
      <3>1. CASE d = c
        BY <1>2, <1>3, <1>4, <3>1
      <3>2. CASE d # c
        BY <1>3, <1>4, <1>5, <1>6, <2>1, <3>2 DEF Map
      <3> QED
        BY <3>1, <3>2
    <2>2. ASSUME NEW d \in Ctxs, NEW e \in Ctxs, Busy(d)', Busy(e)', fiber'[d].fd = fiber'[e].fd
          PROVE  d = e
      BY <1>2, <1>3, <1>5, <1>6, <2>2 DEF Map
    <2>3. ASSUME NEW x \in open'
          PROVE  owner'[x] = IDLE \/ \E d \in Ctxs : Serves(d, x)'
      <3>1. CASE x = fd
        BY <1>2, <1>3, <3>1 DEF Serves
      <3>2. CASE x # fd
        <4>1. owner'[x] = owner[x]
          BY <1>4, <3>2 DEF Shape
        <4>2. owner[x] = IDLE \/ \E d \in Ctxs : Serves(d, x)
          BY DEF Map
        <4> QED
          BY <1>3, <1>6, <4>1, <4>2 DEF Serves, Busy
      <3> QED
        BY <3>1, <3>2
    <2>4. \A x \in Fds \ open' : owner'[x] = LOOP
      BY <1>4 DEF Map
    <2> QED
      BY <1>1, <1>6, <2>1, <2>2, <2>3, <2>4 DEF Map
  <1>9. Chain'
    <2>1. linked' \subseteq open'
      BY <1>1 DEF Chain
    <2>2. ASSUME NEW d \in Ctxs, Busy(d)'
          PROVE  fiber'[d].fd \in linked' <=> Suspended(d)'
      <3>1. CASE d = c
        BY <1>1, <1>2, <1>3, <3>1 DEF Suspended
      <3>2. CASE d # c
        BY <1>1, <1>3, <1>5, <1>6, <2>2, <3>2 DEF Chain
      <3> QED
        BY <3>1, <3>2
    <2>3. ASSUME NEW x \in open', owner'[x] = IDLE
          PROVE  x \in linked'
      BY <1>1, <1>4, <2>3 DEF Chain, Shape
    <2> QED
      BY <2>1, <2>2, <2>3 DEF Chain
  <1>10. Pool'
    <2>1. /\ made' \in Ctxs /\ made <= made' /\ c <= made'
          /\ made' < Cardinality(Fds) + NumStacks
          /\ freelist' \in Seq(Ctxs)
          /\ \A i \in 1..Len(freelist') :
                /\ freelist'[i] \in Ctxs /\ freelist'[i] <= made' /\ freelist'[i] # c
                /\ ~Busy(freelist'[i])
          /\ \A i, j \in 1..Len(freelist') : freelist'[i] = freelist'[j] => i = j
          /\ \A d \in Ctxs : ~Busy(d) /\ d # c =>
                d > made' \/ \E i \in 1..Len(freelist') : freelist'[i] = d
      BY <1>1, Gets
    <2>2. \A i \in 1..Len(freelist') : freelist'[i] <= made' /\ fiber'[freelist'[i]].pc = "free"
      BY <1>3, <2>1 DEF Busy
    <2>3. \A d \in Ctxs : ~Busy(d)' => d > made' \/ \E i \in 1..Len(freelist') : freelist'[i] = d
      BY <1>6, <2>1
    <2>4. \A d \in Ctxs : d > made' => ~Busy(d)'
      <3> SUFFICES ASSUME NEW d \in Ctxs, d > made'
                   PROVE  ~Busy(d)'
        OBVIOUS
      <3>1. d # c /\ d > made
        BY <2>1 DEF Pool
      <3> QED
        BY <1>6, <3>1 DEF Pool
    <2> QED
      BY <2>1, <2>2, <2>3, <2>4, Zenon DEF Pool, Busy
  <1> QED
    BY <1>7, <1>8, <1>9, <1>10

(* A step of a fiber that keeps its connection and the map, and may yield. *)
LEMMA GoesOn ==
    ASSUME AInv, NEW c \in Ctxs, running = c, fiber[c].pc \in Waiting,
           Keeps(c), fiber'[c].pc \in Waiting,
           UNCHANGED <<owner, open, ready, freelist, made>>,
           \/ UNCHANGED <<tvars, running>>
           \/ http_server_yield(fiber[c].fd)
    PROVE  AInv'
  <1>1. Busy(c) /\ fiber[c].fd \in Fds /\ owner \in [Fds -> Int]
    BY Owners DEF AInv, Shape, Map, Busy
  <1>2. owner[fiber[c].fd] = c
    BY <1>1, Owners DEF AInv, Map
  <1>3. owner' = [owner EXCEPT ![fiber[c].fd] = c]
    BY <1>1, <1>2
  <1>4. fiber'[c].pc # "free" /\ fiber'[c].pc # "user"
    BY Owners
  <1> QED
    BY <1>3, <1>4, Moves DEF http_server_yield, T!Add, tvars

(* Reading: the fiber ends, goes on, yields, or calls the application.     *)
LEMMA Reads ==
    ASSUME AInv, NEW c \in Ctxs, ReadRequest(c)
    PROVE  AInv'
  <1> DEFINE fd == fiber[c].fd
             s == sock[fd]
             got == fiber[c].got + s.rx
             Goto(pc, p, out) ==
                /\ fiber' = [fiber EXCEPT ![c] = [@ EXCEPT !.pc = pc, !.got = got,
                                                   !.persistent = p, !.out = out]]
                /\ UNCHANGED <<open, ready, freelist, made>>
  <1>1. running = c /\ fiber[c].pc \in {"read", "body"} /\ fiber[c].pc \in Waiting
    BY Zenon DEF ReadRequest, Waiting
  <1>2. \/ Return(c, FALSE, s)
        \/ \E pc \in {"write", "continue"}, p \in BOOLEAN, out \in Nat :
              Goto(pc, p, out) /\ UNCHANGED <<tvars, owner, running>>
        \/ Goto(fiber[c].pc, fiber[c].persistent, 0) /\ http_server_yield(fd) /\ UNCHANGED owner
        \/ \E p \in BOOLEAN :
             /\ Goto("user", p, 0)
             /\ owner' = [owner EXCEPT ![fd] = LOOP]
             /\ UNCHANGED <<tvars, running>>
    BY Zenon DEF ReadRequest
  <1>3. ASSUME NEW pc \in Waiting \cup {"user"}, NEW p, NEW out, Goto(pc, p, out)
        PROVE  Keeps(c) /\ fiber'[c].pc = pc
    BY <1>3, Zenon DEF AInv, Shape, Keeps, IsFiber
  <1>4. CASE Return(c, FALSE, s)
    BY <1>1, <1>4, Returns
  <1>5. ASSUME NEW pc \in {"write", "continue"}, NEW p \in BOOLEAN, NEW out \in Nat,
               Goto(pc, p, out), UNCHANGED <<tvars, owner, running>>
        PROVE  AInv'
    <2>1. pc \in Waiting
      BY DEF Waiting
    <2> QED
      BY <1>1, <1>3, <1>5, <2>1, GoesOn, Zenon
  <1>6. CASE Goto(fiber[c].pc, fiber[c].persistent, 0) /\ http_server_yield(fd) /\ UNCHANGED owner
    BY <1>1, <1>3, <1>6, GoesOn, Zenon
  <1>7. ASSUME NEW p \in BOOLEAN, Goto("user", p, 0), UNCHANGED <<tvars, running>>,
               owner' = [owner EXCEPT ![fd] = LOOP]
        PROVE  AInv'
    <2>1. Keeps(c) /\ fiber'[c].pc = "user"
      BY <1>3, <1>7, Zenon
    <2> QED
      BY <1>1, <1>7, <2>1, Moves DEF tvars
  <1> QED
    BY <1>2, <1>4, <1>5, <1>6, <1>7, Zenon

(* Writing: the same, with one more way to reach the application.          *)
LEMMA Writes ==
    ASSUME AInv, NEW c \in Ctxs, WriteOut(c)
    PROVE  AInv'
  <1> DEFINE fd == fiber[c].fd
             f == fiber[c]
             Same == UNCHANGED <<open, ready, freelist, made>>
             On(pc) ==
                 \/ \E out : fiber' = [fiber EXCEPT ![c].pc = pc, ![c].out = out]
                 \/ fiber' = [fiber EXCEPT ![c].pc = pc, ![c].persistent = FALSE]
                 \/ fiber' = [fiber EXCEPT ![c].pc = pc, ![c].out = 0, ![c].persistent = TRUE]
  <1>1. running = c /\ f.pc \in Waiting
    BY Zenon DEF WriteOut, Waiting
  <1>2. \/ \E p, s : Return(c, p, s)
        \/ \E pc \in {f.pc, "body", "file"} :
             /\ On(pc) /\ Same /\ UNCHANGED owner
             /\ UNCHANGED <<tvars, running>> \/ http_server_yield(fd)
        \/ /\ On("user") /\ Same /\ UNCHANGED <<tvars, running>>
           /\ owner' = [owner EXCEPT ![fd] = LOOP]
    BY Zenon DEF WriteOut, sendfile_done
  <1>3. ASSUME NEW pc \in Waiting \cup {"user"}, On(pc)
        PROVE  Keeps(c) /\ fiber'[c].pc = pc
    <2>1. fiber = [d \in Ctxs |-> fiber[d]] /\ {"pc", "fd"} \subseteq DOMAIN fiber[c]
      BY DEF AInv, Shape, IsFiber
    <2>2. ASSUME NEW out, fiber' = [fiber EXCEPT ![c].pc = pc, ![c].out = out]
          PROVE  Keeps(c) /\ fiber'[c].pc = pc
      BY <2>1, <2>2 DEF Keeps, IsFiber
    <2>3. CASE fiber' = [fiber EXCEPT ![c].pc = pc, ![c].persistent = FALSE]
      BY <2>1, <2>3 DEF Keeps, IsFiber
    <2>4. CASE fiber' = [fiber EXCEPT ![c].pc = pc, ![c].out = 0, ![c].persistent = TRUE]
      BY <2>1, <2>4 DEF Keeps, IsFiber
    <2> QED
      BY <1>3, <2>2, <2>3, <2>4
  <1>4. ASSUME NEW p, NEW s, Return(c, p, s)
        PROVE  AInv'
    BY <1>1, <1>4, Returns
  <1>5. ASSUME NEW pc \in {f.pc, "body", "file"}, On(pc), Same, UNCHANGED owner,
               UNCHANGED <<tvars, running>> \/ http_server_yield(fd)
        PROVE  AInv'
    <2>1. pc \in Waiting
      BY <1>1 DEF Waiting
    <2>2. Keeps(c) /\ fiber'[c].pc = pc
      BY <1>3, <1>5, <2>1, Zenon
    <2> HIDE DEF On
    <2> QED
      BY <1>1, <1>5, <2>1, <2>2, GoesOn
  <1>6. CASE /\ On("user") /\ Same /\ UNCHANGED <<tvars, running>>
             /\ owner' = [owner EXCEPT ![fd] = LOOP]
    <2>1. Keeps(c) /\ fiber'[c].pc = "user"
      BY <1>3, <1>6, Zenon
    <2> HIDE DEF On
    <2> QED
      BY <1>1, <1>6, <2>1, Moves DEF tvars
  <1> QED
    BY <1>2, <1>4, <1>5, <1>6, Zenon

(* The application returns.                                                *)
LEMMA UserReturns ==
    ASSUME AInv, NEW c \in Ctxs, user_func(c)
    PROVE  AInv'
  <1>1. running = c /\ fiber[c].pc = "user"
    BY DEF user_func
  <1>2. \/ \E p, s : Return(c, p, s)
        \/ /\ \/ fiber' = [fiber EXCEPT ![c].pc = "write", ![c].out = 2]
              \/ \E t : fiber' = [fiber EXCEPT ![c].pc = "fileheader", ![c].out = 1, ![c].truncated = t]
           /\ owner' = [owner EXCEPT ![fiber[c].fd] = c]
           /\ UNCHANGED <<tvars, open, ready, running, freelist, made>>
    BY DEF user_func, epoll_worker_resume_events
  <1>3. CASE \E p, s : Return(c, p, s)
    BY <1>1, <1>3, Returns
  <1>4. CASE /\ \/ fiber' = [fiber EXCEPT ![c].pc = "write", ![c].out = 2]
                \/ \E t : fiber' = [fiber EXCEPT ![c].pc = "fileheader", ![c].out = 1, ![c].truncated = t]
             /\ owner' = [owner EXCEPT ![fiber[c].fd] = c]
             /\ UNCHANGED <<tvars, open, ready, running, freelist, made>>
    <2>0. fiber = [d \in Ctxs |-> fiber[d]] /\ {"pc", "fd"} \subseteq DOMAIN fiber[c]
      BY DEF AInv, Shape, IsFiber
    <2>2. ASSUME fiber' = [fiber EXCEPT ![c].pc = "write", ![c].out = 2]
          PROVE  Keeps(c) /\ fiber'[c].pc = "write"
      BY <2>0, <2>2 DEF Keeps, IsFiber, Waiting
    <2>3. ASSUME NEW t, fiber' = [fiber EXCEPT ![c].pc = "fileheader", ![c].out = 1, ![c].truncated = t]
          PROVE  Keeps(c) /\ fiber'[c].pc = "fileheader"
      BY <2>0, <2>3 DEF Keeps, IsFiber, Waiting
    <2>1. Keeps(c) /\ fiber'[c].pc \in {"write", "fileheader"}
      BY <1>4, <2>2, <2>3
    <2> QED
      BY <1>1, <1>4, <2>1, Moves DEF tvars
  <1> QED
    BY <1>2, <1>3, <1>4

(* An event: ignored, for the idle handler, or for the fiber that waits.   *)
LEMMA Dispatches ==
    ASSUME AInv, NEW fd \in Fds, Dispatch(fd)
    PROVE  AInv'
  <1> DEFINE s == sock[fd]
  <1>1. /\ running = LOOP /\ fd \in ready /\ ready' = ready \ {fd} /\ open' = open
        /\ \/ UNCHANGED <<tvars, owner, running, freelist, made, fiber>>
           \/ owner[fd] = IDLE /\ http_server_idle_handler(fd)
           \/ owner[fd] \in Ctxs /\ Resume(fd)
    BY DEF Dispatch
  <1>2. fd \in open /\ ready' \subseteq open
    BY <1>1 DEF AInv, Shape
  <1>3. CASE UNCHANGED <<tvars, owner, running, freelist, made, fiber>>
    BY <1>1, <1>2, <1>3, EdgesOnly DEF tvars
  <1>4. CASE owner[fd] = IDLE /\ http_server_idle_handler(fd)
    BY <1>1, <1>2, <1>4, Wakes
  <1>5. CASE owner[fd] \in Ctxs /\ Resume(fd)
    <2>1. PICK c \in Ctxs : Serves(c, fd)
      BY <1>2, <1>5, Owners DEF AInv, Map
    <2>2. /\ Busy(c) /\ fiber[c].fd = fd /\ owner[fd] = c
          /\ fiber[c].pc \in Waiting
      BY <1>5, <2>1, Owners DEF AInv, Map, Shape, IsFiber, Serves, Busy
    <2>3. /\ linked' = linked \ {fd} /\ running' = c
          /\ UNCHANGED <<owner, freelist, made, fiber>>
      BY <1>5, <2>2 DEF Resume, Unlinked, T!Remove
    <2> QED
      BY <1>1, <1>2, <2>2, <2>3, Switches
  <1> QED
    BY <1>1, <1>3, <1>4, <1>5

(* Every step keeps the invariant.                                         *)
LEMMA Step == ASSUME AInv, [Next]_vars PROVE AInv'
  <1>0. ready \subseteq open /\ linked \subseteq open
    BY DEF AInv, Shape, Chain
  <1>1. ASSUME NEW c \in Ctxs, FiberStep(c)
        PROVE  AInv'
    BY <1>1, Reads, Writes, UserReturns DEF FiberStep
  <1>2. ASSUME NEW c \in Ctxs, UserSuspend(c) \/ UserResume(c)
        PROVE  AInv'
    <2>1. Busy(c)
      BY <1>2 DEF UserSuspend, UserResume, Busy
    <2> QED
      BY <1>0, <1>2, <2>1, Switches DEF UserSuspend, UserResume, tvars
  <1>3. ASSUME NEW fd \in Fds, Dispatch(fd)
        PROVE  AInv'
    BY <1>3, Dispatches
  <1>4. ASSUME NEW fd \in Fds, NEW s, NEW edge, Peer(fd, s, edge)
        PROVE  AInv'
    BY <1>0, <1>4, EdgesOnly DEF Peer, tvars
  <1>5. ASSUME NEW fd \in Fds, ClientSend(fd) \/ ClientRead(fd) \/ ClientClose(fd)
        PROVE  \E s, edge : Peer(fd, s, edge)
    BY <1>5, Zenon DEF ClientSend, ClientRead, ClientClose
  <1>6. CASE Accept
    <2>1. CASE \E fd \in Fds \ open : Accepted(fd)
      BY <1>6, <2>1, Accepts DEF Accept
    <2>2. CASE UNCHANGED <<tvars, open, owner, ready>>
      BY <1>0, <1>6, <2>2, EdgesOnly DEF Accept, tvars
    <2> QED
      BY <1>6, <2>1, <2>2 DEF Accept
  <1>7. CASE AcceptFailed \/ Connect
    BY <1>0, <1>7, EdgesOnly DEF AcceptFailed, Connect, tvars
  <1>8. CASE Expire
    BY <1>0, <1>8, EdgesOnly DEF Expire, T!Expire
  <1>9. CASE UNCHANGED vars
    BY <1>0, <1>9, EdgesOnly DEF vars, tvars
  <1> QED
    BY <1>1, <1>2, <1>3, <1>4, <1>5, <1>6, <1>7, <1>8, <1>9 DEF Next

(* The invariant of the server, for every number of connections.           *)
THEOREM Agreement == Spec => []AInv
  BY Start, Step, PTL DEF Spec

(* A descriptor is in the timeout chain exactly while its connection waits *)
(* for its peer: timeout_handler_add_fd_data never links it twice, and no  *)
(* connection waits without a timeout.                                     *)
THEOREM LinkedWhileWaiting == Spec => []LinkedIffWaiting
  <1>1. AInv => LinkedIffWaiting
    BY Meaning
  <1> QED
    BY <1>1, Agreement, PTL

(* Every event reaches the one fiber that serves its connection, and no    *)
(* entry of the descriptor map names a context that has ended.             *)
THEOREM EventsDelivered == Spec => []EventsReachOwner
  <1>1. AInv => EventsReachOwner
    BY Meaning
  <1> QED
    BY <1>1, Agreement, PTL

(* No context is lost, or free and in use at once, and the pool does not   *)
(* outgrow the connections by NumStacks.                                   *)
THEOREM PoolNeverLeaks == Spec => []PoolExact
  <1>1. AInv => PoolExact
    BY Meaning
  <1> QED
    BY <1>1, Agreement, PTL
=============================================================================
