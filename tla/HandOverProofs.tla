--------------------------- MODULE HandOverProofs ---------------------------
(***************************************************************************)
(* What TLAPS proves about the context queue as long as no fiber calls     *)
(* courtesy_yield, for every number of fibers and every size of the pipe.  *)
(*                                                                         *)
(* NInv is inductive together with EInv: the fibers that wait for room     *)
(* form one stack with queue_ctx_fd's context on top, and each is to swap  *)
(* to a fiber of its own that it created and that has not run.             *)
(***************************************************************************)
EXTENDS EpollWorkerProofs

(* The fibers that wait for room in the pipe, the last one on top:         *)
(* queue_ctx_fd is mapped to it and each remembers the one below.          *)
Stack(s) ==
    /\ s \in Seq(Fibers)
    /\ \A i \in 1..Len(s) : pc[s[i]] = "full"
    /\ \A f \in Fibers : pc[f] = "full" => \E i \in 1..Len(s) : s[i] = f
    /\ \A i, j \in 1..Len(s) : s[i] = s[j] => i = j
    /\ fd_map[QueueW] = IF Len(s) = 0 THEN EventLoop ELSE s[Len(s)]
    /\ \A i \in 1..Len(s) : previous_context[s[i]] = IF i = 1 THEN EventLoop ELSE s[i - 1]

Stacked == \E s : Stack(s)

(* The stack without f, with the map m.                                    *)
Others(f, m, s) ==
    /\ s \in Seq(Fibers)
    /\ \A i \in 1..Len(s) : pc[s[i]] = "full" /\ s[i] # f
    /\ \A g \in Fibers : g # f /\ pc[g] = "full" => \E i \in 1..Len(s) : s[i] = g
    /\ \A i, j \in 1..Len(s) : s[i] = s[j] => i = j
    /\ m[QueueW] = IF Len(s) = 0 THEN EventLoop ELSE s[Len(s)]
    /\ \A i \in 1..Len(s) : previous_context[s[i]] = IF i = 1 THEN EventLoop ELSE s[i - 1]

(* Only the top one is resumed; it swaps to the fiber it created, which    *)
(* nobody else will run; who is in the pipe is there once, and does not    *)
(* run.                                                                    *)
NInv ==
    /\ Stacked
    /\ \A f \in Fibers : Running(f) /\ pc[f] = "full" => fd_map[QueueW] = f
    /\ \A f \in Fibers : pc[f] = "full" =>
         save_ctx[f] \in Fibers /\ pc[save_ctx[f]] = "created" /\ ~Running(save_ctx[f])
    /\ \A f, g \in Fibers : pc[f] = "full" /\ pc[g] = "full" /\ save_ctx[f] = save_ctx[g] => f = g
    /\ \A i \in 1..Len(pipe) : pc[pipe[i]] = "queued" /\ ~Running(pipe[i])
    /\ \A i, j \in 1..Len(pipe) : pipe[i] = pipe[j] => i = j
    /\ \A f \in Fibers : current = f => pc[f] \notin {"new", "done"}

(* A fiber is put on top of the stack.                                     *)
LEMMA Pushes ==
    ASSUME NEW s \in Seq(Fibers), NEW f \in Fibers
    PROVE  /\ Append(s, f) \in Seq(Fibers) /\ Len(Append(s, f)) = Len(s) + 1 /\ Len(s) \in Nat
           /\ Append(s, f)[Len(s) + 1] = f /\ \A i \in 1..Len(s) : Append(s, f)[i] = s[i]
  OBVIOUS

(* A fiber f about to swap to t, which nobody else is to swap to; m and p  *)
(* are the map and the places of the moment.                               *)
Swapping(f, m, p, t) ==
    /\ f \in Fibers /\ t \in Fibers /\ Running(f) /\ pc[f] \in {"run", "full"}
    /\ m \in [Descriptors -> Contexts] /\ p \in [Fibers -> Places]
    /\ p[t] = "created" /\ pc[t] \in {"new", "created"}
    /\ \A g \in Fibers : g # t => p[g] = pc[g]
    /\ \A g \in Fibers : g # f /\ pc[g] = "full" => save_ctx[g] # t
    /\ save_ctx'[f] = t /\ \A g \in Fibers : g # f => save_ctx'[g] = save_ctx[g]

(* queue_context_swap, with the stack s of the other waiters.              *)
LEMMA QueuesOnce ==
    ASSUME EInv, NInv, NEW f, NEW r, NEW m, NEW p, NEW t, NEW s,
           Swapping(f, m, p, t), Others(f, m, s), queue_context_swap(f, r, m, p, t)
    PROVE  NInv'
  <1>1. current = f /\ waiting = FALSE
    BY Zenon DEF EInv, Types, Running, Swapping
  <1>2. f \in Fibers /\ t \in Fibers /\ t # f /\ p[t] = "created" /\ save_ctx'[f] = t
    BY DEF Swapping
  <1>3. /\ p \in [Fibers -> Places] /\ m \in [Descriptors -> Contexts]
        /\ previous_context \in [Fibers -> Contexts]
        /\ QueueW \in Descriptors /\ {"queued", "full"} \subseteq Places
    BY DEF Swapping, Descriptors, Places, EInv, Types
  <1>4. \A g \in Fibers : g # f => (p[g] = "full" <=> pc[g] = "full")
    BY DEF Swapping
  <1>5. s \in Seq(Fibers) /\ Len(s) \in Nat
    BY DEF Others
  <1>6. \A i \in 1..Len(s) : s[i] \in Fibers /\ s[i] # f /\ p[s[i]] = "full"
    BY <1>4, <1>5 DEF Others
  <1>7. \A g \in Fibers : g # f /\ p[g] = "full" => \E i \in 1..Len(s) : s[i] = g
    BY <1>4 DEF Others
  <1>8. \A i, j \in 1..Len(s) : s[i] = s[j] => i = j
    BY DEF Others
  <1>9. m[QueueW] = IF Len(s) = 0 THEN EventLoop ELSE s[Len(s)]
    BY DEF Others
  <1>10. \A i \in 1..Len(s) : previous_context[s[i]] = IF i = 1 THEN EventLoop ELSE s[i - 1]
    BY DEF Others
  <1>11. \A g \in Fibers : g # f /\ p[g] = "full" =>
           /\ save_ctx'[g] \in Fibers /\ p[save_ctx'[g]] = "created"
           /\ save_ctx'[g] # t /\ save_ctx'[g] # f
    <2> SUFFICES ASSUME NEW g \in Fibers, g # f, p[g] = "full"
                 PROVE  /\ save_ctx'[g] \in Fibers /\ p[save_ctx'[g]] = "created"
                        /\ save_ctx'[g] # t /\ save_ctx'[g] # f
      OBVIOUS
    <2>1. pc[g] = "full" /\ save_ctx'[g] = save_ctx[g] /\ save_ctx[g] # t
      BY <1>4 DEF Swapping
    <2>2. save_ctx[g] \in Fibers /\ pc[save_ctx[g]] = "created"
      BY <2>1 DEF NInv
    <2> QED
      BY <2>1, <2>2 DEF Swapping
  <1>12. \A g, h \in Fibers :
           (g # f /\ h # f /\ p[g] = "full" /\ p[h] = "full" /\ save_ctx'[g] = save_ctx'[h]) => g = h
    <2>1. \A g \in Fibers : g # f /\ p[g] = "full" => pc[g] = "full" /\ save_ctx'[g] = save_ctx[g]
      BY <1>4 DEF Swapping
    <2> QED
      BY <2>1 DEF NInv
  <1>13. pipe \in Seq(Fibers) /\ Len(pipe) \in Nat
    BY DEF EInv, Types
  <1>14. \A i \in 1..Len(pipe) : pipe[i] \in Fibers /\ pc[pipe[i]] = "queued"
    BY <1>13 DEF NInv
  <1>15. \A i \in 1..Len(pipe) : pipe[i] # t /\ pipe[i] # f /\ p[pipe[i]] = "queued"
    BY <1>14 DEF Swapping
  <1>16. \A i, j \in 1..Len(pipe) : pipe[i] = pipe[j] => i = j
    BY DEF NInv
  <1>17. CASE CanWrite
    <2>1. /\ pipe' = Append(pipe, f) /\ pc' = [p EXCEPT ![f] = "queued"]
          /\ current' = t /\ fd_map' = m /\ waiting' = FALSE /\ previous_context' = previous_context
      BY <1>1, <1>17 DEF queue_context_swap, Enqueue
    <2>2. /\ pipe' \in Seq(Fibers) /\ Len(pipe') = Len(pipe) + 1 /\ pipe'[Len(pipe) + 1] = f
          /\ \A i \in 1..Len(pipe) : pipe'[i] = pipe[i]
      BY <1>2, <1>13, <2>1, Pushes
    <2>3. pc'[f] = "queued" /\ \A g \in Fibers : g # f => pc'[g] = p[g]
      BY <1>2, <1>3, <2>1
    <2>4. Stack(s)'
      <3>1. \A i \in 1..Len(s) : pc'[s[i]] = "full"
        BY <1>6, <2>3
      <3>2. \A g \in Fibers : pc'[g] = "full" => \E i \in 1..Len(s) : s[i] = g
        BY <1>7, <2>3
      <3> QED
        BY <1>5, <1>8, <1>9, <1>10, <2>1, <3>1, <3>2 DEF Stack
    <2>5. \A g : Running(g)' => g = t
      BY <2>1 DEF Running
    <2>6. pc'[t] = "created"
      BY <1>2, <2>3
    <2>7. \A g \in Fibers : pc'[g] = "full" =>
            save_ctx'[g] \in Fibers /\ pc'[save_ctx'[g]] = "created" /\ ~Running(save_ctx[g])'
      <3>1. \A g \in Fibers : pc'[g] = "full" =>
              save_ctx'[g] \in Fibers /\ pc'[save_ctx'[g]] = "created" /\ save_ctx'[g] # t
        BY <1>11, <2>3
      <3> QED
        BY <2>1, <3>1 DEF Running
    <2>8. \A g, h \in Fibers : pc'[g] = "full" /\ pc'[h] = "full" /\ save_ctx'[g] = save_ctx'[h] => g = h
      BY <1>12, <2>3
    <2>9. \A i \in 1..Len(pipe') : pc'[pipe'[i]] = "queued" /\ ~Running(pipe[i])'
      <3>1. ASSUME NEW i \in 1..Len(pipe') PROVE pc'[pipe'[i]] = "queued" /\ pipe'[i] # t
        <4>1. CASE i \in 1..Len(pipe)
          BY <1>14, <1>15, <2>2, <2>3, <4>1
        <4>2. CASE i = Len(pipe) + 1
          BY <1>2, <2>2, <2>3, <4>2
        <4> QED
          BY <1>13, <2>2, <4>1, <4>2
      <3> QED
        BY <2>1, <3>1 DEF Running
    <2>10. \A i, j \in 1..Len(pipe') : pipe'[i] = pipe'[j] => i = j
      BY <1>13, <1>15, <1>16, <2>2
    <2>11. Stacked'
      BY <2>4 DEF Stacked
    <2>12. \A g \in Fibers : current' = g => pc'[g] \notin {"new", "done"}
      BY <2>1, <2>6
    <2>13. \A g \in Fibers : Running(g)' /\ pc'[g] = "full" => fd_map'[QueueW] = g
      BY <2>5, <2>6
    <2> QED
      BY <2>7, <2>8, <2>9, <2>10, <2>11, <2>12, <2>13 DEF NInv
  <1>18. CASE ~CanWrite
    <2>1. /\ previous_context' = [previous_context EXCEPT ![f] = m[QueueW]]
          /\ fd_map' = [m EXCEPT ![QueueW] = f] /\ pc' = [p EXCEPT ![f] = "full"]
          /\ waiting' = TRUE /\ current' = f /\ pipe' = pipe
      BY <1>1, <1>18 DEF queue_context_swap, AwaitRoom, EnterWait
    <2>2. pc'[f] = "full" /\ \A g \in Fibers : g # f => pc'[g] = p[g]
      BY <1>2, <1>3, <2>1
    <2>3. fd_map'[QueueW] = f /\ previous_context'[f] = m[QueueW]
          /\ \A g \in Fibers : g # f => previous_context'[g] = previous_context[g]
      BY <1>2, <1>3, <2>1
    <2>4. PICK u : u = Append(s, f)
      OBVIOUS
    <2>5. /\ u \in Seq(Fibers) /\ Len(u) = Len(s) + 1 /\ u[Len(s) + 1] = f
          /\ \A i \in 1..Len(s) : u[i] = s[i]
      BY <1>2, <1>5, <2>4, Pushes
    <2>6. \A i \in 1..Len(u) : i \in 1..Len(s) \/ i = Len(s) + 1
      BY <1>5, <2>5
    <2>7. Stack(u)'
      <3>1. \A i \in 1..Len(u) : pc'[u[i]] = "full"
        BY <1>6, <2>2, <2>5, <2>6
      <3>2. ASSUME NEW g \in Fibers, pc'[g] = "full" PROVE \E i \in 1..Len(u) : u[i] = g
        <4>1. CASE g = f
          BY <1>5, <2>5, <4>1
        <4>2. CASE g # f
          <5>1. PICK i \in 1..Len(s) : s[i] = g
            BY <1>7, <2>2, <3>2, <4>2
          <5> QED
            BY <1>5, <2>5, <5>1
        <4> QED
          BY <4>1, <4>2
      <3>3. \A i, j \in 1..Len(u) : u[i] = u[j] => i = j
        BY <1>6, <1>8, <2>5, <2>6
      <3>4. fd_map'[QueueW] = u[Len(u)] /\ Len(u) # 0
        BY <1>5, <2>3, <2>5
      <3>5. ASSUME NEW i \in 1..Len(u)
            PROVE  previous_context'[u[i]] = IF i = 1 THEN EventLoop ELSE u[i - 1]
        <4>1. CASE i \in 1..Len(s)
          <5>1. u[i] = s[i] /\ (i # 1 => u[i - 1] = s[i - 1])
            BY <1>5, <2>5, <4>1
          <5> QED
            BY <1>6, <1>10, <2>3, <4>1, <5>1
        <4>2. CASE i = Len(s) + 1
          <5>1. u[i] = f /\ i - 1 = Len(s) /\ (i = 1 <=> Len(s) = 0)
                /\ (i # 1 => u[i - 1] = s[Len(s)])
            BY <1>5, <2>5, <4>2
          <5> QED
            BY <1>9, <2>3, <5>1
        <4> QED
          BY <2>6, <4>1, <4>2
      <3> QED
        BY <2>5, <3>1, <3>2, <3>3, <3>4, <3>5 DEF Stack
    <2>8. \A g : ~Running(g)'
      BY <2>1 DEF Running
    <2>9. \A g \in Fibers : pc'[g] = "full" => save_ctx'[g] \in Fibers /\ pc'[save_ctx'[g]] = "created"
      BY <1>2, <1>11, <2>2
    <2>10. \A g, h \in Fibers : pc'[g] = "full" /\ pc'[h] = "full" /\ save_ctx'[g] = save_ctx'[h] => g = h
      BY <1>2, <1>11, <1>12, <2>2
    <2>11. \A i \in 1..Len(pipe') : pc'[pipe'[i]] = "queued"
      BY <1>14, <1>15, <2>1, <2>2
    <2>12. \A i, j \in 1..Len(pipe') : pipe'[i] = pipe'[j] => i = j
      BY <1>16, <2>1
    <2>13. Stacked'
      BY <2>7 DEF Stacked
    <2>14. \A g \in Fibers : current' = g => pc'[g] \notin {"new", "done"}
      BY <2>1, <2>2
    <2> QED
      BY <2>8, <2>9, <2>10, <2>11, <2>12, <2>13, <2>14 DEF NInv
  <1> QED
    BY <1>17, <1>18


(* A fiber hands over to one it has created.                               *)
LEMMA HandOverOnce == ASSUME EInv, NInv, NEW f \in Fibers, HandOver(f) PROVE NInv'
  <1>1. Running(f) /\ pc[f] = "run"
    BY DEF HandOver, Begin, At
  <1>2. PICK g \in Fibers : /\ pc[g] = "new" /\ save_ctx' = [save_ctx EXCEPT ![f] = g]
                            /\ queue_context_swap(f, ep_ready, fd_map, [pc EXCEPT ![g] = "created"], g)
    BY DEF HandOver
  <1>3. PICK p : p = [pc EXCEPT ![g] = "created"]
    OBVIOUS
  <1>4. /\ pc \in [Fibers -> Places] /\ p \in [Fibers -> Places] /\ p[g] = "created"
        /\ \A h \in Fibers : h # g => p[h] = pc[h]
    BY <1>3 DEF EInv, Types, Places
  <1>5. save_ctx'[f] = g /\ \A h \in Fibers : h # f => save_ctx'[h] = save_ctx[h]
    BY <1>2 DEF EInv, Types
  <1>6. PICK s : Stack(s)
    BY DEF NInv, Stacked
  <1>7. Others(f, fd_map, s)
    BY <1>1, <1>6 DEF Stack, Others
  <1>8. \A h \in Fibers : h # f /\ pc[h] = "full" => save_ctx[h] # g
    BY <1>2 DEF NInv
  <1>9. queue_context_swap(f, ep_ready, fd_map, p, g)
    BY <1>2, <1>3
  <1>10. Swapping(f, fd_map, p, g)
    <2>1. fd_map \in [Descriptors -> Contexts]
      BY DEF EInv, Types
    <2> QED
      BY <1>1, <1>2, <1>4, <1>5, <1>8, <2>1 DEF Swapping
  <1> QED
    BY <1>7, <1>9, <1>10, QueuesOnce

(* The fiber on top of the stack tries again.                              *)
LEMMA FullOnce == ASSUME EInv, NInv, NEW f \in Fibers, WakeFromFull(f) PROVE NInv'
  <1> DEFINE m == [fd_map EXCEPT ![QueueW] = previous_context[f]]
  <1>1. /\ Running(f) /\ pc[f] = "full" /\ queue_context_swap(f, ep_ready, m, pc, save_ctx[f])
        /\ UNCHANGED save_ctx
    BY DEF WakeFromFull, At
  <1>2. m \in [Descriptors -> Contexts] /\ m[QueueW] = previous_context[f] /\ pc \in [Fibers -> Places]
    BY DEF EInv, Types, Descriptors
  <1> HIDE DEF m
  <1>3. PICK u : Stack(u)
    BY DEF NInv, Stacked
  <1>4. PICK n \in Nat : n = Len(u)
    BY <1>3 DEF Stack
  <1>5. n # 0 /\ u[n] = f /\ u \in Seq(Fibers)
    <2>1. fd_map[QueueW] = f
      BY <1>1 DEF NInv
    <2> QED
      BY <1>3, <1>4, <2>1, Names DEF Stack
  <1>6. PICK s : s = SubSeq(u, 1, n - 1)
    OBVIOUS
  <1>7. s \in Seq(Fibers) /\ Len(s) = n - 1 /\ \A i \in 1..(n - 1) : s[i] = u[i]
    BY <1>4, <1>5, <1>6
  <1>8. \A i \in 1..Len(s) : i \in 1..Len(u) /\ i # n /\ s[i] = u[i] /\ (i # 1 => s[i - 1] = u[i - 1])
    BY <1>4, <1>5, <1>7
  <1>9. \A i \in 1..Len(s) : pc[s[i]] = "full" /\ s[i] # f
    <2>1. n \in 1..Len(u)
      BY <1>4, <1>5
    <2> QED
      BY <1>3, <1>5, <1>8, <2>1 DEF Stack
  <1>10. ASSUME NEW g \in Fibers, g # f, pc[g] = "full" PROVE \E i \in 1..Len(s) : s[i] = g
    <2>1. PICK i \in 1..Len(u) : u[i] = g
      BY <1>3, <1>10 DEF Stack
    <2>2. i \in 1..Len(s)
      BY <1>4, <1>5, <1>7, <1>10, <2>1
    <2> QED
      BY <1>8, <2>1, <2>2
  <1>11. \A i, j \in 1..Len(s) : s[i] = s[j] => i = j
    BY <1>3, <1>8 DEF Stack
  <1>12. m[QueueW] = IF Len(s) = 0 THEN EventLoop ELSE s[Len(s)]
    <2>1. previous_context[f] = IF n = 1 THEN EventLoop ELSE u[n - 1]
      BY <1>3, <1>4, <1>5 DEF Stack
    <2>2. n # 1 => s[n - 1] = u[n - 1]
      BY <1>4, <1>5, <1>7
    <2> QED
      BY <1>2, <1>4, <1>5, <1>7, <2>1, <2>2
  <1>13. \A i \in 1..Len(s) : previous_context[s[i]] = IF i = 1 THEN EventLoop ELSE s[i - 1]
    BY <1>3, <1>8 DEF Stack
  <1>14. PICK t \in Fibers : t = save_ctx[f]
    BY <1>1 DEF NInv
  <1>15. /\ pc[t] = "created" /\ \A g \in Fibers : g # f /\ pc[g] = "full" => save_ctx[g] # t
    BY <1>1, <1>14 DEF NInv
  <1>16. queue_context_swap(f, ep_ready, m, pc, t)
    BY <1>1, <1>14
  <1>17. Others(f, m, s)
    BY <1>7, <1>9, <1>10, <1>11, <1>12, <1>13 DEF Others
  <1>18. Swapping(f, m, pc, t)
    BY <1>1, <1>2, <1>14, <1>15 DEF Swapping
  <1> QED
    BY <1>16, <1>17, <1>18, QueuesOnce

(* What leaves the waiters, the pipe and who runs alone.                   *)
LEMMA SameOnce ==
    ASSUME EInv, NInv, UNCHANGED <<current, waiting, fd_map, pipe, pc, previous_context, save_ctx>>
    PROVE  NInv'
  <1>1. Stacked'
    BY DEF NInv, Stacked, Stack
  <1> QED
    BY <1>1 DEF NInv, Running

(* The event loop resumes a fiber that waits for its socket, or the top of *)
(* the stack.                                                              *)
LEMMA YieldOnce == ASSUME EInv, NInv, yield PROVE NInv'
  <1>1. PICK e : e = ep_ready[Reported]
    OBVIOUS
  <1>2. /\ Reported # 0 /\ waiting' = FALSE /\ current' = fd_map[e]
        /\ UNCHANGED <<fd_map, pipe, pc, previous_context, save_ctx>>
    BY <1>1 DEF yield, fiberVars
  <1>3. e \in Descriptors
    BY <1>1, <1>2, After DEF EInv
  <1>4. ASSUME NEW f \in Fibers, current' = f
        PROVE  pc[f] = "fd" \/ (pc[f] = "full" /\ fd_map[QueueW] = f)
    <2>1. CASE e \in Fibers
      BY <1>2, <1>4, <2>1, Names DEF EInv, Map
    <2>2. CASE e = QueueR
      BY <1>2, <1>4, <2>2, Names DEF EInv, Map
    <2>3. CASE e = QueueW
      <3>1. PICK s : Stack(s)
        BY DEF NInv, Stacked
      <3>2. Len(s) \in Nat /\ Len(s) # 0 /\ f = s[Len(s)]
        <4>1. fd_map[QueueW] = f /\ f # EventLoop
          BY <1>2, <1>4, <2>3, Names
        <4>2. Len(s) \in Nat
          BY <3>1 DEF Stack
        <4>3. fd_map[QueueW] = IF Len(s) = 0 THEN EventLoop ELSE s[Len(s)]
          BY <3>1 DEF Stack
        <4> QED
          BY <4>1, <4>2, <4>3
      <3>3. Len(s) \in 1..Len(s)
        BY <3>2
      <3> QED
        BY <1>2, <1>4, <2>3, <3>1, <3>2, <3>3 DEF Stack
    <2> QED
      BY <1>3, <2>1, <2>2, <2>3 DEF Descriptors
  <1>5. Stacked'
    BY <1>2 DEF NInv, Stacked, Stack
  <1>6. \A f \in Fibers : Running(f)' => current' = f
    BY DEF Running
  <1>7. \A i \in 1..Len(pipe) : pipe[i] \in Fibers /\ pc[pipe[i]] = "queued"
    BY DEF NInv, EInv, Types
  <1>8. \A i \in 1..Len(pipe) : ~(current' = pipe[i])
    BY <1>4, <1>7
  <1>9. \A f \in Fibers : pc[f] = "full" => ~(current' = save_ctx[f])
    BY <1>4 DEF NInv
  <1> QED
    BY <1>2, <1>4, <1>5, <1>8, <1>9 DEF NInv, Running

(* The event loop waits; the reader of the pipe resumes its first entry.   *)
LEMMA LoopOnce == ASSUME EInv, NInv, event_loop \/ pipe_to_context PROVE NInv'
  <1>0. /\ UNCHANGED <<fd_map, pc, previous_context, save_ctx>>
        /\ pipe \in Seq(Fibers)
    BY DEF event_loop, pipe_to_context, fiberVars, EInv, Types
  <1>1. Stacked'
    BY <1>0 DEF NInv, Stacked, Stack
  <1>2. CASE waiting' = TRUE /\ current' = current /\ pipe' = pipe
    BY <1>0, <1>1, <1>2 DEF NInv, Running
  <1>3. CASE pipe # <<>> /\ current' = Head(pipe) /\ pipe' = Tail(pipe)
    <2>1. PICK n \in Nat : n = Len(pipe)
      BY <1>0
    <2>2. /\ n # 0 /\ current' = pipe[1] /\ pipe[1] \in Fibers /\ Len(pipe') = n - 1
          /\ \A i \in 1..(n - 1) : pipe'[i] = pipe[i + 1]
      BY <1>0, <1>3, <2>1
    <2>3. pc[pipe[1]] = "queued" /\ \A i \in 1..n : pipe[i] = pipe[1] => i = 1
      BY <2>1, <2>2 DEF NInv
    <2>4. \A i \in 1..(n - 1) : pipe[i + 1] # pipe[1]
      BY <2>1, <2>3
    <2>5. \A i \in 1..Len(pipe') : pc'[pipe'[i]] = "queued" /\ pipe'[i] # current'
      BY <1>0, <2>1, <2>2, <2>4 DEF NInv
    <2>6. \A i, j \in 1..Len(pipe') : pipe'[i] = pipe'[j] => i = j
      <3> SUFFICES ASSUME NEW i \in 1..(n - 1), NEW j \in 1..(n - 1), pipe[i + 1] = pipe[j + 1] PROVE i = j
        BY <2>2
      <3>1. i + 1 \in 1..Len(pipe) /\ j + 1 \in 1..Len(pipe)
        BY <2>1
      <3>2. i + 1 = j + 1
        BY <3>1 DEF NInv
      <3> QED
        BY <2>1, <3>2
    <2>7. \A f \in Fibers : pc'[f] = "full" =>
            save_ctx'[f] \in Fibers /\ pc'[save_ctx'[f]] = "created" /\ save_ctx'[f] # current'
      BY <1>0, <2>2, <2>3 DEF NInv
    <2>8. \A f \in Fibers : current' = f => pc'[f] = "queued"
      BY <1>0, <2>2, <2>3
    <2> QED
      BY <1>0, <1>1, <2>5, <2>6, <2>7, <2>8 DEF NInv, Running
  <1> QED
    BY <1>2, <1>3, Zenon DEF event_loop, pipe_to_context, EnterWait, kernelVars

(* Whatever else a fiber does.                                             *)
LEMMA AloneOnce ==
    ASSUME EInv, NInv, NEW f \in Fibers,
           Receive(f) \/ WaitForInput(f) \/ WakeFromInput(f) \/ Continue(f) \/ Finish(f)
    PROVE  NInv'
  <1>1. /\ Running(f) /\ pc[f] # "full" /\ UNCHANGED <<pipe, previous_context, save_ctx>>
        /\ fd_map' = fd_map \/ \E x : fd_map' = [fd_map EXCEPT ![f] = x]
    BY Zenon DEF Receive, WaitForInput, WakeFromInput, Continue, Finish, Begin, At, kernelVars, loopVars
  <1>2. \/ pc' = pc /\ pc[f] = "run" /\ current' = f
        \/ \E q \in {"fd", "run"} : pc' = [pc EXCEPT ![f] = q] /\ current' = f
        \/ pc' = [pc EXCEPT ![f] = "done"] /\ current' = EventLoop
    BY DEF Receive, WaitForInput, WakeFromInput, Continue, Finish, Begin, At, Running, loopVars, EnterWait
  <1>3. /\ pc'[f] \in {"fd", "run", "done"} /\ \A g \in Fibers : g # f => pc'[g] = pc[g]
        /\ current' \in {f, EventLoop} /\ (current' = f => pc'[f] # "done")
    BY <1>2, Names DEF EInv, Types
  <1>4. fd_map'[QueueW] = fd_map[QueueW]
    BY <1>1, Names DEF EInv, Types, Descriptors
  <1>5. current = f /\ \A i \in 1..Len(pipe) : pipe[i] \in Fibers /\ pipe[i] # f
    BY <1>1 DEF EInv, Types, NInv, Running
  <1>6. Stacked'
    <2>1. PICK s : Stack(s)
      BY DEF NInv, Stacked
    <2>2. \A i \in 1..Len(s) : s[i] \in Fibers /\ s[i] # f
      BY <1>1, <2>1 DEF Stack
    <2>3. Stack(s)'
      BY <1>1, <1>3, <1>4, <2>1, <2>2 DEF Stack
    <2> QED
      BY <2>3 DEF Stacked
  <1>7. \A g \in Fibers : pc'[g] = "full" =>
          g # f /\ pc[g] = "full" /\ save_ctx[g] \in Fibers /\ save_ctx[g] # f /\ pc'[save_ctx[g]] = "created"
    BY <1>1, <1>3 DEF NInv
  <1>8. \A i \in 1..Len(pipe') : pc'[pipe'[i]] = "queued" /\ pipe'[i] # f /\ pipe'[i] # EventLoop
    BY <1>1, <1>3, <1>5, Names DEF NInv
  <1>9. \A g \in Fibers : current' = g => g = f /\ pc'[g] \notin {"new", "done", "full"}
    BY <1>3, Names
  <1> QED
    BY <1>1, <1>3, <1>6, <1>7, <1>8, <1>9, Names DEF NInv, Running

(* After epoll_worker_init nobody waits for room in the pipe.              *)
LEMMA StartOnce == ASSUME EpollInit PROVE NInv
  <1>1. Stack(<<>>)
    BY DEF EpollInit, Stack, Descriptors, QueueR, QueueW
  <1> QED
    BY <1>1 DEF EpollInit, NInv, Stacked

(* Without courtesy_yield every step keeps the stack of the waiters.       *)
LEMMA StepOnce == ASSUME "courtesy" \notin Ops, EInv, NInv, [EpollNext]_epoll_vars PROVE NInv'
  <1>1. ASSUME NEW f \in Fibers, RunFiber(f) PROVE NInv'
    <2>1. ~courtesy_yield(f)
      BY DEF courtesy_yield, Begin
    <2> QED
      BY <1>1, <2>1, AloneOnce, HandOverOnce, FullOnce DEF RunFiber
  <1>2. ASSUME NEW f \in Fibers, SocketInput(f) \/ SocketWritable(f) PROVE NInv'
    BY <1>2, SameOnce DEF SocketInput, SocketWritable, loopVars, fiberVars
  <1>3. CASE Scheduler
    BY <1>3, YieldOnce, LoopOnce DEF Scheduler
  <1>4. CASE UNCHANGED epoll_vars
    BY <1>4, SameOnce DEF epoll_vars, kernelVars, loopVars, fiberVars
  <1> QED
    BY <1>1, <1>2, <1>3, <1>4 DEF EpollNext

(* What the invariants say in the words of the properties.                 *)
LEMMA Once == ASSUME EInv, NInv PROVE QueuedOnce /\ NoResumeOfFinished /\ Stacked
  <1>1. NoResumeOfFinished
    BY DEF NInv, NoResumeOfFinished
  <1>2. QueuedOnce
    <2> SUFFICES ASSUME NEW f \in Fibers
                 PROVE  Cardinality({i \in DOMAIN pipe : pipe[i] = f}) =
                            IF pc[f] = "queued" /\ ~Running(f) THEN 1 ELSE 0
      BY DEF QueuedOnce
    <2>1. DOMAIN pipe = 1..Len(pipe)
      BY DEF EInv, Types
    <2>2. CASE pc[f] = "queued" /\ ~Running(f)
      <3>1. PICK i \in DOMAIN pipe : pipe[i] = f
        BY <2>2 DEF EInv, QueuedKept
      <3>2. {j \in DOMAIN pipe : pipe[j] = f} = {i}
        BY <2>1, <3>1 DEF NInv
      <3> QED
        BY <2>2, <3>2, FS_Singleton
    <2>3. CASE ~(pc[f] = "queued" /\ ~Running(f))
      <3>1. {j \in DOMAIN pipe : pipe[j] = f} = {}
        BY <2>1, <2>3 DEF NInv
      <3> QED
        BY <2>3, <3>1, FS_EmptySet
    <2> QED
      BY <2>2, <2>3
  <1> QED
    BY <1>1, <1>2 DEF NInv

(* Fibers that only receive and hand over are queued once each, are never  *)
(* resumed after their end, and wait for room in a stack that loses none   *)
(* of them, however small the pipe.  With courtesy_yield a fiber can be    *)
(* resumed after its end: see NoResumeOfFinished.                          *)
THEOREM WithoutCourtesy ==
    ASSUME "courtesy" \notin Ops
    PROVE  EpollSpec => [](QueuedOnce /\ NoResumeOfFinished /\ Stacked)
  <1>1. EpollInit => NInv
    BY StartOnce
  <1>2. EInv /\ NInv /\ [EpollNext]_epoll_vars => NInv'
    BY StepOnce
  <1>3. EInv /\ NInv => QueuedOnce /\ NoResumeOfFinished /\ Stacked
    BY Once
  <1> QED
    BY <1>1, <1>2, <1>3, Invariance, PTL DEF EpollSpec

=============================================================================
