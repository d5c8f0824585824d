------------------------ MODULE TimeoutHandlerProofs ------------------------
(***************************************************************************)
(* Theorems about TimeoutHandler, for every set of descriptors, every      *)
(* timeout and every number and size of wall clock steps.                  *)
(***************************************************************************)
EXTENDS TimeoutHandler, TLAPS

(* list_insert_tail: one more entry, at the end.                           *)
LEMMA InsertFacts ==
    ASSUME NEW s \in Seq(Fds), NEW fd \in Fds
    PROVE  /\ list_insert_tail(s, fd) \in Seq(Fds)
           /\ Len(s) \in Nat
           /\ Len(list_insert_tail(s, fd)) = (Len(s) + 1)
           /\ \A i \in 1..Len(s) : list_insert_tail(s, fd)[i] = s[i] /\ s[i] \in Fds
           /\ list_insert_tail(s, fd)[Len(s) + 1] = fd
  BY DEF list_insert_tail

(* list_remove: one entry fewer, the others in the order they had.         *)
LEMMA UnlinkFacts ==
    ASSUME NEW s \in Seq(Fds), NEW k \in 1..Len(s)
    PROVE  /\ Unlink(s, k) \in Seq(Fds)
           /\ Len(Unlink(s, k)) = (Len(s) - 1)
           /\ \A i \in 1..(Len(s) - 1) : /\ Skip(k, i) \in 1..Len(s)
                                         /\ Unlink(s, k)[i] = s[Skip(k, i)]
           /\ \A i, j \in 1..(Len(s) - 1) : i < j => Skip(k, i) < Skip(k, j)
  <1>1. /\ Len(s) \in Nat
        /\ DOMAIN s = 1..Len(s)
        /\ \A i \in 1..Len(s) : s[i] \in Fds
    OBVIOUS
  <1>2. \A i \in 1..(Len(s) - 1) : Skip(k, i) \in 1..Len(s)
    BY <1>1 DEF Skip
  <1>3. Unlink(s, k) \in [1..(Len(s) - 1) -> Fds]
    BY <1>1, <1>2 DEF Unlink
  <1>4. Len(s) - 1 \in Nat
    BY <1>1
  <1>5. Unlink(s, k) \in Seq(Fds)
    BY <1>3, <1>4
  <1>6. \A i, j \in 1..(Len(s) - 1) : i < j => Skip(k, i) < Skip(k, j)
    BY <1>1 DEF Skip
  <1> QED
    BY <1>1, <1>2, <1>3, <1>4, <1>5, <1>6 DEF Unlink

(* Types are preserved by every handler, and no descriptor is ever linked  *)
(* twice.                                                                  *)
LEMMA TypeStep ==
    ASSUME TypeOK, [Next]_vars
    PROVE  TypeOK'
  <1> USE TimeoutAssumption
  <1>1. ASSUME NEW fd \in Fds, timeout_handler_add_fd_data(fd)
        PROVE  TypeOK'
    <2>1. /\ chain' \in Seq(Fds)
          /\ Len(chain) \in Nat
          /\ Len(chain') = (Len(chain) + 1)
          /\ \A i \in 1..Len(chain) : chain'[i] = chain[i]
          /\ chain'[Len(chain) + 1] = fd
      BY <1>1, InsertFacts DEF TypeOK, timeout_handler_add_fd_data
    <2>2. ASSUME NEW i \in 1..Len(chain'), NEW j \in 1..Len(chain'), i < j
          PROVE  chain'[i] # chain'[j]
      <3>1. i \in 1..Len(chain) /\ chain'[i] = chain[i]
        BY <2>1, <2>2
      <3>2. CASE j = Len(chain) + 1
        BY <1>1, <2>1, <3>1, <3>2 DEF timeout_handler_add_fd_data, InChain
      <3>3. CASE j \in 1..Len(chain)
        BY <2>1, <2>2, <3>1, <3>3 DEF TypeOK
      <3> QED
        BY <2>1, <3>2, <3>3
    <2>3. armed' \in Nat /\ expired' \in BOOLEAN
      BY <1>1 DEF TypeOK, timeout_handler_add_fd_data, arm_if_empty
    <2> QED
      BY <1>1, <2>1, <2>2, <2>3 DEF TypeOK, timeout_handler_add_fd_data
  <1>2. ASSUME NEW fd \in Fds, TIMEOUT_HANDLER_REMOVE_FD_DATA(fd)
        PROVE  TypeOK'
    <2>1. PICK k \in 1..Len(chain) : chain[k] = fd /\ chain' = Unlink(chain, k)
      BY <1>2 DEF TIMEOUT_HANDLER_REMOVE_FD_DATA
    <2>2. /\ chain' \in Seq(Fds)
          /\ Len(chain') = (Len(chain) - 1)
          /\ \A i \in 1..(Len(chain) - 1) : /\ Skip(k, i) \in 1..Len(chain)
                                            /\ chain'[i] = chain[Skip(k, i)]
          /\ \A i, j \in 1..(Len(chain) - 1) : i < j => Skip(k, i) < Skip(k, j)
      BY <2>1, UnlinkFacts DEF TypeOK
    <2>3. ASSUME NEW i \in 1..Len(chain'), NEW j \in 1..Len(chain'), i < j
          PROVE  chain'[i] # chain'[j]
      <3>1. /\ Skip(k, i) \in 1..Len(chain) /\ Skip(k, j) \in 1..Len(chain)
            /\ Skip(k, i) < Skip(k, j)
            /\ chain'[i] = chain[Skip(k, i)] /\ chain'[j] = chain[Skip(k, j)]
        BY <2>2, <2>3
      <3> QED
        BY <3>1 DEF TypeOK
    <2> QED
      BY <1>2, <2>2, <2>3 DEF TypeOK, TIMEOUT_HANDLER_REMOVE_FD_DATA
  <1>3. ASSUME expiration_handler
        PROVE  TypeOK'
    <2>1. armed' \in Nat
      BY <1>3 DEF TypeOK, expiration_handler, rearm, Fresh
    <2>2. epoch' \subseteq Fds
      BY <1>3 DEF TypeOK, expiration_handler
    <2> QED
      BY <1>3, <2>1, <2>2 DEF TypeOK, expiration_handler
  <1>4. ASSUME Tick
        PROVE  TypeOK'
    BY <1>4 DEF TypeOK, Tick, Older
  <1>5. ASSUME ClockStep
        PROVE  TypeOK'
    BY <1>5 DEF TypeOK, ClockStep
  <1>6. CASE UNCHANGED vars
    BY <1>6 DEF TypeOK, vars
  <1> QED
    BY <1>1, <1>2, <1>3, <1>4, <1>5, <1>6 DEF Next

(* The timer is set whenever something is linked.                          *)
LEMMA ArmedStep ==
    ASSUME TypeOK, ArmedWhileLinked, [Next]_vars
    PROVE  ArmedWhileLinked'
  <1> USE TimeoutAssumption
  <1>1. ASSUME NEW fd \in Fds, timeout_handler_add_fd_data(fd)
        PROVE  ArmedWhileLinked'
    BY <1>1 DEF TypeOK, ArmedWhileLinked, timeout_handler_add_fd_data, arm_if_empty
  <1>2. ASSUME NEW fd \in Fds, TIMEOUT_HANDLER_REMOVE_FD_DATA(fd)
        PROVE  ArmedWhileLinked'
    <2>1. PICK k \in 1..Len(chain) : chain[k] = fd
      BY <1>2 DEF TIMEOUT_HANDLER_REMOVE_FD_DATA
    <2>2. chain # <<>>
      BY <2>1 DEF TypeOK
    <2> QED
      BY <1>2, <2>2 DEF ArmedWhileLinked, TIMEOUT_HANDLER_REMOVE_FD_DATA
  <1>3. ASSUME expiration_handler
        PROVE  ArmedWhileLinked'
    BY <1>3 DEF TypeOK, ArmedWhileLinked, expiration_handler, rearm, Fresh
  <1>4. ASSUME Tick
        PROVE  ArmedWhileLinked'
    <2>1. CASE armed = 1 \/ expired
      BY <1>4, <2>1 DEF ArmedWhileLinked, Tick
    <2>2. CASE armed # 1 /\ ~expired
      <3>1. chain # <<>> => armed > 1
        BY <2>2 DEF ArmedWhileLinked, TypeOK
      <3>2. armed \in Nat /\ armed' \in Nat
        BY TypeStep DEF TypeOK
      <3>3. chain' = chain /\ (armed > 1 => armed' = armed - 1)
        BY <1>4, <3>2 DEF Tick
      <3> QED
        BY <3>1, <3>2, <3>3 DEF ArmedWhileLinked
    <2> QED
      BY <2>1, <2>2
  <1>5. ASSUME ClockStep
        PROVE  ArmedWhileLinked'
    BY <1>5 DEF ArmedWhileLinked, ClockStep
  <1>6. CASE UNCHANGED vars
    BY <1>6 DEF ArmedWhileLinked, vars
  <1> QED
    BY <1>1, <1>2, <1>3, <1>4, <1>5, <1>6 DEF Next

(* Without clock steps: no timestamp in the future, no timer set for more  *)
(* than a period.                                                          *)
LEMMA PeriodStep ==
    ASSUME TypeOK, WithinPeriod, [Next]_vars
    PROVE  WithinPeriod'
  <1> USE TimeoutAssumption
  <1>1. ASSUME NEW fd \in Fds, timeout_handler_add_fd_data(fd)
        PROVE  WithinPeriod'
    BY <1>1 DEF TypeOK, WithinPeriod, timeout_handler_add_fd_data, arm_if_empty
  <1>2. ASSUME NEW fd \in Fds, TIMEOUT_HANDLER_REMOVE_FD_DATA(fd)
        PROVE  WithinPeriod'
    BY <1>2 DEF WithinPeriod, TIMEOUT_HANDLER_REMOVE_FD_DATA
  <1>3. ASSUME expiration_handler
        PROVE  WithinPeriod'
    BY <1>3 DEF TypeOK, WithinPeriod, expiration_handler, rearm, Fresh
  <1>4. ASSUME Tick
        PROVE  WithinPeriod'
    BY <1>4 DEF TypeOK, WithinPeriod, Tick, Older
  <1>5. ASSUME ClockStep
        PROVE  WithinPeriod'
    BY <1>5 DEF TypeOK, WithinPeriod, ClockStep
  <1>6. CASE UNCHANGED vars
    BY <1>6 DEF WithinPeriod, vars
  <1> QED
    BY <1>1, <1>2, <1>3, <1>4, <1>5, <1>6 DEF Next

(* Insertion at the tail, removal and expiration keep older entries first. *)
LEMMA SortedStep ==
    ASSUME TypeOK, WithinPeriod, ChainSorted, [Next]_vars
    PROVE  ChainSorted'
  <1> USE TimeoutAssumption
  <1>1. ASSUME NEW fd \in Fds, timeout_handler_add_fd_data(fd)
        PROVE  ChainSorted'
    <2>1. /\ Len(chain) \in Nat
          /\ Len(chain') = Len(chain) + 1
          /\ \A i \in 1..Len(chain) : chain'[i] = chain[i] /\ chain[i] \in Fds
          /\ chain'[Len(chain) + 1] = fd
      BY <1>1, InsertFacts DEF TypeOK, timeout_handler_add_fd_data
    <2> SUFFICES ASSUME steps' = 0,
                        NEW i \in 1..Len(chain'), NEW j \in 1..Len(chain'),
                        i < j, chain'[j] \notin epoch'
                 PROVE  chain'[i] \in epoch' \/ age'[chain'[i]] >= age'[chain'[j]]
      BY DEF ChainSorted
    <2>2. i \in 1..Len(chain) /\ chain'[i] = chain[i] /\ chain[i] \in Fds
      BY <2>1
    <2>3. chain[i] # fd
      BY <1>1, <2>2 DEF timeout_handler_add_fd_data, InChain
    <2>4. /\ age'[chain[i]] = age[chain[i]] /\ age'[fd] = 0
          /\ age[chain[i]] >= 0
          /\ (chain[i] \in epoch) = (chain[i] \in epoch')
      BY <1>1, <2>2, <2>3 DEF TypeOK, WithinPeriod, timeout_handler_add_fd_data
    <2>5. CASE j = Len(chain) + 1
      BY <2>1, <2>2, <2>4, <2>5
    <2>6. CASE j \in 1..Len(chain)
      <3>1. chain'[j] = chain[j] /\ chain[j] \in Fds
        BY <2>1, <2>6
      <3>2. chain[j] # fd
        BY <1>1, <2>6 DEF timeout_handler_add_fd_data, InChain
      <3>3. age'[chain[j]] = age[chain[j]] /\ chain[j] \notin epoch
        BY <1>1, <3>1, <3>2 DEF TypeOK, timeout_handler_add_fd_data
      <3> QED
        BY <1>1, <2>2, <2>4, <2>6, <3>1, <3>3 DEF ChainSorted, timeout_handler_add_fd_data
    <2> QED
      BY <2>1, <2>5, <2>6
  <1>2. ASSUME NEW fd \in Fds, TIMEOUT_HANDLER_REMOVE_FD_DATA(fd)
        PROVE  ChainSorted'
    <2>1. PICK k \in 1..Len(chain) : chain[k] = fd /\ chain' = Unlink(chain, k)
      BY <1>2 DEF TIMEOUT_HANDLER_REMOVE_FD_DATA
    <2>2. /\ Len(chain') = Len(chain) - 1
          /\ \A i \in 1..(Len(chain) - 1) : /\ Skip(k, i) \in 1..Len(chain)
                                            /\ chain'[i] = chain[Skip(k, i)]
          /\ \A i, j \in 1..(Len(chain) - 1) : i < j => Skip(k, i) < Skip(k, j)
      BY <2>1, UnlinkFacts DEF TypeOK
    <2> SUFFICES ASSUME steps' = 0,
                        NEW i \in 1..Len(chain'), NEW j \in 1..Len(chain'),
                        i < j, chain'[j] \notin epoch'
                 PROVE  chain'[i] \in epoch' \/ age'[chain'[i]] >= age'[chain'[j]]
      BY DEF ChainSorted
    <2>3. /\ Skip(k, i) \in 1..Len(chain) /\ Skip(k, j) \in 1..Len(chain)
          /\ Skip(k, i) < Skip(k, j)
          /\ chain'[i] = chain[Skip(k, i)] /\ chain'[j] = chain[Skip(k, j)]
      BY <2>2
    <2>4. UNCHANGED <<age, epoch, steps>>
      BY <1>2 DEF TIMEOUT_HANDLER_REMOVE_FD_DATA
    <2> QED
      BY <2>3, <2>4 DEF ChainSorted
  <1>3. ASSUME expiration_handler
        PROVE  ChainSorted'
    <2>1. UNCHANGED <<chain, age, steps>> /\ epoch \subseteq epoch'
      BY <1>3 DEF expiration_handler
    <2> QED
      BY <2>1 DEF ChainSorted
  <1>4. ASSUME Tick
        PROVE  ChainSorted'
    <2>1. \A i \in 1..Len(chain) : age'[chain[i]] = Older(age[chain[i]])
      BY <1>4 DEF TypeOK, Tick
    <2>2. \A i \in 1..Len(chain) : age[chain[i]] \in Int
      BY DEF TypeOK
    <2>3. \A a, b \in Int : a >= b => Older(a) >= Older(b)
      BY DEF Older
    <2>4. UNCHANGED <<chain, epoch, steps>>
      BY <1>4 DEF Tick
    <2> SUFFICES ASSUME steps' = 0,
                        NEW i \in 1..Len(chain), NEW j \in 1..Len(chain),
                        i < j, chain[j] \notin epoch
                 PROVE  chain[i] \in epoch \/ age'[chain[i]] >= age'[chain[j]]
      BY <2>4 DEF ChainSorted
    <2>5. chain[i] \in epoch \/ age[chain[i]] >= age[chain[j]]
      BY <2>4 DEF ChainSorted
    <2> QED
      BY <2>1, <2>2, <2>3, <2>5
  <1>5. ASSUME ClockStep
        PROVE  ChainSorted'
    BY <1>5 DEF TypeOK, ChainSorted, ClockStep
  <1>6. CASE UNCHANGED vars
    BY <1>6 DEF ChainSorted, vars
  <1> QED
    BY <1>1, <1>2, <1>3, <1>4, <1>5, <1>6 DEF Next

(* The one timerfd covers every live entry after every handler.            *)
LEMMA CoveredStep ==
    ASSUME IInv, [Next]_vars
    PROVE  DeadlineCovered'
  <1> USE TimeoutAssumption DEF IInv
  <1>1. ASSUME NEW fd \in Fds, timeout_handler_add_fd_data(fd)
        PROVE  DeadlineCovered'
    <2>1. /\ Len(chain) \in Nat
          /\ Len(chain') = Len(chain) + 1
          /\ \A i \in 1..Len(chain) : chain'[i] = chain[i] /\ chain[i] \in Fds
          /\ chain'[Len(chain) + 1] = fd
      BY <1>1, InsertFacts DEF TypeOK, timeout_handler_add_fd_data
    <2> SUFFICES ASSUME steps' = 0,
                        NEW i \in 1..Len(chain'), chain'[i] \notin epoch'
                 PROVE  expired' \/ (armed' > 0 /\ armed' + age'[chain'[i]] <= Timeout)
      BY DEF DeadlineCovered
    <2>2. CASE i = Len(chain) + 1
      <3>1. age'[chain'[i]] = 0
        BY <1>1, <2>1, <2>2 DEF TypeOK, timeout_handler_add_fd_data
      <3>2. expired' \/ (armed' > 0 /\ armed' <= Timeout)
        BY <1>1 DEF TypeOK, WithinPeriod, ArmedWhileLinked, timeout_handler_add_fd_data, arm_if_empty
      <3> QED
        BY <1>1, <3>1, <3>2 DEF TypeOK, timeout_handler_add_fd_data, arm_if_empty
    <2>3. CASE i \in 1..Len(chain)
      <3>1. chain[i] # fd /\ chain'[i] = chain[i] /\ chain[i] \in Fds
        BY <1>1, <2>1, <2>3 DEF timeout_handler_add_fd_data, InChain
      <3>2. age'[chain[i]] = age[chain[i]] /\ chain[i] \notin epoch
        BY <1>1, <3>1 DEF TypeOK, timeout_handler_add_fd_data
      <3>3. UNCHANGED <<armed, expired, steps>>
        BY <1>1, <2>3 DEF TypeOK, timeout_handler_add_fd_data, arm_if_empty
      <3> QED
        BY <2>3, <3>1, <3>2, <3>3 DEF DeadlineCovered
    <2> QED
      BY <2>1, <2>2, <2>3
  <1>2. ASSUME NEW fd \in Fds, TIMEOUT_HANDLER_REMOVE_FD_DATA(fd)
        PROVE  DeadlineCovered'
    <2>1. PICK k \in 1..Len(chain) : chain[k] = fd /\ chain' = Unlink(chain, k)
      BY <1>2 DEF TIMEOUT_HANDLER_REMOVE_FD_DATA
    <2>2. /\ Len(chain') = Len(chain) - 1
          /\ \A i \in 1..(Len(chain) - 1) : /\ Skip(k, i) \in 1..Len(chain)
                                            /\ chain'[i] = chain[Skip(k, i)]
      BY <2>1, UnlinkFacts DEF TypeOK
    <2>3. UNCHANGED <<age, epoch, armed, expired, steps>>
      BY <1>2 DEF TIMEOUT_HANDLER_REMOVE_FD_DATA
    <2> QED
      BY <2>2, <2>3 DEF DeadlineCovered
  <1>3. ASSUME expiration_handler
        PROVE  DeadlineCovered'
    <2>1. UNCHANGED <<chain, age, steps>> /\ rearm
      BY <1>3 DEF expiration_handler
    <2>2. \A i \in 1..Len(chain) : Overdue(i) => chain[i] \in epoch'
      BY <1>3 DEF expiration_handler
    <2>3. \A i \in 1..Len(chain) : chain[i] \in epoch => chain[i] \in epoch'
      BY <1>3 DEF expiration_handler
    <2> SUFFICES ASSUME steps = 0,
                        NEW i \in 1..Len(chain), chain[i] \notin epoch'
                 PROVE  armed' > 0 /\ armed' + age[chain[i]] <= Timeout
      BY <2>1 DEF DeadlineCovered
    <2>4. chain[i] \notin epoch /\ \E j \in 1..i : Fresh(j)
      BY <2>2, <2>3 DEF Overdue
    <2>5. chain # <<>> /\ ~(\A j \in 1..Len(chain) : ~Fresh(j))
      BY <2>4 DEF TypeOK
    <2>6. PICK f \in 1..Len(chain) : /\ Fresh(f)
                                     /\ \A j \in 1..(f - 1) : ~Fresh(j)
                                     /\ armed' = Timeout - age[chain[f]]
      BY <2>1, <2>5 DEF rearm
    <2>7. /\ chain[f] \notin epoch /\ age[chain[f]] < Timeout
          /\ age[chain[f]] \in Int /\ age[chain[i]] \in Int
      BY <2>6 DEF Fresh, TypeOK
    <2>8. f <= i
      BY <2>4, <2>6
    <2>9. age[chain[f]] >= age[chain[i]]
      BY <2>4, <2>7, <2>8 DEF ChainSorted
    <2> QED
      BY <2>6, <2>7, <2>9
  <1>4. ASSUME Tick
        PROVE  DeadlineCovered'
    <2>1. UNCHANGED <<chain, epoch, steps>>
      BY <1>4 DEF Tick
    <2> SUFFICES ASSUME steps = 0, NEW i \in 1..Len(chain), chain[i] \notin epoch
                 PROVE  expired' \/ (armed' > 0 /\ armed' + age'[chain[i]] <= Timeout)
      BY <2>1 DEF DeadlineCovered
    <2>2. /\ age[chain[i]] \in Int
          /\ age'[chain[i]] = Older(age[chain[i]])
      BY <1>4 DEF TypeOK, Tick
    <2>3. expired \/ (armed > 0 /\ armed + age[chain[i]] <= Timeout)
      BY DEF DeadlineCovered
    <2>4. CASE expired \/ armed = 1
      BY <1>4, <2>4 DEF Tick
    <2>5. CASE ~expired /\ armed # 1
      <3>1. armed \in Nat /\ armed > 1 /\ armed' = armed - 1
        BY <1>4, <2>3, <2>5 DEF Tick, TypeOK
      <3>2. age'[chain[i]] \in Int /\ age'[chain[i]] <= age[chain[i]] + 1
        BY <2>2 DEF Older, TypeOK
      <3> QED
        BY <2>2, <2>3, <2>5, <3>1, <3>2
    <2> QED
      BY <2>4, <2>5
  <1>5. ASSUME ClockStep
        PROVE  DeadlineCovered'
    BY <1>5 DEF TypeOK, DeadlineCovered, ClockStep
  <1>6. CASE UNCHANGED vars
    BY <1>6 DEF DeadlineCovered, vars
  <1> QED
    BY <1>1, <1>2, <1>3, <1>4, <1>5, <1>6 DEF Next

(* The inductive invariant of the timeout handler.                         *)
THEOREM Invariance == Spec => []IInv
  <1>1. Init => IInv
    <2> SUFFICES ASSUME Init PROVE IInv
      OBVIOUS
    <2> USE TimeoutAssumption DEF Init, timeout_handler_init
    <2>1. TypeOK
      <3>1. /\ chain \in Seq(Fds) /\ Len(chain) = 0
            /\ age \in [Fds -> Int]
            /\ \A fd \in Fds : age[fd] <= MaxAge
        OBVIOUS
      <3>2. \A i, j \in 1..Len(chain) : i < j => chain[i] # chain[j]
        BY <3>1
      <3>3. epoch \subseteq Fds /\ armed \in Nat /\ steps \in 0..MaxSteps
        OBVIOUS
      <3>4. expired \in BOOLEAN
        OBVIOUS
      <3> QED
        BY <3>1, <3>2, <3>3, <3>4, Zenon DEF TypeOK
    <2>2. WithinPeriod
      BY DEF WithinPeriod
    <2>3. Len(chain) = 0
      OBVIOUS
    <2>4. ChainSorted /\ DeadlineCovered /\ ArmedWhileLinked
      BY <2>3 DEF ChainSorted, DeadlineCovered, ArmedWhileLinked
    <2> QED
      BY <2>1, <2>2, <2>4 DEF IInv
  <1>2. IInv /\ [Next]_vars => IInv'
    <2> SUFFICES ASSUME IInv, [Next]_vars PROVE IInv'
      OBVIOUS
    <2>1. TypeOK /\ ChainSorted /\ WithinPeriod /\ DeadlineCovered /\ ArmedWhileLinked
      BY DEF IInv
    <2>2. TypeOK' /\ WithinPeriod' /\ ArmedWhileLinked'
      BY <2>1, TypeStep, PeriodStep, ArmedStep
    <2>3. ChainSorted'
      BY <2>1, SortedStep
    <2>4. DeadlineCovered'
      BY CoveredStep
    <2> QED
      BY <2>2, <2>3, <2>4 DEF IInv
  <1> QED
    BY <1>1, <1>2, PTL DEF Spec

(* No connection outlives its timeout unnoticed, for every number of       *)
(* descriptors and every timeout.                                          *)
THEOREM PromptExpiryHolds == Spec => []PromptExpiry
  <1>1. IInv => PromptExpiry
    <2> SUFFICES ASSUME IInv, steps = 0, ~expired, NEW fd \in Fds, Live(fd)
                 PROVE  age[fd] < Timeout
      BY DEF PromptExpiry
    <2>1. PICK i \in 1..Len(chain) : chain[i] = fd
      BY DEF Live, InChain
    <2>2. armed > 0 /\ armed + age[fd] <= Timeout
      BY <2>1 DEF IInv, DeadlineCovered, Live
    <2> QED
      BY <2>2, TimeoutAssumption DEF IInv, TypeOK
  <1> QED
    BY <1>1, Invariance, PTL

(* The timerfd is never left disarmed while a descriptor is linked, with   *)
(* any number of wall clock steps of any size.                             *)
THEOREM ArmedWhileLinkedHolds == Spec => []ArmedWhileLinked
  <1>1. IInv => ArmedWhileLinked
    BY DEF IInv
  <1> QED
    BY <1>1, Invariance, PTL

(* Removing an entry removes its descriptor from the linked ones, and no   *)
(* other.                                                                  *)
LEMMA UnlinkSet ==
    ASSUME TypeOK, NEW fd \in Fds, TIMEOUT_HANDLER_REMOVE_FD_DATA(fd)
    PROVE  fd \in Linked /\ Linked' = Linked \ {fd}
  <1>1. PICK k \in 1..Len(chain) : chain[k] = fd /\ chain' = Unlink(chain, k)
    BY DEF TIMEOUT_HANDLER_REMOVE_FD_DATA
  <1>2. /\ Len(chain) \in Nat
        /\ Len(chain') = (Len(chain) - 1)
        /\ \A i \in 1..(Len(chain) - 1) : /\ Skip(k, i) \in 1..Len(chain)
                                          /\ chain'[i] = chain[Skip(k, i)]
    <2>1. chain \in Seq(Fds)
      BY DEF TypeOK
    <2>2. Len(chain) \in Nat
      BY <2>1
    <2> QED
      BY <1>1, <2>1, <2>2, UnlinkFacts
  <1>3. ASSUME NEW i \in 1..(Len(chain) - 1)
        PROVE  chain[Skip(k, i)] # fd
    <2>1. Skip(k, i) # k /\ Skip(k, i) \in 1..Len(chain)
      BY <1>2 DEF Skip
    <2>2. Skip(k, i) < k \/ k < Skip(k, i)
      BY <1>2, <2>1
    <2> QED
      BY <1>1, <2>1, <2>2 DEF TypeOK
  <1>4. ASSUME NEW j \in 1..Len(chain), chain[j] # fd
        PROVE  \E i \in 1..(Len(chain) - 1) : Skip(k, i) = j
    <2>1. CASE j < k
      <3>1. j \in 1..(Len(chain) - 1) /\ Skip(k, j) = j
        BY <1>2, <2>1 DEF Skip
      <3> QED
        BY <3>1
    <2>2. CASE j > k
      <3>1. j - 1 \in 1..(Len(chain) - 1) /\ Skip(k, j - 1) = j
        BY <1>2, <2>2 DEF Skip
      <3> QED
        BY <3>1
    <2> QED
      BY <1>1, <1>2, <1>4, <2>1, <2>2
  <1>5. Linked' = {chain'[i] : i \in 1..(Len(chain) - 1)}
    BY <1>2 DEF Linked
  <1>6. Linked' \subseteq Linked \ {fd}
    BY <1>2, <1>3, <1>5 DEF Linked
  <1>7. Linked \ {fd} \subseteq Linked'
    BY <1>2, <1>4, <1>5 DEF Linked
  <1> QED
    BY <1>1, <1>6, <1>7 DEF Linked

(* The chain and its timestamps implement the abstract handler of module   *)
(* Timeouts, which HttpServer and HttpClientPool are built on: every step  *)
(* links or unlinks one descriptor, shuts down linked ones that were not   *)
(* shut down before, or changes nothing a user can see.  That none is      *)
(* forgotten for ever (Promise) is left to TLC.                            *)
THEOREM RefinesTimeouts ==
    Spec => Abstract!Init /\ [][Abstract!Next]_(Abstract!vars)
  <1>1. Init => Abstract!Init
    BY DEF Init, timeout_handler_init, Abstract!Init, Linked
  <1>2. ASSUME TypeOK, [Next]_vars
        PROVE  [Abstract!Next]_(Abstract!vars)
    <2>1. ASSUME NEW fd \in Fds, timeout_handler_add_fd_data(fd)
          PROVE  Abstract!Add(fd)
      <3>1. /\ Len(chain) \in Nat
            /\ Len(chain') = (Len(chain) + 1)
            /\ \A i \in 1..Len(chain) : chain'[i] = chain[i]
            /\ chain'[Len(chain) + 1] = fd
        BY <1>2, <2>1, InsertFacts DEF TypeOK, timeout_handler_add_fd_data
      <3>2. fd \notin Linked
        BY <2>1 DEF timeout_handler_add_fd_data, InChain, Linked
      <3>3. Linked' = Linked \cup {fd}
        <4>1. 1..Len(chain') = 1..Len(chain) \cup {Len(chain) + 1}
          BY <3>1
        <4> QED
          BY <3>1, <4>1 DEF Linked
      <3> QED
        BY <2>1, <3>2, <3>3 DEF Abstract!Add, timeout_handler_add_fd_data
    <2>2. ASSUME NEW fd \in Fds, TIMEOUT_HANDLER_REMOVE_FD_DATA(fd)
          PROVE  Abstract!Remove(fd)
      BY <1>2, <2>2, UnlinkSet DEF Abstract!Remove, TIMEOUT_HANDLER_REMOVE_FD_DATA
    <2>3. ASSUME expiration_handler
          PROVE  (\E S \in SUBSET Fds : Abstract!Expire(S)) \/ UNCHANGED <<Linked, epoch>>
      <3> DEFINE S == {chain[i] : i \in {j \in 1..Len(chain) : Overdue(j)}}
      <3>1. S \subseteq Linked \ epoch /\ S \subseteq Fds
        BY <1>2 DEF TypeOK, Linked, Overdue
      <3>2. epoch' = epoch \cup S /\ Linked' = Linked
        BY <2>3 DEF expiration_handler, Linked
      <3>3. CASE S = {}
        BY <3>2, <3>3
      <3>4. CASE S # {}
        <4> HIDE DEF S
        <4>1. Abstract!Expire(S)
          BY <3>1, <3>2, <3>4 DEF Abstract!Expire
        <4> QED
          BY <3>1, <4>1
      <3> QED
        BY <3>3, <3>4
    <2>4. CASE Tick \/ ClockStep \/ UNCHANGED vars
      BY <2>4 DEF Tick, ClockStep, vars, Linked, Abstract!vars
    <2> QED
      BY <1>2, <2>1, <2>2, <2>3, <2>4 DEF Next, Abstract!Next, Abstract!vars
  <1>3. IInv => TypeOK
    BY DEF IInv
  <1> QED
    BY <1>1, <1>2, <1>3, Invariance, PTL DEF Spec
=============================================================================
