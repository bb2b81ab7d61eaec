----------------------- MODULE StallingTaskQueue_proofs -----------------------
(***************************************************************************)
(* Machine-checked safety of the wake/stall protocol, for any number of    *)
(* workers, pushing threads, tasks and priorities.                         *)
(***************************************************************************)
EXTENDS StallingTaskQueue, TLAPS, WellFoundedInduction

-----------------------------------------------------------------------------
(* Lemmas about the helpers                                                 *)

(* Every nonempty set of bits has a lowest one, so the loop of              *)
(* FindThreadToWake ends, at one of the bits that are on.                   *)
LEMMA LowestBit ==
  ASSUME NEW bits \in SUBSET Workers, bits # {}
  PROVE  FindThreadToWake(bits) \in bits
<1>1. Workers \subseteq Nat
  BY ConstantsAssumption, SMT DEF Workers
<1>2. \E w \in bits : \A v \in bits : ~(<<v, w>> \in OpToRel(<, Nat))
  BY <1>1, NatLessThanWellFounded, WFMin, Zenon
<1>3. \A v, w \in bits : v < w => <<v, w>> \in OpToRel(<, Nat)
  BY <1>1, Zenon DEF OpToRel
<1>4. \E w \in bits : \A v \in bits : ~(v < w)
  BY <1>2, <1>3, Zenon
<1>5. \E w \in bits : \A v \in bits : w <= v
  BY <1>1, <1>4, SMT
<1>6. QED
  BY <1>5, Zenon DEF FindThreadToWake

LEMMA CandidateType ==
  ASSUME NEW bits \in SUBSET Workers
  PROVE  /\ FindThreadToWake(bits) \in Workers \cup {NoWake}
         /\ FindThreadToWake(bits) # NoWake => FindThreadToWake(bits) \in bits
         /\ bits # {} => FindThreadToWake(bits) \in bits
<1>1. CASE bits = {}
  BY <1>1 DEF FindThreadToWake
<1>2. CASE bits # {}
  BY <1>2, LowestBit
<1>3. QED
  BY <1>1, <1>2

LEMMA ThreadKinds ==
  /\ \A w \in Workers : w \in Int /\ w >= 0
  /\ \A p \in Pushers : p \notin Workers
  /\ NoWake \notin Workers
  /\ 0 \in Workers /\ 0 \in Priorities
  /\ Priorities \subseteq Nat
  BY ConstantsAssumption DEF Workers, Priorities, NoWake

LEMMA MasterFields ==
  ASSUME NEW m \in MasterStates, NEW b \in SUBSET Workers
  PROVE  /\ Advance(m, b) \in MasterStates
         /\ Advance(m, b).bits = b
         /\ Advance(m, b).counter = m.counter + 1
         /\ m.bits \in SUBSET Workers
         /\ m.counter \in Nat
  BY DEF MasterStates, Advance

LEMMA BitsType ==
  ASSUME NEW m \in MasterStates
  PROVE  m.bits \subseteq Workers /\ m.counter \in Nat
  BY DEF MasterStates

LEMMA QueueOps ==
  ASSUME NEW q \in Seq(Tasks)
  PROVE  /\ \A t \in Tasks : Append(q, t) \in Seq(Tasks)
         /\ q # <<>> => Head(q) \in Tasks /\ Tail(q) \in Seq(Tasks)
  OBVIOUS

LEMMA NextIndex ==
  ASSUME NEW i \in Priorities
  PROVE  /\ i + 1 < NumPriorities => i + 1 \in Priorities
         /\ \A j \in Priorities : j < i + 1 => j < i \/ j = i
         /\ i + 1 = NumPriorities => \A j \in Priorities : j < i \/ j = i
         /\ i + 1 = NumPriorities => \A j \in Priorities : i <= j => j = i
  BY ConstantsAssumption DEF Priorities

LEMMA InitStateFields ==
  /\ InitState \in MasterStates
  /\ InitState.bits = {}
  /\ InitState.counter = 0
  BY DEF MasterStates, InitState

-----------------------------------------------------------------------------
(* Type correctness                                                         *)

LEMMA TypeInit == Init => TypeOK
<1> SUFFICES ASSUME Init PROVE TypeOK
  OBVIOUS
<1> USE ConstantsAssumption, ThreadKinds, InitStateFields
<1>1. queues \in [Priorities -> Seq(Tasks)]
  BY DEF Init
<1>2. pc \in [Threads -> WorkerPcs \cup PusherPcs]
  BY DEF Init, Threads, WorkerPcs, PusherPcs
<1>3. /\ \A w \in Workers : pc[w] = "pop"
      /\ \A p \in Pushers : pc[p] = "idle"
  BY DEF Init, Threads
<1>4. QED
  BY <1>1, <1>2, <1>3 DEF Init, TypeOK, Threads, WorkerPcs, PusherPcs, Pushing, NoWake

LEMMA TypeStep == TypeOK /\ [Next]_vars => TypeOK'
<1> SUFFICES ASSUME TypeOK, [Next]_vars PROVE TypeOK'
  OBVIOUS
<1> USE ThreadKinds DEF TypeOK, Threads, WorkerPcs, PusherPcs, Pushing,
        Goto, AfterPush, queueVars, quitVars, localVars
<1>1. ASSUME NEW p \in Threads, NEW t \in Tasks, BeginPush(p, t)
      PROVE  TypeOK'
  BY <1>1 DEF BeginPush
<1>2. ASSUME NEW p \in Threads, Enqueue(p)
      PROVE  TypeOK'
  <2>1. job[p] \in Tasks /\ TaskPriority[job[p]] \in Priorities
    BY <1>2, ConstantsAssumption DEF Enqueue
  <2>2. Append(queues[TaskPriority[job[p]]], job[p]) \in Seq(Tasks)
    BY <2>1, QueueOps
  <2>2a. queues' \in [Priorities -> Seq(Tasks)]
    BY <1>2, <2>1, <2>2 DEF Enqueue
  <2>3. wake' \in [Threads -> Workers \cup {NoWake}]
    BY <1>2, CandidateType, MasterFields DEF Enqueue
  <2>4. QED
    BY <1>2, <2>2a, <2>3 DEF Enqueue
<1>3. ASSUME NEW p \in Threads, PushExchange(p)
      PROVE  TypeOK'
  <2>1. master' \in MasterStates /\ InitState \in MasterStates
    BY <1>3, MasterFields, InitStateFields DEF PushExchange, Exchanged
  <2>2. wake[p] >= 0 => wake[p] \in Workers
    BY DEF NoWake
  <2>3. QED
    BY <1>3, <2>1, <2>2 DEF PushExchange
<1>4. ASSUME NEW p \in Threads, PushRetry(p)
      PROVE  TypeOK'
  <2>1. wake' \in [Threads -> Workers \cup {NoWake}]
    BY <1>4, CandidateType, MasterFields DEF PushRetry
  <2>2. QED
    BY <1>4, <2>1 DEF PushRetry
<1>5. ASSUME NEW p \in Threads, CheckQueue(p)
      PROVE  TypeOK'
  <2>1. index[p] + 1 < NumPriorities => index[p] + 1 \in Priorities
    BY NextIndex, Zenon
  <2>2. index' \in [Threads -> Priorities]
    BY <1>5, <2>1, SMTT(20) DEF CheckQueue
  <2>3. wake' \in [Threads -> Workers \cup {NoWake}]
    BY <1>5 DEF CheckQueue
  <2>4. /\ pc' \in [Threads -> WorkerPcs \cup PusherPcs]
        /\ pc'[p] \in {"check", "cas"}
        /\ \A q \in Threads : q # p => pc'[q] = pc[q]
        /\ \A q \in Threads : q # p => wake'[q] = wake[q]
        /\ pc[p] = "check"
    BY <1>5 DEF CheckQueue
  <2>5. UNCHANGED <<master, queues, unpushed, executed, event, quit, nextQuit, local, job>>
    BY <1>5 DEF CheckQueue
  <2>6. QED
    BY <2>2, <2>3, <2>4, <2>5
<1>6. ASSUME NEW p \in Threads, TriggerEvent(p)
      PROVE  TypeOK'
  BY <1>6 DEF TriggerEvent
<1>7. ASSUME NEW w \in Workers, ReadMaster(w)
      PROVE  TypeOK'
  BY <1>7 DEF ReadMaster
<1>8. ASSUME NEW w \in Workers, TakeTask(w)
      PROVE  TypeOK'
  <2>1. /\ queues[index[w]] \in Seq(Tasks)
        /\ queues[index[w]] # <<>>
    BY <1>8 DEF TakeTask
  <2>2. /\ Head(queues[index[w]]) \in Tasks
        /\ Tail(queues[index[w]]) \in Seq(Tasks)
    BY <2>1, QueueOps
  <2>3. QED
    BY <1>8, <2>2, InitStateFields DEF TakeTask
<1>9. ASSUME NEW w \in Workers, QueueIsEmpty(w)
      PROVE  TypeOK'
  <2>1. index[w] + 1 < NumPriorities => index[w] + 1 \in Priorities
    BY NextIndex, Zenon
  <2>1a. \/ index' = index
         \/ /\ index[w] + 1 < NumPriorities
            /\ index' = [index EXCEPT ![w] = index[w] + 1]
    BY <1>9, Zenon DEF QueueIsEmpty
  <2>2. index' \in [Threads -> Priorities]
    BY <2>1, <2>1a
  <2>3. /\ pc' \in [Threads -> WorkerPcs \cup PusherPcs]
        /\ pc'[w] \in {"scan", "stall"}
        /\ \A q \in Threads : q # w => pc'[q] = pc[q]
    BY <1>9 DEF QueueIsEmpty
  <2>4. UNCHANGED <<master, queues, unpushed, executed, event, quit, nextQuit, local, job, wake>>
    BY <1>9 DEF QueueIsEmpty
  <2>5. QED
    BY <2>2, <2>3, <2>4
<1>10. ASSUME NEW w \in Workers, StallExchange(w)
       PROVE  TypeOK'
  <2>1. local[w].bits \cup {w} \in SUBSET Workers
    BY MasterFields
  <2>2. master' \in MasterStates
    BY <1>10, <2>1, MasterFields DEF StallExchange
  <2>3. QED
    BY <1>10, <2>2, InitStateFields DEF StallExchange
<1>11. ASSUME NEW w \in Workers, StallRetry(w)
       PROVE  TypeOK'
  BY <1>11 DEF StallRetry
<1>12. ASSUME NEW w \in Workers, WaitEvent(w)
       PROVE  TypeOK'
  BY <1>12 DEF WaitEvent
<1>13. ASSUME NEW w \in Workers, FinishTask(w)
       PROVE  TypeOK'
  BY <1>13 DEF FinishTask
<1>14. CASE RequestQuit
  BY <1>14 DEF RequestQuit
<1>15. CASE QuitTrigger
  BY <1>15, ConstantsAssumption DEF QuitTrigger, Workers
<1>16. CASE ShutDown \/ UNCHANGED vars
  BY <1>16 DEF ShutDown, vars
<1>17. QED
  BY <1>1, <1>2, <1>3, <1>4, <1>5, <1>6, <1>7, <1>8, <1>9, <1>10, <1>11,
     <1>12, <1>13, <1>14, <1>15, <1>16 DEF Next, Push, Pop

(* Every reachable state is well typed.                                     *)
THEOREM TypeCorrect == Spec => []TypeOK
  BY TypeInit, TypeStep, PTL DEF Spec

-----------------------------------------------------------------------------
(* Wake-ups                                                                 *)

LEMMA WakeInit == Init => WakeInv
<1> SUFFICES ASSUME Init PROVE WakeInv
  OBVIOUS
<1>1. TypeOK
  BY TypeInit
<1>2. /\ \A w \in Workers : pc[w] = "pop" /\ ~event[w]
      /\ \A p \in Threads : pc[p] \in {"pop", "idle"}
      /\ master.bits = {}
  BY InitStateFields DEF Init, Threads
<1>3. \A w \in Workers : Wakers(w) = {}
  BY <1>2 DEF Wakers
<1>4. QED
  BY <1>1, <1>2, <1>3
  DEF WakeInv, CandidateIsStalled, StalledIsParked, OneWakePerStall

(* A step that leaves the bits, the events and the quit flags alone, and    *)
(* moves no thread into or out of waiting or waking, keeps the invariant.   *)
LEMMA WakeUnmoved ==
  ASSUME WakeInv, TypeOK',
         master' = master, event' = event, quit' = quit,
         \A p \in Threads : pc'[p] = "trigger" <=> pc[p] = "trigger",
         \A p \in Threads : pc[p] = "trigger" => wake'[p] = wake[p],
         \A w \in Workers : pc'[w] = "wait" <=> pc[w] = "wait",
         \A w \in Workers : pc[w] = "done" => pc'[w] = "done",
         CandidateIsStalled'
  PROVE  WakeInv'
<1>1. \A w \in Workers : Wakers(w)' = Wakers(w)
  BY DEF Wakers
<1>2. StalledIsParked'
  BY DEF WakeInv, StalledIsParked
<1>3. OneWakePerStall'
  BY <1>1 DEF WakeInv, OneWakePerStall
<1>4. QED
  BY <1>2, <1>3 DEF WakeInv

LEMMA WakeStep == WakeInv /\ [Next]_vars => WakeInv'
<1> SUFFICES ASSUME WakeInv, [Next]_vars PROVE WakeInv'
  OBVIOUS
<1>0. TypeOK /\ TypeOK'
  BY TypeStep DEF WakeInv
<1>pc. pc \in [Threads -> WorkerPcs \cup PusherPcs] /\ Workers \subseteq Threads
  BY <1>0 DEF TypeOK, Threads
<1>1. ASSUME NEW p \in Threads, NEW t \in Tasks, BeginPush(p, t)
      PROVE  WakeInv'
  <2>1. pc[p] \in {"exec", "idle"} /\ pc' = [pc EXCEPT ![p] = "enqueue"]
    BY <1>1 DEF BeginPush, AfterPush, Goto
  <2>2. UNCHANGED <<master, event, quit, wake>> /\ \A q \in Threads : q # p => local'[q] = local[q]
    BY <1>0, <1>1 DEF BeginPush, quitVars, TypeOK
  <2>3. CandidateIsStalled'
    BY <1>pc, <2>1, <2>2 DEF WakeInv, CandidateIsStalled
  <2>4. QED
    BY <1>0, <1>pc, <2>1, <2>2, <2>3, WakeUnmoved
<1>2. ASSUME NEW p \in Threads, Enqueue(p)
      PROVE  WakeInv'
  <2>1. /\ pc[p] = "enqueue" /\ pc' = [pc EXCEPT ![p] = "cas"]
        /\ wake' = [wake EXCEPT ![p] = FindThreadToWake(local[p].bits)]
        /\ UNCHANGED <<master, event, quit, local>>
    BY <1>2 DEF Enqueue, Goto, quitVars
  <2>2. wake'[p] # NoWake => wake'[p] \in local[p].bits
    BY <1>0, <2>1, CandidateType, MasterFields DEF TypeOK
  <2>3. \A q \in Threads : q # p => wake'[q] = wake[q]
    BY <1>0, <2>1 DEF TypeOK
  <2>4. CandidateIsStalled'
    BY <1>pc, <2>1, <2>2, <2>3 DEF WakeInv, CandidateIsStalled
  <2>5. QED
    BY <1>0, <1>pc, <2>1, <2>3, <2>4, WakeUnmoved
<1>3. ASSUME NEW p \in Threads, PushExchange(p)
      PROVE  WakeInv'
  <2>1. /\ pc[p] = "cas"
        /\ local[p] = master
        /\ local' = [local EXCEPT ![p] = InitState]
        /\ UNCHANGED <<event, quit, wake>>
    BY <1>3 DEF PushExchange, Exchanged, quitVars
  <2>2. master'.bits = master.bits \ {wake[p]}
    BY <1>0, <1>3, MasterFields DEF PushExchange, Exchanged, TypeOK
  <2>3. \A q \in Threads : q # p => pc'[q] = pc[q] /\ local'[q] = local[q]
    BY <1>0, <1>3 DEF PushExchange, Goto, TypeOK
  <2>4. CASE wake[p] = NoWake
    <3>1. pc'[p] \in {"exec", "idle"}
      BY <1>3, <1>pc, <2>4 DEF PushExchange, Goto, AfterPush, NoWake
    <3>2. master'.bits = master.bits
      <4>1. master.bits \subseteq Workers
        BY <1>0, BitsType DEF TypeOK
      <4>2. QED
        BY <2>2, <2>4, <4>1, ThreadKinds
    <3>3. CandidateIsStalled'
      BY <2>1, <2>3, <3>1 DEF WakeInv, CandidateIsStalled
    <3>4. \A w \in Workers : Wakers(w)' = Wakers(w)
      BY <2>1, <2>3, <3>1 DEF Wakers
    <3>5. OneWakePerStall' /\ StalledIsParked'
      BY <1>pc, <2>1, <2>3, <3>1, <3>2, <3>4
      DEF WakeInv, OneWakePerStall, StalledIsParked
    <3>6. QED
      BY <1>0, <3>3, <3>5 DEF WakeInv
  <2>5. CASE wake[p] # NoWake
    <3>1. wake[p] \in Workers /\ wake[p] \in master.bits
      BY <1>0, <2>1, <2>5 DEF WakeInv, CandidateIsStalled, TypeOK
    <3>2. pc'[p] = "trigger"
      BY <1>3, <1>pc, <3>1, ThreadKinds DEF PushExchange, Goto
    <3>3. CandidateIsStalled'
      BY <2>1, <2>3, <3>2 DEF WakeInv, CandidateIsStalled
    <3>4. \A w \in Workers :
            Wakers(w)' = IF w = wake[p] THEN Wakers(w) \cup {p} ELSE Wakers(w)
      BY <2>1, <2>3, <3>2 DEF Wakers
    <3>5. StalledIsParked'
      BY <1>pc, <2>1, <2>2, <2>3, <3>2 DEF WakeInv, StalledIsParked
    <3>6. OneWakePerStall'
      BY <1>pc, <2>1, <2>2, <2>3, <3>1, <3>2, <3>4 DEF WakeInv, OneWakePerStall
    <3>7. QED
      BY <1>0, <3>3, <3>5, <3>6 DEF WakeInv
  <2>6. QED
    BY <2>4, <2>5
<1>4. ASSUME NEW p \in Threads, PushRetry(p)
      PROVE  WakeInv'
  <2>1. /\ pc[p] = "cas" /\ \E l \in {"cas", "check"} : pc' = [pc EXCEPT ![p] = l]
        /\ wake' = [wake EXCEPT ![p] = FindThreadToWake(master.bits)]
        /\ local' = [local EXCEPT ![p] = master]
        /\ UNCHANGED <<master, event, quit>>
    BY <1>4 DEF PushRetry, Goto, quitVars
  <2>2. local'[p] = master /\ (wake'[p] # NoWake => wake'[p] \in master.bits)
    BY <1>0, <2>1, CandidateType, MasterFields, ZenonT(40) DEF TypeOK
  <2>3. \A q \in Threads : q # p => wake'[q] = wake[q] /\ local'[q] = local[q]
    BY <1>0, <2>1 DEF TypeOK
  <2>4. CandidateIsStalled'
    BY <1>pc, <2>1, <2>2, <2>3 DEF WakeInv, CandidateIsStalled
  <2>5. QED
    BY <1>0, <1>pc, <2>1, <2>3, <2>4, WakeUnmoved
<1>5. ASSUME NEW p \in Threads, CheckQueue(p)
      PROVE  WakeInv'
  <2>1. /\ pc[p] = "check" /\ \E l \in {"cas", "check"} : pc' = [pc EXCEPT ![p] = l]
        /\ wake' = wake \/ wake' = [wake EXCEPT ![p] = NoWake]
        /\ UNCHANGED <<master, event, quit, local>>
    <3>1. pc' = pc \/ pc' = [pc EXCEPT ![p] = "cas"]
      BY <1>5, Zenon DEF CheckQueue, Goto
    <3>2. pc = [pc EXCEPT ![p] = pc[p]]
      BY <1>pc
    <3>3. pc[p] = "check" /\ (wake' = wake \/ wake' = [wake EXCEPT ![p] = NoWake])
      BY <1>5, Zenon DEF CheckQueue
    <3>4. UNCHANGED <<master, event, quit, local>>
      BY <1>5 DEF CheckQueue, quitVars
    <3>5. QED
      BY <3>1, <3>2, <3>3, <3>4
  <2>2. \A q \in Threads : wake'[q] = wake[q] \/ (q = p /\ wake'[q] = NoWake)
    BY <1>0, <2>1 DEF TypeOK
  <2>3. CandidateIsStalled'
    BY <1>pc, <2>1, <2>2 DEF WakeInv, CandidateIsStalled
  <2>4. QED
    BY <1>0, <1>pc, <2>1, <2>2, <2>3, WakeUnmoved
<1>6. ASSUME NEW p \in Threads, TriggerEvent(p)
      PROVE  WakeInv'
  <2>1. /\ pc[p] = "trigger" /\ \E l \in {"exec", "idle"} : pc' = [pc EXCEPT ![p] = l]
        /\ event' = [event EXCEPT ![wake[p]] = TRUE]
        /\ wake' = [wake EXCEPT ![p] = NoWake]
        /\ UNCHANGED <<master, quit, local>>
    BY <1>6 DEF TriggerEvent, Goto, AfterPush, quitVars
  <2>2. PICK v \in Workers : v = wake[p]
    BY <1>0, <2>1 DEF TypeOK
  <2>3. \A q \in Threads : q # p => pc'[q] = pc[q] /\ wake'[q] = wake[q]
    BY <1>0, <1>pc, <2>1 DEF TypeOK
  <2>4. pc'[p] # "trigger"
    BY <1>pc, <2>1
  <2>5. CandidateIsStalled'
    <3>1. pc'[p] \notin {"cas", "check"} /\ local' = local
      BY <1>pc, <2>1
    <3>2. CandidateIsStalled
      BY DEF WakeInv
    <3>3. QED
      BY <2>3, <3>1, <3>2, Zenon DEF CandidateIsStalled
  <2>6. StalledIsParked'
    BY <1>pc, <2>1 DEF WakeInv, StalledIsParked
  <2>7. ASSUME NEW w \in Workers, w # v
        PROVE  event'[w] = event[w] /\ Wakers(w)' = Wakers(w)
    <3>1. event'[w] = event[w]
      BY <1>0, <2>1, <2>2, <2>7 DEF TypeOK
    <3>2. Wakers(w)' = Wakers(w)
      BY <2>2, <2>3, <2>4, <2>7 DEF Wakers
    <3>3. QED
      BY <3>1, <3>2
  <2>8. ASSUME ~quit[v]
        PROVE  /\ pc[v] = "wait" /\ v \notin master.bits
               /\ event'[v] /\ Wakers(v)' = {}
    <3>1. p \in Wakers(v)
      BY <2>1, <2>2 DEF Wakers
    <3>2. pc[v] = "wait" /\ v \notin master.bits
      BY <2>8, <3>1 DEF WakeInv, OneWakePerStall
    <3>3. Wakers(v) = {p}
      BY <2>8, <3>1, <3>2 DEF WakeInv, OneWakePerStall
    <3>4. \A q \in Threads : pc[q] = "trigger" /\ wake[q] = v => q = p
      BY <3>3 DEF Wakers
    <3>5. Wakers(v)' = {}
      BY <2>3, <2>4, <3>4 DEF Wakers
    <3>6. event'[v]
      BY <1>0, <2>1, <2>2 DEF TypeOK
    <3>7. QED
      BY <3>2, <3>5, <3>6
  <2>9. OneWakePerStall'
    <3> SUFFICES ASSUME NEW w \in Workers, ~quit'[w]
                 PROVE  /\ w \in master'.bits => pc'[w] = "wait" /\ ~event'[w] /\ Wakers(w)' = {}
                        /\ pc'[w] = "wait" /\ w \notin master'.bits =>
                             IF event'[w] THEN Wakers(w)' = {} ELSE \E q \in Threads : Wakers(w)' = {q}
                        /\ pc'[w] # "wait" => ~event'[w] /\ Wakers(w)' = {}
      BY DEF OneWakePerStall
    <3>1. (pc'[w] = "wait" <=> pc[w] = "wait") /\ ~quit[w] /\ master' = master
      BY <1>pc, <2>1
    <3>2. CASE w = v
      BY <2>8, <3>1, <3>2
    <3>3. CASE w # v
      BY <2>7, <3>1, <3>3 DEF WakeInv, OneWakePerStall
    <3>4. QED
      BY <3>2, <3>3
  <2>10. QED
    BY <1>0, <2>5, <2>6, <2>9 DEF WakeInv
<1>7. ASSUME NEW w \in Workers, ReadMaster(w) \/ TakeTask(w) \/ QueueIsEmpty(w)
                                \/ StallRetry(w) \/ FinishTask(w)
      PROVE  WakeInv'
  <2>1. /\ pc[w] \in {"pop", "scan", "stall", "exec"}
        /\ \E l \in {"pop", "scan", "stall", "exec"} : pc' = [pc EXCEPT ![w] = l]
    <3>1. pc = [pc EXCEPT ![w] = pc[w]]
      BY <1>pc
    <3>2. CASE QueueIsEmpty(w)
      BY <3>1, <3>2, Zenon DEF QueueIsEmpty, Goto
    <3>3. QED
      BY <1>7, <3>2, Zenon DEF ReadMaster, TakeTask, StallRetry, FinishTask, Goto
  <2>2. UNCHANGED <<master, event, quit, wake>>
    BY <1>7 DEF ReadMaster, TakeTask, QueueIsEmpty, StallRetry, FinishTask,
                quitVars, localVars
  <2>3. \A q \in Threads : q # w => local'[q] = local[q]
    BY <1>0, <1>7 DEF ReadMaster, TakeTask, QueueIsEmpty, StallRetry, FinishTask,
                      localVars, TypeOK
  <2>4. CandidateIsStalled'
    BY <1>pc, <2>1, <2>2, <2>3 DEF WakeInv, CandidateIsStalled
  <2>5. QED
    BY <1>0, <1>pc, <2>1, <2>2, <2>4, WakeUnmoved
<1>8. ASSUME NEW w \in Workers, StallExchange(w)
      PROVE  WakeInv'
  <2>1. /\ pc[w] = "stall" /\ pc' = [pc EXCEPT ![w] = "wait"]
        /\ local' = [local EXCEPT ![w] = InitState]
        /\ UNCHANGED <<event, quit, wake>>
    BY <1>8 DEF StallExchange, Goto, quitVars
  <2>2. master'.bits = master.bits \cup {w}
    <3>1. local[w].bits \cup {w} \in SUBSET Workers
      BY <1>0, <1>pc, MasterFields DEF TypeOK
    <3>2. QED
      BY <1>0, <1>8, <1>pc, <3>1, MasterFields DEF StallExchange, Exchanged, TypeOK
  <2>3. \A v \in Workers : Wakers(v)' = Wakers(v)
    BY <1>pc, <2>1 DEF Wakers
  <2>4. CandidateIsStalled'
    BY <1>0, <1>pc, <2>1 DEF WakeInv, CandidateIsStalled, TypeOK
  <2>5. StalledIsParked'
    BY <1>pc, <2>1, <2>2 DEF WakeInv, StalledIsParked
  <2>6. OneWakePerStall'
    BY <1>pc, <2>1, <2>2, <2>3 DEF WakeInv, OneWakePerStall
  <2>7. QED
    BY <1>0, <2>4, <2>5, <2>6 DEF WakeInv
<1>9. ASSUME NEW w \in Workers, WaitEvent(w)
      PROVE  WakeInv'
  <2>1. /\ pc[w] = "wait" /\ event[w]
        /\ pc' = [pc EXCEPT ![w] = IF quit[w] THEN "done" ELSE "pop"]
        /\ event' = [event EXCEPT ![w] = FALSE]
        /\ UNCHANGED <<master, quit, wake, local>>
    BY <1>9 DEF WaitEvent, Goto, quitVars, localVars
  <2>2. \A v \in Workers : Wakers(v)' = Wakers(v)
    BY <1>pc, <2>1 DEF Wakers
  <2>3. CandidateIsStalled'
    BY <1>pc, <2>1 DEF WakeInv, CandidateIsStalled
  <2>4. StalledIsParked'
    BY <1>pc, <2>1 DEF WakeInv, StalledIsParked, OneWakePerStall
  <2>5. OneWakePerStall'
    BY <1>0, <1>pc, <2>1, <2>2 DEF WakeInv, OneWakePerStall, TypeOK
  <2>6. QED
    BY <1>0, <2>3, <2>4, <2>5 DEF WakeInv
<1>10. CASE RequestQuit
  <2>1. /\ UNCHANGED <<master, event, pc, wake, local>>
        /\ \A w \in Workers : quit[w] => quit'[w]
    BY <1>0, <1>10 DEF RequestQuit, localVars, TypeOK
  <2>2. \A v \in Workers : Wakers(v)' = Wakers(v)
    BY <2>1 DEF Wakers
  <2>3. QED
    BY <1>0, <2>1, <2>2
    DEF WakeInv, CandidateIsStalled, StalledIsParked, OneWakePerStall
<1>11. CASE QuitTrigger
  <2>1. /\ UNCHANGED <<master, quit, pc, wake, local>>
        /\ \A w \in Workers : ~quit[w] => event'[w] = event[w]
    BY <1>0, <1>11 DEF QuitTrigger, localVars, TypeOK
  <2>2. \A v \in Workers : Wakers(v)' = Wakers(v)
    BY <2>1 DEF Wakers
  <2>3. QED
    BY <1>0, <2>1, <2>2
    DEF WakeInv, CandidateIsStalled, StalledIsParked, OneWakePerStall
<1>12. CASE ShutDown \/ UNCHANGED vars
  <2>1. UNCHANGED <<master, event, quit, pc, wake, local>>
    BY <1>12 DEF ShutDown, vars
  <2>2. QED
    BY <1>0, <2>1, WakeUnmoved DEF WakeInv, CandidateIsStalled
<1>13. QED
  BY <1>1, <1>2, <1>3, <1>4, <1>5, <1>6, <1>7, <1>8, <1>9, <1>10, <1>11, <1>12
  DEF Next, Push, Pop

(* However many threads push and stall, each stall is paid for by exactly   *)
(* one wake-up: no trigger is lost on an event that is already set and no   *)
(* worker finds a stale one.                                                *)
THEOREM WakesAreExact == Spec => []OneWakePerStall
<1>1. Spec => []WakeInv
  BY WakeInit, WakeStep, PTL DEF Spec
<1>2. WakeInv => OneWakePerStall
  BY DEF WakeInv
<1>3. QED
  BY <1>1, <1>2, PTL

(* The assertion at LockFreeList.h:712 never fires.                         *)
THEOREM AskingIsNotStalled == Spec => []NotStalledWhenAsking
<1>1. Spec => []WakeInv
  BY WakeInit, WakeStep, PTL DEF Spec
<1>2. WakeInv => NotStalledWhenAsking
  BY DEF WakeInv, StalledIsParked, NotStalledWhenAsking
<1>3. QED
  BY <1>1, <1>2, PTL

-----------------------------------------------------------------------------
(* No stranded task, while one queue is not in use                          *)

LEMMA StrandInit == Init => StrandInv
<1> SUFFICES ASSUME Init PROVE StrandInv
  OBVIOUS
<1>1. TypeOK
  BY TypeInit
<1>2. /\ \A p \in Threads : pc[p] \in {"pop", "idle"}
      /\ \A p \in Threads : local[p] = master
      /\ \A i \in Priorities : queues[i] = <<>>
      /\ master.counter \in Nat
  BY <1>1, BitsType DEF Init, Threads, TypeOK
<1>3. UnusedPriorities \subseteq Priorities /\ Workers \subseteq Threads
  BY DEF UnusedPriorities, Threads
<1>4. QED
  BY <1>1, <1>2, <1>3
  DEF StrandInv, UnusedStaysEmpty, CountersAdvance, CandidateIsChosen,
      ScannedIsCovered, NoStrandedTask

(* Steps that do not exchange the master state and add no task: it is enough *)
(* that a thread that still has to choose a worker stays, and that a scan   *)
(* that moves on has seen an empty queue.                                   *)
LEMMA StrandUnmoved ==
  ASSUME StrandInv, TypeOK', master' = master,
         \A i \in Priorities : queues[i] = <<>> => queues'[i] = <<>>,
         SomeonePushing => SomeonePushing',
         UnusedStaysEmpty', CandidateIsChosen',
         \A p \in Threads : local'[p] \in {local[p], master, InitState},
         \A w \in Workers :
           pc'[w] \in {"scan", "stall"} =>
             \/ /\ pc[w] \in {"scan", "stall"} /\ local'[w] = local[w]
                /\ \A i \in Priorities :
                     (i < index'[w] \/ pc'[w] = "stall") =>
                        (i < index[w] \/ pc[w] = "stall" \/ queues[i] = <<>>)
             \/ pc'[w] = "scan" /\ index'[w] = 0
  PROVE  StrandInv'
<1>1. /\ master.counter \in Nat /\ InitState.counter = 0
      /\ \A p \in Threads : local[p].counter \in Nat
      /\ Workers \subseteq Threads
      /\ \A w \in Workers : index'[w] \in Nat
  BY BitsType, InitStateFields, ThreadKinds DEF StrandInv, TypeOK, Threads
<1>2. CountersAdvance'
  BY <1>1 DEF StrandInv, CountersAdvance
<1>3. NoStrandedTask'
  BY DEF StrandInv, NoStrandedTask, SomeonePushing
<1>4. ScannedIsCovered'
  <2> SUFFICES ASSUME NEW w \in Workers, pc'[w] \in {"scan", "stall"}, Exchanged(w)',
                      NEW i \in Priorities,
                      i < index'[w] \/ pc'[w] = "stall", queues'[i] # <<>>
               PROVE  SomeonePushing'
    BY DEF ScannedIsCovered
  <2>1. ~(pc'[w] = "scan" /\ index'[w] = 0)
    BY ThreadKinds
  <2>2. /\ pc[w] \in {"scan", "stall"} /\ Exchanged(w)
        /\ i < index[w] \/ pc[w] = "stall"
        /\ queues[i] # <<>>
    BY <2>1 DEF Exchanged
  <2>3. QED
    BY <2>2 DEF StrandInv, ScannedIsCovered
<1>5. QED
  BY <1>2, <1>3, <1>4 DEF StrandInv

(* After an exchange every other thread's copy is out of date.              *)
LEMMA StaleAfterExchange ==
  ASSUME TypeOK, CountersAdvance, NEW m, m.counter = master.counter + 1,
         NEW p \in Threads
  PROVE  local[p] # m /\ local[p].counter <= m.counter
  BY BitsType DEF TypeOK, CountersAdvance

LEMMA StrandStep ==
  ASSUME UnusedPriorities # {}, StrandInv, [Next]_vars
  PROVE  StrandInv'
<1>0. TypeOK /\ TypeOK'
  BY TypeStep DEF StrandInv
<1>pc. /\ pc \in [Threads -> WorkerPcs \cup PusherPcs] /\ Workers \subseteq Threads
       /\ UnusedPriorities \subseteq Priorities
  BY <1>0 DEF TypeOK, Threads, UnusedPriorities
<1>1. ASSUME NEW p \in Threads, NEW t \in Tasks, BeginPush(p, t)
      PROVE  StrandInv'
  <2>1. /\ pc[p] \in {"exec", "idle"} /\ pc' = [pc EXCEPT ![p] = "enqueue"]
        /\ UNCHANGED <<master, queues, wake, index>>
        /\ local' = [local EXCEPT ![p] = master]
    BY <1>1 DEF BeginPush, AfterPush, Goto
  <2>2. \A q \in Threads : q # p => local'[q] = local[q]
    BY <1>0, <2>1 DEF TypeOK
  <2>3. SomeonePushing => SomeonePushing'
    BY <1>pc, <2>1 DEF SomeonePushing
  <2>4. UnusedStaysEmpty' /\ CandidateIsChosen'
    BY <1>pc, <2>1, <2>2 DEF StrandInv, UnusedStaysEmpty, CandidateIsChosen
  <2>5. \A q \in Threads : local'[q] \in {local[q], master, InitState}
    BY <1>0, <2>1 DEF TypeOK
  <2>6. \A w \in Workers : pc'[w] \in {"scan", "stall"} => w # p /\ pc'[w] = pc[w]
    BY <1>pc, <2>1
  <2>7. QED
    BY <1>0, <1>pc, <2>1, <2>2, <2>3, <2>4, <2>5, <2>6, StrandUnmoved
<1>2. ASSUME NEW p \in Threads, Enqueue(p)
      PROVE  StrandInv'
  <2>1. /\ pc[p] = "enqueue" /\ pc' = [pc EXCEPT ![p] = "cas"]
        /\ queues' = [queues EXCEPT ![TaskPriority[job[p]]] = Append(@, job[p])]
        /\ wake' = [wake EXCEPT ![p] = FindThreadToWake(local[p].bits)]
        /\ UNCHANGED <<master, local, index>>
    BY <1>2 DEF Enqueue, Goto
  <2>2. job[p] \in Tasks
    BY <1>0, <2>1 DEF TypeOK, Pushing
  <2>3. SomeonePushing'
    BY <1>pc, <2>1 DEF SomeonePushing
  <2>4. \A u \in UnusedPriorities : queues'[u] = queues[u]
    BY <1>0, <2>1, <2>2 DEF UnusedPriorities, TypeOK
  <2>5. UnusedStaysEmpty'
    BY <1>pc, <2>1, <2>4 DEF StrandInv, UnusedStaysEmpty
  <2>6. local[p].bits # {} => wake'[p] \in local[p].bits
    BY <1>0, <2>1, CandidateType, BitsType DEF TypeOK
  <2>7. CandidateIsChosen'
    <3>1. \A q \in Threads : q # p => wake'[q] = wake[q] /\ pc'[q] = pc[q]
      BY <1>0, <2>1 DEF TypeOK
    <3>2. QED
      BY <2>1, <2>6, <3>1 DEF StrandInv, CandidateIsChosen
  <2>8. CountersAdvance'
    BY <2>1 DEF StrandInv, CountersAdvance
  <2>9. NoStrandedTask' /\ ScannedIsCovered'
    BY <2>3 DEF NoStrandedTask, ScannedIsCovered, SomeonePushing
  <2>10. QED
    BY <1>0, <2>5, <2>7, <2>8, <2>9 DEF StrandInv
<1>3. ASSUME NEW p \in Threads, PushExchange(p)
      PROVE  StrandInv'
  <2>1. /\ pc[p] = "cas" /\ local[p] = master
        /\ pc'[p] \in {"trigger", "exec", "idle"}
        /\ \A q \in Threads : q # p => pc'[q] = pc[q]
        /\ local' = [local EXCEPT ![p] = InitState]
        /\ UNCHANGED <<queues, wake, index>>
    BY <1>0, <1>3 DEF PushExchange, Exchanged, Goto, AfterPush, queueVars, TypeOK
  <2>2. /\ master'.counter = master.counter + 1
        /\ master'.bits = master.bits \ {wake[p]}
        /\ master.counter \in Nat
        /\ master.bits \subseteq Workers
    BY <1>0, <1>3, MasterFields, BitsType DEF PushExchange, Exchanged, TypeOK
  <2>3. /\ local'[p] = InitState
        /\ \A q \in Threads : q # p => local'[q] = local[q]
    BY <1>0, <2>1 DEF TypeOK
  <2>4. \A q \in Threads : local'[q] # master' /\ local'[q].counter <= master'.counter
    <3>1. InitState.counter = 0 /\ InitState.counter # master'.counter
      BY <2>2, InitStateFields
    <3>2. \A q \in Threads : local[q] # master' /\ local[q].counter <= master'.counter
      BY <1>0, <2>2, StaleAfterExchange DEF StrandInv
    <3>3. QED
      BY <2>2, <2>3, <3>1, <3>2
  <2>5. master'.bits # Workers
    <3>1. CASE master.bits = {}
      BY <2>2, <3>1, ThreadKinds
    <3>2. CASE master.bits # {}
      BY <2>1, <2>2, <3>2 DEF StrandInv, CandidateIsChosen
    <3>3. QED
      BY <3>1, <3>2
  <2>6. UnusedStaysEmpty'
    BY <1>pc, <2>1 DEF StrandInv, UnusedStaysEmpty
  <2>7. CandidateIsChosen'
    BY <2>1, <2>3 DEF StrandInv, CandidateIsChosen
  <2>8. QED
    BY <1>0, <1>pc, <2>4, <2>5, <2>6, <2>7
    DEF StrandInv, CountersAdvance, ScannedIsCovered, Exchanged, NoStrandedTask
<1>4. ASSUME NEW p \in Threads, PushRetry(p)
      PROVE  StrandInv'
  <2>1. /\ pc[p] = "cas" /\ pc'[p] \in {"cas", "check"}
        /\ \A q \in Threads : q # p => pc'[q] = pc[q]
        /\ wake' = [wake EXCEPT ![p] = FindThreadToWake(master.bits)]
        /\ local' = [local EXCEPT ![p] = master]
        /\ index' = [index EXCEPT ![p] = 0]
        /\ UNCHANGED <<master, queues>>
    BY <1>0, <1>4 DEF PushRetry, Goto, queueVars, TypeOK
  <2>2. /\ local'[p] = master /\ index'[p] = 0
        /\ master.bits # {} => wake'[p] \in master.bits
    BY <1>0, <2>1, CandidateType, BitsType DEF TypeOK
  <2>3. \A q \in Threads : q # p => /\ wake'[q] = wake[q] /\ local'[q] = local[q]
                                    /\ index'[q] = index[q]
    BY <1>0, <2>1 DEF TypeOK
  <2>4. UnusedStaysEmpty'
    BY <1>pc, <2>1, <2>2, <2>3, ThreadKinds DEF StrandInv, UnusedStaysEmpty
  <2>5. CandidateIsChosen'
    BY <2>1, <2>2, <2>3 DEF StrandInv, CandidateIsChosen
  <2>6. SomeonePushing'
    BY <2>1 DEF SomeonePushing
  <2>7. \A q \in Threads : local'[q] \in {local[q], master, InitState}
    BY <2>2, <2>3
  <2>8. QED
    BY <1>0, <1>pc, <2>1, <2>3, <2>4, <2>5, <2>6, <2>7, StrandUnmoved
<1>5. ASSUME NEW p \in Threads, CheckQueue(p)
      PROVE  StrandInv'
  <2>1. pc[p] = "check" /\ UNCHANGED <<master, queues, local>>
    BY <1>5 DEF CheckQueue, queueVars
  <2>2. \/ pc' = [pc EXCEPT ![p] = "cas"] /\ UNCHANGED <<wake, index>>
        \/ /\ queues[index[p]] # <<>>
           /\ index' = [index EXCEPT ![p] = index[p] + 1]
           /\ UNCHANGED <<pc, wake>>
        \/ /\ queues[index[p]] # <<>> /\ index[p] + 1 = NumPriorities
           /\ pc' = [pc EXCEPT ![p] = "cas"]
           /\ UNCHANGED index
    BY <1>5, Zenon DEF CheckQueue, Goto
  <2>3. \A u \in UnusedPriorities : index[p] <= u /\ queues[u] = <<>>
    BY <2>1 DEF StrandInv, UnusedStaysEmpty
  <2>4. \A q \in Threads : q # p => pc'[q] = pc[q] /\ index'[q] = index[q]
    BY <1>0, <2>2 DEF TypeOK
  <2>5. pc'[p] \in {"cas", "check"}
    BY <1>pc, <2>1, <2>2
  <2>6. \A u \in UnusedPriorities : pc'[p] = "check" => index'[p] <= u
    <3>1. index[p] \in Nat /\ \A u \in UnusedPriorities : u \in Nat
      BY <1>0, <1>pc, ThreadKinds DEF TypeOK
    <3>2. CASE pc' = [pc EXCEPT ![p] = "cas"]
      BY <1>pc, <3>2
    <3>3. CASE /\ queues[index[p]] # <<>>
               /\ index' = [index EXCEPT ![p] = index[p] + 1]
      <4>1. index'[p] = index[p] + 1
        BY <1>0, <3>3 DEF TypeOK
      <4>2. \A u \in UnusedPriorities : u # index[p]
        BY <2>3, <3>3
      <4>3. QED
        BY <2>3, <3>1, <4>1, <4>2
    <3>4. QED
      BY <2>2, <3>2, <3>3
  <2>7. UnusedStaysEmpty'
    BY <1>pc, <2>1, <2>4, <2>6 DEF StrandInv, UnusedStaysEmpty
  <2>8. wake' = wake
    <3>1. PICK u \in UnusedPriorities : TRUE
      OBVIOUS
    <3>2. index[p] \in Priorities /\ u \in Priorities /\ index[p] <= u
      BY <1>0, <1>pc, <2>3 DEF TypeOK
    <3>4. index[p] + 1 = NumPriorities => u = index[p]
      BY <3>2, NextIndex, Zenon
    <3>5. QED
      BY <2>2, <2>3, <3>4
  <2>9. CandidateIsChosen' /\ SomeonePushing'
    BY <2>1, <2>4, <2>5, <2>8 DEF StrandInv, CandidateIsChosen, SomeonePushing
  <2>10. QED
    BY <1>0, <1>pc, <2>1, <2>4, <2>5, <2>7, <2>9, StrandUnmoved
<1>6. ASSUME NEW p \in Threads, TriggerEvent(p)
      PROVE  StrandInv'
  <2>1. /\ pc[p] = "trigger" /\ pc'[p] \in {"exec", "idle"}
        /\ \A q \in Threads : q # p => pc'[q] = pc[q] /\ wake'[q] = wake[q]
        /\ UNCHANGED <<master, queues, local, index>>
    BY <1>0, <1>6 DEF TriggerEvent, Goto, AfterPush, queueVars, TypeOK
  <2>2. UnusedStaysEmpty' /\ CandidateIsChosen'
    BY <2>1 DEF StrandInv, UnusedStaysEmpty, CandidateIsChosen
  <2>3. SomeonePushing => SomeonePushing'
    BY <2>1 DEF SomeonePushing
  <2>4. QED
    BY <1>0, <1>pc, <2>1, <2>2, <2>3, StrandUnmoved
<1>7. ASSUME NEW w \in Workers, ReadMaster(w)
      PROVE  StrandInv'
  <2>1. /\ pc[w] = "pop" /\ pc'[w] = "scan" /\ index'[w] = 0 /\ local'[w] = master
        /\ \A q \in Threads : q # w => /\ pc'[q] = pc[q] /\ index'[q] = index[q]
                                       /\ local'[q] = local[q]
        /\ UNCHANGED <<master, queues, wake>>
    BY <1>0, <1>7, <1>pc DEF ReadMaster, Goto, queueVars, TypeOK
  <2>2. UnusedStaysEmpty' /\ CandidateIsChosen'
    BY <2>1 DEF StrandInv, UnusedStaysEmpty, CandidateIsChosen
  <2>3. SomeonePushing => SomeonePushing'
    BY <2>1 DEF SomeonePushing
  <2>4. \A q \in Threads : local'[q] \in {local[q], master, InitState}
    BY <2>1
  <2>5. QED
    BY <1>0, <1>pc, <2>1, <2>2, <2>3, <2>4, StrandUnmoved
<1>8. ASSUME NEW w \in Workers, TakeTask(w)
      PROVE  StrandInv'
  <2>1. /\ pc[w] = "scan" /\ pc'[w] = "exec" /\ local'[w] = InitState
        /\ \A q \in Threads : q # w => pc'[q] = pc[q] /\ local'[q] = local[q]
        /\ UNCHANGED <<master, wake, index>>
    BY <1>0, <1>8, <1>pc DEF TakeTask, Goto, TypeOK
  <2>2. \A i \in Priorities : queues[i] = <<>> => queues'[i] = <<>>
    BY <1>0, <1>8 DEF TakeTask, TypeOK
  <2>3. UnusedStaysEmpty' /\ CandidateIsChosen'
    BY <1>pc, <2>1, <2>2 DEF StrandInv, UnusedStaysEmpty, CandidateIsChosen
  <2>4. SomeonePushing => SomeonePushing'
    BY <2>1 DEF SomeonePushing
  <2>5. \A q \in Threads : local'[q] \in {local[q], master, InitState}
    BY <2>1
  <2>6. QED
    BY <1>0, <1>pc, <2>1, <2>2, <2>3, <2>4, <2>5, StrandUnmoved
<1>9. ASSUME NEW w \in Workers, QueueIsEmpty(w)
      PROVE  StrandInv'
  <2>1. /\ pc[w] = "scan" /\ queues[index[w]] = <<>>
        /\ UNCHANGED <<master, queues, local, wake>>
    BY <1>9 DEF QueueIsEmpty, queueVars
  <2>2. \/ pc' = pc /\ index' = [index EXCEPT ![w] = index[w] + 1]
        \/ /\ pc' = [pc EXCEPT ![w] = "stall"] /\ index' = index
           /\ index[w] + 1 = NumPriorities
    BY <1>9, Zenon DEF QueueIsEmpty, Goto
  <2>3. /\ pc'[w] \in {"scan", "stall"}
        /\ \A q \in Threads : q # w => pc'[q] = pc[q] /\ index'[q] = index[q]
    BY <1>0, <1>pc, <2>1, <2>2 DEF TypeOK
  <2>4. \A i \in Priorities :
          (i < index'[w] \/ pc'[w] = "stall") => (i < index[w] \/ queues[i] = <<>>)
    <3>1. index[w] \in Priorities /\ Priorities \subseteq Nat
      BY <1>0, <1>pc, ThreadKinds DEF TypeOK
    <3>2. CASE pc' = pc /\ index' = [index EXCEPT ![w] = index[w] + 1]
      <4>1. index'[w] = index[w] + 1 /\ pc'[w] = "scan"
        BY <1>0, <1>pc, <2>1, <3>2 DEF TypeOK
      <4>2. \A i \in Priorities : i < index[w] + 1 => i < index[w] \/ i = index[w]
        BY <3>1, NextIndex, Zenon
      <4>3. QED
        BY <2>1, <4>1, <4>2
    <3>3. CASE index' = index /\ index[w] + 1 = NumPriorities
      <4>1. \A i \in Priorities : i < index[w] \/ i = index[w]
        BY <3>1, <3>3, NextIndex, Zenon
      <4>2. QED
        BY <2>1, <4>1
    <3>4. QED
      BY <2>2, <3>2, <3>3
  <2>5. UnusedStaysEmpty' /\ CandidateIsChosen'
    BY <2>1, <2>3 DEF StrandInv, UnusedStaysEmpty, CandidateIsChosen
  <2>6. SomeonePushing => SomeonePushing'
    BY <2>1, <2>3 DEF SomeonePushing
  <2>7. QED
    BY <1>0, <1>pc, <2>1, <2>3, <2>4, <2>5, <2>6, StrandUnmoved
<1>10. ASSUME NEW w \in Workers, StallExchange(w)
       PROVE  StrandInv'
  <2>1. /\ pc[w] = "stall" /\ Exchanged(w) /\ pc'[w] = "wait"
        /\ local'[w] = InitState
        /\ \A q \in Threads : q # w => pc'[q] = pc[q] /\ local'[q] = local[q]
        /\ UNCHANGED <<queues, wake, index>>
    BY <1>0, <1>10, <1>pc DEF StallExchange, Goto, queueVars, TypeOK
  <2>2. master'.counter = master.counter + 1 /\ master.counter \in Nat
    BY <1>0, <1>10, BitsType DEF StallExchange, Exchanged, Advance, TypeOK
  <2>3. \A q \in Threads : local'[q] # master' /\ local'[q].counter <= master'.counter
    <3>1. InitState.counter = 0 /\ InitState.counter # master'.counter
      BY <2>2, InitStateFields
    <3>2. \A q \in Threads : local[q] # master' /\ local[q].counter <= master'.counter
      BY <1>0, <2>2, StaleAfterExchange DEF StrandInv
    <3>3. QED
      BY <2>1, <2>2, <3>1, <3>2
  <2>4. (\E i \in Priorities : queues[i] # <<>>) => SomeonePushing
    BY <2>1 DEF StrandInv, ScannedIsCovered
  <2>5. SomeonePushing => SomeonePushing'
    BY <2>1 DEF SomeonePushing
  <2>6. NoStrandedTask'
    BY <2>1, <2>4, <2>5 DEF NoStrandedTask, SomeonePushing
  <2>7. UnusedStaysEmpty' /\ CandidateIsChosen'
    BY <2>1 DEF StrandInv, UnusedStaysEmpty, CandidateIsChosen
  <2>8. QED
    BY <1>0, <1>pc, <2>3, <2>6, <2>7
    DEF StrandInv, CountersAdvance, ScannedIsCovered, Exchanged
<1>11. ASSUME NEW w \in Workers, StallRetry(w) \/ WaitEvent(w) \/ FinishTask(w)
       PROVE  StrandInv'
  <2>1. /\ pc[w] \in {"stall", "wait", "exec"} /\ pc'[w] \in {"pop", "done"}
        /\ \A q \in Threads : q # w => pc'[q] = pc[q]
        /\ UNCHANGED <<master, queues, local, wake, index>>
    BY <1>11, <1>pc DEF StallRetry, WaitEvent, FinishTask, Goto, queueVars, localVars
  <2>2. UnusedStaysEmpty' /\ CandidateIsChosen'
    BY <2>1 DEF StrandInv, UnusedStaysEmpty, CandidateIsChosen
  <2>3. SomeonePushing => SomeonePushing'
    BY <2>1 DEF SomeonePushing
  <2>4. QED
    BY <1>0, <1>pc, <2>1, <2>2, <2>3, StrandUnmoved
<1>12. CASE RequestQuit \/ QuitTrigger \/ ShutDown \/ UNCHANGED vars
  <2>1. UNCHANGED <<master, queues, pc, local, wake, index>>
    BY <1>12 DEF RequestQuit, QuitTrigger, ShutDown, vars, queueVars, localVars
  <2>2. UnusedStaysEmpty' /\ CandidateIsChosen' /\ (SomeonePushing => SomeonePushing')
    BY <2>1 DEF StrandInv, UnusedStaysEmpty, CandidateIsChosen, SomeonePushing
  <2>3. QED
    BY <1>0, <1>pc, <2>1, <2>2, StrandUnmoved
<1>13. QED
  BY <1>1, <1>2, <1>3, <1>4, <1>5, <1>6, <1>7, <1>8, <1>9, <1>10, <1>11, <1>12
  DEF Next, Push, Pop

(* As long as the program leaves one of the queues unused, a push and a     *)
(* stall can interleave in any way and still no task stays in a queue with  *)
(* every worker asleep and nobody left to wake one.                         *)
THEOREM NothingStranded ==
  ASSUME UnusedPriorities # {}
  PROVE  Spec => []NoStrandedTask
<1>1. StrandInv /\ [Next]_vars => StrandInv'
  BY StrandStep
<1>2. Spec => []StrandInv
  BY <1>1, StrandInit, PTL DEF Spec
<1>3. StrandInv => NoStrandedTask
  BY DEF StrandInv
<1>4. QED
  BY <1>2, <1>3, PTL

-----------------------------------------------------------------------------
(* The refinement of TaskPool                                               *)

(* Where each task is: not queued yet, with the one thread that is about to *)
(* push it, at one place of one queue, or taken.                            *)
At(i, k, t) == k \in DOMAIN queues[i] /\ queues[i][k] = t

HeldBy(p, t) == pc[p] = "enqueue" /\ job[p] = t

QueuedOnce ==
  \A i, j \in Priorities : \A k, l \in Nat : \A t \in Tasks :
    At(i, k, t) /\ At(j, l, t) => i = j /\ k = l

QueuedIsNotElsewhere ==
  \A i \in Priorities : \A k \in Nat : \A t \in Tasks : At(i, k, t) =>
    /\ t \notin unpushed /\ t \notin executed
    /\ \A p \in Threads : ~HeldBy(p, t)

HeldOnce ==
  \A p, q \in Threads : \A t \in Tasks : HeldBy(p, t) =>
    /\ t \notin unpushed /\ t \notin executed
    /\ HeldBy(q, t) => p = q

PlaceInv ==
  /\ TypeOK /\ QueuedOnce /\ QueuedIsNotElsewhere /\ HeldOnce
  /\ unpushed \cap executed = {}

LEMMA PlaceInit == Init => PlaceInv
<1> SUFFICES ASSUME Init PROVE PlaceInv
  OBVIOUS
<1>1. TypeOK
  BY TypeInit
<1>2. \A i \in Priorities : \A k \in Nat : \A t \in Tasks : ~At(i, k, t)
  BY DEF Init, At
<1>3. \A p \in Threads : \A t \in Tasks : ~HeldBy(p, t)
  BY DEF Init, HeldBy
<1>4. unpushed \cap executed = {}
  BY DEF Init
<1>5. QED
  BY <1>1, <1>2, <1>3, <1>4
  DEF PlaceInv, QueuedOnce, QueuedIsNotElsewhere, HeldOnce

(* What FIFO push and pop do to the places.                                 *)
LEMMA AppendPlaces ==
  ASSUME NEW q \in Seq(Tasks), NEW t \in Tasks, NEW k \in Nat
  PROVE  /\ Len(q) \in Nat
         /\ k \in DOMAIN q => k <= Len(q) /\ q[k] \in Tasks
         /\ k \in DOMAIN Append(q, t) <=> k \in DOMAIN q \/ k = Len(q) + 1
         /\ k \in DOMAIN q => Append(q, t)[k] = q[k]
         /\ Append(q, t)[Len(q) + 1] = t
         /\ Len(q) + 1 \notin DOMAIN q
  OBVIOUS

LEMMA TailPlaces ==
  ASSUME NEW q \in Seq(Tasks), q # <<>>, NEW k \in Nat
  PROVE  /\ 1 \in DOMAIN q /\ Head(q) = q[1] /\ Head(q) \in Tasks
         /\ k \in DOMAIN Tail(q) <=> k # 0 /\ k + 1 \in DOMAIN q
         /\ k \in DOMAIN Tail(q) => Tail(q)[k] = q[k + 1]
         /\ k \in DOMAIN q => k = 1 \/ (k - 1 \in Nat /\ k - 1 \in DOMAIN Tail(q))
  OBVIOUS

LEMMA EnqueuePlaces ==
  ASSUME TypeOK, NEW p \in Threads, Enqueue(p)
  PROVE  /\ job[p] \in Tasks /\ TaskPriority[job[p]] \in Priorities
         /\ \A i \in Priorities : \A k \in Nat : \A t \in Tasks :
              At(i, k, t)' <=>
                \/ At(i, k, t)
                \/ /\ i = TaskPriority[job[p]] /\ t = job[p]
                   /\ k = Len(queues[TaskPriority[job[p]]]) + 1
<1>1. job[p] \in Tasks
  BY DEF Enqueue, TypeOK, Pushing
<1>2. TaskPriority[job[p]] \in Priorities
  BY <1>1, ConstantsAssumption
<1> DEFINE r == TaskPriority[job[p]]
           n == Len(queues[r]) + 1
<1>3. queues[r] \in Seq(Tasks) /\ queues'[r] = Append(queues[r], job[p])
      /\ \A i \in Priorities : i # r => queues'[i] = queues[i]
  BY <1>2 DEF Enqueue, TypeOK
<1>4. ASSUME NEW i \in Priorities, NEW k \in Nat, NEW t \in Tasks
      PROVE  At(i, k, t)' <=> At(i, k, t) \/ (i = r /\ t = job[p] /\ k = n)
  <2>1. CASE i # r
    BY <1>3, <2>1 DEF At
  <2>2. CASE i = r
    <3>1. /\ k \in DOMAIN Append(queues[r], job[p]) <=> k \in DOMAIN queues[r] \/ k = n
          /\ k \in DOMAIN queues[r] => Append(queues[r], job[p])[k] = queues[r][k]
          /\ Append(queues[r], job[p])[n] = job[p]
          /\ n \notin DOMAIN queues[r]
      BY <1>1, <1>3, AppendPlaces
    <3>2. QED
      BY <1>3, <2>2, <3>1 DEF At
  <2>3. QED
    BY <2>1, <2>2
<1>5. QED
  BY <1>1, <1>2, <1>4

LEMMA TakePlaces ==
  ASSUME TypeOK, NEW w \in Workers, TakeTask(w)
  PROVE  /\ Head(queues[index[w]]) \in Tasks /\ index[w] \in Priorities
         /\ At(index[w], 1, Head(queues[index[w]]))
         /\ \A i \in Priorities : \A k \in Nat : \A t \in Tasks :
              /\ i # index[w] => (At(i, k, t)' <=> At(i, k, t))
              /\ i = index[w] => (At(i, k, t)' <=> k # 0 /\ At(i, k + 1, t))
              /\ i = index[w] /\ At(i, k, t) =>
                   k = 1 \/ (k - 1 \in Nat /\ At(i, k - 1, t)')
<1> DEFINE r == index[w]
<1>1. r \in Priorities
  BY DEF TypeOK, Threads
<1>2. /\ queues[r] \in Seq(Tasks) /\ queues[r] # <<>>
      /\ queues'[r] = Tail(queues[r])
      /\ \A i \in Priorities : i # r => queues'[i] = queues[i]
  BY <1>1 DEF TakeTask, TypeOK
<1>3. 1 \in DOMAIN queues[r] /\ Head(queues[r]) = queues[r][1] /\ Head(queues[r]) \in Tasks
  BY <1>2, TailPlaces
<1>4. At(r, 1, Head(queues[r]))
  BY <1>3 DEF At
<1>5. ASSUME NEW i \in Priorities, NEW k \in Nat, NEW t \in Tasks
      PROVE  /\ i # r => (At(i, k, t)' <=> At(i, k, t))
             /\ i = r => (At(i, k, t)' <=> k # 0 /\ At(i, k + 1, t))
             /\ i = r /\ At(i, k, t) => k = 1 \/ (k - 1 \in Nat /\ At(i, k - 1, t)')
  <2>1. CASE i # r
    BY <1>2, <2>1 DEF At
  <2>2. CASE i = r
    <3>1. /\ k \in DOMAIN Tail(queues[r]) <=> k # 0 /\ k + 1 \in DOMAIN queues[r]
          /\ k \in DOMAIN Tail(queues[r]) => Tail(queues[r])[k] = queues[r][k + 1]
          /\ k \in DOMAIN queues[r] =>
               k = 1 \/ (k - 1 \in Nat /\ k - 1 \in DOMAIN Tail(queues[r]))
      BY <1>2, TailPlaces
    <3>2. At(i, k, t)' <=> k # 0 /\ At(i, k + 1, t)
      BY <1>2, <2>2, <3>1 DEF At
    <3>3. ASSUME At(i, k, t), k # 1
          PROVE  k - 1 \in Nat /\ At(i, k - 1, t)'
      <4>1. k - 1 \in Nat /\ k - 1 \in DOMAIN Tail(queues[r])
        BY <2>2, <3>1, <3>3 DEF At
      <4>2. Tail(queues[r])[k - 1] = queues[r][(k - 1) + 1]
        BY <1>2, <4>1, TailPlaces
      <4>3. (k - 1) + 1 = k
        OBVIOUS
      <4>4. QED
        BY <1>2, <2>2, <3>3, <4>1, <4>2, <4>3 DEF At
    <3>4. QED
      BY <2>2, <3>2, <3>3
  <2>3. QED
    BY <2>1, <2>2
<1>6. QED
  BY <1>1, <1>3, <1>4, <1>5

(* A step that leaves the queues and the history alone, and after which no  *)
(* thread holds a task it did not hold, keeps the places.                   *)
LEMMA PlacesUnmoved ==
  ASSUME PlaceInv, TypeOK', UNCHANGED <<queues, unpushed, executed>>,
         \A p \in Threads : \A t \in Tasks : HeldBy(p, t)' => HeldBy(p, t)
  PROVE  PlaceInv'
<1>1. \A i \in Priorities : \A k \in Nat : \A t \in Tasks : At(i, k, t)' <=> At(i, k, t)
  BY DEF At
<1>2. QED
  BY <1>1 DEF PlaceInv, QueuedOnce, QueuedIsNotElsewhere, HeldOnce

LEMMA PlaceStep == PlaceInv /\ [Next]_vars => PlaceInv'
<1> SUFFICES ASSUME PlaceInv, [Next]_vars
             PROVE  PlaceInv'
  OBVIOUS
<1>0. TypeOK /\ TypeOK' /\ Workers \subseteq Threads
  BY TypeStep DEF PlaceInv, Threads
<1>1. ASSUME NEW p \in Threads, NEW t0 \in Tasks, BeginPush(p, t0)
      PROVE  PlaceInv'
  <2>1. /\ pc[p] # "enqueue" /\ t0 \in unpushed /\ unpushed' = unpushed \ {t0}
        /\ job'[p] = t0 /\ pc'[p] = "enqueue"
        /\ \A q \in Threads : q # p => job'[q] = job[q] /\ pc'[q] = pc[q]
        /\ UNCHANGED <<queues, executed>>
    BY <1>0, <1>1 DEF BeginPush, AfterPush, Goto, TypeOK
  <2>2. \A i \in Priorities : \A k \in Nat : \A t \in Tasks : At(i, k, t)' <=> At(i, k, t)
    BY <2>1 DEF At
  <2>3. /\ \A t \in Tasks : HeldBy(p, t)' <=> t = t0
        /\ \A q \in Threads : q # p => \A t \in Tasks : HeldBy(q, t)' <=> HeldBy(q, t)
    BY <2>1 DEF HeldBy
  <2>4. /\ \A i \in Priorities : \A k \in Nat : ~At(i, k, t0)
        /\ \A q \in Threads : ~HeldBy(q, t0)
        /\ t0 \notin executed
    BY <2>1 DEF PlaceInv, QueuedIsNotElsewhere, HeldOnce
  <2>5. QueuedOnce'
    BY <2>2 DEF PlaceInv, QueuedOnce
  <2>6. QueuedIsNotElsewhere'
    BY <2>1, <2>2, <2>3, <2>4 DEF PlaceInv, QueuedIsNotElsewhere
  <2>7. HeldOnce'
    BY <2>1, <2>3, <2>4 DEF PlaceInv, HeldOnce
  <2>8. QED
    BY <1>0, <2>1, <2>5, <2>6, <2>7 DEF PlaceInv
<1>2. ASSUME NEW p \in Threads, Enqueue(p)
      PROVE  PlaceInv'
  <2> DEFINE j == job[p]
             r == TaskPriority[j]
             n == Len(queues[r]) + 1
  <2>1. /\ pc[p] = "enqueue" /\ pc'[p] = "cas"
        /\ \A q \in Threads : q # p => pc'[q] = pc[q]
        /\ UNCHANGED <<job, unpushed, executed>>
    BY <1>0, <1>2 DEF Enqueue, Goto, TypeOK
  <2>2. /\ j \in Tasks /\ r \in Priorities
        /\ \A i \in Priorities : \A k \in Nat : \A t \in Tasks :
             At(i, k, t)' <=> At(i, k, t) \/ (i = r /\ t = j /\ k = n)
    BY <1>0, <1>2, EnqueuePlaces
  <2> HIDE DEF r, n
  <2>3. /\ \A t \in Tasks : ~HeldBy(p, t)'
        /\ \A q \in Threads : q # p => \A t \in Tasks : HeldBy(q, t)' <=> HeldBy(q, t)
        /\ HeldBy(p, j)
    BY <2>1 DEF HeldBy
  <2> HIDE DEF j
  <2>4. /\ \A i \in Priorities : \A k \in Nat : ~At(i, k, j)
        /\ \A q \in Threads : q # p => ~HeldBy(q, j)
        /\ j \notin executed /\ j \notin unpushed
    BY <2>2, <2>3 DEF PlaceInv, QueuedIsNotElsewhere, HeldOnce
  <2>5. QueuedOnce'
    BY <2>2, <2>4 DEF PlaceInv, QueuedOnce
  <2>6. QueuedIsNotElsewhere'
    BY <2>1, <2>2, <2>3, <2>4 DEF PlaceInv, QueuedIsNotElsewhere
  <2>7. HeldOnce'
    BY <2>1, <2>3 DEF PlaceInv, HeldOnce
  <2>8. QED
    BY <1>0, <2>1, <2>5, <2>6, <2>7 DEF PlaceInv
<1>3. ASSUME NEW w \in Workers, TakeTask(w)
      PROVE  PlaceInv'
  <2> DEFINE h == Head(queues[index[w]])
             r == index[w]
  <2>1. /\ pc[w] = "scan" /\ pc'[w] = "exec"
        /\ \A q \in Threads : q # w => pc'[q] = pc[q]
        /\ executed' = executed \cup {h} /\ UNCHANGED <<job, unpushed>>
    BY <1>0, <1>3 DEF TakeTask, Goto, TypeOK
  <2>2. /\ h \in Tasks /\ r \in Priorities /\ At(r, 1, h)
        /\ \A i \in Priorities : \A k \in Nat : \A t \in Tasks :
             /\ i # r => (At(i, k, t)' <=> At(i, k, t))
             /\ i = r => (At(i, k, t)' <=> k # 0 /\ At(i, k + 1, t))
    BY <1>0, <1>3, TakePlaces
  <2> HIDE DEF h, r
  <2>3. \A q \in Threads : \A t \in Tasks : HeldBy(q, t)' <=> HeldBy(q, t)
    BY <1>0, <2>1 DEF HeldBy
  <2>4. /\ \A i \in Priorities : \A k \in Nat : At(i, k, h) => i = r /\ k = 1
        /\ \A q \in Threads : ~HeldBy(q, h)
        /\ h \notin unpushed
    BY <2>2 DEF PlaceInv, QueuedIsNotElsewhere, QueuedOnce
  <2>5. QueuedOnce'
    <3> SUFFICES ASSUME NEW i \in Priorities, NEW j \in Priorities, NEW k \in Nat,
                        NEW l \in Nat, NEW t \in Tasks, At(i, k, t)', At(j, l, t)'
                 PROVE  i = j /\ k = l
      BY DEF QueuedOnce
    <3>1. PICK k1 \in Nat : At(i, k1, t) /\ k1 = (IF i = r THEN k + 1 ELSE k)
      BY <2>2
    <3>2. PICK l1 \in Nat : At(j, l1, t) /\ l1 = (IF j = r THEN l + 1 ELSE l)
      BY <2>2
    <3>3. i = j /\ k1 = l1
      BY <3>1, <3>2 DEF PlaceInv, QueuedOnce
    <3>4. QED
      BY <3>1, <3>2, <3>3
  <2>6. \A i \in Priorities : \A k \in Nat : \A t \in Tasks :
          At(i, k, t)' => t # h /\ \E l \in Nat : At(i, l, t)
    <3> SUFFICES ASSUME NEW i \in Priorities, NEW k \in Nat, NEW t \in Tasks, At(i, k, t)'
                 PROVE  t # h /\ \E l \in Nat : At(i, l, t)
      OBVIOUS
    <3>1. CASE i = r
      <4>1. k # 0 /\ At(i, k + 1, t) /\ k + 1 \in Nat /\ k + 1 # 1
        BY <2>2, <3>1
      <4>2. QED
        BY <2>4, <4>1
    <3>2. CASE i # r
      BY <2>2, <2>4, <3>2
    <3>3. QED
      BY <3>1, <3>2
  <2>7. QueuedIsNotElsewhere'
    BY <2>1, <2>3, <2>6 DEF PlaceInv, QueuedIsNotElsewhere
  <2>8. HeldOnce'
    BY <2>1, <2>3, <2>4 DEF PlaceInv, HeldOnce
  <2>9. QED
    BY <1>0, <2>1, <2>4, <2>5, <2>7, <2>8 DEF PlaceInv
<1>4. ASSUME NEW p \in Threads, PushExchange(p) \/ PushRetry(p) \/ CheckQueue(p) \/ TriggerEvent(p)
      PROVE  PlaceInv'
  <2>1. /\ UNCHANGED <<queues, unpushed, executed>>
        /\ pc'[p] # "enqueue"
        /\ \A q \in Threads : q # p => pc'[q] = pc[q] /\ job'[q] = job[q]
    BY <1>0, <1>4
    DEF PushExchange, PushRetry, CheckQueue, TriggerEvent, Goto, AfterPush, queueVars, TypeOK
  <2>2. \A q \in Threads : \A t \in Tasks : HeldBy(q, t)' => HeldBy(q, t)
    BY <2>1 DEF HeldBy
  <2>3. QED
    BY <1>0, <2>1, <2>2, PlacesUnmoved
<1>5. ASSUME NEW w \in Workers,
             \/ ReadMaster(w) \/ QueueIsEmpty(w) \/ StallExchange(w) \/ StallRetry(w)
             \/ WaitEvent(w) \/ FinishTask(w)
      PROVE  PlaceInv'
  <2>1. /\ UNCHANGED <<queues, unpushed, executed, job>>
        /\ pc'[w] # "enqueue"
        /\ \A q \in Threads : q # w => pc'[q] = pc[q]
    BY <1>0, <1>5
    DEF ReadMaster, QueueIsEmpty, StallExchange, StallRetry, WaitEvent, FinishTask,
        Goto, queueVars, localVars, TypeOK
  <2>2. \A q \in Threads : \A t \in Tasks : HeldBy(q, t)' => HeldBy(q, t)
    BY <2>1 DEF HeldBy
  <2>3. QED
    BY <1>0, <2>1, <2>2, PlacesUnmoved
<1>6. CASE RequestQuit \/ QuitTrigger \/ ShutDown \/ UNCHANGED vars
  <2>1. UNCHANGED <<queues, unpushed, executed, pc, job>>
    BY <1>6 DEF RequestQuit, QuitTrigger, ShutDown, vars, queueVars, localVars
  <2>2. \A q \in Threads : \A t \in Tasks : HeldBy(q, t)' => HeldBy(q, t)
    BY <2>1 DEF HeldBy
  <2>3. QED
    BY <1>0, <2>1, <2>2, PlacesUnmoved
<1>7. QED
  BY <1>1, <1>2, <1>3, <1>4, <1>5, <1>6 DEF Next, Push, Pop

LEMMA PlacesHold == Spec => []PlaceInv
  BY PlaceInit, PlaceStep, PTL DEF Spec

LEMMA QueuedTasks ==
  TypeOK =>
    \A t : t \in InQueues <=> t \in Tasks /\ \E i \in Priorities : \E k \in Nat : At(i, k, t)
<1> SUFFICES ASSUME TypeOK, NEW t
             PROVE  t \in InQueues <=>
                      t \in Tasks /\ \E i \in Priorities : \E k \in Nat : At(i, k, t)
  OBVIOUS
<1>1. t \in InQueues <=> \E i \in Priorities : \E k \in DOMAIN queues[i] : t = queues[i][k]
  BY DEF InQueues
<1>2. \A i \in Priorities : \A k \in DOMAIN queues[i] : k \in Nat /\ queues[i][k] \in Tasks
  <2>1. \A i \in Priorities : queues[i] \in Seq(Tasks)
    BY DEF TypeOK
  <2>2. \A q \in Seq(Tasks) : \A k \in DOMAIN q : k \in Nat /\ q[k] \in Tasks
    OBVIOUS
  <2>3. QED
    BY <2>1, <2>2
<1>3. QED
  BY <1>1, <1>2 DEF At

(* Every step is the submission of a task that was not submitted before,    *)
(* the start of one that was submitted and not started, or neither: pushes  *)
(* and pops of any number of threads, with every wake-up and retry, lose no *)
(* task and run none twice (FStallingTaskQueue::Push, Pop).                 *)
THEOREM ImplementsPoolSafely == Spec => Pool!SafeSpec
<1>1. Init => Pool!Init
  BY DEF Init, Pool!Init, InQueues
<1>2. ASSUME PlaceInv, PlaceInv', [Next]_vars
      PROVE  [Pool!Next]_(Pool!poolVars)
  <2>0. TypeOK /\ TypeOK' /\ Workers \subseteq Threads
    BY <1>2 DEF PlaceInv, Threads
  <2>1. /\ \A t : t \in InQueues <=>
              t \in Tasks /\ \E i \in Priorities : \E k \in Nat : At(i, k, t)
        /\ \A t : t \in InQueues' <=>
              t \in Tasks /\ \E i \in Priorities : \E k \in Nat : At(i, k, t)'
    <3>1. TypeOK' => (\A t : t \in InQueues <=>
              t \in Tasks /\ \E i \in Priorities : \E k \in Nat : At(i, k, t))'
      BY QueuedTasks, PTL
    <3>2. QED
      BY <2>0, <3>1, QueuedTasks
  <2>2. ASSUME NEW p \in Threads, Enqueue(p)
        PROVE  Pool!Submit(job[p]) /\ job[p] \in Tasks
    <3>1. /\ job[p] \in Tasks
          /\ \A i \in Priorities : \A k \in Nat : \A t \in Tasks :
               At(i, k, t)' <=>
                 \/ At(i, k, t)
                 \/ /\ i = TaskPriority[job[p]] /\ t = job[p]
                    /\ k = Len(queues[TaskPriority[job[p]]]) + 1
      BY <2>0, <2>2, EnqueuePlaces
    <3>2. HeldBy(p, job[p]) /\ executed' = executed
      BY <2>2 DEF Enqueue, HeldBy
    <3>3. job[p] \notin InQueues /\ job[p] \notin executed
      BY <1>2, <2>1, <3>1, <3>2 DEF PlaceInv, HeldOnce, QueuedIsNotElsewhere
    <3>4. /\ TaskPriority[job[p]] \in Priorities
          /\ Len(queues[TaskPriority[job[p]]]) + 1 \in Nat
      BY <2>0, <3>1, ConstantsAssumption DEF TypeOK
    <3>5. \A t : t \in InQueues' <=> t \in InQueues \/ t = job[p]
      BY <2>1, <3>1, <3>4
    <3>6. QED
      BY <3>1, <3>2, <3>3, <3>5 DEF Pool!Submit
  <2>3. ASSUME NEW w \in Workers, TakeTask(w)
        PROVE  \E t \in Tasks : Pool!Run(t)
    <3> DEFINE h == Head(queues[index[w]])
               r == index[w]
    <3>1. executed' = executed \cup {h}
      BY <2>3 DEF TakeTask
    <3>2. /\ h \in Tasks /\ r \in Priorities /\ At(r, 1, h)
          /\ \A i \in Priorities : \A k \in Nat : \A t \in Tasks :
               /\ i # r => (At(i, k, t)' <=> At(i, k, t))
               /\ i = r => (At(i, k, t)' <=> k # 0 /\ At(i, k + 1, t))
               /\ i = r /\ At(i, k, t) => k = 1 \/ (k - 1 \in Nat /\ At(i, k - 1, t)')
      BY <2>0, <2>3, TakePlaces
    <3> HIDE DEF h, r
    <3>3. h \in InQueues /\ h \notin executed
      BY <1>2, <2>1, <3>2 DEF PlaceInv, QueuedIsNotElsewhere
    <3>4. \A k \in Nat : At(r, k, h) => k = 1
      BY <1>2, <3>2 DEF PlaceInv, QueuedOnce
    <3>5. \A t \in Tasks : t \in InQueues => t \in InQueues' \/ t = h
      <4> SUFFICES ASSUME NEW t \in Tasks, t \in InQueues, t # h
                   PROVE  t \in InQueues'
        OBVIOUS
      <4>1. PICK i \in Priorities, k \in Nat : At(i, k, t)
        BY <2>1
      <4>2. k = 1 /\ i = r => t = h
        BY <3>2, <4>1 DEF At
      <4>3. QED
        BY <2>1, <3>2, <4>1, <4>2
    <3>6. \A t \in Tasks : t \in InQueues' => t \in InQueues
      <4> SUFFICES ASSUME NEW t \in Tasks, t \in InQueues'
                   PROVE  t \in InQueues
        OBVIOUS
      <4>1. PICK i \in Priorities, k \in Nat : At(i, k, t)'
        BY <2>1
      <4>2. QED
        BY <2>1, <3>2, <4>1
    <3>7. InQueues' \cup executed' = InQueues \cup executed
      <4>1. \A t : t \in InQueues => t \in Tasks
        BY <2>1
      <4>2. \A t : t \in InQueues' => t \in Tasks
        BY <2>1
      <4>3. QED
        BY <3>1, <3>3, <3>5, <3>6, <4>1, <4>2
    <3>8. Pool!Run(h)
      BY <3>1, <3>3, <3>7 DEF Pool!Run
    <3>9. QED
      BY <3>2, <3>8
  <2>4. ASSUME UNCHANGED <<queues, executed>>
        PROVE  UNCHANGED Pool!poolVars
    BY <2>4 DEF Pool!poolVars, InQueues
  <2>5. ASSUME NEW p \in Threads, NEW t \in Tasks, BeginPush(p, t)
        PROVE  UNCHANGED <<queues, executed>>
    BY <2>5 DEF BeginPush
  <2>6. ASSUME NEW p \in Threads,
               PushExchange(p) \/ PushRetry(p) \/ CheckQueue(p) \/ TriggerEvent(p)
        PROVE  UNCHANGED <<queues, executed>>
    BY <2>6 DEF PushExchange, PushRetry, CheckQueue, TriggerEvent, queueVars
  <2>7. ASSUME NEW w \in Workers,
               \/ ReadMaster(w) \/ QueueIsEmpty(w) \/ StallExchange(w) \/ StallRetry(w)
               \/ WaitEvent(w) \/ FinishTask(w)
        PROVE  UNCHANGED <<queues, executed>>
    BY <2>7 DEF ReadMaster, QueueIsEmpty, StallExchange, StallRetry, WaitEvent,
                FinishTask, queueVars
  <2>8. CASE RequestQuit \/ QuitTrigger \/ ShutDown \/ UNCHANGED vars
    BY <2>4, <2>8 DEF RequestQuit, QuitTrigger, ShutDown, vars, queueVars
  <2>9. QED
    BY <1>2, <2>2, <2>3, <2>4, <2>5, <2>6, <2>7, <2>8 DEF Next, Push, Pop, Pool!Next
<1>3. QED
  BY <1>1, <1>2, PlacesHold, PTL DEF Spec, Pool!SafeSpec
=============================================================================
