----------------------- MODULE QueuedThreadPool_proofs -----------------------
(***************************************************************************)
(* Machine-checked safety of the queued thread pool, for any number of     *)
(* threads, clients and works: a thread in the pool is free, a wake-up has *)
(* a reason, each work has one place and one fate, and an owner that       *)
(* destroys the pool in quiet joins only idle threads.                     *)
(***************************************************************************)
EXTENDS QueuedThreadPool, TLAPS, SequenceTheorems, FiniteSetTheorems

-----------------------------------------------------------------------------
(* The inductive invariant                                                  *)

Fates == {"new", "added", "running", "done", "abandoned", "retracted"}
Shapes ==
  /\ queue \in Seq(Works) /\ available \in Seq(Threads)
  /\ timeToDie \in BOOLEAN /\ careless \in BOOLEAN /\ crashed \in BOOLEAN
  /\ destroyer \in {"none", "draining", "drained", "killing", "triggering",
                    "joining", "gone"}
  /\ alive \subseteq Threads
  /\ event \in [Threads -> BOOLEAN] /\ die \in [Threads -> BOOLEAN]
  /\ given \in [Threads -> Works \cup {NoWork}]
  /\ work \in [Threads -> Works \cup {NoWork}]
  /\ pc \in [Threads -> {"loop", "wait", "woken", "work", "return", "exited"}]
  /\ call \in [Callers -> {"none", "add", "retract"}]
  /\ arg \in [Callers -> Works \cup {NoWork}]
  /\ fate \in [Works -> Fates]

(* A thread is told to quit by the holder of the lock, which it never gives *)
(* back; so no work is handed to a thread that has been told.               *)
ToldUnderLock == CanLock => \A t \in Threads : ~die[t]

(* A thread at work, or on its way back to the pool, has nothing waiting.   *)
BusyThreadsAreGivenNothing ==
  \A t \in Threads : pc[t] \in {"work", "return"} => given[t] = NoWork

(* The event is set a second time only to make the thread quit.             *)
WokenOnce == \A t \in Threads : event[t] /\ pc[t] = "woken" => die[t]

HandOverInv ==
  /\ ToldUnderLock /\ BusyThreadsAreGivenNothing /\ WokenOnce
  /\ WokenForAReason /\ PooledThreadsAreFree

(* A call has its work to itself, and what it adds has not been added.      *)
CallsInv ==
  /\ \A c \in Callers : call[c] = "none" <=> arg[c] = NoWork
  /\ \A c \in Callers : call[c] = "add" => fate[arg[c]] = "new"
  /\ \A c, d \in Callers : arg[c] = arg[d] /\ c # d => arg[c] = NoWork

(* A work is in the queue, on its way to a thread, or with a thread; in one *)
(* of these only, and its fate says in which.                               *)
PlacesInv ==
  /\ \A j, k \in DOMAIN queue : queue[j] = queue[k] => j = k
  /\ \A j \in DOMAIN queue :
       fate[queue[j]] = "added" /\ \A t \in Threads : given[t] # queue[j]
  /\ \A t \in Threads : given[t] # NoWork =>
       /\ fate[given[t]] = "added"
       /\ \A u \in Threads : given[u] = given[t] => u = t
  /\ \A t \in Threads : pc[t] = "work" =>
       /\ work[t] # NoWork /\ fate[work[t]] = "running"
       /\ \A u \in Threads : pc[u] = "work" /\ work[u] = work[t] => u = t

(* No work is lost: what was added and has met no end yet is in one of      *)
(* these places.                                                            *)
NothingLost ==
  \A w \in Works :
    /\ fate[w] = "added" => w \in Range(queue) \/ \E t \in Threads : given[t] = w
    /\ fate[w] = "running" => \E t \in Threads : pc[t] = "work" /\ work[t] = w

(* A careful owner destroys the pool when nobody is inside its functions,   *)
(* and nobody enters them after that.                                       *)
QuietInv ==
  /\ timeToDie <=> destroyer # "none"
  /\ ~careless /\ timeToDie => queue = <<>> /\ \A c \in Callers : call[c] = "none"

PoolInv == Shapes /\ HandOverInv /\ CallsInv /\ PlacesInv /\ NothingLost /\ QuietInv

-----------------------------------------------------------------------------
(* The steps, and what removing from a sequence does                        *)

LEMMA Steps ==
  ASSUME Next
  PROVE  \/ \E c \in Callers : RetractMissed(c) \/ LockAfterDestroy(c)
         \/ /\ UNCHANGED crashed
            /\ \/ \E c \in Callers, w \in Works :
                    AddQueuedWork(c, w) \/ RetractQueuedWork(c, w)
               \/ \E c \in Callers : AddLocked(c) \/ RetractFound(c)
               \/ \E t \in Threads : Run(t)
               \/ BeginDestroy \/ Drained \/ EndDestroy
               \/ \E t \in Threads : KillThread(t) \/ KillTrigger(t) \/ KillJoin(t)
         \/ UNCHANGED vars
  BY DEF Next, Call, Destroy, DrainPoll, Finished

LEMMA RemoveAtProperties ==
  ASSUME NEW S, NEW s \in Seq(S), NEW k \in 1 .. Len(s)
  PROVE  /\ RemoveAt(s, k) \in Seq(S)
         /\ Len(RemoveAt(s, k)) = Len(s) - 1
         /\ \A i \in 1 .. Len(s) - 1 :
              RemoveAt(s, k)[i] = IF i < k THEN s[i] ELSE s[i + 1]
<1> DEFINE a == SubSeq(s, 1, k - 1)
           b == SubSeq(s, k + 1, Len(s))
<1>1. Len(s) \in Nat /\ \A i \in 1 .. Len(s) : s[i] \in S
  BY LenProperties, ElementOfSeq
<1>2. /\ a \in Seq(S) /\ Len(a) = k - 1
      /\ \A i \in 1 .. k - 1 : a[i] = s[i]
  BY <1>1, SubSeqProperties
<1>3. /\ b \in Seq(S) /\ Len(b) = Len(s) - k
      /\ \A i \in 1 .. Len(s) - k : b[i] = s[k + i]
  BY <1>1, SubSeqProperties
<1> HIDE DEF a, b
<1>4. /\ a \o b \in Seq(S) /\ Len(a \o b) = Len(a) + Len(b)
      /\ \A i \in 1 .. Len(a) + Len(b) :
           (a \o b)[i] = IF i <= Len(a) THEN a[i] ELSE b[i - Len(a)]
  BY <1>2, <1>3, ConcatProperties
<1>5. Len(a) + Len(b) = Len(s) - 1
  BY <1>1, <1>2, <1>3
<1>6. ASSUME NEW i \in 1 .. Len(s) - 1
      PROVE  (a \o b)[i] = IF i < k THEN s[i] ELSE s[i + 1]
  <2>1. CASE i < k
    BY <1>1, <1>2, <1>4, <1>5, <2>1
  <2>2. CASE ~(i < k)
    <3>1. (a \o b)[i] = b[i - (k - 1)] /\ i - (k - 1) \in 1 .. Len(s) - k
      BY <1>1, <1>2, <1>4, <1>5, <2>2
    <3>2. b[i - (k - 1)] = s[k + (i - (k - 1))] /\ k + (i - (k - 1)) = i + 1
      BY <1>1, <1>3, <3>1
    <3>3. QED
      BY <2>2, <3>1, <3>2
  <2>3. QED
    BY <2>1, <2>2
<1>7. QED
  BY <1>4, <1>5, <1>6 DEF RemoveAt, a, b

-----------------------------------------------------------------------------
(* Types                                                                    *)

LEMMA InitShapes == Init => Shapes
<1> SUFFICES ASSUME Init PROVE Shapes
  OBVIOUS
<1>1. Cardinality(Threads) \in Nat
  BY PoolAssumption, FS_CardinalityType
<1>2. available \in Seq(Threads)
  <2>1. available \in [1 .. Cardinality(Threads) -> Threads]
    BY DEF Init
  <2>2. QED
    BY <1>1, <2>1, SeqDef
<1>3. QED
  BY <1>2, PoolAssumption, EmptySeq DEF Init, Shapes, Fates

LEMMA HeadTail ==
  ASSUME NEW S, NEW s \in Seq(S), s # <<>>
  PROVE  /\ Len(s) \in Nat /\ Len(s) >= 1 /\ Head(s) = s[1] /\ s[1] \in S
         /\ Tail(s) \in Seq(S) /\ DOMAIN Tail(s) = 1 .. Len(s) - 1
         /\ \A k \in 1 .. Len(s) - 1 : Tail(s)[k] = s[k + 1]
         /\ DOMAIN s = 1 .. Len(s)
  BY HeadTailProperties, LenProperties, EmptySeq

LEMMA NextShapes ==
  ASSUME Shapes, CallsInv, [Next]_vars
  PROVE  Shapes'
<1> USE DEF Shapes, Fates
<1>1. CASE UNCHANGED vars
  BY <1>1 DEF vars, destroyVars, threadVars, callVars
<1>2. ASSUME NEW c \in Callers, RetractMissed(c) \/ LockAfterDestroy(c)
      PROVE  Shapes'
  BY <1>2, PoolAssumption DEF RetractMissed, LockAfterDestroy, Leave, Enter,
     destroyVars, threadVars, callVars
<1>3. ASSUME NEW c \in Callers, NEW w \in Works, UNCHANGED crashed,
             AddQueuedWork(c, w) \/ RetractQueuedWork(c, w)
      PROVE  Shapes'
  BY <1>3 DEF AddQueuedWork, RetractQueuedWork, Enter, SetFate,
     destroyVars, threadVars, callVars
<1>4. ASSUME NEW c \in Callers, UNCHANGED crashed, AddLocked(c)
      PROVE  Shapes'
  <2> arg[c] \in Works
    BY <1>4 DEF AddLocked, CallsInv
  <2>1. CASE ThreadReady
    <3>1. Head(available) \in Threads /\ Tail(available) \in Seq(Threads)
      BY <2>1, HeadTailProperties DEF ThreadReady
    <3>2. QED
      BY <1>4, <2>1, <3>1 DEF AddLocked, SetFate, Leave, Enter, destroyVars
  <2>2. CASE ~ThreadReady
    <3>1. Append(queue, arg[c]) \in Seq(Works)
      BY AppendProperties
    <3>2. QED
      BY <1>4, <2>2, <3>1 DEF AddLocked, SetFate, Leave, Enter, destroyVars
  <2>3. QED
    BY <2>1, <2>2
<1>5. ASSUME NEW c \in Callers, UNCHANGED crashed, RetractFound(c)
      PROVE  Shapes'
  <2>1. PICK k \in DOMAIN queue : queue[k] = arg[c] /\ queue' = RemoveAt(queue, k)
    BY <1>5 DEF RetractFound
  <2>2. queue' \in Seq(Works)
    BY <2>1, LenProperties, RemoveAtProperties
  <2>3. QED
    BY <1>5, <2>2 DEF RetractFound, SetFate, Leave, Enter, destroyVars, threadVars
<1>6. ASSUME NEW t \in Threads, UNCHANGED crashed, Run(t)
      PROVE  Shapes'
  <2>1. CASE WakeUp(t) \/ TestTimeToDie(t) \/ FinishWork(t)
    BY <1>6, <2>1 DEF WakeUp, TestTimeToDie, FinishWork, Goto, SetFate,
       destroyVars, callVars
  <2>2. CASE TakeWork(t)
    BY <1>6, <2>2 DEF TakeWork, Cleared, Goto, SetFate, destroyVars, callVars
  <2>3. CASE ReturnToPoolOrGetNextJob(t)
    <3>1. queue # <<>> => Head(queue) \in Works /\ Tail(queue) \in Seq(Works)
      BY HeadTailProperties
    <3>2. Append(available, t) \in Seq(Threads)
      BY AppendProperties
    <3>3. CASE queue # <<>>
      <4>1. /\ work' = [work EXCEPT ![t] = Head(queue)]
            /\ fate' = [fate EXCEPT ![Head(queue)] = "running"]
            /\ queue' = Tail(queue) /\ pc' = [pc EXCEPT ![t] = "work"]
            /\ UNCHANGED <<available, destroyVars, event, die, given, callVars>>
        BY <2>3, <3>3 DEF ReturnToPoolOrGetNextJob, Goto, SetFate
      <4>2. QED
        BY <1>6, <3>1, <3>3, <4>1 DEF destroyVars, callVars
    <3>4. CASE queue = <<>>
      BY <1>6, <2>3, <3>2, <3>4 DEF ReturnToPoolOrGetNextJob, Goto, SetFate,
         destroyVars, callVars
    <3>5. QED
      BY <3>3, <3>4
  <2>4. QED
    BY <1>6, <2>1, <2>2, <2>3 DEF Run
<1>7. CASE UNCHANGED crashed /\ BeginDestroy
  BY <1>7, EmptySeq DEF BeginDestroy, threadVars, callVars
<1>8. CASE UNCHANGED crashed /\ (Drained \/ EndDestroy)
  BY <1>8, EmptySeq DEF Drained, EndDestroy, threadVars, callVars
<1>9. ASSUME NEW t \in Threads, UNCHANGED crashed,
             KillThread(t) \/ KillTrigger(t) \/ KillJoin(t)
      PROVE  Shapes'
  BY <1>9 DEF KillThread, KillTrigger, KillJoin, threadVars, callVars
<1>10. QED
  BY <1>1, <1>2, <1>3, <1>4, <1>5, <1>6, <1>7, <1>8, <1>9, Steps

-----------------------------------------------------------------------------
(* Handing over work                                                        *)

LEMMA InitHandOver == Init => HandOverInv
<1> SUFFICES ASSUME Init PROVE HandOverInv
  OBVIOUS
<1>1. \A j, k \in DOMAIN available : available[j] = available[k] => j = k
  <2>1. /\ available \in [1 .. Cardinality(Threads) -> Threads]
        /\ Range(available) = Threads
    BY DEF Init
  <2>2. Cardinality(Threads) \in Nat
    BY PoolAssumption, FS_CardinalityType
  <2>3. /\ IsFiniteSet(1 .. Cardinality(Threads))
        /\ Cardinality(1 .. Cardinality(Threads)) = Cardinality(Threads)
    BY <2>2, FS_Interval
  <2>4. available \in Surjection(1 .. Cardinality(Threads), Threads)
    BY <2>1 DEF Surjection, Range
  <2>5. available \in Injection(1 .. Cardinality(Threads), Threads)
    BY <2>3, <2>4, FS_SurjSameCardinalityImpliesInj
  <2>6. QED
    BY <2>1, <2>5 DEF Injection, IsInjective
<1>2. \A t \in Range(available) : t \in Threads
  BY DEF Init
<1>3. QED
  BY <1>1, <1>2 DEF Init, HandOverInv, ToldUnderLock, BusyThreadsAreGivenNothing,
     WokenOnce, WokenForAReason, PooledThreadsAreFree

(* AddQueuedWork takes a thread that is free, and nobody else has it.       *)
LEMMA AddLockedHandsOver ==
  ASSUME Shapes, CallsInv, HandOverInv, NEW c \in Callers, AddLocked(c)
  PROVE  HandOverInv'
<1> USE DEF HandOverInv
<1>1. arg[c] \in Works /\ arg[c] # NoWork
  BY PoolAssumption DEF AddLocked, CallsInv, Shapes
<1>2. CASE ThreadReady
  <2> DEFINE t == Head(available)
  <2>1. /\ given' = [given EXCEPT ![t] = arg[c]]
        /\ event' = [event EXCEPT ![t] = TRUE]
        /\ available' = Tail(available)
        /\ CanLock
        /\ UNCHANGED <<timeToDie, destroyer, alive, careless, die, pc, work>>
    BY <1>2 DEF AddLocked, destroyVars
  <2>2. /\ Len(available) \in Nat /\ DOMAIN available = 1 .. Len(available)
        /\ 1 \in DOMAIN available /\ t = available[1] /\ t \in Threads
        /\ DOMAIN Tail(available) = 1 .. Len(available) - 1
        /\ \A k \in 1 .. Len(available) - 1 : Tail(available)[k] = available[k + 1]
    BY <1>2, HeadTail DEF ThreadReady, Shapes
  <2> HIDE DEF t
  <2>3. \A u \in Range(available') : u # t /\ u \in Range(available)
    BY <2>1, <2>2 DEF PooledThreadsAreFree, Range
  <2>4. \A j, k \in DOMAIN available' : available'[j] = available'[k] => j = k
    BY <2>1, <2>2 DEF PooledThreadsAreFree
  <2>5. /\ given[t] = NoWork /\ work[t] = NoWork /\ ~event[t]
        /\ pc[t] \in {"loop", "wait", "exited"}
    BY <2>1, <2>2 DEF PooledThreadsAreFree, Range, ToldUnderLock, WokenOnce
  <2>6. /\ given'[t] = arg[c] /\ event'[t]
        /\ \A u \in Threads : u # t => given'[u] = given[u] /\ event'[u] = event[u]
    BY <2>1, <2>2 DEF Shapes
  <2>7. Range(available') \subseteq Threads
    BY <2>3, RangeOfSeq DEF Shapes
  <2>8. PooledThreadsAreFree'
    BY <2>1, <2>3, <2>4, <2>6, <2>7 DEF PooledThreadsAreFree
  <2>9. (BusyThreadsAreGivenNothing /\ WokenOnce)'
    BY <2>1, <2>2, <2>5, <2>6 DEF BusyThreadsAreGivenNothing, WokenOnce
  <2>10. WokenForAReason'
    BY <1>1, <2>1, <2>2, <2>6 DEF WokenForAReason
  <2>11. ToldUnderLock'
    BY <2>1 DEF ToldUnderLock, CanLock
  <2>12. QED
    BY <2>8, <2>9, <2>10, <2>11
<1>3. CASE ~ThreadReady
  BY <1>3 DEF AddLocked, destroyVars, PooledThreadsAreFree,
     BusyThreadsAreGivenNothing, WokenOnce, WokenForAReason, ToldUnderLock, CanLock
<1>4. QED
  BY <1>2, <1>3

(* A thread comes back to the pool with nothing on its way.                 *)
LEMMA ReturnHandsOver ==
  ASSUME Shapes, HandOverInv, NEW t \in Threads, ReturnToPoolOrGetNextJob(t)
  PROVE  HandOverInv'
<1> USE DEF HandOverInv
<1>1. /\ pc[t] = "return" /\ given[t] = NoWork /\ t \notin Range(available)
      /\ event[t] => die[t]
      /\ UNCHANGED <<timeToDie, destroyer, alive, careless, event, die, given>>
  BY DEF ReturnToPoolOrGetNextJob, BusyThreadsAreGivenNothing,
     PooledThreadsAreFree, WokenForAReason, destroyVars
<1>2. CASE queue # <<>>
  <2>1. /\ pc' = [pc EXCEPT ![t] = "work"] /\ work' = [work EXCEPT ![t] = Head(queue)]
        /\ available' = available
    BY <1>2 DEF ReturnToPoolOrGetNextJob, Goto
  <2>2. pc'[t] = "work" /\ \A u \in Threads : u # t => pc'[u] = pc[u] /\ work'[u] = work[u]
    BY <2>1 DEF Shapes
  <2>3. Range(available) \subseteq Threads
    BY RangeOfSeq DEF Shapes
  <2>4. PooledThreadsAreFree'
    BY <1>1, <2>1, <2>2, <2>3 DEF PooledThreadsAreFree
  <2>5. QED
    BY <1>1, <2>2, <2>4 DEF BusyThreadsAreGivenNothing, WokenOnce,
       WokenForAReason, ToldUnderLock, CanLock
<1>3. CASE queue = <<>>
  <2>1. /\ pc' = [pc EXCEPT ![t] = "loop"] /\ work' = [work EXCEPT ![t] = NoWork]
        /\ available' = Append(available, t)
    BY <1>3 DEF ReturnToPoolOrGetNextJob, Goto
  <2>2. /\ pc'[t] = "loop" /\ work'[t] = NoWork
        /\ \A u \in Threads : u # t => pc'[u] = pc[u] /\ work'[u] = work[u]
    BY <2>1 DEF Shapes
  <2>3. /\ Len(available) \in Nat /\ DOMAIN available = 1 .. Len(available)
        /\ DOMAIN available' = 1 .. Len(available) + 1
        /\ \A k \in 1 .. Len(available) : available'[k] = available[k]
        /\ available'[Len(available) + 1] = t
    BY <2>1, AppendProperties, LenProperties DEF Shapes
  <2>4. \A u \in Range(available') : u = t \/ u \in Range(available)
    BY <2>3 DEF Range
  <2>5. Range(available) \subseteq Threads
    BY RangeOfSeq DEF Shapes
  <2>6. \A j, k \in DOMAIN available' : available'[j] = available'[k] => j = k
    BY <1>1, <2>3 DEF PooledThreadsAreFree, Range
  <2>7. PooledThreadsAreFree'
    BY <1>1, <2>2, <2>4, <2>5, <2>6 DEF PooledThreadsAreFree
  <2>8. QED
    BY <1>1, <2>2, <2>7 DEF BusyThreadsAreGivenNothing, WokenOnce,
       WokenForAReason, ToldUnderLock, CanLock
<1>4. QED
  BY <1>2, <1>3

LEMMA NextHandOver ==
  ASSUME Shapes, CallsInv, HandOverInv, [Next]_vars
  PROVE  HandOverInv'
<1> USE DEF HandOverInv
<1> DEFINE Untouched == UNCHANGED <<available, event, die, given, pc, work>>
<1>0. Range(available) \subseteq Threads
  BY RangeOfSeq DEF Shapes
<1>1. ASSUME Untouched, CanLock' => CanLock
      PROVE  HandOverInv'
  BY <1>1 DEF ToldUnderLock, BusyThreadsAreGivenNothing, WokenOnce,
     WokenForAReason, PooledThreadsAreFree
<1>2. CASE UNCHANGED vars
  BY <1>1, <1>2 DEF vars, destroyVars, threadVars, CanLock
<1>3. ASSUME NEW c \in Callers, RetractMissed(c) \/ LockAfterDestroy(c)
      PROVE  HandOverInv'
  BY <1>1, <1>3 DEF RetractMissed, LockAfterDestroy, destroyVars, threadVars, CanLock
<1>4. ASSUME NEW c \in Callers, NEW w \in Works,
             AddQueuedWork(c, w) \/ RetractQueuedWork(c, w)
      PROVE  HandOverInv'
  BY <1>1, <1>4 DEF AddQueuedWork, RetractQueuedWork, destroyVars, threadVars, CanLock
<1>5. ASSUME NEW c \in Callers, RetractFound(c)
      PROVE  HandOverInv'
  BY <1>1, <1>5 DEF RetractFound, destroyVars, threadVars, CanLock
<1>6. ASSUME NEW t \in Threads, WakeUp(t) \/ TakeWork(t) \/ FinishWork(t)
                                  \/ TestTimeToDie(t)
      PROVE  HandOverInv'
  <2>1. /\ UNCHANGED <<available, die>> /\ (CanLock' <=> CanLock)
        /\ \A u \in Threads : u # t =>
             /\ event'[u] = event[u] /\ given'[u] = given[u]
             /\ pc'[u] = pc[u] /\ work'[u] = work[u]
    BY <1>6 DEF WakeUp, TakeWork, Cleared, FinishWork, TestTimeToDie, Goto,
       destroyVars, CanLock, Shapes
  <2>2. CASE WakeUp(t)
    <3>1. /\ pc[t] = "wait" /\ event[t] /\ ~event'[t] /\ pc'[t] = "woken"
          /\ given'[t] = given[t] /\ work'[t] = work[t]
      BY <2>2 DEF WakeUp, Goto, Shapes
    <3>2. QED
      BY <1>0, <2>1, <3>1 DEF ToldUnderLock, BusyThreadsAreGivenNothing, WokenOnce,
         WokenForAReason, PooledThreadsAreFree
  <2>3. CASE TakeWork(t)
    <3>1. /\ pc[t] = "woken" /\ event'[t] = event[t] /\ given'[t] = NoWork
          /\ work'[t] = given[t]
          /\ IF given[t] = NoWork THEN pc'[t] = "loop" ELSE pc'[t] = "work"
      BY <2>3 DEF TakeWork, Cleared, Goto, Shapes
    <3>2. QED
      BY <1>0, <2>1, <3>1 DEF ToldUnderLock, BusyThreadsAreGivenNothing, WokenOnce,
         WokenForAReason, PooledThreadsAreFree
  <2>4. CASE FinishWork(t)
    <3>1. /\ pc[t] = "work" /\ pc'[t] = "return" /\ event'[t] = event[t]
          /\ given'[t] = given[t] /\ work'[t] = work[t]
      BY <2>4 DEF FinishWork, Goto, Shapes
    <3>2. QED
      BY <1>0, <2>1, <3>1 DEF ToldUnderLock, BusyThreadsAreGivenNothing, WokenOnce,
         WokenForAReason, PooledThreadsAreFree
  <2>5. CASE TestTimeToDie(t)
    <3>1. /\ pc[t] = "loop" /\ pc'[t] \in {"exited", "wait"} /\ event'[t] = event[t]
          /\ given'[t] = given[t] /\ work'[t] = work[t]
      BY <2>5 DEF TestTimeToDie, Goto, Shapes
    <3>2. QED
      BY <1>0, <2>1, <3>1 DEF ToldUnderLock, BusyThreadsAreGivenNothing, WokenOnce,
         WokenForAReason, PooledThreadsAreFree
  <2>6. QED
    BY <1>6, <2>2, <2>3, <2>4, <2>5
<1>7. CASE BeginDestroy \/ Drained
  BY <1>1, <1>7 DEF BeginDestroy, Drained, threadVars, CanLock
<1>8. CASE EndDestroy
  <2>1. available' = <<>> /\ UNCHANGED <<event, die, given, pc, work>> /\ ~CanLock'
    BY <1>8 DEF EndDestroy, threadVars, CanLock
  <2>2. QED
    BY <2>1 DEF ToldUnderLock, BusyThreadsAreGivenNothing, WokenOnce,
       WokenForAReason, PooledThreadsAreFree, Range
<1>9. ASSUME NEW t \in Threads, KillThread(t) \/ KillTrigger(t)
      PROVE  HandOverInv'
  <2>1. /\ UNCHANGED <<available, given, pc, work>> /\ ~CanLock' /\ die'[t]
        /\ \A u \in Threads : u # t => event'[u] = event[u] /\ die'[u] = die[u]
        /\ event'[t] => event[t] \/ die'[t]
        /\ event[t] => event'[t]
    BY <1>9 DEF KillThread, KillTrigger, CanLock, Shapes
  <2>2. QED
    BY <1>0, <2>1 DEF ToldUnderLock, BusyThreadsAreGivenNothing, WokenOnce,
       WokenForAReason, PooledThreadsAreFree
<1>10. ASSUME NEW t \in Threads, KillJoin(t)
       PROVE  HandOverInv'
  BY <1>1, <1>10 DEF KillJoin, threadVars, CanLock
<1>11. QED
  BY <1>2, <1>3, <1>4, <1>5, <1>6, <1>7, <1>8, <1>9, <1>10, Steps,
     AddLockedHandsOver, ReturnHandsOver DEF Run

-----------------------------------------------------------------------------
(* Calls                                                                    *)

LEMMA InitCalls == Init => CallsInv /\ QuietInv
  BY DEF Init, CallsInv, QuietInv

LEMMA NextCalls ==
  ASSUME Shapes, CallsInv, QuietInv, PlacesInv, [Next]_vars
  PROVE  CallsInv' /\ QuietInv'
<1> USE DEF CallsInv, QuietInv
<1>1. CASE UNCHANGED vars
  BY <1>1 DEF vars, destroyVars, callVars
<1>2. ASSUME NEW c \in Callers, RetractMissed(c) \/ LockAfterDestroy(c)
                                  \/ RetractFound(c)
      PROVE  CallsInv' /\ QuietInv'
  <2>1. CASE LockAfterDestroy(c)
    BY <2>1 DEF LockAfterDestroy, destroyVars, callVars
  <2>2. CASE RetractMissed(c) \/ RetractFound(c)
    <3>1. /\ call'[c] = "none" /\ arg'[c] = NoWork
          /\ \A d \in Callers : d # c => call'[d] = call[d] /\ arg'[d] = arg[d]
      BY <2>2 DEF RetractMissed, RetractFound, Leave, Enter, Shapes
    <3>2. fate' = fate \/ fate' = [fate EXCEPT ![arg[c]] = "retracted"]
      BY <2>2 DEF RetractMissed, RetractFound, SetFate
    <3>3. \A d \in Callers : d # c /\ call[d] = "add" => fate'[arg[d]] = "new"
      BY <2>2, <3>2 DEF RetractMissed, RetractFound, Shapes
    <3>4. UNCHANGED destroyVars /\ call[c] # "none"
      BY <2>2 DEF RetractMissed, RetractFound
    <3>5. QED
      BY <3>1, <3>3, <3>4 DEF destroyVars
  <2>3. QED
    BY <1>2, <2>1, <2>2
<1>3. ASSUME NEW c \in Callers, NEW w \in Works,
             AddQueuedWork(c, w) \/ RetractQueuedWork(c, w)
      PROVE  CallsInv' /\ QuietInv'
  <2>1. call[c] = "none" /\ w # NoWork /\ \A d \in Callers : arg[d] # w
    BY <1>3, PoolAssumption DEF AddQueuedWork, RetractQueuedWork, MayCall
  <2>2. CASE UNCHANGED callVars /\ fate' = [fate EXCEPT ![w] = "abandoned"]
    BY <1>3, <2>1, <2>2 DEF AddQueuedWork, RetractQueuedWork, destroyVars, callVars,
       Shapes
  <2>3. CASE /\ fate' = fate /\ ~timeToDie
             /\ \/ Enter(c, "add", w) /\ fate[w] = "new"
                \/ Enter(c, "retract", w)
    <3>1. /\ call'[c] \in {"add", "retract"} /\ arg'[c] = w
          /\ call'[c] = "add" => fate[w] = "new"
          /\ \A d \in Callers : d # c => call'[d] = call[d] /\ arg'[d] = arg[d]
      BY <2>3 DEF Enter, Shapes
    <3>2. UNCHANGED destroyVars
      BY <1>3 DEF AddQueuedWork, RetractQueuedWork
    <3>3. QED
      BY <2>1, <2>3, <3>1, <3>2 DEF destroyVars
  <2>4. QED
    BY <1>3, <2>2, <2>3 DEF AddQueuedWork, RetractQueuedWork, SetFate
<1>4. ASSUME NEW c \in Callers, AddLocked(c)
      PROVE  CallsInv' /\ QuietInv'
  BY <1>4 DEF AddLocked, Leave, Enter, SetFate, destroyVars, Shapes
<1>5. ASSUME NEW t \in Threads, Run(t)
      PROVE  CallsInv' /\ QuietInv'
  <2>1. UNCHANGED <<destroyVars, callVars>>
    BY <1>5 DEF Run, WakeUp, TakeWork, FinishWork, ReturnToPoolOrGetNextJob,
       TestTimeToDie
  <2>2. \A w \in Works : fate[w] = "new" => fate'[w] = "new"
    <3>1. CASE WakeUp(t) \/ TestTimeToDie(t)
      BY <3>1 DEF WakeUp, TestTimeToDie
    <3>2. CASE TakeWork(t)
      BY <3>2 DEF TakeWork, SetFate, PlacesInv, Shapes
    <3>3. CASE FinishWork(t)
      BY <3>3 DEF FinishWork, SetFate, PlacesInv, Shapes
    <3>4. CASE ReturnToPoolOrGetNextJob(t)
      BY <3>4, HeadTail DEF ReturnToPoolOrGetNextJob, SetFate, PlacesInv, Shapes
    <3>5. QED
      BY <1>5, <3>1, <3>2, <3>3, <3>4 DEF Run
  <2>3. queue = <<>> => queue' = <<>>
    BY <1>5 DEF Run, WakeUp, TakeWork, FinishWork, ReturnToPoolOrGetNextJob,
       TestTimeToDie
  <2>4. QED
    BY <2>1, <2>2, <2>3 DEF destroyVars, callVars, Shapes
<1>6. CASE BeginDestroy
  <2>1. \A w \in Works : fate[w] = "new" => fate'[w] = "new"
    BY <1>6 DEF BeginDestroy, PlacesInv, Range, Shapes
  <2>2. QED
    BY <1>6, <2>1 DEF BeginDestroy, callVars, Shapes
<1>7. CASE Drained \/ EndDestroy
  BY <1>7 DEF Drained, EndDestroy, callVars
<1>8. ASSUME NEW t \in Threads, KillThread(t) \/ KillTrigger(t) \/ KillJoin(t)
      PROVE  CallsInv' /\ QuietInv'
  BY <1>8 DEF KillThread, KillTrigger, KillJoin, threadVars, callVars
<1>9. QED
  BY <1>1, <1>2, <1>3, <1>4, <1>5, <1>6, <1>7, <1>8, Steps

-----------------------------------------------------------------------------
(* Places                                                                   *)

LEMMA InitPlaces == Init => PlacesInv /\ NothingLost
  BY DEF Init, PlacesInv, NothingLost

(* What is in no place may meet an end, or not be added at all.             *)
LEMMA NothingMoves ==
  ASSUME Shapes, PlacesInv, NothingLost, UNCHANGED <<queue, given, pc, work>>,
         \A w \in Works : fate'[w] # fate[w] =>
           /\ fate[w] \notin {"added", "running"}
           /\ fate'[w] \notin {"added", "running"}
  PROVE  PlacesInv' /\ NothingLost'
<1>1. \A j \in DOMAIN queue : queue[j] \in Works
  BY LenProperties, ElementOfSeq DEF Shapes
<1>2. QED
  BY <1>1 DEF PlacesInv, NothingLost, Shapes

LEMMA AddLockedPlaces ==
  ASSUME Shapes, CallsInv, HandOverInv, PlacesInv, NothingLost,
         NEW c \in Callers, AddLocked(c)
  PROVE  PlacesInv' /\ NothingLost'
<1> DEFINE w == arg[c]
<1>1. /\ w \in Works /\ w # NoWork /\ fate[w] = "new"
      /\ fate'[w] = "added" /\ \A v \in Works : v # w => fate'[v] = fate[v]
      /\ UNCHANGED <<pc, work>>
  BY PoolAssumption DEF AddLocked, SetFate, CallsInv, Shapes
<1>2. \A j \in DOMAIN queue : queue[j] \in Works /\ queue[j] # w
  BY <1>1, LenProperties, ElementOfSeq DEF Shapes, PlacesInv
<1>3. \A t \in Threads : given[t] # w /\ (pc[t] = "work" => work[t] # w)
  BY <1>1 DEF PlacesInv
<1>4. CASE ThreadReady
  <2> DEFINE t == Head(available)
  <2>1. given' = [given EXCEPT ![t] = w] /\ queue' = queue
    BY <1>4 DEF AddLocked
  <2>2. t \in Threads /\ given[t] = NoWork
    BY <1>4, HeadTail DEF ThreadReady, Shapes, HandOverInv, PooledThreadsAreFree, Range
  <2> HIDE DEF t, w
  <2>3. given'[t] = w /\ \A u \in Threads : u # t => given'[u] = given[u]
    BY <2>1, <2>2 DEF Shapes
  <2>4. PlacesInv'
    BY <1>1, <1>2, <1>3, <2>1, <2>3 DEF PlacesInv, Shapes
  <2>5. NothingLost'
    BY <1>1, <1>2, <2>1, <2>2, <2>3, PoolAssumption DEF NothingLost
  <2>6. QED
    BY <2>4, <2>5
<1>5. CASE ~ThreadReady
  <2>1. queue' = Append(queue, w) /\ given' = given
    BY <1>5 DEF AddLocked
  <2> HIDE DEF w
  <2>2. /\ Len(queue) \in Nat /\ DOMAIN queue = 1 .. Len(queue)
        /\ DOMAIN queue' = 1 .. Len(queue) + 1
        /\ \A k \in 1 .. Len(queue) : queue'[k] = queue[k]
        /\ queue'[Len(queue) + 1] = w
    BY <1>1, <2>1, AppendProperties, LenProperties DEF Shapes
  <2>3. PlacesInv'
    <3>1. \A j \in DOMAIN queue' :
            \/ j \in DOMAIN queue /\ queue'[j] = queue[j]
            \/ j = Len(queue) + 1 /\ queue'[j] = w
      BY <2>2
    <3>2. \A j, k \in DOMAIN queue' : queue'[j] = queue'[k] => j = k
      BY <1>2, <3>1 DEF PlacesInv
    <3>3. \A j \in DOMAIN queue' :
            fate'[queue'[j]] = "added" /\ \A t \in Threads : given'[t] # queue'[j]
      BY <1>1, <1>2, <1>3, <2>1, <3>1 DEF PlacesInv
    <3>4. QED
      BY <1>1, <1>3, <2>1, <3>2, <3>3 DEF PlacesInv, Shapes
  <2>4. NothingLost'
    <3>1. \A v \in Works : v \in Range(queue) \/ v = w => v \in Range(queue')
      BY <2>2 DEF Range
    <3>2. QED
      BY <1>1, <2>1, <3>1 DEF NothingLost
  <2>5. QED
    BY <2>3, <2>4
<1>6. QED
  BY <1>4, <1>5

LEMMA RetractFoundPlaces ==
  ASSUME Shapes, PlacesInv, NothingLost, NEW c \in Callers, RetractFound(c)
  PROVE  PlacesInv' /\ NothingLost'
<1>1. PICK k \in DOMAIN queue : queue[k] = arg[c] /\ queue' = RemoveAt(queue, k)
  BY DEF RetractFound
<1> DEFINE w == queue[k]
<1>2. /\ Len(queue) \in Nat /\ DOMAIN queue = 1 .. Len(queue)
      /\ \A j \in 1 .. Len(queue) : queue[j] \in Works
  BY LenProperties, ElementOfSeq DEF Shapes
<1>3. /\ fate[w] = "added" /\ fate'[w] = "retracted"
      /\ \A v \in Works : v # w => fate'[v] = fate[v]
      /\ UNCHANGED <<given, pc, work>>
      /\ w \in Works
  BY <1>1, <1>2 DEF RetractFound, SetFate, PlacesInv, threadVars, Shapes
<1>4. /\ DOMAIN queue' = 1 .. Len(queue) - 1
      /\ \A j \in 1 .. Len(queue) - 1 : queue'[j] = IF j < k THEN queue[j] ELSE queue[j + 1]
  BY <1>1, <1>2, RemoveAtProperties, LenProperties DEF Shapes
<1> HIDE DEF w
<1>5. \A j \in 1 .. Len(queue) - 1 :
        \E i \in 1 .. Len(queue) : queue'[j] = queue[i] /\ i # k
  <2> TAKE j \in 1 .. Len(queue) - 1
  <2>1. CASE j < k
    BY <1>2, <1>4, <2>1
  <2>2. CASE ~(j < k)
    <3>1. j + 1 \in 1 .. Len(queue) /\ j + 1 # k /\ queue'[j] = queue[j + 1]
      BY <1>2, <1>4, <2>2
    <3>2. QED
      BY <3>1
  <2>3. QED
    BY <2>1, <2>2
<1>6. \A i, j \in DOMAIN queue' : queue'[i] = queue'[j] => i = j
  <2> SUFFICES ASSUME NEW i \in DOMAIN queue', NEW j \in DOMAIN queue',
                      queue'[i] = queue'[j]
               PROVE  i = j
    OBVIOUS
  <2> DEFINE old(n) == IF n < k THEN n ELSE n + 1
  <2>1. /\ queue'[i] = queue[old(i)] /\ queue'[j] = queue[old(j)]
        /\ old(i) \in DOMAIN queue /\ old(j) \in DOMAIN queue
    BY <1>2, <1>4
  <2> HIDE DEF old
  <2>2. \A a, b \in DOMAIN queue : queue[a] = queue[b] => a = b
    BY Zenon DEF PlacesInv
  <2>3. old(i) = old(j)
    BY <2>1, <2>2
  <2>4. QED
    BY <1>2, <1>4, <2>3 DEF old
<1>7. \A j \in DOMAIN queue' : queue'[j] # w /\ \E i \in DOMAIN queue : queue'[j] = queue[i]
  <2> TAKE j \in DOMAIN queue'
  <2>1. PICK i \in 1 .. Len(queue) : queue'[j] = queue[i] /\ i # k
    BY <1>4, <1>5
  <2>2. queue[i] # queue[k]
    BY <1>2, <2>1 DEF PlacesInv
  <2>3. QED
    BY <1>2, <2>1, <2>2 DEF w
<1>8. \A j \in DOMAIN queue' :
        fate'[queue'[j]] = "added" /\ \A t \in Threads : given'[t] # queue'[j]
  BY <1>2, <1>3, <1>7 DEF PlacesInv
<1>9. \A t \in Threads : given[t] # w /\ (pc[t] = "work" => work[t] # w)
  BY <1>3 DEF PlacesInv, w
<1>10. PlacesInv'
  BY <1>3, <1>6, <1>8, <1>9 DEF PlacesInv, Shapes
<1>11. \A v \in Works : v \in Range(queue) /\ v # w => v \in Range(queue')
  <2> SUFFICES ASSUME NEW i \in DOMAIN queue, queue[i] # w
               PROVE  \E j \in DOMAIN queue' : queue'[j] = queue[i]
    BY DEF Range
  <2>1. CASE i < k
    <3>1. i \in DOMAIN queue' /\ queue'[i] = queue[i]
      BY <1>2, <1>4, <2>1
    <3>2. QED
      BY <3>1
  <2>2. CASE i > k
    <3>1. i - 1 \in 1 .. Len(queue) - 1 /\ ~(i - 1 < k) /\ (i - 1) + 1 = i
      BY <1>2, <2>2
    <3>2. i - 1 \in DOMAIN queue' /\ queue'[i - 1] = queue[i]
      BY <1>4, <3>1
    <3>3. QED
      BY <3>2
  <2>3. QED
    BY <1>2, <2>1, <2>2 DEF w
<1>12. NothingLost'
  BY <1>3, <1>9, <1>11 DEF NothingLost
<1>13. QED
  BY <1>10, <1>12

LEMMA TakeWorkPlaces ==
  ASSUME Shapes, HandOverInv, PlacesInv, NothingLost,
         NEW t \in Threads, TakeWork(t)
  PROVE  PlacesInv' /\ NothingLost'
<1>1. /\ pc[t] = "woken" /\ queue' = queue
      /\ work'[t] = given[t] /\ given'[t] = NoWork
      /\ \A u \in Threads : u # t => /\ given'[u] = given[u] /\ work'[u] = work[u]
                                     /\ pc'[u] = pc[u]
  BY DEF TakeWork, Cleared, Goto, Shapes
<1>2. \A j \in DOMAIN queue : queue[j] \in Works
  BY LenProperties, ElementOfSeq DEF Shapes
<1>3. CASE given[t] = NoWork
  <2>1. pc'[t] = "loop" /\ fate' = fate
    BY <1>3 DEF TakeWork, Goto, Shapes
  <2>2. \A u \in Threads : given'[u] = given[u]
    BY <1>1, <1>3
  <2>3. \A u \in Threads : pc'[u] = "work" => u # t /\ pc[u] = "work" /\ work'[u] = work[u]
    BY <1>1, <2>1
  <2>4. \A u \in Threads : pc[u] = "work" => pc'[u] = "work" /\ work'[u] = work[u]
    BY <1>1
  <2>5. QED
    BY <1>1, <2>1, <2>2, <2>3, <2>4 DEF PlacesInv, NothingLost
<1>4. CASE given[t] # NoWork
  <2> DEFINE w == given[t]
  <2>1. /\ w \in Works /\ fate[w] = "added"
        /\ pc'[t] = "work" /\ fate'[w] = "running"
        /\ \A v \in Works : v # w => fate'[v] = fate[v]
    BY <1>4 DEF TakeWork, Goto, SetFate, PlacesInv, Shapes
  <2>2. /\ \A j \in DOMAIN queue : queue[j] # w
        /\ \A u \in Threads : u # t => given[u] # w
        /\ \A u \in Threads : pc[u] = "work" => work[u] # w
    BY <1>4, <2>1 DEF PlacesInv
  <2> HIDE DEF w
  <2>3. PlacesInv'
    <3>1. \A j \in DOMAIN queue' :
            fate'[queue'[j]] = "added" /\ \A u \in Threads : given'[u] # queue'[j]
      BY <1>1, <1>2, <2>1, <2>2, PoolAssumption DEF PlacesInv
    <3>2. \A u \in Threads : given'[u] # NoWork =>
            /\ u # t /\ fate'[given'[u]] = "added"
            /\ \A v \in Threads : given'[v] = given'[u] => v = u
      BY <1>1, <2>1, <2>2 DEF PlacesInv, Shapes
    <3>3. \A u \in Threads : pc'[u] = "work" =>
            /\ work'[u] # NoWork /\ fate'[work'[u]] = "running"
            /\ \A v \in Threads : pc'[v] = "work" /\ work'[v] = work'[u] => v = u
      <4>1. ASSUME NEW u \in Threads, u # t, pc'[u] = "work"
            PROVE  /\ work'[u] = work[u] /\ work[u] \in Works /\ work[u] # w
                   /\ work'[u] # NoWork /\ fate'[work'[u]] = "running"
        BY <1>1, <2>1, <2>2, <4>1 DEF PlacesInv, Shapes
      <4>2. work'[t] = w /\ w # NoWork /\ fate'[w] = "running"
        BY <1>1, <1>4, <2>1 DEF w
      <4>3. \A u, v \in Threads : pc'[u] = "work" /\ pc'[v] = "work"
                                    /\ work'[u] = work'[v] => u = v
        BY <1>1, <4>1, <4>2 DEF PlacesInv
      <4>4. QED
        BY <4>1, <4>2, <4>3
    <3>4. QED
      BY <1>1, <3>1, <3>2, <3>3 DEF PlacesInv
  <2>4. NothingLost'
    <3>1. \A v \in Works : fate'[v] = "added" => fate[v] = "added" /\ v # w
      BY <2>1
    <3>2. \A v \in Works : fate'[v] = "running" => v = w \/ fate[v] = "running"
      BY <2>1
    <3>3. \A u \in Threads : pc[u] = "work" => u # t
      BY <1>1
    <3>4. work'[t] = w /\ pc'[t] = "work"
      BY <1>1, <2>1 DEF w
    <3>5. \A v \in Works : fate'[v] = "added" =>
            v \in Range(queue') \/ \E u \in Threads : given'[u] = v
      BY <1>1, <3>1 DEF NothingLost, w
    <3>6. \A v \in Works : fate'[v] = "running" =>
            \E u \in Threads : pc'[u] = "work" /\ work'[u] = v
      BY <1>1, <3>2, <3>3, <3>4 DEF NothingLost
    <3>7. QED
      BY <3>5, <3>6 DEF NothingLost
  <2>5. QED
    BY <2>3, <2>4
<1>5. QED
  BY <1>3, <1>4

LEMMA FinishWorkPlaces ==
  ASSUME Shapes, PlacesInv, NothingLost, NEW t \in Threads, FinishWork(t)
  PROVE  PlacesInv' /\ NothingLost'
<1> DEFINE w == work[t]
<1>1. /\ pc[t] = "work" /\ pc'[t] = "return"
      /\ \A u \in Threads : u # t => pc'[u] = pc[u]
      /\ UNCHANGED <<queue, given, work>>
  BY DEF FinishWork, Goto, Shapes
<1>2. /\ w \in Works /\ fate[w] = "running" /\ fate'[w] = "done"
      /\ \A v \in Works : v # w => fate'[v] = fate[v]
      /\ \A u \in Threads : pc[u] = "work" /\ work[u] = w => u = t
  BY <1>1 DEF FinishWork, SetFate, PlacesInv, Shapes
<1>3. \A j \in DOMAIN queue : queue[j] \in Works /\ queue[j] # w
  BY <1>2, LenProperties, ElementOfSeq DEF Shapes, PlacesInv
<1>4. \A u \in Threads : given[u] # w
  BY <1>2, PoolAssumption DEF PlacesInv
<1> HIDE DEF w
<1>5. PlacesInv'
  BY <1>1, <1>2, <1>3, <1>4 DEF PlacesInv, Shapes
<1>6. NothingLost'
  <2>1. \A v \in Works : fate'[v] \in {"added", "running"} => v # w /\ fate'[v] = fate[v]
    BY <1>2
  <2>2. \A v \in Works : fate'[v] = "running" =>
          \E u \in Threads : u # t /\ pc[u] = "work" /\ work[u] = v
    BY <2>1 DEF NothingLost, w
  <2>3. QED
    BY <1>1, <2>1, <2>2 DEF NothingLost
<1>7. QED
  BY <1>5, <1>6

LEMMA ReturnPlaces ==
  ASSUME Shapes, PlacesInv, NothingLost, NEW t \in Threads,
         ReturnToPoolOrGetNextJob(t)
  PROVE  PlacesInv' /\ NothingLost'
<1>1. pc[t] = "return" /\ given' = given
  BY DEF ReturnToPoolOrGetNextJob
<1>2. CASE queue = <<>>
  <2>1. /\ queue' = queue /\ fate' = fate /\ pc'[t] = "loop"
        /\ \A u \in Threads : u # t => pc'[u] = pc[u] /\ work'[u] = work[u]
    BY <1>2 DEF ReturnToPoolOrGetNextJob, Goto, Shapes
  <2>2. \A u \in Threads : (pc'[u] = "work" <=> pc[u] = "work")
                             /\ (pc[u] = "work" => work'[u] = work[u])
    BY <1>1, <2>1
  <2>3. QED
    BY <1>1, <2>1, <2>2 DEF PlacesInv, NothingLost
<1>3. CASE queue # <<>>
  <2> DEFINE w == queue[1]
  <2>1. /\ Len(queue) \in Nat /\ DOMAIN queue = 1 .. Len(queue) /\ 1 \in DOMAIN queue
        /\ Head(queue) = w /\ w \in Works
        /\ DOMAIN Tail(queue) = 1 .. Len(queue) - 1
        /\ \A j \in 1 .. Len(queue) - 1 : Tail(queue)[j] = queue[j + 1]
    BY <1>3, HeadTail DEF Shapes
  <2> HIDE DEF w
  <2>2. /\ queue' = Tail(queue) /\ fate' = [fate EXCEPT ![w] = "running"]
        /\ pc' = [pc EXCEPT ![t] = "work"] /\ work' = [work EXCEPT ![t] = w]
    BY <1>3, <2>1 DEF ReturnToPoolOrGetNextJob, Goto, SetFate
  <2>3. /\ fate[w] = "added" /\ fate'[w] = "running" /\ w # NoWork
        /\ \A v \in Works : v # w => fate'[v] = fate[v]
        /\ pc'[t] = "work" /\ work'[t] = w
        /\ \A u \in Threads : u # t => pc'[u] = pc[u] /\ work'[u] = work[u]
    BY <2>1, <2>2, PoolAssumption DEF PlacesInv, Shapes, w
  <2>4. \A j \in DOMAIN queue' :
          j + 1 \in DOMAIN queue /\ queue'[j] = queue[j + 1] /\ queue'[j] # w
            /\ queue'[j] \in Works
    <3> TAKE j \in DOMAIN queue'
    <3>1. j + 1 \in DOMAIN queue /\ j + 1 # 1 /\ queue'[j] = queue[j + 1]
      BY <2>1, <2>2
    <3>2. queue[j + 1] # queue[1]
      BY <2>1, <3>1 DEF PlacesInv
    <3>3. queue[j + 1] \in Works
      BY <2>1, <3>1, ElementOfSeq DEF Shapes
    <3>4. QED
      BY <3>1, <3>2, <3>3 DEF w
  <2>5. /\ \A u \in Threads : given[u] # w
        /\ \A u \in Threads : pc[u] = "work" => work[u] # w
    BY <2>1, <2>3 DEF PlacesInv, w
  <2>6. PlacesInv'
    <3>1. \A i, j \in DOMAIN queue' : queue'[i] = queue'[j] => i = j
      <4> SUFFICES ASSUME NEW i \in DOMAIN queue', NEW j \in DOMAIN queue',
                          queue'[i] = queue'[j]
                   PROVE  i = j
        OBVIOUS
      <4>1. i + 1 = j + 1
        BY <2>4 DEF PlacesInv
      <4>2. QED
        BY <2>1, <2>2, <4>1
    <3>2. \A j \in DOMAIN queue' :
            fate'[queue'[j]] = "added" /\ \A u \in Threads : given'[u] # queue'[j]
      BY <1>1, <2>3, <2>4 DEF PlacesInv
    <3>3. \A u \in Threads : given'[u] # NoWork =>
            /\ fate'[given'[u]] = "added"
            /\ \A v \in Threads : given'[v] = given'[u] => v = u
      BY <1>1, <2>3, <2>5 DEF PlacesInv, Shapes
    <3>4. \A u \in Threads : pc'[u] = "work" =>
            work'[u] # NoWork /\ fate'[work'[u]] = "running"
      BY <2>3, <2>5 DEF PlacesInv, Shapes
    <3>5. \A u, v \in Threads : pc'[u] = "work" /\ pc'[v] = "work"
                                  /\ work'[u] = work'[v] => u = v
      BY <2>3, <2>5 DEF PlacesInv
    <3>6. QED
      BY <3>1, <3>2, <3>3, <3>4, <3>5 DEF PlacesInv
  <2>7. NothingLost'
    <3>1. \A v \in Works : v \in Range(queue) /\ v # w => v \in Range(queue')
      <4> SUFFICES ASSUME NEW i \in DOMAIN queue, queue[i] # w
                   PROVE  \E j \in DOMAIN queue' : queue'[j] = queue[i]
        BY DEF Range
      <4>1. i # 1
        BY DEF w
      <4>2. i - 1 \in 1 .. Len(queue) - 1 /\ (i - 1) + 1 = i
        BY <2>1, <4>1
      <4>3. i - 1 \in DOMAIN queue' /\ queue'[i - 1] = queue[i]
        BY <2>1, <2>2, <4>2
      <4>4. QED
        BY <4>3
    <3>2. \A v \in Works : fate'[v] = "added" => fate[v] = "added" /\ v # w
      BY <2>3
    <3>3. \A v \in Works : fate'[v] = "running" => v = w \/ fate[v] = "running"
      BY <2>3
    <3>4. \A v \in Works : fate'[v] = "running" =>
            \E u \in Threads : pc'[u] = "work" /\ work'[u] = v
      BY <1>1, <2>3, <3>3 DEF NothingLost
    <3>5. QED
      BY <1>1, <3>1, <3>2, <3>4 DEF NothingLost
  <2>8. QED
    BY <2>6, <2>7
<1>4. QED
  BY <1>2, <1>3

LEMMA NextPlaces ==
  ASSUME Shapes, CallsInv, HandOverInv, PlacesInv, NothingLost, [Next]_vars
  PROVE  PlacesInv' /\ NothingLost'
<1>1. CASE UNCHANGED <<queue, threadVars, fate>>
  BY <1>1, NothingMoves DEF threadVars
<1>2. CASE UNCHANGED vars
  BY <1>1, <1>2 DEF vars
<1>3. ASSUME NEW c \in Callers, RetractMissed(c) \/ LockAfterDestroy(c)
      PROVE  PlacesInv' /\ NothingLost'
  BY <1>1, <1>3 DEF RetractMissed, LockAfterDestroy
<1>4. ASSUME NEW c \in Callers, NEW w \in Works,
             AddQueuedWork(c, w) \/ RetractQueuedWork(c, w)
      PROVE  PlacesInv' /\ NothingLost'
  BY <1>4, NothingMoves DEF AddQueuedWork, RetractQueuedWork, SetFate, threadVars, Shapes
<1>5. ASSUME NEW t \in Threads, Run(t)
      PROVE  PlacesInv' /\ NothingLost'
  <2>1. CASE WakeUp(t) \/ TestTimeToDie(t)
    <3>1. /\ UNCHANGED <<queue, given, work, fate>>
          /\ \A u \in Threads : pc'[u] = "work" <=> pc[u] = "work"
      BY <2>1 DEF WakeUp, TestTimeToDie, Goto, Shapes
    <3>2. QED
      BY <3>1 DEF PlacesInv, NothingLost
  <2>2. QED
    BY <1>5, <2>1, TakeWorkPlaces, FinishWorkPlaces, ReturnPlaces DEF Run
<1>6. CASE BeginDestroy
  <2>1. /\ queue' = <<>> /\ UNCHANGED <<given, pc, work>>
        /\ \A v \in Works : v \in Range(queue) => fate[v] = "added" /\ fate'[v] = "abandoned"
        /\ \A v \in Works : v \notin Range(queue) => fate'[v] = fate[v]
    BY <1>6 DEF BeginDestroy, threadVars, PlacesInv, Range
  <2>2. \A t \in Threads : given[t] # NoWork => given[t] \in Works /\ given[t] \notin Range(queue)
    BY DEF PlacesInv, Range, Shapes
  <2>3. \A t \in Threads : pc[t] = "work" => work[t] \in Works /\ work[t] \notin Range(queue)
    BY <2>1 DEF PlacesInv, Shapes
  <2>4. PlacesInv'
    BY <2>1, <2>2, <2>3 DEF PlacesInv
  <2>5. NothingLost'
    BY <2>1 DEF NothingLost
  <2>6. QED
    BY <2>4, <2>5
<1>7. CASE Drained \/ EndDestroy
  BY <1>1, <1>7 DEF Drained, EndDestroy
<1>8. ASSUME NEW t \in Threads, KillThread(t) \/ KillTrigger(t) \/ KillJoin(t)
      PROVE  PlacesInv' /\ NothingLost'
  <2>1. UNCHANGED <<queue, given, pc, work, fate>>
    BY <1>8 DEF KillThread, KillTrigger, KillJoin, threadVars
  <2>2. QED
    BY <2>1, NothingMoves
<1>9. QED
  BY <1>2, <1>3, <1>4, <1>5, <1>6, <1>7, <1>8, Steps, AddLockedPlaces, RetractFoundPlaces

-----------------------------------------------------------------------------
(* What follows for the pool                                                *)

(* The invariant of the pool, by induction on its steps.                    *)
THEOREM PoolInvariant == Spec => []PoolInv
<1>1. Init => PoolInv
  BY InitShapes, InitHandOver, InitCalls, InitPlaces DEF PoolInv
<1>2. PoolInv /\ [Next]_vars => PoolInv'
  BY NextShapes, NextHandOver, NextCalls, NextPlaces DEF PoolInv
<1>3. QED
  BY <1>1, <1>2, PTL DEF Spec

(* DoWork's "Can't do more than one task at a time" (ThreadingBase.cpp:522) *)
(* holds for whichever thread AddQueuedWork takes from the pool.            *)
THEOREM ThreadsInPoolAreFree == Spec => []PooledThreadsAreFree
<1>1. PoolInv => PooledThreadsAreFree
  BY DEF PoolInv, HandOverInv
<1>2. QED
  BY <1>1, PoolInvariant, PTL

(* "Well you woke me up, where is the job or termination request?"          *)
(* (ThreadingBase.cpp:440), and a job that was handed over wakes its thread.*)
THEOREM WakeUpsHaveAReason == Spec => []WokenForAReason
<1>1. PoolInv => WokenForAReason
  BY DEF PoolInv, HandOverInv
<1>2. QED
  BY <1>1, PoolInvariant, PTL

(* A work that was added and has met no end is in the queue, on its way to  *)
(* a thread, or with one; never nowhere, and never in two of these places   *)
(* (AddQueuedWork, RetractQueuedWork, ReturnToPoolOrGetNextJob, Destroy).   *)
THEOREM NoWorkIsLost == Spec => [](NothingLost /\ PlacesInv)
<1>1. PoolInv => NothingLost /\ PlacesInv
  BY DEF PoolInv
<1>2. QED
  BY <1>1, PoolInvariant, PTL

(* Each work meets one end only: the pool implements the safety part of     *)
(* WorkPool, whenever and however carelessly Destroy is called.             *)
THEOREM ImplementsPoolSafely == Spec => Pool!SafeSpec
<1> USE DEF Pool!Change
<1>1. Init => Pool!Init
  BY DEF Init, Pool!Init
<1>2. ASSUME PoolInv, [Next]_vars
      PROVE  [Pool!Next]_fate
  <2> USE <1>2 DEF PoolInv
  <2>1. CASE UNCHANGED fate
    BY <2>1
  <2>2. CASE UNCHANGED vars
    BY <2>2 DEF vars
  <2>3. ASSUME NEW c \in Callers, RetractMissed(c) \/ LockAfterDestroy(c)
        PROVE  fate' = fate
    BY <2>3 DEF RetractMissed, LockAfterDestroy
  <2>4. ASSUME NEW c \in Callers, NEW w \in Works,
               AddQueuedWork(c, w) \/ RetractQueuedWork(c, w)
        PROVE  fate' = fate \/ Pool!Refuse(w)
    BY <2>4 DEF AddQueuedWork, RetractQueuedWork, SetFate, Pool!Refuse
  <2>5. ASSUME NEW c \in Callers, AddLocked(c)
        PROVE  arg[c] \in Works /\ Pool!Add(arg[c])
    BY <2>5 DEF AddLocked, SetFate, CallsInv, Shapes, Pool!Add
  <2>6. ASSUME NEW c \in Callers, RetractFound(c)
        PROVE  arg[c] \in Works /\ Pool!Retract(arg[c])
    <3>1. PICK k \in DOMAIN queue : queue[k] = arg[c]
      BY <2>6 DEF RetractFound
    <3>2. queue[k] \in Works /\ fate[queue[k]] = "added"
      BY LenProperties, ElementOfSeq DEF Shapes, PlacesInv
    <3>3. QED
      BY <2>6, <3>1, <3>2 DEF RetractFound, SetFate, Pool!Retract
  <2>7. ASSUME NEW t \in Threads, Run(t)
        PROVE  fate' = fate \/ \E w \in Works : Pool!Begin(w) \/ Pool!Finish(w)
    <3>1. CASE WakeUp(t) \/ TestTimeToDie(t)
      BY <3>1 DEF WakeUp, TestTimeToDie
    <3>2. CASE TakeWork(t)
      BY <3>2 DEF TakeWork, SetFate, PlacesInv, Shapes, Pool!Begin
    <3>3. CASE FinishWork(t)
      BY <3>3, ZenonT(40) DEF FinishWork, SetFate, PlacesInv, Shapes, Pool!Finish
    <3>4. CASE ReturnToPoolOrGetNextJob(t)
      <4>1. queue # <<>> => Head(queue) \in Works /\ fate[Head(queue)] = "added"
        BY HeadTail DEF Shapes, PlacesInv
      <4>2. QED
        BY <3>4, <4>1 DEF ReturnToPoolOrGetNextJob, SetFate, Pool!Begin
    <3>5. QED
      BY <2>7, <3>1, <3>2, <3>3, <3>4 DEF Run
  <2>8. ASSUME BeginDestroy
        PROVE  Pool!Abandon(Range(queue)) /\ Range(queue) \subseteq Works
    <3>1. Range(queue) \subseteq Works
      BY RangeOfSeq DEF Shapes
    <3>2. \A w \in Range(queue) : fate[w] = "added"
      BY DEF PlacesInv, Range
    <3>3. QED
      BY <2>8, <3>1, <3>2 DEF BeginDestroy, Pool!Abandon
  <2>9. ASSUME Drained \/ EndDestroy PROVE fate' = fate
    BY <2>9 DEF Drained, EndDestroy
  <2>10. ASSUME NEW t \in Threads, KillThread(t) \/ KillTrigger(t) \/ KillJoin(t)
         PROVE  fate' = fate
    BY <2>10 DEF KillThread, KillTrigger, KillJoin
  <2>11. QED
    BY <2>1, <2>2, <2>3, <2>4, <2>5, <2>6, <2>7, <2>8, <2>9, <2>10, Steps
       DEF Pool!Next
<1>3. QED
  BY <1>1, <1>2, PoolInvariant, PTL DEF Spec, Pool!SafeSpec

(* With a careful owner only the undefined erase(end()) can crash the       *)
(* process: no call finds the lock gone (ThreadingBase.cpp:652, 678, 713).  *)
CarefulOwnerNeverCrashes == crashed /\ ~careless => EraseEndIsFatal

THEOREM CarefulOwnerIsSafe == Spec => []CarefulOwnerNeverCrashes
<1>1. Init => CarefulOwnerNeverCrashes
  BY DEF Init, CarefulOwnerNeverCrashes
<1>2. ASSUME PoolInv, CarefulOwnerNeverCrashes, [Next]_vars
      PROVE  CarefulOwnerNeverCrashes'
  <2>1. careless' = careless
    BY <1>2, Steps DEF vars, destroyVars, RetractMissed, LockAfterDestroy,
       AddQueuedWork, RetractQueuedWork, AddLocked, RetractFound, Run, WakeUp, TakeWork,
       FinishWork, ReturnToPoolOrGetNextJob, TestTimeToDie, BeginDestroy, Drained,
       EndDestroy, KillThread, KillTrigger, KillJoin
  <2>2. ASSUME NEW c \in Callers, RetractMissed(c)
        PROVE  crashed' = EraseEndIsFatal
    BY <2>2 DEF RetractMissed
  <2>3. ASSUME NEW c \in Callers, LockAfterDestroy(c)
        PROVE  careless
    BY <1>2, <2>3 DEF LockAfterDestroy, PoolInv, QuietInv, Shapes
  <2>4. crashed' = crashed \/ crashed' = EraseEndIsFatal \/ careless
    BY <1>2, <2>2, <2>3, Steps DEF vars
  <2>5. QED
    BY <1>2, <2>1, <2>4 DEF CarefulOwnerNeverCrashes
<1>3. QED
  BY <1>1, <1>2, PoolInvariant, PTL DEF Spec

(* "we better not have anything if we are dying" (ThreadingBase.cpp:730):   *)
(* true with a careful owner only, as an AddQueuedWork that is under way    *)
(* may still queue its work.                                                *)
DyingPoolQueuesNothing == timeToDie /\ ~careless => queue = <<>>

THEOREM NothingQueuedWhileDying == Spec => []DyingPoolQueuesNothing
<1>1. PoolInv => DyingPoolQueuesNothing
  BY DEF PoolInv, QuietInv, DyingPoolQueuesNothing
<1>2. QED
  BY <1>1, PoolInvariant, PTL

(* With a careful owner the threads that Destroy joins while it holds the   *)
(* lock have nothing to do, so none of them asks for the lock.              *)
IdleWhenJoined ==
  ~careless /\ destroyer \in {"drained", "killing", "triggering", "joining"} =>
    \A t \in Threads :
      given[t] = NoWork /\ pc[t] \in {"loop", "wait", "woken", "exited"}

THEOREM JoinedThreadsAreIdle == Spec => []IdleWhenJoined
<1>1. Init => IdleWhenJoined
  BY DEF Init, IdleWhenJoined
<1>2. ASSUME PoolInv, IdleWhenJoined, [Next]_vars
      PROVE  IdleWhenJoined'
  <2> USE <1>2 DEF PoolInv
  <2>1. CASE UNCHANGED vars
    BY <2>1 DEF vars, destroyVars, threadVars, IdleWhenJoined
  <2>2. ASSUME NEW c \in Callers, RetractMissed(c) \/ LockAfterDestroy(c)
                                    \/ RetractFound(c)
        PROVE  IdleWhenJoined'
    BY <2>2 DEF RetractMissed, LockAfterDestroy, RetractFound, destroyVars,
       threadVars, IdleWhenJoined
  <2>3. ASSUME NEW c \in Callers, NEW w \in Works,
               AddQueuedWork(c, w) \/ RetractQueuedWork(c, w)
        PROVE  IdleWhenJoined'
    BY <2>3 DEF AddQueuedWork, RetractQueuedWork, destroyVars, threadVars,
       IdleWhenJoined
  <2>4. ASSUME NEW c \in Callers, AddLocked(c)
        PROVE  IdleWhenJoined'
    BY <2>4 DEF AddLocked, destroyVars, QuietInv, IdleWhenJoined
  <2>5. ASSUME NEW t \in Threads, Run(t)
        PROVE  IdleWhenJoined'
    <3>1. UNCHANGED destroyVars
      BY <2>5 DEF Run, WakeUp, TakeWork, FinishWork, ReturnToPoolOrGetNextJob,
         TestTimeToDie
    <3>2. ASSUME given[t] = NoWork, pc[t] \in {"loop", "wait", "woken", "exited"}
          PROVE  given'[t] = NoWork /\ pc'[t] \in {"loop", "wait", "woken", "exited"}
      BY <2>5, <3>2 DEF Run, WakeUp, TakeWork, Cleared, FinishWork,
         ReturnToPoolOrGetNextJob, TestTimeToDie, Goto, Shapes
    <3>3. \A u \in Threads : u # t => given'[u] = given[u] /\ pc'[u] = pc[u]
      BY <2>5 DEF Run, WakeUp, TakeWork, Cleared, FinishWork,
         ReturnToPoolOrGetNextJob, TestTimeToDie, Goto, Shapes
    <3>4. QED
      BY <3>1, <3>2, <3>3 DEF destroyVars, IdleWhenJoined
  <2>6. CASE BeginDestroy \/ EndDestroy
    BY <2>6 DEF BeginDestroy, EndDestroy, IdleWhenJoined
  <2>7. CASE Drained
    <3>1. /\ Len(available) = Cardinality(Threads)
          /\ UNCHANGED <<given, pc>>
      BY <2>7 DEF Drained, AllIdle, threadVars
    <3>2. /\ available \in [1 .. Cardinality(Threads) -> Threads]
          /\ Cardinality(Threads) \in Nat
      BY <3>1, PoolAssumption, FS_CardinalityType, LenProperties DEF Shapes
    <3>3. /\ IsFiniteSet(1 .. Cardinality(Threads))
          /\ Cardinality(1 .. Cardinality(Threads)) = Cardinality(Threads)
      BY <3>2, FS_Interval
    <3>4. available \in Injection(1 .. Cardinality(Threads), Threads)
      BY <3>2 DEF Injection, IsInjective, HandOverInv, PooledThreadsAreFree
    <3>5. available \in Surjection(1 .. Cardinality(Threads), Threads)
      BY <3>3, <3>4, PoolAssumption, FS_Injection
    <3>6. \A t \in Threads : t \in Range(available)
      BY <3>2, <3>5 DEF Surjection, Range
    <3>7. QED
      BY <3>1, <3>6 DEF HandOverInv, PooledThreadsAreFree, IdleWhenJoined
  <2>8. ASSUME NEW t \in Threads, KillThread(t) \/ KillTrigger(t) \/ KillJoin(t)
        PROVE  IdleWhenJoined'
    BY <2>8 DEF KillThread, KillTrigger, KillJoin, threadVars, IdleWhenJoined
  <2>9. QED
    BY <2>1, <2>2, <2>3, <2>4, <2>5, <2>6, <2>7, <2>8, Steps
<1>3. QED
  BY <1>1, <1>2, PoolInvariant, PTL DEF Spec
=============================================================================
