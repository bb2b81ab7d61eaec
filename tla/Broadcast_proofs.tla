------------------------- MODULE Broadcast_proofs -------------------------
(***************************************************************************)
(* Machine-checked safety of BroadcastSlow_OnlyUseForSpecialPurposes, for  *)
(* any number of named threads, of workers in a set and of calls: a call   *)
(* leaves nothing behind, its events come back to the pool as they were    *)
(* taken, its tasks are queued where their workers look for them, and each *)
(* worker is reached once.                                                 *)
(***************************************************************************)
EXTENDS Broadcast, TLAPS, FiniteSetTheorems

-----------------------------------------------------------------------------
(* Broadcast: the inductive invariant                                       *)

CallStages == {"idle", "make", "wait", "release", "join", "joinNamed"}
WorkStages == {"idle", "call", "wait", "trigger", "complete"}
QueuedTasks == [to : Int, event : Nat]
EventNumbers == 1 .. made

CallShapes ==
  /\ created \subseteq {HighThread, BackgroundThread}
  /\ BackgroundThread \in created => HighThread \in created
  /\ enabled \subseteq {HighThread, BackgroundThread}
  /\ incoming \in [0 .. 2 -> [0 .. 1 -> Seq(QueuedTasks)]]
  /\ pc \in [AllWorkers -> WorkStages]
  /\ task \in [AllWorkers -> QueuedTasks]
  /\ made \in Nat /\ signalled \subseteq EventNumbers
  /\ pool \in Seq(EventNumbers) /\ taskEvents \in Seq(EventNumbers)
  /\ myEvent \in EventNumbers \cup {NoEvent}
  /\ caller \in CallStages /\ todo \in Seq(Int)
  /\ covered \subseteq 0 .. 2
  /\ counter \in Int /\ ran \in [AllWorkers -> Nat] /\ timedOut \in BOOLEAN

(* A set of threads that has been created; the normal one always is.        *)
Served(p) == p = NormalThread \/ p \in created

(* The task with event e is the k-th of a queue, or in the hands of w.      *)
Events == Nat \ {NoEvent}

QueuedAt(p, q, k, e) ==
  k \in DOMAIN incoming[p][q] /\ incoming[p][q][k].event = e

InHand(w, e) == task[w].event = e

InQueue(e) == \E p \in 0 .. 2 : \E q \in 0 .. 1 : \E k \in Nat : QueuedAt(p, q, k, e)

(* Each event belongs to one task at most, and that is in one place.        *)
OneTaskEach ==
  /\ \A e \in Events : \A p, p2 \in 0 .. 2 : \A q, q2 \in 0 .. 1 : \A k, k2 \in Nat :
       QueuedAt(p, q, k, e) /\ QueuedAt(p2, q2, k2, e) => p = p2 /\ q = q2 /\ k = k2
  /\ \A e \in Events : InQueue(e) => \A w \in AllWorkers : ~InHand(w, e)
  /\ \A e \in Events : \A v, w \in AllWorkers : InHand(v, e) /\ InHand(w, e) => v = w

(* A task of the call is in a queue, or with a worker, of a set the call is *)
(* for; its event is one of TaskEvents.                                     *)
TasksInPlace ==
  /\ \A p \in 0 .. 2 : \A q \in 0 .. 1 : \A k \in Nat : \A e \in Events :
       QueuedAt(p, q, k, e) => e \in ToSet(taskEvents) /\ p \in covered
  /\ \A w \in AllWorkers : \A e \in Events :
       InHand(w, e) =>
         e \in ToSet(taskEvents) /\ w \in Workers(created) /\ PriorityIndex(w) \in covered

(* A queue that has tasks is that of a set with threads.                    *)
QueuesServed ==
  \A p \in 0 .. 2 : \A q \in 0 .. 1 : incoming[p][q] # <<>> => Served(p)

HandsFull ==
  \A w \in AllWorkers :
    /\ pc[w] = "idle" => InHand(w, NoEvent)
    /\ pc[w] \in {"wait", "trigger"} => ~InHand(w, NoEvent)

(* Who has an event: the pool, or the call as one of TaskEvents or MyEvent. *)
EventsInPlace ==
  /\ IsInjective(pool) /\ IsInjective(taskEvents)
  /\ ToSet(pool) \cap ToSet(taskEvents) = {}
  /\ myEvent \notin ToSet(pool) /\ myEvent \notin ToSet(taskEvents)
  /\ signalled \subseteq ToSet(taskEvents) \cup {myEvent}

(* The stages of the call.                                                  *)
NoneLeft == \A e \in Events : ~InQueue(e) /\ \A w \in AllWorkers : ~InHand(w, e)

StagesInOrder ==
  /\ caller = "idle" => taskEvents = <<>> /\ myEvent = NoEvent /\ covered = {}
                        /\ ~timedOut /\ \A w \in AllWorkers : ran[w] = 0
  /\ caller # "make" => todo = <<>>
  /\ caller \in {"wait", "release", "join"} => covered # {}
  /\ covered = {} => todo = <<>> /\ taskEvents = <<>>
  /\ covered # {} => NormalThread \in covered /\ myEvent # NoEvent
  /\ \A k \in DOMAIN todo : \E p \in covered : todo[k] = SetPriorities(AnyThread, p, HighTask)
  /\ caller = "make" => ~timedOut

NoneLeftInTheEnd == caller \in {"idle", "joinNamed"} => NoneLeft

(* Until the workers are released: the tasks that have not called the       *)
(* function yet, and the workers that have.                                 *)
Early == caller \in {"make", "wait", "release"} /\ covered # {}

Uncalled ==
  {e \in ToSet(taskEvents) :
     InQueue(e) \/ \E w \in AllWorkers : pc[w] = "call" /\ InHand(w, e)}

Callers == {w \in AllWorkers : ran[w] # 0}

(* The counter has the calls that are still to come, and each worker of the *)
(* sets made one at most: it waits, unless the last call has been made.     *)
CallsCounted ==
  Early =>
    /\ counter = Len(todo) + Cardinality(Uncalled)
    /\ counter + Cardinality(Callers) = NumTaskThreads * Cardinality(covered)
    /\ \A w \in AllWorkers : ran[w] # 0 =>
         /\ ran[w] = 1 /\ w \in Workers(created) /\ PriorityIndex(w) \in covered
         /\ pc[w] = "wait" \/ counter = 0
    /\ signalled \cap ToSet(taskEvents) = {}
    /\ myEvent \in signalled => counter = 0
    /\ \A w \in AllWorkers : pc[w] = "trigger" => counter = 0
    /\ caller = "release" /\ ~timedOut => counter = 0

BroadcastInv ==
  /\ CallShapes /\ OneTaskEach /\ TasksInPlace /\ QueuesServed /\ HandsFull
  /\ EventsInPlace /\ StagesInOrder /\ NoneLeftInTheEnd /\ CallsCounted

-----------------------------------------------------------------------------
(* The numbers of the worker threads                                        *)

LEMMA SetSizes ==
  ASSUME NEW S \in SUBSET {HighThread, BackgroundThread},
         BackgroundThread \in S => HighThread \in S
  PROVE  \/ S = {} /\ Cardinality(S) = 0
         \/ S = {HighThread} /\ Cardinality(S) = 1
         \/ S = {HighThread, BackgroundThread} /\ Cardinality(S) = 2
<1>1. Cardinality({}) = 0 /\ IsFiniteSet({})
  BY FS_EmptySet
<1>2. Cardinality({HighThread}) = 1 /\ IsFiniteSet({HighThread})
  BY FS_Singleton
<1>3. Cardinality({HighThread} \cup {BackgroundThread}) = 2
  BY <1>2, FS_AddElement DEF HighThread, BackgroundThread
<1>4. S = {} \/ S = {HighThread} \/ S = {HighThread, BackgroundThread}
  OBVIOUS
<1>5. {HighThread} \cup {BackgroundThread} = {HighThread, BackgroundThread}
  OBVIOUS
<1> QED BY <1>1, <1>2, <1>3, <1>4, <1>5

LEMMA SomeNumbers ==
  ASSUME NEW k \in 0 .. NumTaskThreads - 1
  PROVE  /\ k \div NumTaskThreads = 0 /\ k % NumTaskThreads = k
         /\ (k + NumTaskThreads) \div NumTaskThreads = 1
         /\ (k + NumTaskThreads) % NumTaskThreads = k
         /\ (k + 2 * NumTaskThreads) \div NumTaskThreads = 2
         /\ (k + 2 * NumTaskThreads) % NumTaskThreads = k
<1> NumTaskThreads \in Nat \ {0} /\ k \in Nat /\ k < NumTaskThreads
  BY BroadcastAssumption
<1>1. k \div NumTaskThreads = 0 /\ k % NumTaskThreads = k
  BY Z3
<1>2. (k + NumTaskThreads) \div NumTaskThreads = 1
  BY Z3
<1>3. (k + NumTaskThreads) % NumTaskThreads = k
  BY Z3
<1>4. (k + 2 * NumTaskThreads) \div NumTaskThreads = 2
  BY Z3
<1>5. (k + 2 * NumTaskThreads) % NumTaskThreads = k
  BY Z3
<1> QED BY <1>1, <1>2, <1>3, <1>4, <1>5

(* Which workers there are, and which priority each has.                    *)
Numbers(p) ==
  NumNamedThreads + p * NumTaskThreads .. NumNamedThreads + (p + 1) * NumTaskThreads - 1

LEMMA WorkersOf ==
  ASSUME NEW S \in SUBSET {HighThread, BackgroundThread},
         BackgroundThread \in S => HighThread \in S
  PROVE  /\ \A w \in Workers(S) : PriorityIndex(w) \in {NormalThread} \cup S
                               /\ w \in Numbers(PriorityIndex(w))
         /\ Workers(S) \subseteq AllWorkers
         /\ \A p \in {NormalThread} \cup S : Numbers(p) \subseteq Workers(S)
<1> DEFINE N == NumTaskThreads
           M == NumNamedThreads
<1>a. N \in Nat \ {0} /\ M \in Nat
  BY BroadcastAssumption
<1>b. Cardinality({HighThread, BackgroundThread}) = 2
  BY SetSizes DEF HighThread, BackgroundThread
<1>1. AllWorkers = M .. M + N * 3 - 1
  BY <1>b DEF AllWorkers, Workers, NumTaskThreadSets
<1>2. \A w \in AllWorkers : /\ w < M + N => PriorityIndex(w) = 0
                            /\ M + N <= w /\ w < M + 2 * N => PriorityIndex(w) = 1
                            /\ M + 2 * N <= w => PriorityIndex(w) = 2
  <2> SUFFICES ASSUME NEW w \in AllWorkers
               PROVE  /\ w < M + N => PriorityIndex(w) = 0
                      /\ M + N <= w /\ w < M + 2 * N => PriorityIndex(w) = 1
                      /\ M + 2 * N <= w => PriorityIndex(w) = 2
    OBVIOUS
  <2>1. CASE w < M + N
    <3>1. w - M \in 0 .. N - 1
      BY <1>a, <1>1, <2>1
    <3> QED BY <3>1, <1>a, <1>1, <2>1, SomeNumbers DEF PriorityIndex
  <2>2. CASE M + N <= w /\ w < M + 2 * N
    <3>1. w - M - N \in 0 .. N - 1 /\ (w - M - N) + N = w - M
      BY <1>a, <1>1, <2>2
    <3>2. ((w - M - N) + N) \div N = 1
      BY <3>1, SomeNumbers
    <3> QED BY <3>1, <3>2, <1>a, <1>1, <2>2 DEF PriorityIndex
  <2>3. CASE M + 2 * N <= w
    <3>1. w - M - 2 * N \in 0 .. N - 1 /\ (w - M - 2 * N) + 2 * N = w - M
      BY <1>a, <1>1, <2>3
    <3>2. ((w - M - 2 * N) + 2 * N) \div N = 2
      BY <3>1, SomeNumbers
    <3> QED BY <3>1, <3>2, <1>a, <1>1, <2>3 DEF PriorityIndex
  <2> QED BY <1>a, <1>1, <2>1, <2>2, <2>3
<1>3. CASE S = {}
  <2>1. Workers(S) = M .. M + N - 1
    BY <1>3, <1>a, SetSizes DEF Workers, NumTaskThreadSets
  <2> QED BY <2>1, <1>1, <1>2, <1>3, <1>a DEF Numbers, NormalThread
<1>4. CASE S = {HighThread}
  <2>0. Cardinality(S) = 1
    BY <1>4, SetSizes DEF HighThread, BackgroundThread
  <2>1. Workers(S) = M .. M + N * 2 - 1
    BY <2>0, <1>a DEF Workers, NumTaskThreadSets
  <2> QED BY <2>1, <1>1, <1>2, <1>4, <1>a DEF Numbers, NormalThread, HighThread
<1>5. CASE S = {HighThread, BackgroundThread}
  <2>1. Workers(S) = M .. M + N * 3 - 1
    BY <1>5, <1>1 DEF AllWorkers
  <2> QED BY <2>1, <1>1, <1>2, <1>5, <1>a
       DEF Numbers, NormalThread, HighThread, BackgroundThread
<1> QED BY <1>3, <1>4, <1>5, SetSizes

LEMMA WorkerOfIndex ==
  ASSUME NEW p \in 0 .. 2, NEW k \in 0 .. NumTaskThreads - 1
  PROVE  LET w == ThreadToWake(p, k) IN
         w \in Numbers(p) /\ PriorityIndex(w) = p /\ MyIndex(w) = k
<1> DEFINE w == ThreadToWake(p, k)
<1>a. NumTaskThreads \in Nat \ {0} /\ NumNamedThreads \in Nat
  BY BroadcastAssumption
<1>1. w \in Numbers(p)
  BY <1>a DEF ThreadToWake, Numbers
<1>2. w - NumNamedThreads = k + p * NumTaskThreads
  BY <1>a DEF ThreadToWake
<1>3. p = 0 \/ p = 1 \/ p = 2
  OBVIOUS
<1>4. PriorityIndex(w) = p /\ MyIndex(w) = k
  <2>1. CASE p = 0
    BY <1>2, <2>1, <1>a, SomeNumbers DEF PriorityIndex, MyIndex
  <2>2. CASE p = 1
    BY <1>2, <2>2, <1>a, SomeNumbers DEF PriorityIndex, MyIndex
  <2>3. CASE p = 2
    BY <1>2, <2>3, <1>a, SomeNumbers DEF PriorityIndex, MyIndex
  <2> QED BY <1>3, <2>1, <2>2, <2>3
<1> QED BY <1>1, <1>4

LEMMA Routes ==
  ASSUME NEW p \in 0 .. 2, NEW q \in 0 .. 1, NEW has \in SUBSET {HighThread, BackgroundThread}
  PROVE  LET to == SetPriorities(AnyThread, p, q)
             r == Route(to, has) IN
         /\ r.priority \in {NormalThread} \cup has /\ r.priority \in 0 .. 2
         /\ r.priority \in {p, NormalThread}
         /\ r.queue \in 0 .. 1
         /\ to \in Int
<1> DEFINE to == SetPriorities(AnyThread, p, q)
<1>1. to \in Int /\ GetThreadPriorityIndex(to) = p /\ GetTaskPriority(to) = q
  BY DEF SetPriorities, AnyThread, GetThreadPriorityIndex, GetTaskPriority
<1> QED BY <1>1 DEF Route, NormalThread, HighThread, BackgroundThread, NormalTask, HighTask

-----------------------------------------------------------------------------
(* What a step makes of the places of the tasks                             *)

LEMMA Placed ==
  ASSUME UNCHANGED <<incoming, task>>
  PROVE  /\ \A p, q, k, e : QueuedAt(p, q, k, e)' = QueuedAt(p, q, k, e)
         /\ \A e : InQueue(e)' = InQueue(e)
         /\ \A w, e : InHand(w, e)' = InHand(w, e)
         /\ OneTaskEach => OneTaskEach'
         /\ NoneLeft => NoneLeft'
         /\ QueuesServed /\ UNCHANGED created => QueuesServed'
         /\ TasksInPlace /\ UNCHANGED <<created, covered, taskEvents>> => TasksInPlace'
         /\ HandsFull /\ UNCHANGED pc => HandsFull'
<1>1. \A p, q, k, e : QueuedAt(p, q, k, e)' = QueuedAt(p, q, k, e)
  BY DEF QueuedAt
<1>2. \A e : InQueue(e)' = InQueue(e)
  BY <1>1 DEF InQueue
<1>3. \A w, e : InHand(w, e)' = InHand(w, e)
  BY DEF InHand
<1>4. OneTaskEach => OneTaskEach'
  BY <1>1, <1>2, <1>3 DEF OneTaskEach
<1>5. NoneLeft => NoneLeft'
  BY <1>2, <1>3 DEF NoneLeft
<1>6. QueuesServed /\ UNCHANGED created => QueuesServed'
  BY DEF QueuesServed, Served
<1>7. TasksInPlace /\ UNCHANGED <<created, covered, taskEvents>> => TasksInPlace'
  BY <1>1, <1>3 DEF TasksInPlace, AllWorkers
<1>8. HandsFull /\ UNCHANGED pc => HandsFull'
  BY <1>3 DEF HandsFull
<1> QED BY <1>1, <1>2, <1>3, <1>4, <1>5, <1>6, <1>7, <1>8

(* QueueTask puts a task behind the others of a queue that has workers.     *)
QueuedBehind(a, b, n, e) ==
  /\ \A p \in 0 .. 2 : \A q \in 0 .. 1 : \A k \in Nat : \A x \in Events :
       QueuedAt(p, q, k, x)' <=>
         QueuedAt(p, q, k, x) \/ (p = a /\ q = b /\ k = n /\ x = e)
  /\ \A x \in Events : InQueue(x)' <=> InQueue(x) \/ x = e
  /\ \A p \in 0 .. 2 : \A q \in 0 .. 1 :
       incoming'[p][q] # <<>> => incoming[p][q] # <<>> \/ p = a

LEMMA TaskQueued ==
  ASSUME CallShapes, NEW p \in 0 .. 2, NEW q \in 0 .. 1,
         NEW e \in Nat, QueueTask([to |-> SetPriorities(AnyThread, p, q), event |-> e])
  PROVE  /\ incoming' \in [0 .. 2 -> [0 .. 1 -> Seq(QueuedTasks)]]
         /\ \E a \in 0 .. 2 : \E b \in 0 .. 1 : \E n \in Nat :
              Served(a) /\ a \in {p, NormalThread} /\ QueuedBehind(a, b, n, e)
<1> DEFINE to == SetPriorities(AnyThread, p, q)
           t == [to |-> to, event |-> e]
           r == Route(to, created \cap enabled)
<1>1. created \cap enabled \in SUBSET {HighThread, BackgroundThread}
  BY DEF CallShapes
<1>2. /\ r.priority \in {NormalThread} \cup (created \cap enabled) /\ r.priority \in 0 .. 2
      /\ r.priority \in {p, NormalThread} /\ r.queue \in 0 .. 1 /\ to \in Int
  BY <1>1, Routes
<1>3. incoming \in [0 .. 2 -> [0 .. 1 -> Seq(QueuedTasks)]]
  BY DEF CallShapes
<1>4. t \in QueuedTasks /\ t.event = e
  BY <1>2 DEF QueuedTasks
<1>5. incoming' = [incoming EXCEPT ![r.priority][r.queue] = Append(@, t)]
  BY DEF QueueTask
<1>6. Served(r.priority)
  BY <1>2 DEF Served
<1> HIDE DEF to, r, t
<1>7. PICK a \in 0 .. 2, b \in 0 .. 1 : a = r.priority /\ b = r.queue
  BY <1>2
<1>8. Served(a) /\ a \in {p, NormalThread}
  BY <1>2, <1>6, <1>7
<1>s. PICK s \in Seq(QueuedTasks) : s = incoming[a][b]
  BY <1>3
<1>9. \A u \in 0 .. 2 : \A v \in 0 .. 1 :
        incoming'[u][v] = IF u = a /\ v = b THEN Append(s, t) ELSE incoming[u][v]
  BY <1>3, <1>5, <1>7, <1>s
<1>10. incoming' \in [0 .. 2 -> [0 .. 1 -> Seq(QueuedTasks)]]
  <2>1. Append(s, t) \in Seq(QueuedTasks)
    BY <1>4
  <2>2. incoming' = [incoming EXCEPT ![a][b] = Append(s, t)]
    BY <1>3, <1>5, <1>7, <1>s
  <2> QED BY <1>3, <2>1, <2>2
<1>n. PICK n \in Nat : n = Len(s) + 1
  OBVIOUS
<1>11. /\ Len(s) \in Nat /\ DOMAIN s = 1 .. Len(s)
       /\ DOMAIN Append(s, t) = 1 .. n
       /\ \A k \in 1 .. Len(s) : Append(s, t)[k] = s[k]
       /\ Append(s, t)[n] = t
       /\ \A k \in Nat : k \in 1 .. n <=> k \in 1 .. Len(s) \/ k = n
       /\ n \notin 1 .. Len(s)
  <2>1. /\ Len(s) \in Nat /\ DOMAIN s = 1 .. Len(s)
        /\ DOMAIN Append(s, t) = 1 .. Len(s) + 1
        /\ \A k \in 1 .. Len(s) : Append(s, t)[k] = s[k]
        /\ Append(s, t)[Len(s) + 1] = t
    BY <1>4
  <2>2. n \notin 1 .. Len(s) /\ \A k \in Nat : k \in 1 .. n <=> k \in 1 .. Len(s) \/ k = n
    BY <1>n, <2>1
  <2> QED BY <1>n, <2>1, <2>2
<1>12. ASSUME NEW u \in 0 .. 2, NEW v \in 0 .. 1, NEW k \in Nat, NEW x \in Events
       PROVE  QueuedAt(u, v, k, x)' <=>
                QueuedAt(u, v, k, x) \/ (u = a /\ v = b /\ k = n /\ x = e)
  <2>1. CASE u = a /\ v = b
    <3>1. QueuedAt(u, v, k, x)' <=> k \in 1 .. n /\ Append(s, t)[k].event = x
      BY <1>9, <1>11, <2>1 DEF QueuedAt
    <3>2. QueuedAt(u, v, k, x) <=> k \in 1 .. Len(s) /\ s[k].event = x
      BY <1>s, <1>11, <2>1 DEF QueuedAt
    <3> QED BY <1>4, <1>11, <2>1, <3>1, <3>2
  <2>2. CASE ~(u = a /\ v = b)
    BY <1>9, <2>2 DEF QueuedAt
  <2> QED BY <2>1, <2>2
<1>13. \A x \in Events : InQueue(x)' <=> InQueue(x) \/ x = e
  <2> SUFFICES ASSUME NEW x \in Events PROVE InQueue(x)' <=> InQueue(x) \/ x = e
    OBVIOUS
  <2>1. ASSUME InQueue(x)' PROVE InQueue(x) \/ x = e
    BY <1>12, <2>1 DEF InQueue
  <2>2. ASSUME InQueue(x) PROVE InQueue(x)'
    BY <1>12, <2>2 DEF InQueue
  <2>3. ASSUME x = e PROVE InQueue(x)'
    <3>1. QueuedAt(a, b, n, x)'
      BY <1>8, <1>11, <1>12, <2>3
    <3>2. n \in Nat
      BY <1>11
    <3> QED BY <1>8, <3>1, <3>2 DEF InQueue
  <2> QED BY <2>1, <2>2, <2>3
<1>14. \A u \in 0 .. 2 : \A v \in 0 .. 1 :
         incoming'[u][v] # <<>> => incoming[u][v] # <<>> \/ u = a
  BY <1>9
<1>15. QueuedBehind(a, b, n, e)
  BY <1>12, <1>13, <1>14 DEF QueuedBehind
<1> QED BY <1>8, <1>10, <1>11, <1>15

(* A worker takes the first task of a queue.                                *)
LEMMA Taken ==
  ASSUME NEW a \in 0 .. 2, NEW b \in 0 .. 1, NEW w \in AllWorkers,
         incoming \in [0 .. 2 -> [0 .. 1 -> Seq(QueuedTasks)]],
         task \in [AllWorkers -> QueuedTasks],
         incoming[a][b] # <<>>,
         incoming' = [incoming EXCEPT ![a][b] = Tail(incoming[a][b])],
         task' = [task EXCEPT ![w] = Head(incoming[a][b])]
  PROVE  /\ incoming' \in [0 .. 2 -> [0 .. 1 -> Seq(QueuedTasks)]]
         /\ task' \in [AllWorkers -> QueuedTasks]
         /\ \A p \in 0 .. 2 : \A q \in 0 .. 1 : \A k \in Nat, e \in Events :
              QueuedAt(p, q, k, e)' <=>
                IF p = a /\ q = b THEN k # 0 /\ QueuedAt(p, q, k + 1, e)
                                  ELSE QueuedAt(p, q, k, e)
         /\ \A e : InHand(w, e)' <=> QueuedAt(a, b, 1, e)
         /\ \A v \in AllWorkers \ {w}, e \in Events : InHand(v, e)' = InHand(v, e)
<1> DEFINE s == incoming[a][b]
<1>0. s \in Seq(QueuedTasks) /\ s # <<>>
  OBVIOUS
<1>1. \A p \in 0 .. 2 : \A q \in 0 .. 1 :
        incoming'[p][q] = IF p = a /\ q = b THEN Tail(s) ELSE incoming[p][q]
  OBVIOUS
<1>2. /\ Len(s) \in Nat \ {0} /\ DOMAIN s = 1 .. Len(s)
      /\ DOMAIN Tail(s) = 1 .. Len(s) - 1
      /\ \A k \in 1 .. Len(s) - 1 : Tail(s)[k] = s[k + 1]
      /\ Head(s) = s[1] /\ Head(s) \in QueuedTasks /\ Tail(s) \in Seq(QueuedTasks)
  BY <1>0
<1> HIDE DEF s
<1>3. ASSUME NEW p \in 0 .. 2, NEW q \in 0 .. 1, NEW k \in Nat, NEW e \in Events
      PROVE  QueuedAt(p, q, k, e)' <=>
                IF p = a /\ q = b THEN k # 0 /\ QueuedAt(p, q, k + 1, e)
                                  ELSE QueuedAt(p, q, k, e)
  <2>1. CASE p = a /\ q = b
    <3>1. QueuedAt(p, q, k, e)' <=> k \in 1 .. Len(s) - 1 /\ Tail(s)[k].event = e
      BY <1>1, <1>2, <2>1 DEF QueuedAt
    <3>2. QueuedAt(p, q, k + 1, e) <=> k + 1 \in 1 .. Len(s) /\ s[k + 1].event = e
      BY <1>2, <2>1 DEF QueuedAt, s
    <3>3. k \in 1 .. Len(s) - 1 <=> k # 0 /\ k + 1 \in 1 .. Len(s)
      BY <1>2
    <3> QED BY <1>2, <2>1, <3>1, <3>2, <3>3
  <2>2. CASE ~(p = a /\ q = b)
    BY <1>1, <2>2 DEF QueuedAt
  <2> QED BY <2>1, <2>2
<1>4. \A e : InHand(w, e)' <=> QueuedAt(a, b, 1, e)
  <2>1. task'[w] = s[1] /\ 1 \in DOMAIN incoming[a][b]
    BY <1>2 DEF s
  <2> QED BY <2>1 DEF InHand, QueuedAt, s
<1>5. \A v \in AllWorkers \ {w}, e \in Events : InHand(v, e)' = InHand(v, e)
  BY DEF InHand
<1>6. incoming' \in [0 .. 2 -> [0 .. 1 -> Seq(QueuedTasks)]]
  BY <1>2 DEF s
<1>7. task' \in [AllWorkers -> QueuedTasks]
  BY <1>2 DEF s
<1> QED BY <1>3, <1>4, <1>5, <1>6, <1>7

(* A worker is done with its task.                                          *)
LEMMA Dropped ==
  ASSUME NEW w \in AllWorkers, task \in [AllWorkers -> QueuedTasks],
         task' = [task EXCEPT ![w] = NoTask], UNCHANGED incoming
  PROVE  /\ task' \in [AllWorkers -> QueuedTasks]
         /\ \A p, q, k, e : QueuedAt(p, q, k, e)' = QueuedAt(p, q, k, e)
         /\ \A e : InQueue(e)' = InQueue(e)
         /\ \A v \in AllWorkers, e \in Events : InHand(v, e)' <=> v # w /\ InHand(v, e)
         /\ InHand(w, NoEvent)'
<1>1. NoTask \in QueuedTasks /\ NoTask.event = NoEvent
  BY DEF NoTask, QueuedTasks, AnyThread, NoEvent
<1>2. task' \in [AllWorkers -> QueuedTasks] /\ task'[w] = NoTask
  BY <1>1
<1>3. \A p, q, k, e : QueuedAt(p, q, k, e)' = QueuedAt(p, q, k, e)
  BY DEF QueuedAt
<1>4. \A e : InQueue(e)' = InQueue(e)
  BY <1>3 DEF InQueue
<1>5. \A v \in AllWorkers, e \in Events : InHand(v, e)' <=> v # w /\ InHand(v, e)
  BY <1>1, <1>2 DEF InHand, Events
<1>6. InHand(w, NoEvent)'
  BY <1>1, <1>2 DEF InHand
<1> QED BY <1>2, <1>3, <1>4, <1>5, <1>6

(* No task is left exactly if none is pending.                              *)
LEMMA NoPending ==
  ASSUME CallShapes
  PROVE  /\ Pending = {} <=> NoneLeft
         /\ \A t \in Pending : t.event \in Events
                            /\ (InQueue(t.event) \/ \E w \in AllWorkers : InHand(w, t.event))
<1>1. ASSUME NEW t \in Pending
      PROVE  t.event \in Events /\ (InQueue(t.event) \/ \E w \in AllWorkers : InHand(w, t.event))
  <2>1. CASE t \in Queued
    <3>1. PICK p \in 0 .. 2, q \in 0 .. 1 : t \in ToSet(incoming[p][q])
      BY <2>1 DEF Queued
    <3>2. incoming[p][q] \in Seq(QueuedTasks)
      BY DEF CallShapes
    <3>3. PICK k \in DOMAIN incoming[p][q] : incoming[p][q][k] = t
      BY <3>1 DEF ToSet
    <3>4. k \in Nat /\ t \in QueuedTasks
      BY <3>2, <3>3
    <3>5. t.event # NoEvent
      BY DEF Pending
    <3> QED BY <3>3, <3>4, <3>5 DEF InQueue, QueuedAt, Events, QueuedTasks
  <2>2. CASE \E w \in AllWorkers : t = task[w]
    <3>1. PICK w \in AllWorkers : t = task[w]
      BY <2>2
    <3>2. t \in QueuedTasks /\ t.event # NoEvent
      BY <3>1 DEF CallShapes, Pending
    <3> QED BY <3>1, <3>2 DEF InHand, Events, QueuedTasks
  <2> QED BY <2>1, <2>2 DEF Pending
<1>2. ASSUME NEW e \in Events, InQueue(e) \/ \E w \in AllWorkers : InHand(w, e)
      PROVE  Pending # {}
  <2>1. CASE InQueue(e)
    <3>1. PICK p \in 0 .. 2, q \in 0 .. 1, k \in Nat : QueuedAt(p, q, k, e)
      BY <2>1 DEF InQueue
    <3>a. incoming[p][q][k] \in ToSet(incoming[p][q])
      BY <3>1 DEF QueuedAt, ToSet
    <3>2. incoming[p][q][k] \in Queued
      BY <3>a DEF Queued
    <3>3. incoming[p][q][k].event # NoEvent
      BY <3>1 DEF QueuedAt, Events
    <3> QED BY <3>2, <3>3 DEF Pending
  <2>2. CASE \E w \in AllWorkers : InHand(w, e)
    BY <2>2 DEF Pending, InHand, Events
  <2> QED BY <1>2, <2>1, <2>2
<1>3. Pending = {} <=> NoneLeft
  BY <1>1, <1>2 DEF NoneLeft
<1> QED BY <1>1, <1>3

-----------------------------------------------------------------------------
(* Counting                                                                 *)

LEMMA SmallNumbers ==
  ASSUME CallShapes
  PROVE  /\ ToSet(taskEvents) \subseteq EventNumbers /\ ToSet(pool) \subseteq EventNumbers
         /\ EventNumbers \subseteq Events /\ IsFiniteSet(EventNumbers)
         /\ IsFiniteSet(Uncalled) /\ Cardinality(Uncalled) \in Nat
         /\ IsFiniteSet(AllWorkers)
         /\ IsFiniteSet(Callers) /\ Cardinality(Callers) \in Nat
<1>1. ToSet(taskEvents) \subseteq EventNumbers /\ ToSet(pool) \subseteq EventNumbers
  BY DEF CallShapes, ToSet
<1>2. made \in Nat
  BY DEF CallShapes
<1>3. EventNumbers \subseteq Events /\ IsFiniteSet(EventNumbers)
  BY <1>2, FS_Interval DEF EventNumbers, Events, NoEvent
<1>4. Uncalled \subseteq EventNumbers
  BY <1>1 DEF Uncalled
<1>5. IsFiniteSet(Uncalled)
  BY <1>3, <1>4, FS_Subset
<1>6. IsFiniteSet(AllWorkers)
  <2>1. NumNamedThreads \in Nat /\ NumTaskThreads \in Nat
    BY BroadcastAssumption
  <2>2. Cardinality({HighThread, BackgroundThread}) = 2
    BY SetSizes DEF HighThread, BackgroundThread
  <2>3. NumNamedThreads + NumTaskThreads * 3 - 1 \in Int
    BY <2>1
  <2>4. AllWorkers = NumNamedThreads .. NumNamedThreads + NumTaskThreads * 3 - 1
    BY <2>2 DEF AllWorkers, Workers, NumTaskThreadSets
  <2> QED BY <2>1, <2>3, <2>4, FS_Interval
<1>7. Callers \subseteq AllWorkers
  BY DEF Callers
<1>8. IsFiniteSet(Callers)
  BY <1>6, <1>7, FS_Subset
<1> QED BY <1>1, <1>3, <1>5, <1>6, <1>8, FS_CardinalityType

LEMMA CountsStay ==
  ASSUME UNCHANGED <<incoming, task, pc, taskEvents, ran>>
  PROVE  Uncalled' = Uncalled /\ Callers' = Callers
<1>1. Uncalled' = Uncalled
  BY Placed DEF Uncalled
<1>2. Callers' = Callers
  BY DEF Callers
<1> QED BY <1>1, <1>2

-----------------------------------------------------------------------------
(* The steps of the game thread that move no task                           *)

LEMMA CallerSteps ==
  ASSUME BroadcastInv,
         WaitForWorkers \/ WaitTimesOut \/ ReleaseWorkers \/ JoinWorkers
  PROVE  BroadcastInv'
<1> USE DEF BroadcastInv
<1>0. UNCHANGED <<settings, incoming, others, workerVars, made, pool, todo,
                  covered, taskEvents, myEvent, named, round, counter, ran>>
  BY DEF WaitForWorkers, WaitTimesOut, ReleaseWorkers, JoinWorkers, CallerContinues
<1>1. UNCHANGED <<created, enabled, incoming, pc, task, made, pool, todo, covered,
                  taskEvents, myEvent, counter, ran>>
  BY <1>0 DEF settings, workerVars
<1>2. OneTaskEach' /\ TasksInPlace' /\ QueuesServed' /\ HandsFull'
  BY <1>1, Placed
<1>3. /\ signalled' \subseteq signalled \cup ToSet(taskEvents)
      /\ caller \in {"wait", "release", "join"} /\ caller' \in {"release", "join", "joinNamed"}
      /\ caller' = "release" =>
           /\ caller = "wait" /\ signalled' \subseteq signalled
           /\ ~timedOut' => myEvent \in signalled
      /\ timedOut' \in BOOLEAN
  <2>a. timedOut \in BOOLEAN
    BY DEF CallShapes
  <2>1. CASE WaitForWorkers
    BY <2>a, <2>1 DEF WaitForWorkers, CallerContinues
  <2>2. CASE WaitTimesOut
    BY <2>a, <2>2 DEF WaitTimesOut, CallerContinues
  <2>3. CASE ReleaseWorkers
    BY <2>a, <2>3 DEF ReleaseWorkers, CallerContinues, Released
  <2>4. CASE JoinWorkers
    BY <2>a, <2>4 DEF JoinWorkers, CallerContinues
  <2> QED BY <2>1, <2>2, <2>3, <2>4
<1>4. CallShapes'
  BY <1>1, <1>3, SmallNumbers DEF CallShapes, CallStages, WorkStages, EventNumbers
<1>5. EventsInPlace'
  BY <1>1, <1>3 DEF EventsInPlace
<1>6. StagesInOrder'
  BY <1>1, <1>3 DEF StagesInOrder
<1>7. NoneLeftInTheEnd'
  <2>1. CASE JoinWorkers
    <3>1. Pending = {}
      BY <2>1 DEF JoinWorkers, TasksAreComplete
    <3>2. NoneLeft
      BY <3>1, NoPending
    <3> QED BY <3>2, <1>1, Placed DEF NoneLeftInTheEnd
  <2>2. CASE ~JoinWorkers
    <3>1. caller' \in {"release", "join"}
      BY <2>2 DEF WaitForWorkers, WaitTimesOut, ReleaseWorkers, CallerContinues
    <3> QED BY <3>1 DEF NoneLeftInTheEnd
  <2> QED BY <2>1, <2>2
<1>8. CallsCounted'
  <2> SUFFICES ASSUME Early' PROVE CallsCounted'
    BY DEF CallsCounted
  <2>1. caller' = "release" /\ caller = "wait" /\ Early
    BY <1>1, <1>3 DEF Early
  <2>2. Uncalled' = Uncalled /\ Callers' = Callers
    BY <1>1, CountsStay
  <2>3. signalled' \cap ToSet(taskEvents) = {}
    BY <1>3, <2>1 DEF CallsCounted
  <2>4. ~timedOut' => counter = 0
    BY <1>3, <2>1 DEF CallsCounted, CallShapes
  <2> QED BY <1>1, <1>3, <2>1, <2>2, <2>3, <2>4 DEF CallsCounted
<1> QED BY <1>2, <1>4, <1>5, <1>6, <1>7, <1>8

(* Two sequences without a common element, one after the other.             *)
LEMMA Joined ==
  ASSUME NEW S, NEW s \in Seq(S), NEW t \in Seq(S),
         IsInjective(s), IsInjective(t), ToSet(s) \cap ToSet(t) = {}
  PROVE  /\ s \o t \in Seq(S) /\ IsInjective(s \o t)
         /\ ToSet(s \o t) = ToSet(s) \cup ToSet(t)
<1> DEFINE m == Len(s)
           n == Len(t)
           c == s \o t
<1>1. /\ m \in Nat /\ n \in Nat /\ DOMAIN s = 1 .. m /\ DOMAIN t = 1 .. n
      /\ c \in Seq(S) /\ DOMAIN c = 1 .. m + n
      /\ \A k \in 1 .. m + n : c[k] = IF k <= m THEN s[k] ELSE t[k - m]
  OBVIOUS
<1> HIDE DEF m, n, c
<1>2. \A k \in 1 .. m + n : (k <= m /\ k \in 1 .. m) \/ (k > m /\ k - m \in 1 .. n)
  BY <1>1
<1>3. \A j \in 1 .. m : j \in 1 .. m + n /\ c[j] = s[j]
  BY <1>1
<1>4. \A j \in 1 .. n : j + m \in 1 .. m + n /\ c[j + m] = t[j]
  BY <1>1
<1>5. ToSet(c) = ToSet(s) \cup ToSet(t)
  <2>1. \A k \in 1 .. m + n : c[k] \in ToSet(s) \cup ToSet(t)
    <3>1. \A k \in 1 .. m : s[k] \in ToSet(s)
      BY <1>1 DEF ToSet
    <3>2. \A k \in 1 .. n : t[k] \in ToSet(t)
      BY <1>1 DEF ToSet
    <3> QED BY <1>1, <1>2, <3>1, <3>2
  <2>2. \A x \in ToSet(s) \cup ToSet(t) : \E k \in 1 .. m + n : c[k] = x
    BY <1>1, <1>3, <1>4 DEF ToSet
  <2>3. ToSet(c) = {c[k] : k \in 1 .. m + n}
    BY <1>1 DEF ToSet
  <2> QED BY <2>1, <2>2, <2>3
<1>6. \A j \in 1 .. m, k \in 1 .. n : s[j] # t[k]
  BY <1>1 DEF ToSet
<1>7. IsInjective(c)
  <2>1. \A j, k \in 1 .. m : s[j] = s[k] => j = k
    BY <1>1 DEF IsInjective
  <2>2. \A j, k \in 1 .. n : t[j] = t[k] => j = k
    BY <1>1 DEF IsInjective
  <2> SUFFICES ASSUME NEW j \in 1 .. m + n, NEW k \in 1 .. m + n, c[j] = c[k]
               PROVE  j = k
    BY <1>1 DEF IsInjective
  <2>3. CASE j <= m /\ k <= m
    BY <1>1, <1>2, <2>1, <2>3
  <2>4. CASE j > m /\ k > m
    <3>1. j - m = k - m
      BY <1>1, <1>2, <2>2, <2>4
    <3> QED BY <3>1, <1>1
  <2>5. CASE (j <= m /\ k > m) \/ (j > m /\ k <= m)
    BY <1>1, <1>2, <1>6, <2>5
  <2> QED BY <1>1, <2>3, <2>4, <2>5
<1> QED BY <1>1, <1>5, <1>7 DEF c

LEMMA NamedTaskSteps ==
  ASSUME BroadcastInv,
         \/ MakeNamedTasks
         \/ \E thread \in NamedThreads : RunNamed(thread)
         \/ ThreadSwitchForABTest
  PROVE  BroadcastInv'
<1> USE DEF BroadcastInv
<1>1. /\ UNCHANGED <<created, incoming, pc, task, made, signalled, pool, todo, covered,
                     taskEvents, myEvent, timedOut, counter, ran>>
      /\ enabled' \subseteq {HighThread, BackgroundThread}
      /\ \/ UNCHANGED caller
         \/ /\ caller = "make" /\ todo = <<>>
            /\ caller' = IF covered = {} THEN "joinNamed" ELSE "wait"
  <2>1. CASE MakeNamedTasks
    BY <2>1 DEF MakeNamedTasks, CallShapes, settings, workerVars, eventVars
  <2>2. CASE \E thread \in NamedThreads : RunNamed(thread)
    BY <2>2 DEF RunNamed, CallShapes, settings, workerVars, eventVars
  <2>3. CASE ThreadSwitchForABTest
    BY <2>3 DEF ThreadSwitchForABTest, CallShapes, workerVars, eventVars, callVars
  <2> QED BY <2>1, <2>2, <2>3
<1>2. OneTaskEach' /\ TasksInPlace' /\ QueuesServed' /\ HandsFull'
  BY <1>1, Placed
<1>4. CallShapes'
  BY <1>1 DEF CallShapes, CallStages, WorkStages, EventNumbers
<1>5. EventsInPlace'
  BY <1>1 DEF EventsInPlace
<1>6. StagesInOrder'
  BY <1>1 DEF StagesInOrder
<1>7. NoneLeftInTheEnd'
  <2>1. CASE UNCHANGED caller
    BY <1>1, <2>1, Placed DEF NoneLeftInTheEnd
  <2>2. CASE caller = "make" /\ covered = {}
    <3>1. ToSet(taskEvents) = {}
      BY <2>2 DEF StagesInOrder, ToSet
    <3>2. NoneLeft
      BY <3>1 DEF TasksInPlace, NoneLeft, InQueue
    <3> QED BY <3>2, <1>1, Placed DEF NoneLeftInTheEnd
  <2>3. CASE caller' = "wait"
    BY <2>3 DEF NoneLeftInTheEnd
  <2> QED BY <1>1, <2>1, <2>2, <2>3
<1>8. CallsCounted'
  <2> SUFFICES ASSUME Early' PROVE CallsCounted'
    BY DEF CallsCounted
  <2>1. Early /\ (caller' = "release" => caller = "release")
    BY <1>1 DEF Early
  <2>2. Uncalled' = Uncalled /\ Callers' = Callers
    BY <1>1, CountsStay
  <2> QED BY <1>1, <2>1, <2>2 DEF CallsCounted
<1> QED BY <1>2, <1>4, <1>5, <1>6, <1>7, <1>8

LEMMA ReturnStep ==
  ASSUME BroadcastInv, Return
  PROVE  BroadcastInv'
<1> USE DEF BroadcastInv
<1>1. /\ UNCHANGED <<created, enabled, incoming, pc, task, made, todo, counter>>
      /\ caller = "joinNamed" /\ caller' = "idle"
      /\ signalled' = signalled \ ToSet(MyEvents) /\ pool' = pool \o MyEvents
      /\ taskEvents' = <<>> /\ myEvent' = NoEvent
      /\ covered' = {} /\ timedOut' = FALSE /\ ran' = [w \in AllWorkers |-> 0]
  BY DEF Return, Reset, settings, workerVars
<1>2. NoneLeft /\ NoneLeft'
  BY <1>1, Placed DEF NoneLeftInTheEnd
<1>3. OneTaskEach' /\ QueuesServed' /\ HandsFull'
  BY <1>1, Placed
<1>4. TasksInPlace'
  BY <1>2 DEF TasksInPlace, NoneLeft, InQueue
<1>5. /\ MyEvents \in Seq(EventNumbers) /\ IsInjective(MyEvents)
      /\ ToSet(MyEvents) = ToSet(taskEvents) \cup ({myEvent} \ {NoEvent})
  <2>0. taskEvents \in Seq(EventNumbers) /\ NoEvent \notin EventNumbers
    BY DEF CallShapes, EventNumbers, NoEvent
  <2>1. CASE myEvent = NoEvent
    BY <2>0, <2>1 DEF MyEvents, EventsInPlace
  <2>2. CASE myEvent # NoEvent
    <3> DEFINE s == taskEvents
    <3>1. myEvent \in EventNumbers /\ MyEvents = Append(s, myEvent)
      BY <2>2 DEF CallShapes, MyEvents
    <3>2. /\ Len(s) \in Nat /\ DOMAIN s = 1 .. Len(s)
          /\ DOMAIN MyEvents = 1 .. Len(s) + 1
          /\ \A k \in 1 .. Len(s) : MyEvents[k] = s[k]
          /\ MyEvents[Len(s) + 1] = myEvent
          /\ MyEvents \in Seq(EventNumbers)
      BY <2>0, <3>1
    <3>3. \A k \in 1 .. Len(s) : s[k] # myEvent
      BY <3>2 DEF EventsInPlace, ToSet
    <3>4. \A j, k \in 1 .. Len(s) : s[j] = s[k] => j = k
      BY <3>2 DEF EventsInPlace, IsInjective
    <3>5. \A k \in DOMAIN MyEvents : k \in 1 .. Len(s) \/ k = Len(s) + 1
      BY <3>2
    <3>6. IsInjective(MyEvents)
      BY <3>2, <3>3, <3>4, <3>5 DEF IsInjective
    <3>7. ToSet(MyEvents) = ToSet(s) \cup {myEvent}
      <4>1. Len(s) + 1 \in DOMAIN MyEvents /\ \A k \in 1 .. Len(s) : k \in DOMAIN MyEvents
        BY <3>2
      <4> QED BY <3>2, <3>5, <4>1 DEF ToSet
    <3> QED BY <2>2, <3>2, <3>6, <3>7
  <2> QED BY <2>1, <2>2
<1>6. ToSet(pool) \cap ToSet(MyEvents) = {}
  BY <1>5 DEF EventsInPlace
<1>7. /\ pool' \in Seq(EventNumbers) /\ IsInjective(pool')
      /\ ToSet(pool') = ToSet(pool) \cup ToSet(MyEvents)
  BY <1>1, <1>5, <1>6, Joined DEF CallShapes, EventsInPlace
<1>8. CallShapes'
  <2>1. /\ created' = created /\ enabled' = enabled /\ incoming' = incoming
        /\ pc' = pc /\ task' = task /\ made' = made /\ todo' = todo /\ counter' = counter
    BY <1>1
  <2>2. signalled' \subseteq EventNumbers' /\ pool' \in Seq(EventNumbers')
    BY <1>1, <1>7, <2>1 DEF CallShapes, EventNumbers
  <2>3. /\ myEvent' \in EventNumbers' \cup {NoEvent} /\ caller' \in CallStages
        /\ covered' \subseteq 0 .. 2 /\ timedOut' \in BOOLEAN
    BY <1>1 DEF CallStages
  <2>5. taskEvents' \in Seq(EventNumbers')
    BY <1>1
  <2>4. ran' \in [AllWorkers -> Nat]
    BY <1>1
  <2> QED BY <2>1, <2>2, <2>3, <2>4, <2>5 DEF CallShapes
<1>9. signalled' = {}
  <2>1. NoEvent \notin signalled
    BY DEF CallShapes, EventNumbers, NoEvent
  <2> QED BY <1>1, <1>5, <2>1 DEF EventsInPlace
<1>10. EventsInPlace'
  <2>1. ToSet(taskEvents') = {} /\ IsInjective(taskEvents')
    BY <1>1 DEF ToSet, IsInjective
  <2>2. NoEvent \notin ToSet(pool')
    <3>1. NoEvent \notin EventNumbers
      BY DEF EventNumbers, NoEvent
    <3> QED BY <1>7, <3>1 DEF ToSet
  <2> QED BY <1>1, <1>7, <1>9, <2>1, <2>2 DEF EventsInPlace
<1>11. StagesInOrder'
  BY <1>1 DEF StagesInOrder
<1>12. NoneLeftInTheEnd' /\ CallsCounted'
  BY <1>1, <1>2 DEF NoneLeftInTheEnd, CallsCounted, Early
<1> QED BY <1>3, <1>4, <1>8, <1>10, <1>11, <1>12

-----------------------------------------------------------------------------
(* The steps of the workers                                                 *)

(* A worker inside a task of the call: the call is on.                      *)
LEMMA WithinTheCall ==
  ASSUME BroadcastInv, NEW w \in AllWorkers, ~InHand(w, NoEvent)
  PROVE  /\ task[w].event \in Events /\ InHand(w, task[w].event)
         /\ task[w].event \in ToSet(taskEvents)
         /\ w \in Workers(created) /\ PriorityIndex(w) \in covered
         /\ ~InQueue(task[w].event)
         /\ \A v \in AllWorkers : InHand(v, task[w].event) => v = w
         /\ covered # {} /\ caller \in {"make", "wait", "release", "join"}
         /\ myEvent \in EventNumbers
<1> USE DEF BroadcastInv
<1>1. task[w].event \in Events /\ InHand(w, task[w].event)
  BY DEF InHand, CallShapes, QueuedTasks, Events
<1>2. /\ task[w].event \in ToSet(taskEvents)
      /\ w \in Workers(created) /\ PriorityIndex(w) \in covered
  BY <1>1 DEF TasksInPlace
<1>3. ~InQueue(task[w].event) /\ \A v \in AllWorkers : InHand(v, task[w].event) => v = w
  BY <1>1 DEF OneTaskEach
<1>4. covered # {} /\ caller \in {"make", "wait", "release", "join"}
  BY <1>1, <1>2 DEF NoneLeftInTheEnd, NoneLeft, CallShapes, CallStages
<1>5. myEvent \in EventNumbers
  BY <1>4 DEF StagesInOrder, CallShapes
<1> QED BY <1>1, <1>2, <1>3, <1>4, <1>5

LEMMA CountDownKeeps ==
  ASSUME BroadcastInv, NEW w \in AllWorkers, CountDown(w)
  PROVE  BroadcastInv'
<1> USE DEF BroadcastInv
<1> DEFINE e == task[w].event
<1>1. /\ UNCHANGED <<created, enabled, incoming, task, made, signalled, pool, caller, todo,
                     covered, taskEvents, myEvent, timedOut>>
      /\ pc[w] = "call" /\ e # NoEvent
      /\ ran' = [ran EXCEPT ![w] = @ + 1] /\ counter' = counter - 1
      /\ pc' = [pc EXCEPT ![w] = AfterCount(counter - 1)]
  BY DEF CountDown, Goto, settings, eventVars, callVars
<1>2. /\ counter \in Int /\ ran \in [AllWorkers -> Nat] /\ pc \in [AllWorkers -> WorkStages]
      /\ task \in [AllWorkers -> QueuedTasks] /\ timedOut \in BOOLEAN
  BY DEF CallShapes
<1>3. ~InHand(w, NoEvent)
  BY <1>1 DEF InHand
<1>4. /\ pc'[w] = AfterCount(counter - 1) /\ pc'[w] \in {"wait", "trigger"}
      /\ \A v \in AllWorkers \ {w} : pc'[v] = pc[v] /\ ran'[v] = ran[v]
      /\ ran'[w] = ran[w] + 1
      /\ pc' \in [AllWorkers -> WorkStages] /\ ran' \in [AllWorkers -> Nat]
  BY <1>1, <1>2 DEF AfterCount, WorkStages
<1>5. OneTaskEach' /\ TasksInPlace' /\ QueuesServed'
  BY <1>1, Placed
<1>6. HandsFull'
  BY <1>1, <1>3, <1>4, Placed DEF HandsFull
<1>7. CallShapes'
  <2>1. counter' \in Int
    BY <1>1, <1>2
  <2> QED BY <1>1, <1>4, <2>1 DEF CallShapes, EventNumbers
<1>8. EventsInPlace'
  BY <1>1 DEF EventsInPlace
<1>9. StagesInOrder'
  BY <1>1, <1>3, WithinTheCall DEF StagesInOrder
<1>10. NoneLeftInTheEnd'
  BY <1>1, <1>3, WithinTheCall DEF NoneLeftInTheEnd
<1>11. CallsCounted'
  <2> SUFFICES ASSUME Early' PROVE CallsCounted'
    BY DEF CallsCounted
  <2>1. Early
    BY <1>1 DEF Early
  <2>2. e \in Uncalled
    BY <1>1, <1>3, WithinTheCall DEF Uncalled
  <2>3. Uncalled' = Uncalled \ {e}
    <3>1. \A v \in AllWorkers, x \in ToSet(taskEvents) :
            pc'[v] = "call" /\ InHand(v, x)' <=> pc[v] = "call" /\ InHand(v, x) /\ v # w
      BY <1>1, <1>4, Placed
    <3>2. \A v \in AllWorkers : InHand(v, e) => v = w
      BY <1>3, WithinTheCall
    <3>3. \A x : InHand(w, x) => x = e
      BY DEF InHand
    <3>4. ~InQueue(e)
      BY <1>3, WithinTheCall
    <3> QED BY <1>1, <3>1, <3>2, <3>3, <3>4, Placed DEF Uncalled
  <2>4. /\ Cardinality(Uncalled') = Cardinality(Uncalled) - 1
        /\ Cardinality(Uncalled) \in Nat /\ Cardinality(Uncalled) # 0
        /\ Cardinality(Callers) \in Nat
    <3>1. IsFiniteSet(Uncalled) /\ Cardinality(Uncalled) \in Nat /\ Cardinality(Callers) \in Nat
      BY SmallNumbers
    <3>2. Cardinality(Uncalled) # 0
      BY <2>2, <3>1, FS_EmptySet
    <3> QED BY <2>2, <2>3, <3>1, <3>2, FS_RemoveElement
  <2>5. Len(todo) \in Nat
    BY DEF CallShapes
  <2>6. counter = Len(todo) + Cardinality(Uncalled) /\ counter # 0
    BY <2>1, <2>4, <2>5 DEF CallsCounted
  <2>7. ran[w] = 0
    BY <1>1, <2>1, <2>6 DEF CallsCounted
  <2>8. Cardinality(Callers') = Cardinality(Callers) + 1
    <3>1. Callers' = Callers \cup {w} /\ w \notin Callers
      BY <1>2, <1>4, <2>7 DEF Callers
    <3>2. IsFiniteSet(Callers)
      BY SmallNumbers
    <3> QED BY <3>1, <3>2, FS_AddElement
  <2>9. /\ counter' = Len(todo') + Cardinality(Uncalled')
        /\ counter' + Cardinality(Callers') = NumTaskThreads * Cardinality(covered')
    <3>1. counter + Cardinality(Callers) = NumTaskThreads * Cardinality(covered)
      BY <2>1 DEF CallsCounted
    <3>2. counter' + Cardinality(Callers') = counter + Cardinality(Callers)
      BY <1>1, <1>2, <2>4, <2>8
    <3> QED BY <1>1, <1>2, <2>4, <2>5, <2>6, <3>1, <3>2
  <2>10. \A v \in AllWorkers : ran'[v] # 0 =>
           /\ ran'[v] = 1 /\ v \in Workers(created') /\ PriorityIndex(v) \in covered'
           /\ pc'[v] = "wait" \/ counter' = 0
    <3>1. ASSUME NEW v \in AllWorkers \ {w}, ran'[v] # 0
          PROVE  /\ ran'[v] = 1 /\ v \in Workers(created') /\ PriorityIndex(v) \in covered'
                 /\ pc'[v] = "wait" \/ counter' = 0
      BY <1>1, <1>4, <2>1, <2>6, <3>1 DEF CallsCounted
    <3>2. /\ ran'[w] = 1 /\ w \in Workers(created') /\ PriorityIndex(w) \in covered'
          /\ pc'[w] = "wait" \/ counter' = 0
      BY <1>1, <1>3, <1>4, <2>7, WithinTheCall DEF AfterCount
    <3> QED BY <3>1, <3>2
  <2>11. \A v \in AllWorkers : pc'[v] = "trigger" => counter' = 0
    <3>1. \A v \in AllWorkers \ {w} : pc'[v] # "trigger"
      BY <1>4, <2>1, <2>6 DEF CallsCounted
    <3> QED BY <1>1, <1>4, <3>1 DEF AfterCount
  <2>12. /\ signalled' \cap ToSet(taskEvents') = {}
         /\ myEvent' \notin signalled'
         /\ ~(caller' = "release" /\ ~timedOut')
    BY <1>1, <2>1, <2>6 DEF CallsCounted
  <2> QED BY <2>9, <2>10, <2>11, <2>12 DEF CallsCounted
<1> QED BY <1>5, <1>6, <1>7, <1>8, <1>9, <1>10, <1>11

LEMMA SignalKeeps ==
  ASSUME BroadcastInv, NEW w \in AllWorkers,
         WaitForRelease(w) \/ TriggerCaller(w)
  PROVE  BroadcastInv'
<1> USE DEF BroadcastInv
<1>1. /\ UNCHANGED <<created, enabled, incoming, task, made, pool, caller, todo,
                     covered, taskEvents, myEvent, timedOut, counter, ran>>
      /\ pc[w] \in {"wait", "trigger"} /\ pc' = [pc EXCEPT ![w] = "complete"]
      /\ signalled' \subseteq signalled \cup {myEvent}
      /\ pc[w] = "wait" => task[w].event \in signalled /\ signalled' \subseteq signalled
  <2>1. CASE WaitForRelease(w)
    BY <2>1 DEF WaitForRelease, Goto, settings, callVars
  <2>2. CASE TriggerCaller(w)
    BY <2>2 DEF TriggerCaller, Goto, settings, callVars
  <2> QED BY <2>1, <2>2
<1>2. pc \in [AllWorkers -> WorkStages]
  BY DEF CallShapes
<1>3. ~InHand(w, NoEvent)
  BY <1>1 DEF HandsFull
<1>4. /\ pc'[w] = "complete" /\ pc' \in [AllWorkers -> WorkStages]
      /\ \A v \in AllWorkers \ {w} : pc'[v] = pc[v]
  BY <1>1, <1>2 DEF WorkStages
<1>5. OneTaskEach' /\ TasksInPlace' /\ QueuesServed'
  BY <1>1, Placed
<1>6. HandsFull'
  BY <1>1, <1>4, Placed DEF HandsFull
<1>7. CallShapes'
  BY <1>1, <1>3, <1>4, WithinTheCall DEF CallShapes, EventNumbers
<1>8. EventsInPlace'
  BY <1>1 DEF EventsInPlace
<1>9. StagesInOrder'
  BY <1>1 DEF StagesInOrder
<1>10. NoneLeftInTheEnd'
  BY <1>1, Placed DEF NoneLeftInTheEnd
<1>11. CallsCounted'
  <2> SUFFICES ASSUME Early' PROVE CallsCounted'
    BY DEF CallsCounted
  <2>1. Early
    BY <1>1 DEF Early
  <2>2. task[w].event \notin signalled
    BY <1>3, <2>1, WithinTheCall DEF CallsCounted
  <2>3. pc[w] = "trigger" /\ counter = 0
    BY <1>1, <2>1, <2>2 DEF CallsCounted
  <2>4. Uncalled' = Uncalled
    <3>1. \A v \in AllWorkers : pc'[v] = "call" <=> pc[v] = "call"
      BY <1>4, <2>3
    <3> QED BY <1>1, <3>1, Placed DEF Uncalled
  <2>5. Callers' = Callers
    BY <1>1 DEF Callers
  <2>6. signalled' \cap ToSet(taskEvents) = {}
    BY <1>1, <2>1 DEF CallsCounted, EventsInPlace
  <2> QED BY <1>1, <1>4, <2>1, <2>3, <2>4, <2>5, <2>6 DEF CallsCounted
<1> QED BY <1>5, <1>6, <1>7, <1>8, <1>9, <1>10, <1>11

LEMMA CompleteKeeps ==
  ASSUME BroadcastInv, NEW w \in AllWorkers, Complete(w)
  PROVE  BroadcastInv'
<1> USE DEF BroadcastInv
<1>1. /\ UNCHANGED <<created, enabled, incoming, made, signalled, pool, caller, todo,
                     covered, taskEvents, myEvent, timedOut, counter, ran>>
      /\ pc[w] = "complete" \/ (pc[w] = "call" /\ task[w].event = NoEvent)
      /\ task' = [task EXCEPT ![w] = NoTask]
      /\ pc' = [pc EXCEPT ![w] = "idle"]
  BY DEF Complete, Goto, settings, eventVars, callVars
<1>2. pc \in [AllWorkers -> WorkStages] /\ task \in [AllWorkers -> QueuedTasks]
  BY DEF CallShapes
<1>3. /\ pc'[w] = "idle" /\ pc' \in [AllWorkers -> WorkStages]
      /\ \A v \in AllWorkers \ {w} : pc'[v] = pc[v] /\ task'[v] = task[v]
  BY <1>1, <1>2 DEF WorkStages
<1>4. /\ task' \in [AllWorkers -> QueuedTasks]
      /\ \A p, q, k, e : QueuedAt(p, q, k, e)' = QueuedAt(p, q, k, e)
      /\ \A e : InQueue(e)' = InQueue(e)
      /\ \A v \in AllWorkers, e \in Events : InHand(v, e)' <=> v # w /\ InHand(v, e)
      /\ InHand(w, NoEvent)'
  BY <1>1, <1>2, Dropped
<1>5. OneTaskEach'
  BY <1>4 DEF OneTaskEach
<1>6. TasksInPlace'
  BY <1>1, <1>4 DEF TasksInPlace
<1>7. QueuesServed'
  BY <1>1 DEF QueuesServed, Served
<1>8. HandsFull'
  <2>1. \A v \in AllWorkers \ {w} : InHand(v, NoEvent)' = InHand(v, NoEvent)
    BY <1>3 DEF InHand
  <2> QED BY <1>3, <1>4, <2>1 DEF HandsFull
<1>9. CallShapes'
  BY <1>1, <1>3, <1>4 DEF CallShapes, EventNumbers
<1>10. EventsInPlace' /\ StagesInOrder'
  BY <1>1 DEF EventsInPlace, StagesInOrder
<1>11. NoneLeftInTheEnd'
  BY <1>1, <1>4 DEF NoneLeftInTheEnd, NoneLeft
<1>12. CallsCounted'
  <2> SUFFICES ASSUME Early' PROVE CallsCounted'
    BY DEF CallsCounted
  <2>1. Early
    BY <1>1 DEF Early
  <2>2. Uncalled' = Uncalled
    <3>1. ToSet(taskEvents) \subseteq Events
      BY SmallNumbers
    <3>2. \A v \in AllWorkers, x \in ToSet(taskEvents) :
            pc'[v] = "call" /\ InHand(v, x)' <=> pc[v] = "call" /\ InHand(v, x)
      BY <1>1, <1>3, <1>4, <3>1 DEF InHand, Events
    <3> QED BY <1>1, <1>4, <3>2 DEF Uncalled
  <2>3. Callers' = Callers
    BY <1>1 DEF Callers
  <2>4. \A v \in AllWorkers : ran[v] # 0 =>
          /\ ran[v] = 1 /\ v \in Workers(created) /\ PriorityIndex(v) \in covered
          /\ pc'[v] = "wait" \/ counter = 0
    BY <1>1, <1>3, <2>1 DEF CallsCounted
  <2>5. \A v \in AllWorkers : pc'[v] = "trigger" => counter = 0
    BY <1>3, <2>1 DEF CallsCounted
  <2> QED BY <1>1, <2>1, <2>2, <2>3, <2>4, <2>5 DEF CallsCounted
<1> QED BY <1>5, <1>6, <1>7, <1>8, <1>9, <1>10, <1>11, <1>12

LEMMA TakeTaskKeeps ==
  ASSUME BroadcastInv, NEW w \in AllWorkers, TakeTask(w)
  PROVE  BroadcastInv'
<1> USE DEF BroadcastInv
<1> DEFINE a == PriorityIndex(w)
<1>1. PICK b \in 0 .. 1 :
        /\ incoming[a][b] # <<>>
        /\ task' = [task EXCEPT ![w] = Head(incoming[a][b])]
        /\ incoming' = [incoming EXCEPT ![a][b] = Tail(@)]
  BY DEF TakeTask
<1>2. /\ UNCHANGED <<created, enabled, made, signalled, pool, caller, todo,
                     covered, taskEvents, myEvent, timedOut, counter, ran>>
      /\ pc[w] = "idle" /\ w \in Workers(created)
      /\ pc' = [pc EXCEPT ![w] = "call"]
  BY DEF TakeTask, Goto, settings, eventVars, callVars
<1>3. /\ pc \in [AllWorkers -> WorkStages] /\ task \in [AllWorkers -> QueuedTasks]
      /\ incoming \in [0 .. 2 -> [0 .. 1 -> Seq(QueuedTasks)]]
  BY DEF CallShapes
<1>4. a \in 0 .. 2
  <2>1. a \in {NormalThread} \cup created
    BY <1>2, WorkersOf DEF CallShapes
  <2>2. created \subseteq {HighThread, BackgroundThread}
    BY DEF CallShapes
  <2> HIDE DEF a
  <2> QED BY <2>1, <2>2 DEF NormalThread, HighThread, BackgroundThread
<1>5. incoming' = [incoming EXCEPT ![a][b] = Tail(incoming[a][b])]
  BY <1>1, <1>3, <1>4
<1> HIDE DEF a
<1>6. /\ incoming' \in [0 .. 2 -> [0 .. 1 -> Seq(QueuedTasks)]]
      /\ task' \in [AllWorkers -> QueuedTasks]
      /\ \A p \in 0 .. 2 : \A q \in 0 .. 1 : \A k \in Nat, e \in Events :
           QueuedAt(p, q, k, e)' <=>
             IF p = a /\ q = b THEN k # 0 /\ QueuedAt(p, q, k + 1, e)
                               ELSE QueuedAt(p, q, k, e)
      /\ \A e : InHand(w, e)' <=> QueuedAt(a, b, 1, e)
      /\ \A v \in AllWorkers \ {w}, e \in Events : InHand(v, e)' = InHand(v, e)
  BY <1>1, <1>3, <1>4, <1>5, Taken
<1>7. /\ pc'[w] = "call" /\ pc' \in [AllWorkers -> WorkStages]
      /\ \A v \in AllWorkers \ {w} : pc'[v] = pc[v] /\ task'[v] = task[v]
  BY <1>1, <1>2, <1>3 DEF WorkStages
<1>8. InHand(w, NoEvent) /\ \A e \in Events : ~InHand(w, e)
  BY <1>2 DEF HandsFull, InHand, Events
<1>9. \A e \in Events : InQueue(e) <=> InQueue(e)' \/ InHand(w, e)'
  <2> SUFFICES ASSUME NEW e \in Events PROVE InQueue(e) <=> InQueue(e)' \/ InHand(w, e)'
    OBVIOUS
  <2>1. ASSUME InQueue(e) PROVE InQueue(e)' \/ InHand(w, e)'
    <3>1. PICK p \in 0 .. 2, q \in 0 .. 1, k \in Nat : QueuedAt(p, q, k, e)
      BY <2>1 DEF InQueue
    <3>2. CASE p = a /\ q = b /\ k # 1
      <4>1. k - 1 \in Nat /\ k - 1 # 0 /\ (k - 1) + 1 = k
        BY <1>3, <3>1, <3>2 DEF QueuedAt
      <4>2. QueuedAt(p, q, k - 1, e)'
        BY <1>6, <3>1, <3>2, <4>1
      <4> QED BY <4>1, <4>2 DEF InQueue
    <3>3. CASE p = a /\ q = b /\ k = 1
      BY <1>6, <3>1, <3>3
    <3>4. CASE ~(p = a /\ q = b)
      BY <1>6, <3>1, <3>4 DEF InQueue
    <3> QED BY <3>2, <3>3, <3>4
  <2>2. ASSUME InQueue(e)' PROVE InQueue(e)
    <3>1. PICK p \in 0 .. 2, q \in 0 .. 1, k \in Nat : QueuedAt(p, q, k, e)'
      BY <2>2 DEF InQueue
    <3>2. k + 1 \in Nat
      OBVIOUS
    <3> QED BY <1>6, <3>1, <3>2 DEF InQueue
  <2>3. ASSUME InHand(w, e)' PROVE InQueue(e)
    BY <1>4, <1>6, <2>3 DEF InQueue
  <2> QED BY <2>1, <2>2, <2>3
<1>10. OneTaskEach'
  <2>1. ASSUME NEW e \in Events, NEW p \in 0 .. 2, NEW p2 \in 0 .. 2,
               NEW q \in 0 .. 1, NEW q2 \in 0 .. 1, NEW k \in Nat, NEW k2 \in Nat,
               QueuedAt(p, q, k, e)', QueuedAt(p2, q2, k2, e)'
        PROVE  p = p2 /\ q = q2 /\ k = k2
    <3> DEFINE j == IF p = a /\ q = b THEN k + 1 ELSE k
               j2 == IF p2 = a /\ q2 = b THEN k2 + 1 ELSE k2
    <3>0. j \in Nat /\ j2 \in Nat
      OBVIOUS
    <3>a. QueuedAt(p, q, j, e)
      BY <1>6, <2>1
    <3>b. QueuedAt(p2, q2, j2, e)
      BY <1>6, <2>1
    <3>1. QueuedAt(p, q, j, e) /\ QueuedAt(p2, q2, j2, e) /\ j \in Nat /\ j2 \in Nat
      BY <3>0, <3>a, <3>b
    <3> HIDE DEF j, j2
    <3>2. p = p2 /\ q = q2 /\ j = j2
      BY <3>1 DEF OneTaskEach
    <3> QED BY <3>2 DEF j, j2
  <2>2. ASSUME NEW e \in Events, InQueue(e)', NEW v \in AllWorkers, InHand(v, e)'
        PROVE  FALSE
    <3>1. InQueue(e)
      BY <1>9, <2>2
    <3>2. v = w
      BY <1>6, <2>2, <3>1 DEF OneTaskEach
    <3>3. QueuedAt(a, b, 1, e)
      BY <1>6, <2>2, <3>2
    <3>4. PICK p \in 0 .. 2, q \in 0 .. 1, k \in Nat : QueuedAt(p, q, k, e)'
      BY <2>2 DEF InQueue
    <3>5. CASE p = a /\ q = b
      <4>1. k # 0 /\ QueuedAt(a, b, k + 1, e) /\ k + 1 \in Nat /\ k + 1 # 1
        BY <1>6, <3>4, <3>5
      <4> QED BY <1>4, <3>3, <4>1 DEF OneTaskEach
    <3>6. CASE ~(p = a /\ q = b)
      <4>1. QueuedAt(p, q, k, e)
        BY <1>6, <3>4, <3>6
      <4> QED BY <1>4, <3>3, <3>6, <4>1 DEF OneTaskEach
    <3> QED BY <3>5, <3>6
  <2>3. ASSUME NEW e \in Events, NEW u \in AllWorkers, NEW v \in AllWorkers,
               InHand(u, e)', InHand(v, e)', u # v
        PROVE  FALSE
    <3>1. CASE u = w \/ v = w
      <4>1. InQueue(e)
        BY <1>9, <2>3, <3>1
      <4>2. \A x \in AllWorkers : ~InHand(x, e)
        BY <4>1 DEF OneTaskEach
      <4> QED BY <1>6, <2>3, <4>2
    <3>2. CASE u # w /\ v # w
      BY <1>6, <2>3, <3>2 DEF OneTaskEach
    <3> QED BY <3>1, <3>2
  <2> QED BY <2>1, <2>2, <2>3 DEF OneTaskEach
<1>11. TasksInPlace'
  <2>1. ASSUME NEW p \in 0 .. 2, NEW q \in 0 .. 1, NEW k \in Nat, NEW e \in Events,
               QueuedAt(p, q, k, e)'
        PROVE  e \in ToSet(taskEvents') /\ p \in covered'
    <3>1. k + 1 \in Nat
      OBVIOUS
    <3>2. QueuedAt(p, q, k, e) \/ QueuedAt(p, q, k + 1, e)
      BY <1>6, <2>1
    <3> QED BY <1>2, <3>1, <3>2 DEF TasksInPlace
  <2>2. ASSUME NEW v \in AllWorkers, NEW e \in Events, InHand(v, e)'
        PROVE  e \in ToSet(taskEvents') /\ v \in Workers(created') /\ PriorityIndex(v) \in covered'
    <3>1. CASE v = w
      <4>1. QueuedAt(a, b, 1, e)
        BY <1>6, <2>2, <3>1
      <4>2. e \in ToSet(taskEvents) /\ a \in covered
        BY <1>4, <4>1 DEF TasksInPlace
      <4> QED BY <1>2, <3>1, <4>2 DEF a
    <3>2. CASE v # w
      BY <1>2, <1>6, <2>2, <3>2 DEF TasksInPlace
    <3> QED BY <3>1, <3>2
  <2> QED BY <2>1, <2>2 DEF TasksInPlace
<1>12. QueuesServed'
  <2>1. ASSUME NEW p \in 0 .. 2, NEW q \in 0 .. 1, incoming'[p][q] # <<>>
        PROVE  incoming[p][q] # <<>>
    BY <1>1, <1>3, <1>4, <1>5, <2>1
  <2> QED BY <1>2, <2>1 DEF QueuesServed, Served
<1>13. HandsFull'
  <2>1. \A v \in AllWorkers \ {w} : InHand(v, NoEvent)' = InHand(v, NoEvent)
    BY <1>7 DEF InHand
  <2> QED BY <1>7, <2>1 DEF HandsFull
<1>14. CallShapes'
  BY <1>2, <1>6, <1>7 DEF CallShapes, EventNumbers
<1>15. EventsInPlace' /\ StagesInOrder'
  BY <1>2 DEF EventsInPlace, StagesInOrder
<1>16. NoneLeftInTheEnd'
  BY <1>2, <1>6, <1>9 DEF NoneLeftInTheEnd, NoneLeft
<1>17. CallsCounted'
  <2> SUFFICES ASSUME Early' PROVE CallsCounted'
    BY DEF CallsCounted
  <2>1. Early
    BY <1>2 DEF Early
  <2>2. Uncalled' = Uncalled
    <3>1. ToSet(taskEvents) \subseteq Events
      BY SmallNumbers
    <3>2. ASSUME NEW x \in ToSet(taskEvents)
          PROVE  InQueue(x)' \/ (\E v \in AllWorkers : pc'[v] = "call" /\ InHand(v, x)') <=>
                 InQueue(x) \/ (\E v \in AllWorkers : pc[v] = "call" /\ InHand(v, x))
      <4>1. \A v \in AllWorkers \ {w} :
              pc'[v] = "call" /\ InHand(v, x)' <=> pc[v] = "call" /\ InHand(v, x)
        BY <1>6, <1>7, <3>1
      <4>2. InQueue(x) <=> InQueue(x)' \/ (pc'[w] = "call" /\ InHand(w, x)')
        BY <1>7, <1>9, <3>1
      <4>3. ~(pc[w] = "call" /\ InHand(w, x))
        BY <1>2
      <4> QED BY <4>1, <4>2, <4>3
    <3> QED BY <1>2, <3>2 DEF Uncalled
  <2>3. Callers' = Callers
    BY <1>2 DEF Callers
  <2>4. \A v \in AllWorkers : ran[v] # 0 =>
          /\ ran[v] = 1 /\ v \in Workers(created) /\ PriorityIndex(v) \in covered
          /\ pc'[v] = "wait" \/ counter = 0
    BY <1>2, <1>7, <2>1 DEF CallsCounted
  <2>5. \A v \in AllWorkers : pc'[v] = "trigger" => counter = 0
    BY <1>7, <2>1 DEF CallsCounted
  <2> QED BY <1>2, <2>1, <2>2, <2>3, <2>4, <2>5 DEF CallsCounted
<1> QED BY <1>10, <1>11, <1>12, <1>13, <1>14, <1>15, <1>16, <1>17

-----------------------------------------------------------------------------
(* The steps that queue a task                                              *)

(* An event that is taken from the pool, or made, is nobody else's.         *)
LEMMA TakesAnEvent ==
  ASSUME CallShapes, EventsInPlace, NEW e \in 1 .. made + 1, TakeEvent(e)
  PROVE  /\ made' \in Nat /\ EventNumbers \subseteq EventNumbers' /\ e \in EventNumbers'
         /\ pool' \in Seq(EventNumbers') /\ IsInjective(pool')
         /\ ToSet(pool') \subseteq ToSet(pool) /\ e \notin ToSet(pool')
         /\ e \notin ToSet(taskEvents) /\ e # myEvent /\ e \notin signalled
<1>1. made \in Nat /\ pool \in Seq(EventNumbers) /\ taskEvents \in Seq(EventNumbers)
  BY DEF CallShapes
<1>2. CASE pool # <<>> /\ e = Last(pool) /\ pool' = Front(pool) /\ UNCHANGED made
  <2> DEFINE n == Len(pool)
  <2>1. /\ n \in Nat \ {0} /\ DOMAIN pool = 1 .. n /\ e = pool[n] /\ n \in 1 .. n
        /\ DOMAIN pool' = 1 .. n - 1 /\ \A k \in 1 .. n - 1 : pool'[k] = pool[k]
        /\ pool' \in Seq(EventNumbers)
    BY <1>1, <1>2 DEF Front, Last
  <2>2. e \in EventNumbers /\ e \in ToSet(pool)
    BY <1>1, <2>1 DEF ToSet
  <2>3. \A j, k \in 1 .. n : pool[j] = pool[k] => j = k
    BY <2>1 DEF EventsInPlace, IsInjective
  <2> HIDE DEF n
  <2>4. \A k \in 1 .. n - 1 : k \in 1 .. n /\ k # n
    BY <2>1
  <2>5. IsInjective(pool')
    BY <2>1, <2>3, <2>4 DEF IsInjective
  <2>6. ToSet(pool') \subseteq ToSet(pool) /\ e \notin ToSet(pool')
    BY <2>1, <2>3, <2>4 DEF ToSet
  <2>7. e \notin ToSet(taskEvents) /\ e # myEvent /\ e \notin signalled
    BY <2>2 DEF EventsInPlace
  <2> QED BY <1>1, <1>2, <2>1, <2>2, <2>5, <2>6, <2>7 DEF EventNumbers
<1>3. CASE pool = <<>> /\ e = made + 1 /\ made' = made + 1 /\ UNCHANGED pool
  <2>1. e \notin EventNumbers /\ EventNumbers \subseteq EventNumbers' /\ e \in EventNumbers'
        /\ made' \in Nat /\ e # NoEvent
    BY <1>1, <1>3 DEF EventNumbers, NoEvent
  <2>2. e \notin ToSet(taskEvents) /\ e # myEvent /\ e \notin signalled
    BY <1>1, <2>1, SmallNumbers DEF CallShapes, NoEvent
  <2>3. pool' \in Seq(EventNumbers') /\ ToSet(pool') = {} /\ IsInjective(pool')
    BY <1>3 DEF ToSet, IsInjective
  <2> QED BY <2>1, <2>2, <2>3
<1> QED BY <1>2, <1>3 DEF TakeEvent

LEMMA QueueOtherKeeps ==
  ASSUME BroadcastInv, QueueOther
  PROVE  BroadcastInv'
<1> USE DEF BroadcastInv
<1>1. UNCHANGED <<created, enabled, pc, task, made, signalled, pool, caller, todo,
                  covered, taskEvents, myEvent, timedOut, counter, ran>>
  BY DEF QueueOther, settings, workerVars, eventVars, callVars
<1>2. PICK to \in OtherTasks : QueueTask([to |-> to, event |-> NoEvent])
  BY DEF QueueOther
<1>3. PICK p \in 0 .. 2, q \in 0 .. 1 : to = SetPriorities(AnyThread, p, q)
  BY BroadcastAssumption DEF AnyThreadTasks
<1>4. QueueTask([to |-> SetPriorities(AnyThread, p, q), event |-> NoEvent]) /\ NoEvent \in Nat
  BY <1>2, <1>3 DEF NoEvent
<1>5. incoming' \in [0 .. 2 -> [0 .. 1 -> Seq(QueuedTasks)]]
  BY <1>4, TaskQueued
<1>6. PICK a \in 0 .. 2, b \in 0 .. 1, n \in Nat :
        Served(a) /\ QueuedBehind(a, b, n, NoEvent)
  BY <1>4, TaskQueued
<1>9. /\ \A u \in 0 .. 2 : \A v \in 0 .. 1 : \A k \in Nat, e \in Events :
           QueuedAt(u, v, k, e)' <=> QueuedAt(u, v, k, e)
      /\ \A e \in Events : InQueue(e)' <=> InQueue(e)
  BY <1>6 DEF QueuedBehind, Events
<1>10. \A w, e : InHand(w, e)' = InHand(w, e)
  BY <1>1 DEF InHand
<1>11. OneTaskEach'
  BY <1>9, <1>10 DEF OneTaskEach
<1>12. TasksInPlace'
  BY <1>1, <1>9, <1>10 DEF TasksInPlace
<1>13. QueuesServed'
  <2>1. \A u \in 0 .. 2 : \A v \in 0 .. 1 :
          incoming'[u][v] # <<>> => incoming[u][v] # <<>> \/ u = a
    BY <1>6 DEF QueuedBehind
  <2> QED BY <1>1, <1>6, <2>1 DEF QueuesServed, Served
<1>14. HandsFull'
  BY <1>1, <1>10 DEF HandsFull
<1>15. CallShapes'
  BY <1>1, <1>5 DEF CallShapes, EventNumbers
<1>16. EventsInPlace' /\ StagesInOrder'
  BY <1>1 DEF EventsInPlace, StagesInOrder
<1>17. NoneLeftInTheEnd'
  BY <1>1, <1>9, <1>10 DEF NoneLeftInTheEnd, NoneLeft
<1>18. CallsCounted'
  <2>1. ToSet(taskEvents) \subseteq Events
    BY SmallNumbers
  <2>2. Uncalled' = Uncalled
    BY <1>1, <1>9, <1>10, <2>1 DEF Uncalled
  <2>3. Callers' = Callers
    BY <1>1 DEF Callers
  <2> QED BY <1>1, <2>2, <2>3 DEF CallsCounted, Early
<1> QED BY <1>11, <1>12, <1>13, <1>14, <1>15, <1>16, <1>17, <1>18

LEMMA MakeTaskKeeps ==
  ASSUME BroadcastInv, MakeTask
  PROVE  BroadcastInv'
<1> USE DEF BroadcastInv
<1>1. /\ UNCHANGED <<created, enabled, pc, task, signalled, caller,
                     covered, myEvent, timedOut, counter, ran>>
      /\ caller = "make" /\ todo # <<>> /\ todo' = Tail(todo)
  BY DEF MakeTask, settings, workerVars
<1>2. PICK e \in 1 .. made + 1 :
        /\ TakeEvent(e) /\ taskEvents' = Append(taskEvents, e)
        /\ QueueTask([to |-> Head(todo), event |-> e])
  BY DEF MakeTask
<1>3. /\ made' \in Nat /\ EventNumbers \subseteq EventNumbers' /\ e \in EventNumbers'
      /\ pool' \in Seq(EventNumbers') /\ IsInjective(pool')
      /\ ToSet(pool') \subseteq ToSet(pool) /\ e \notin ToSet(pool')
      /\ e \notin ToSet(taskEvents) /\ e # myEvent /\ e \notin signalled
  BY <1>2, TakesAnEvent
<1>4. e \in Events
  BY <1>3 DEF EventNumbers, Events, NoEvent
<1>5. /\ todo \in Seq(Int) /\ Len(todo) \in Nat \ {0} /\ todo' \in Seq(Int)
      /\ Len(todo') = Len(todo) - 1 /\ Head(todo) = todo[1]
      /\ \A k \in DOMAIN todo' : k + 1 \in DOMAIN todo /\ todo'[k] = todo[k + 1]
      /\ 1 \in DOMAIN todo
  <2>1. todo \in Seq(Int)
    BY DEF CallShapes
  <2> QED BY <1>1, <2>1
<1>6. PICK p \in covered : Head(todo) = SetPriorities(AnyThread, p, HighTask)
  BY <1>5 DEF StagesInOrder
<1>7. p \in 0 .. 2 /\ HighTask \in 0 .. 1 /\ covered # {} /\ NormalThread \in covered
  BY <1>6 DEF CallShapes, HighTask, StagesInOrder
<1>8. QueueTask([to |-> SetPriorities(AnyThread, p, HighTask), event |-> e]) /\ e \in Nat
  BY <1>2, <1>4, <1>6 DEF Events
<1>9. incoming' \in [0 .. 2 -> [0 .. 1 -> Seq(QueuedTasks)]]
  BY <1>7, <1>8, TaskQueued
<1>10. PICK a \in 0 .. 2, b \in 0 .. 1, n \in Nat :
         Served(a) /\ a \in {p, NormalThread} /\ QueuedBehind(a, b, n, e)
  BY <1>7, <1>8, TaskQueued
<1>11. a \in covered
  BY <1>7, <1>10
<1>13. /\ \A u \in 0 .. 2 : \A v \in 0 .. 1 : \A k \in Nat : \A x \in Events :
            QueuedAt(u, v, k, x)' <=>
              QueuedAt(u, v, k, x) \/ (u = a /\ v = b /\ k = n /\ x = e)
       /\ \A x \in Events : InQueue(x)' <=> InQueue(x) \/ x = e
  BY <1>10 DEF QueuedBehind
<1>14. \A w, x : InHand(w, x)' = InHand(w, x)
  BY <1>1 DEF InHand
<1>15. ~InQueue(e) /\ \A w \in AllWorkers : ~InHand(w, e)
  BY <1>3, <1>4 DEF TasksInPlace, InQueue
<1>16. /\ taskEvents' \in Seq(EventNumbers')
       /\ ToSet(taskEvents') = ToSet(taskEvents) \cup {e} /\ IsInjective(taskEvents')
  <2> DEFINE s == taskEvents
             m == Len(s)
  <2>a. s \in Seq(EventNumbers)
    BY DEF CallShapes
  <2>b. m \in Nat /\ s \in [1 .. m -> EventNumbers']
    <3>1. s \in [1 .. m -> EventNumbers]
      BY <2>a
    <3>2. \A k \in 1 .. m : s[k] \in EventNumbers'
      BY <1>3, <3>1
    <3> QED BY <2>a, <3>1, <3>2
  <2>1. s \in Seq(EventNumbers')
    BY <2>b
  <2>2. /\ m \in Nat /\ DOMAIN s = 1 .. m /\ DOMAIN Append(s, e) = 1 .. m + 1
        /\ \A k \in 1 .. m : Append(s, e)[k] = s[k]
        /\ Append(s, e)[m + 1] = e
        /\ Append(s, e) \in Seq(EventNumbers')
    BY <1>3, <2>1
  <2>3. \A k \in 1 .. m : s[k] # e
    BY <1>3, <2>2 DEF ToSet
  <2>4. \A j, k \in 1 .. m : s[j] = s[k] => j = k
    BY <2>2 DEF EventsInPlace, IsInjective
  <2> HIDE DEF m
  <2>5. /\ \A k \in 1 .. m + 1 : k \in 1 .. m \/ k = m + 1
        /\ m + 1 \in 1 .. m + 1 /\ \A k \in 1 .. m : k \in 1 .. m + 1
    BY <2>2
  <2>6. IsInjective(Append(s, e))
    BY <2>2, <2>3, <2>4, <2>5 DEF IsInjective
  <2>7. ToSet(Append(s, e)) = ToSet(s) \cup {e}
    BY <2>2, <2>5 DEF ToSet
  <2> QED BY <1>2, <2>2, <2>6, <2>7
<1>17. OneTaskEach'
  <2>1. ASSUME NEW x \in Events, NEW u \in 0 .. 2, NEW u2 \in 0 .. 2,
               NEW v \in 0 .. 1, NEW v2 \in 0 .. 1, NEW k \in Nat, NEW k2 \in Nat,
               QueuedAt(u, v, k, x)', QueuedAt(u2, v2, k2, x)'
        PROVE  u = u2 /\ v = v2 /\ k = k2
    <3>1. CASE x = e
      BY <1>13, <1>15, <2>1, <3>1 DEF InQueue
    <3>2. CASE x # e
      <4>1. QueuedAt(u, v, k, x) /\ QueuedAt(u2, v2, k2, x)
        BY <1>13, <2>1, <3>2
      <4> QED BY <4>1 DEF OneTaskEach
    <3> QED BY <3>1, <3>2
  <2>2. \A x \in Events : InQueue(x)' => \A w \in AllWorkers : ~InHand(w, x)'
    BY <1>13, <1>14, <1>15 DEF OneTaskEach
  <2>3. \A x \in Events : \A u, w \in AllWorkers : InHand(u, x)' /\ InHand(w, x)' => u = w
    BY <1>14 DEF OneTaskEach
  <2> QED BY <2>1, <2>2, <2>3 DEF OneTaskEach
<1>18. TasksInPlace'
  BY <1>1, <1>11, <1>13, <1>14, <1>16 DEF TasksInPlace
<1>19. QueuesServed'
  <2>1. \A u \in 0 .. 2 : \A v \in 0 .. 1 :
          incoming'[u][v] # <<>> => incoming[u][v] # <<>> \/ u = a
    BY <1>10 DEF QueuedBehind
  <2> QED BY <1>1, <1>10, <2>1 DEF QueuesServed, Served
<1>20. HandsFull'
  BY <1>1, <1>14 DEF HandsFull
<1>21. CallShapes'
  BY <1>1, <1>3, <1>5, <1>9, <1>16 DEF CallShapes
<1>22. EventsInPlace'
  BY <1>1, <1>3, <1>16 DEF EventsInPlace
<1>23. StagesInOrder'
  <2>1. \A k \in DOMAIN todo' : \E u \in covered' : todo'[k] = SetPriorities(AnyThread, u, HighTask)
    BY <1>1, <1>5 DEF StagesInOrder
  <2> QED BY <1>1, <1>7, <2>1 DEF StagesInOrder
<1>24. NoneLeftInTheEnd'
  BY <1>1 DEF NoneLeftInTheEnd
<1>25. CallsCounted'
  <2>1. Early
    BY <1>1, <1>7 DEF Early
  <2>2. ToSet(taskEvents) \subseteq Events
    BY SmallNumbers
  <2>3. Uncalled' = Uncalled \cup {e} /\ e \notin Uncalled
    BY <1>1, <1>3, <1>4, <1>13, <1>14, <1>15, <1>16, <2>2 DEF Uncalled
  <2>4. IsFiniteSet(Uncalled) /\ Cardinality(Uncalled) \in Nat
    BY SmallNumbers
  <2>5. Cardinality(Uncalled') = Cardinality(Uncalled) + 1
    BY <2>3, <2>4, FS_AddElement
  <2>6. Callers' = Callers
    BY <1>1 DEF Callers
  <2>7. counter' = Len(todo') + Cardinality(Uncalled')
    BY <1>1, <1>5, <2>1, <2>4, <2>5 DEF CallsCounted
  <2>8. signalled' \cap ToSet(taskEvents') = {}
    BY <1>1, <1>3, <1>16, <2>1 DEF CallsCounted
  <2> QED BY <1>1, <2>1, <2>6, <2>7, <2>8 DEF CallsCounted
<1> QED BY <1>17, <1>18, <1>19, <1>20, <1>21, <1>22, <1>23, <1>24, <1>25

-----------------------------------------------------------------------------
(* The beginning of a broadcast                                             *)

LEMMA SizesOfSets ==
  ASSUME NEW P \in SUBSET (0 .. 2), NormalThread \in P, NumTaskThreads \in Nat
  PROVE  (IF 0 \in P THEN NumTaskThreads ELSE 0) + (IF 1 \in P THEN NumTaskThreads ELSE 0)
           + (IF 2 \in P THEN NumTaskThreads ELSE 0) = NumTaskThreads * Cardinality(P)
<1>0. 0 \in P
  BY DEF NormalThread
<1>1. P = {0} \/ P = {0, 1} \/ P = {0, 2} \/ P = {0, 1, 2}
  <2>1. \A x \in P : x = 0 \/ x = 1 \/ x = 2
    OBVIOUS
  <2> QED BY <1>0, <2>1
<1>2. /\ Cardinality({0}) = 1
      /\ Cardinality({0, 1}) = 2 /\ Cardinality({0, 2}) = 2
      /\ Cardinality({0, 1, 2}) = 3
  <2>1. Cardinality({0}) = 1 /\ IsFiniteSet({0})
    BY FS_Singleton
  <2>2. /\ Cardinality({0} \cup {1}) = 2 /\ IsFiniteSet({0} \cup {1})
        /\ Cardinality({0} \cup {2}) = 2
    BY <2>1, FS_AddElement
  <2>3. Cardinality(({0} \cup {1}) \cup {2}) = 3
    BY <2>2, FS_AddElement
  <2>4. {0} \cup {1} = {0, 1} /\ {0} \cup {2} = {0, 2} /\ ({0} \cup {1}) \cup {2} = {0, 1, 2}
    OBVIOUS
  <2> QED BY <2>1, <2>2, <2>3, <2>4
<1>3. CASE P = {0}
  BY <1>2, <1>3
<1>4. CASE P = {0, 1}
  BY <1>2, <1>4
<1>5. CASE P = {0, 2}
  BY <1>2, <1>5
<1>6. CASE P = {0, 1, 2}
  BY <1>2, <1>6
<1> QED BY <1>1, <1>3, <1>4, <1>5, <1>6

LEMMA Makes ==
  ASSUME NEW P \in SUBSET (0 .. 2), NormalThread \in P
  PROVE  /\ TasksToMake(P) \in Seq(Int)
         /\ Len(TasksToMake(P)) = NumTaskThreads * Cardinality(P)
         /\ \A k \in DOMAIN TasksToMake(P) :
              \E p \in P : TasksToMake(P)[k] = SetPriorities(AnyThread, p, HighTask)
<1> DEFINE s(p) == TasksOf(p, P)
           n(p) == IF p \in P THEN NumTaskThreads ELSE 0
<1>1. NumTaskThreads \in Nat
  BY BroadcastAssumption
<1>2. ASSUME NEW p \in 0 .. 2
      PROVE  /\ s(p) \in Seq(Int) /\ Len(s(p)) = n(p) /\ n(p) \in Nat
             /\ \A k \in 1 .. n(p) : p \in P /\ s(p)[k] = SetPriorities(AnyThread, p, HighTask)
  <2>1. n(p) \in Nat /\ (p \in P \/ n(p) = 0)
    BY <1>1
  <2>2. SetPriorities(AnyThread, p, HighTask) \in Int
    BY DEF SetPriorities, AnyThread, HighTask
  <2>3. s(p) = [k \in 1 .. n(p) |-> SetPriorities(AnyThread, p, HighTask)]
    BY DEF TasksOf
  <2> HIDE DEF n, s
  <2> QED BY <2>1, <2>2, <2>3
<1>3. /\ 0 \in 0 .. 2 /\ 1 \in 0 .. 2 /\ 2 \in 0 .. 2
      /\ NormalThread = 0 /\ HighThread = 1 /\ BackgroundThread = 2
  BY DEF NormalThread, HighThread, BackgroundThread
<1>4. TasksToMake(P) = s(0) \o s(1) \o s(2)
  BY <1>3 DEF TasksToMake
<1> HIDE DEF s, n
<1> DEFINE c == s(0) \o s(1) \o s(2)
<1>5. /\ c \in Seq(Int) /\ Len(c) = n(0) + n(1) + n(2)
      /\ \A k \in 1 .. Len(c) :
           \E p \in 0 .. 2 : \E j \in 1 .. n(p) : c[k] = s(p)[j]
  <2>1. /\ s(0) \in Seq(Int) /\ s(1) \in Seq(Int) /\ s(2) \in Seq(Int)
        /\ Len(s(0)) = n(0) /\ Len(s(1)) = n(1) /\ Len(s(2)) = n(2)
        /\ n(0) \in Nat /\ n(1) \in Nat /\ n(2) \in Nat
    BY <1>2, <1>3
  <2>a. /\ \A x, y \in Seq(Int) : x \o y \in Seq(Int) /\ Len(x \o y) = Len(x) + Len(y)
        /\ \A x, y \in Seq(Int) : \A k \in 1 .. Len(x) + Len(y) :
             (x \o y)[k] = IF k <= Len(x) THEN x[k] ELSE y[k - Len(x)]
    OBVIOUS
  <2> DEFINE d == s(0) \o s(1)
  <2>d. /\ d \in Seq(Int) /\ Len(d) = n(0) + n(1)
        /\ \A k \in 1 .. n(0) + n(1) : d[k] = IF k <= n(0) THEN s(0)[k] ELSE s(1)[k - n(0)]
    <3>1. d \in Seq(Int) /\ Len(d) = n(0) + n(1)
      <4>1. s(0) \o s(1) \in Seq(Int) /\ Len(s(0) \o s(1)) = Len(s(0)) + Len(s(1))
        BY <2>1, <2>a
      <4> QED BY <2>1, <4>1
    <3>2. \A k \in 1 .. Len(s(0)) + Len(s(1)) :
            d[k] = IF k <= Len(s(0)) THEN s(0)[k] ELSE s(1)[k - Len(s(0))]
      BY <2>1, <2>a
    <3> QED BY <2>1, <3>1, <3>2
  <2> HIDE DEF d
  <2>b. /\ d \o s(2) \in Seq(Int) /\ Len(d \o s(2)) = n(0) + n(1) + n(2)
        /\ \A k \in 1 .. (n(0) + n(1)) + n(2) :
             (d \o s(2))[k] = IF k <= n(0) + n(1) THEN d[k] ELSE s(2)[k - (n(0) + n(1))]
    <3>1. d \o s(2) \in Seq(Int) /\ Len(d \o s(2)) = n(0) + n(1) + n(2)
      <4>1. d \in Seq(Int) /\ s(2) \in Seq(Int)
        BY <2>1, <2>d
      <4>2. d \o s(2) \in Seq(Int) /\ Len(d \o s(2)) = Len(d) + Len(s(2))
        BY <4>1, <2>a
      <4> QED BY <4>2, <2>1, <2>d
    <3>2. \A k \in 1 .. Len(d) + Len(s(2)) :
            (d \o s(2))[k] = IF k <= Len(d) THEN d[k] ELSE s(2)[k - Len(d)]
      BY <2>1, <2>a, <2>d
    <3> QED BY <2>1, <2>d, <3>1, <3>2
  <2>c. c = d \o s(2)
    BY DEF d
  <2> HIDE DEF c
  <2>2. c \in Seq(Int) /\ Len(c) = n(0) + n(1) + n(2)
    BY <2>b, <2>c
  <2>3. ASSUME NEW k \in 1 .. n(0) + n(1) + n(2)
        PROVE  \E p \in 0 .. 2 : \E j \in 1 .. n(p) : c[k] = s(p)[j]
    <3>1. CASE k <= n(0)
      <4>0. k \in 1 .. n(0) /\ k \in 1 .. n(0) + n(1) /\ k <= n(0) + n(1)
        BY <2>1, <3>1
      <4>1. c[k] = s(0)[k]
        BY <4>0, <2>b, <2>c, <2>d, <3>1
      <4> QED BY <1>3, <4>0, <4>1
    <3>2. CASE n(0) < k /\ k <= n(0) + n(1)
      <4>0. k - n(0) \in 1 .. n(1) /\ k \in 1 .. n(0) + n(1) /\ ~(k <= n(0))
        BY <2>1, <3>2
      <4>1. c[k] = s(1)[k - n(0)]
        BY <4>0, <2>b, <2>c, <2>d, <3>2
      <4> QED BY <1>3, <4>0, <4>1
    <3>3. CASE n(0) + n(1) < k
      <4>0. k - (n(0) + n(1)) \in 1 .. n(2) /\ ~(k <= n(0) + n(1))
        BY <2>1, <3>3
      <4>1. c[k] = s(2)[k - (n(0) + n(1))]
        BY <4>0, <2>b, <2>c
      <4> QED BY <1>3, <4>0, <4>1
    <3> QED BY <2>1, <3>1, <3>2, <3>3
  <2> QED BY <2>2, <2>3
<1>6. n(0) + n(1) + n(2) = NumTaskThreads * Cardinality(P)
  BY <1>1, SizesOfSets DEF n
<1>7. \A k \in DOMAIN c : \E p \in P : c[k] = SetPriorities(AnyThread, p, HighTask)
  <2>1. DOMAIN c = 1 .. Len(c)
    BY <1>5
  <2> HIDE DEF c
  <2> QED BY <1>2, <1>5, <2>1
<1> QED BY <1>4, <1>5, <1>6, <1>7

LEMMA BroadcastNamedKeeps ==
  ASSUME BroadcastInv, BroadcastNamed
  PROVE  BroadcastInv'
<1> USE DEF BroadcastInv
<1>1. /\ UNCHANGED <<created, enabled, incoming, pc, task, made, signalled, pool, todo,
                     taskEvents, myEvent, timedOut, counter, ran>>
      /\ caller = "idle" /\ caller' = "make" /\ covered' = {}
  BY DEF BroadcastNamed, Begin, settings, workerVars
<1>2. OneTaskEach' /\ QueuesServed' /\ HandsFull'
  BY <1>1, Placed
<1>3. NoneLeft'
  BY <1>1, Placed DEF NoneLeftInTheEnd
<1>4. TasksInPlace'
  BY <1>3 DEF TasksInPlace, NoneLeft, InQueue
<1>5. CallShapes'
  BY <1>1 DEF CallShapes, CallStages, EventNumbers
<1>6. EventsInPlace'
  BY <1>1 DEF EventsInPlace
<1>7. StagesInOrder'
  BY <1>1 DEF StagesInOrder
<1>8. NoneLeftInTheEnd' /\ CallsCounted'
  BY <1>1 DEF NoneLeftInTheEnd, CallsCounted, Early
<1> QED BY <1>2, <1>4, <1>5, <1>6, <1>7, <1>8

LEMMA BroadcastAllKeeps ==
  ASSUME BroadcastInv, NEW background \in BOOLEAN,
         BroadcastAll(background)
  PROVE  BroadcastInv'
<1> USE DEF BroadcastInv
<1>1. /\ UNCHANGED <<created, enabled, incoming, pc, task, signalled, taskEvents, timedOut, ran>>
      /\ caller = "idle" /\ caller' = "make"
      /\ covered' = Covered(background) /\ todo' = TasksToMake(covered')
      /\ counter' = NumTaskThreads * Cardinality(covered')
  BY DEF BroadcastAll, Begin, settings, workerVars
<1>2. PICK e \in 1 .. made + 1 : TakeEvent(e) /\ myEvent' = e
  BY DEF BroadcastAll
<1>3. /\ made' \in Nat /\ EventNumbers \subseteq EventNumbers' /\ e \in EventNumbers'
      /\ pool' \in Seq(EventNumbers') /\ IsInjective(pool')
      /\ ToSet(pool') \subseteq ToSet(pool) /\ e \notin ToSet(pool')
      /\ e \notin ToSet(taskEvents) /\ e # myEvent /\ e \notin signalled
  BY <1>2, TakesAnEvent
<1>4. covered' \in SUBSET (0 .. 2) /\ NormalThread \in covered'
  BY <1>1 DEF Covered, NormalThread, HighThread, BackgroundThread
<1>5. /\ todo' \in Seq(Int) /\ Len(todo') = counter' /\ counter' \in Int
      /\ \A k \in DOMAIN todo' : \E p \in covered' :
           todo'[k] = SetPriorities(AnyThread, p, HighTask)
  <2>1. /\ TasksToMake(covered') \in Seq(Int)
        /\ Len(TasksToMake(covered')) = NumTaskThreads * Cardinality(covered')
        /\ \A k \in DOMAIN TasksToMake(covered') :
             \E p \in covered' : TasksToMake(covered')[k] = SetPriorities(AnyThread, p, HighTask)
    BY <1>4, Makes
  <2> QED BY <1>1, <2>1
<1>6. taskEvents = <<>> /\ myEvent = NoEvent /\ ~timedOut /\ \A w \in AllWorkers : ran[w] = 0
  BY <1>1 DEF StagesInOrder
<1>7. ToSet(taskEvents) = {} /\ taskEvents' \in Seq(EventNumbers')
  BY <1>1, <1>6 DEF ToSet
<1>8. signalled = {}
  <2>1. NoEvent \notin signalled
    BY DEF CallShapes, EventNumbers, NoEvent
  <2> QED BY <1>6, <1>7, <2>1 DEF EventsInPlace
<1>9. NoneLeft /\ NoneLeft'
  BY <1>1, Placed DEF NoneLeftInTheEnd
<1>10. OneTaskEach' /\ QueuesServed' /\ HandsFull'
  BY <1>1, Placed
<1>11. TasksInPlace'
  BY <1>9 DEF TasksInPlace, NoneLeft, InQueue
<1>12. CallShapes'
  BY <1>1, <1>3, <1>2, <1>4, <1>5, <1>7, <1>8 DEF CallShapes, CallStages
<1>13. EventsInPlace'
  BY <1>1, <1>2, <1>3, <1>7, <1>8 DEF EventsInPlace
<1>14. StagesInOrder'
  <2>1. e # NoEvent
    BY <1>3 DEF EventNumbers, NoEvent
  <2> QED BY <1>1, <1>2, <1>4, <1>5, <1>6, <2>1 DEF StagesInOrder
<1>15. NoneLeftInTheEnd'
  BY <1>1 DEF NoneLeftInTheEnd
<1>16. CallsCounted'
  <2>1. Uncalled' = {} /\ Callers' = {}
    BY <1>1, <1>6, <1>7 DEF Uncalled, Callers
  <2>2. Cardinality(Uncalled') = 0 /\ Cardinality(Callers') = 0
    BY <2>1, FS_EmptySet
  <2>3. \A w \in AllWorkers : pc[w] # "trigger"
    <3>1. \A w \in AllWorkers : InHand(w, NoEvent)
      BY <1>9 DEF NoneLeft, InHand, CallShapes, QueuedTasks, Events
    <3> QED BY <3>1 DEF HandsFull
  <2> QED BY <1>1, <1>5, <1>6, <1>7, <1>8, <2>2, <2>3 DEF CallsCounted
<1> QED BY <1>10, <1>11, <1>12, <1>13, <1>14, <1>15, <1>16

-----------------------------------------------------------------------------
(* The invariant and the properties                                         *)

LEMMA InitBroadcast ==
  ASSUME Init
  PROVE  BroadcastInv
<1>1. /\ created \subseteq {HighThread, BackgroundThread}
      /\ BackgroundThread \in created => HighThread \in created
      /\ enabled = created
  BY BroadcastAssumption DEF Init
<1>2. /\ NoTask \in QueuedTasks /\ NoTask.event = NoEvent
  BY DEF NoTask, QueuedTasks, AnyThread, NoEvent
<1>3. CallShapes
  <2>1. EventNumbers = {}
    BY DEF Init, EventNumbers
  <2>2. incoming \in [0 .. 2 -> [0 .. 1 -> Seq(QueuedTasks)]]
    BY DEF Init
  <2>3. task \in [AllWorkers -> QueuedTasks] /\ pc \in [AllWorkers -> WorkStages]
    BY <1>2 DEF Init, WorkStages
  <2>4. /\ pool \in Seq(EventNumbers) /\ taskEvents \in Seq(EventNumbers) /\ todo \in Seq(Int)
    BY DEF Init
  <2>5. /\ made \in Nat /\ signalled \subseteq EventNumbers
        /\ myEvent \in EventNumbers \cup {NoEvent} /\ caller \in CallStages
    BY DEF Init, CallStages
  <2>6. ran \in [AllWorkers -> Nat]
    BY DEF Init
  <2>7. covered \subseteq 0 .. 2
    BY DEF Init
  <2>8. counter \in Int
    BY DEF Init
  <2>9. timedOut \in BOOLEAN
    BY DEF Init
  <2> QED BY <1>1, <2>1, <2>2, <2>3, <2>4, <2>5, <2>6, <2>7, <2>8, <2>9 DEF CallShapes
<1>4. \A p \in 0 .. 2 : \A q \in 0 .. 1 : incoming[p][q] = <<>>
  BY DEF Init
<1>5. \A p \in 0 .. 2 : \A q \in 0 .. 1 : \A k, e : ~QueuedAt(p, q, k, e)
  BY <1>4 DEF QueuedAt
<1>6. \A w \in AllWorkers : InHand(w, NoEvent) /\ \A e \in Events : ~InHand(w, e)
  BY <1>2 DEF Init, InHand, Events
<1>7. NoneLeft
  BY <1>5, <1>6 DEF NoneLeft, InQueue
<1>8. OneTaskEach /\ TasksInPlace
  BY <1>5, <1>7 DEF OneTaskEach, TasksInPlace, NoneLeft
<1>9. QueuesServed /\ NoneLeftInTheEnd
  BY <1>4, <1>7 DEF QueuesServed, NoneLeftInTheEnd
<1>10. HandsFull
  BY <1>6 DEF HandsFull, Init
<1>11. EventsInPlace
  BY DEF Init, EventsInPlace, IsInjective, ToSet
<1>12. StagesInOrder
  BY DEF Init, StagesInOrder
<1>13. CallsCounted
  BY DEF Init, CallsCounted, Early
<1> QED BY <1>3, <1>8, <1>9, <1>10, <1>11, <1>12, <1>13 DEF BroadcastInv

LEMMA StutterKeeps ==
  ASSUME BroadcastInv, UNCHANGED vars
  PROVE  BroadcastInv'
<1> USE DEF BroadcastInv
<1>1. UNCHANGED <<created, enabled, incoming, pc, task, made, signalled, pool, caller, todo,
                  covered, taskEvents, myEvent, timedOut, counter, ran>>
  BY DEF vars, settings, workerVars, eventVars, callVars
<1>2. OneTaskEach' /\ TasksInPlace' /\ QueuesServed' /\ HandsFull' /\ (NoneLeft => NoneLeft')
  BY <1>1, Placed
<1>3. CallShapes' /\ EventsInPlace' /\ StagesInOrder'
  BY <1>1 DEF CallShapes, EventNumbers, EventsInPlace, StagesInOrder
<1>4. NoneLeftInTheEnd'
  BY <1>1, <1>2 DEF NoneLeftInTheEnd
<1>5. CallsCounted'
  BY <1>1, CountsStay DEF CallsCounted, Early
<1> QED BY <1>2, <1>3, <1>4, <1>5

LEMMA NextBroadcast ==
  ASSUME BroadcastInv, [Next]_vars
  PROVE  BroadcastInv'
<1>1. CASE BroadcastNamed
  BY <1>1, BroadcastNamedKeeps
<1>2. CASE \E background \in BOOLEAN : BroadcastAll(background)
  BY <1>2, BroadcastAllKeeps
<1>3. CASE Call
  <2>1. CASE MakeTask
    BY <2>1, MakeTaskKeeps
  <2>2. CASE MakeNamedTasks
    BY <2>2, NamedTaskSteps
  <2>3. CASE WaitForWorkers \/ WaitTimesOut \/ ReleaseWorkers \/ JoinWorkers
    BY <2>3, CallerSteps
  <2>4. CASE Return
    BY <2>4, ReturnStep
  <2> QED BY <1>3, <2>1, <2>2, <2>3, <2>4 DEF Call
<1>4. CASE \E thread \in NamedThreads : RunNamed(thread)
  BY <1>4, NamedTaskSteps
<1>5. ASSUME NEW w \in AllWorkers, Work(w) PROVE BroadcastInv'
  <2>1. CASE TakeTask(w)
    BY <2>1, TakeTaskKeeps
  <2>2. CASE CountDown(w)
    BY <2>2, CountDownKeeps
  <2>3. CASE WaitForRelease(w) \/ TriggerCaller(w)
    BY <2>3, SignalKeeps
  <2>4. CASE Complete(w)
    BY <2>4, CompleteKeeps
  <2> QED BY <1>5, <2>1, <2>2, <2>3, <2>4 DEF Work
<1>6. CASE QueueOther
  BY <1>6, QueueOtherKeeps
<1>7. CASE ThreadSwitchForABTest
  BY <1>7, NamedTaskSteps
<1>8. CASE UNCHANGED vars
  BY <1>8, StutterKeeps
<1> QED BY <1>1, <1>2, <1>3, <1>4, <1>5, <1>6, <1>7, <1>8 DEF Next

(* The inductive invariant holds throughout (TaskGraph.cpp:1392-1515).      *)
THEOREM BroadcastInvariant == Spec => []BroadcastInv
<1>1. Init => BroadcastInv
  BY InitBroadcast
<1>2. BroadcastInv /\ [Next]_vars => BroadcastInv'
  BY NextBroadcast
<1> QED BY <1>1, <1>2, PTL DEF Spec

(* How many workers a call is for, at most.                                 *)
LEMMA WorkersOfACall ==
  ASSUME NEW P \in SUBSET (0 .. 2), NormalThread \in P,
         NEW W \in SUBSET {w \in AllWorkers : PriorityIndex(w) \in P}
  PROVE  IsFiniteSet(W) /\ Cardinality(W) <= NumTaskThreads * Cardinality(P)
<1> DEFINE Part(p) == IF p \in P THEN Numbers(p) ELSE {}
           n(p) == IF p \in P THEN NumTaskThreads ELSE 0
<1>1. NumTaskThreads \in Nat \ {0} /\ NumNamedThreads \in Nat
  BY BroadcastAssumption
<1>2. ASSUME NEW p \in 0 .. 2
      PROVE  IsFiniteSet(Part(p)) /\ Cardinality(Part(p)) = n(p)
  <2>1. CASE p \in P
    <3> DEFINE x == NumNamedThreads + p * NumTaskThreads
               y == NumNamedThreads + (p + 1) * NumTaskThreads - 1
    <3>1. x \in Int /\ y \in Int /\ y - x + 1 = NumTaskThreads /\ ~(x > y)
      BY <1>1
    <3>2. Part(p) = x .. y
      BY <2>1 DEF Numbers
    <3> HIDE DEF x, y
    <3> QED BY <2>1, <3>1, <3>2, FS_Interval
  <2>2. CASE p \notin P
    BY <2>2, FS_EmptySet
  <2> QED BY <2>1, <2>2
<1>3. W \subseteq Part(0) \cup Part(1) \cup Part(2)
  <2> SUFFICES ASSUME NEW w \in W PROVE w \in Part(0) \cup Part(1) \cup Part(2)
    OBVIOUS
  <2>1. w \in AllWorkers /\ PriorityIndex(w) \in P
    OBVIOUS
  <2>2. w \in Numbers(PriorityIndex(w))
    BY <2>1, WorkersOf DEF AllWorkers, HighThread, BackgroundThread
  <2>a. \A x \in P : x \in {0, 1, 2}
    OBVIOUS
  <2>3. PriorityIndex(w) \in {0, 1, 2}
    BY <2>1, <2>a
  <2> QED BY <2>1, <2>2, <2>3
<1>4. n(0) + n(1) + n(2) = NumTaskThreads * Cardinality(P)
  BY <1>1, SizesOfSets
<1> HIDE DEF Part, n
<1>5. /\ IsFiniteSet(Part(0)) /\ IsFiniteSet(Part(1)) /\ IsFiniteSet(Part(2))
      /\ Cardinality(Part(0)) = n(0) /\ Cardinality(Part(1)) = n(1)
      /\ Cardinality(Part(2)) = n(2)
  BY <1>2
<1>6. /\ IsFiniteSet(Part(0) \cup Part(1))
      /\ Cardinality(Part(0) \cup Part(1)) <= n(0) + n(1)
  <2>1. IsFiniteSet(Part(0) \cap Part(1))
    BY <1>5, FS_Intersection
  <2>2. Cardinality(Part(0) \cap Part(1)) \in Nat
    BY <2>1, FS_CardinalityType
  <2>3. n(0) \in Nat /\ n(1) \in Nat
    BY <1>5, FS_CardinalityType
  <2>4. /\ IsFiniteSet(Part(0) \cup Part(1))
        /\ Cardinality(Part(0) \cup Part(1)) = n(0) + n(1) - Cardinality(Part(0) \cap Part(1))
    BY <1>5, FS_Union
  <2> QED BY <2>2, <2>3, <2>4
<1>7. /\ IsFiniteSet(Part(0) \cup Part(1) \cup Part(2))
      /\ Cardinality(Part(0) \cup Part(1) \cup Part(2)) <= n(0) + n(1) + n(2)
  <2>1. IsFiniteSet((Part(0) \cup Part(1)) \cap Part(2))
    BY <1>5, <1>6, FS_Intersection
  <2> DEFINE U == Part(0) \cup Part(1)
  <2>2. Cardinality(U \cap Part(2)) \in Nat
    BY <2>1, FS_CardinalityType
  <2>3. Cardinality(U) \in Nat /\ n(0) \in Nat /\ n(1) \in Nat /\ n(2) \in Nat
    BY <1>5, <1>6, FS_CardinalityType
  <2>4. /\ IsFiniteSet(U \cup Part(2))
        /\ Cardinality(U \cup Part(2)) = Cardinality(U) + n(2) - Cardinality(U \cap Part(2))
    BY <1>5, <1>6, FS_Union
  <2>5. Cardinality(U) <= n(0) + n(1)
    BY <1>6
  <2> QED BY <2>2, <2>3, <2>4, <2>5
<1>8. IsFiniteSet(W) /\ Cardinality(W) <= Cardinality(Part(0) \cup Part(1) \cup Part(2))
  BY <1>3, <1>7, FS_Subset
<1> QED BY <1>4, <1>7, <1>8, <1>5, FS_CardinalityType

(* The tasks of a broadcast end before the call does.                       *)
THEOREM CallsLeaveNothing == Spec => []NothingOutlivesTheCall
<1>1. BroadcastInv => NothingOutlivesTheCall
  BY NoPending DEF BroadcastInv, NoneLeftInTheEnd, NothingOutlivesTheCall
<1> QED BY <1>1, BroadcastInvariant, PTL

(* No event in the pool is set, triggered or waited for.                    *)
THEOREM PoolIsFree == Spec => []PooledEventsAreFree
<1>1. ASSUME BroadcastInv PROVE PooledEventsAreFree
  <2> USE <1>1 DEF BroadcastInv
  <2>1. NoEvent \notin signalled /\ NoEvent \notin ToSet(pool)
    BY SmallNumbers DEF CallShapes, EventNumbers, NoEvent
  <2>2. IsInjective(pool) /\ ToSet(pool) \cap signalled = {}
    BY DEF EventsInPlace
  <2>3. ASSUME NEW w \in AllWorkers, pc[w] = "trigger"
        PROVE  myEvent \notin ToSet(pool) \cup {NoEvent}
    <3>1. ~InHand(w, NoEvent)
      BY <2>3 DEF HandsFull
    <3>2. myEvent \in EventNumbers
      BY <3>1, WithinTheCall
    <3> QED BY <3>2 DEF EventNumbers, NoEvent, EventsInPlace
  <2>4. ASSUME NEW t \in Pending PROVE t.event \notin ToSet(pool)
    <3>1. t.event \in ToSet(taskEvents)
      BY NoPending DEF TasksInPlace, InQueue
    <3> QED BY <3>1 DEF EventsInPlace
  <2> QED BY <2>2, <2>3, <2>4 DEF PooledEventsAreFree
<1> QED BY <1>1, BroadcastInvariant, PTL

(* A task is queued where its workers look for it.                          *)
THEOREM TasksAreServed == Spec => []RoutedToServedSet
<1>1. ASSUME BroadcastInv PROVE RoutedToServedSet
  <2> SUFFICES ASSUME NEW p \in 0 .. 2, \E q \in 0 .. 1 : incoming[p][q] # <<>>,
                      NEW k \in 0 .. NumTaskThreads - 1
               PROVE  LET w == ThreadToWake(p, k) IN
                      w \in Workers(created) /\ PriorityIndex(w) = p /\ MyIndex(w) = k
    BY DEF RoutedToServedSet
  <2>1. p \in {NormalThread} \cup created
    BY <1>1 DEF BroadcastInv, QueuesServed, Served
  <2>2. /\ ThreadToWake(p, k) \in Numbers(p)
        /\ PriorityIndex(ThreadToWake(p, k)) = p /\ MyIndex(ThreadToWake(p, k)) = k
    BY WorkerOfIndex
  <2>3. Numbers(p) \subseteq Workers(created)
    BY <1>1, <2>1, WorkersOf DEF BroadcastInv, CallShapes
  <2> QED BY <2>2, <2>3
<1> QED BY <1>1, BroadcastInvariant, PTL

(* A broadcast that is not given up reaches each worker once.               *)
THEOREM EveryWorkerIsReached == Spec => []EachWorkerOnce
<1>1. ASSUME BroadcastInv, caller = "release", ~timedOut, NEW w \in Workers(created)
      PROVE  ran[w] = IF PriorityIndex(w) \in covered THEN 1 ELSE 0
  <2> USE <1>1 DEF BroadcastInv
  <2>0. /\ created \in SUBSET {HighThread, BackgroundThread}
        /\ BackgroundThread \in created => HighThread \in created
        /\ covered \in SUBSET (0 .. 2)
    BY DEF CallShapes
  <2>1. covered # {} /\ NormalThread \in covered
    BY DEF StagesInOrder
  <2>2. Early
    BY <2>1 DEF Early
  <2>3. /\ counter = 0 /\ counter + Cardinality(Callers) = NumTaskThreads * Cardinality(covered)
        /\ \A v \in AllWorkers : ran[v] # 0 =>
             ran[v] = 1 /\ v \in Workers(created) /\ PriorityIndex(v) \in covered
    BY <2>2 DEF CallsCounted
  <2>4. Cardinality(Callers) = NumTaskThreads * Cardinality(covered)
    BY <2>3, SmallNumbers
  <2> DEFINE W == {v \in Workers(created) : PriorityIndex(v) \in covered}
  <2>5. Workers(created) \subseteq AllWorkers
    BY <2>0, WorkersOf
  <2>6. IsFiniteSet(W) /\ Cardinality(W) <= NumTaskThreads * Cardinality(covered)
    <3>1. W \in SUBSET {v \in AllWorkers : PriorityIndex(v) \in covered}
      BY <2>5
    <3> HIDE DEF W
    <3> QED BY <2>0, <2>1, <3>1, WorkersOfACall
  <2>7. Callers \subseteq W
    BY <2>3 DEF Callers
  <2>8. Callers = W
    <3>1. Cardinality(Callers) <= Cardinality(W)
      BY <2>6, <2>7, FS_Subset
    <3>2. Cardinality(Callers) \in Nat /\ Cardinality(W) \in Nat
      BY <2>6, SmallNumbers, FS_CardinalityType
    <3>3. Cardinality(Callers) = Cardinality(W)
      BY <2>4, <2>6, <3>1, <3>2
    <3> HIDE DEF W
    <3> QED BY <2>6, <2>7, <3>3, FS_Subset
  <2> QED BY <2>3, <2>5, <2>8 DEF Callers
<1>2. BroadcastInv => EachWorkerOnce
  BY <1>1 DEF EachWorkerOnce
<1> QED BY <1>2, BroadcastInvariant, PTL
=============================================================================
