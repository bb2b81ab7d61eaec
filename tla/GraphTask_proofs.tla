--------------------------- MODULE GraphTask_proofs ---------------------------
(***************************************************************************)
(* Machine-checked safety of the task graph, for any number of tasks, any  *)
(* prerequisite arrays and any interleaving of their threads: the count of *)
(* outstanding prerequisites is exact at every step, so no task runs       *)
(* before its prerequisites, and none is queued twice.                     *)
(***************************************************************************)
EXTENDS GraphTask, TLAPS, FiniteSetTheorems

-----------------------------------------------------------------------------
(* Lemmas about the helpers                                                 *)

LEMMA JobKinds ==
  /\ Tasks \subseteq Jobs /\ Gathers \subseteq Jobs
  /\ \A x \in Jobs : x \in Tasks \/ x \in Gathers
  /\ \A t \in Tasks : t \notin Gathers
  /\ \A t \in Tasks : GatherOf[t] \in Gathers /\ GatherOf[t] \in Jobs
                       /\ GatherOf[t] # t
  /\ \A t, u \in Tasks : GatherOf[t] = GatherOf[u] => t = u
  /\ \A t, u \in Tasks : GatherOf[t] # u
  BY GraphAssumption DEF Jobs

(* A task and its gather work for the same event, and nobody else does.     *)
LEMMA EventOwners ==
  /\ \A t \in Tasks : EventOf(t) = t /\ EventOf(GatherOf[t]) = t
  /\ \A t \in Tasks, x \in Jobs : EventOf(x) = t =>
       x = t \/ x = GatherOf[t] \/ \A u \in Tasks : GatherOf[u] # x
<1>1. \A t \in Tasks : EventOf(t) = t
  BY DEF EventOf
<1>2. ASSUME NEW t \in Tasks PROVE EventOf(GatherOf[t]) = t
  <2>1. GatherOf[t] \notin Tasks
    BY JobKinds
  <2>2. \A u \in Tasks : GatherOf[u] = GatherOf[t] <=> u = t
    BY JobKinds
  <2>3. QED
    BY <2>1, <2>2 DEF EventOf
<1>3. ASSUME NEW t \in Tasks, NEW x \in Jobs, EventOf(x) = t,
             NEW u \in Tasks, GatherOf[u] = x
      PROVE  x = GatherOf[t]
  BY <1>2, <1>3
<1>4. QED
  BY <1>1, <1>2, <1>3

(* A job that exists works for the event of one task.                       *)
LEMMA EventOfJob ==
  ASSUME OwnerInv, NEW x \in Jobs, life[x] # "none"
  PROVE  /\ EventOf(x) \in Tasks
         /\ x = EventOf(x) \/ x = GatherOf[EventOf(x)]
<1>1. CASE x \in Tasks
  BY <1>1, EventOwners
<1>2. CASE x \in Gathers
  <2>1. PICK t \in Tasks : x = GatherOf[t]
    BY <1>2 DEF OwnerInv
  <2>2. QED
    BY <2>1, EventOwners
<1>3. QED
  BY <1>1, <1>2, JobKinds

LEMMA FiniteUpTo ==
  ASSUME NEW n \in Nat, NEW S \in SUBSET (1 .. n)
  PROVE  /\ IsFiniteSet(S)
         /\ Cardinality(S) \in Nat
         /\ Cardinality(S) = 0 <=> S = {}
<1>1. IsFiniteSet(1 .. n)
  BY FS_Interval
<1>2. IsFiniteSet(S)
  BY <1>1, FS_Subset
<1>3. QED
  BY <1>2, FS_CardinalityType, FS_EmptySet

LEMMA FullInterval ==
  ASSUME NEW n \in Nat
  PROVE  Cardinality(1 .. n) = n
  BY FS_Interval

(* The arrays a program may pass.                                           *)
LEMMA PrereqArrays ==
  ASSUME NEW n \in Nat, NEW P \in SeqsUpTo(Tracked, n)
  PROVE  P \in Seq(Tracked) /\ Len(P) <= n
  BY DEF SeqsUpTo

LEMMA SlotBounds ==
  /\ \A n \in Nat : n <= MaxPrereqs \/ n <= MaxWaits => 1 .. n \subseteq Slots
  /\ Slots \subseteq Nat \ {0}
  BY GraphAssumption DEF Slots

(* What is pending is finite, and none of it is left when the count is 0.   *)
LEMMA PendingCount ==
  ASSUME Shape, NEW x \in Jobs
  PROVE  /\ Len(prereqs[x]) \in Nat
         /\ Pending(x) \subseteq Positions(x)
         /\ IsFiniteSet(Pending(x))
         /\ Cardinality(Pending(x)) \in Nat
         /\ Cardinality(Pending(x)) = 0 <=> Pending(x) = {}
<1>1. Len(prereqs[x]) \in Nat
  BY DEF Shape
<1>2. Pending(x) \in SUBSET (1 .. Len(prereqs[x]))
  BY DEF Pending, Positions
<1>3. QED
  BY <1>1, <1>2, FiniteUpTo DEF Positions

(* The count of a job that exists covers whatever is pending.               *)
LEMMA CountCovers ==
  ASSUME GraphInv, NEW x \in Jobs, life[x] # "none"
  PROVE  /\ outstanding[x] \in Nat
         /\ Pending(x) # {} => outstanding[x] >= 1
         /\ Pending(x) # {} /\ locked[x] => outstanding[x] >= 2
         /\ outstanding[x] = 0 => Pending(x) = {} /\ ~locked[x]
<1>1. outstanding[x] = Cardinality(Pending(x)) + (IF locked[x] THEN 1 ELSE 0)
  BY DEF GraphInv, CountIsExact
<1>2. Cardinality(Pending(x)) \in Nat /\ (Cardinality(Pending(x)) = 0 <=> Pending(x) = {})
  BY PendingCount DEF GraphInv, TypeOK
<1>3. QED
  BY <1>1, <1>2

(* Whoever is in a list is alive and not yet queued.                        *)
LEMMA ListedIsPending ==
  ASSUME GraphInv, NEW x \in Jobs, NEW k \in Slots, Registered(x, k)
  PROVE  /\ k \in Pending(x) /\ k < next[x] /\ k \in Positions(x) /\ k \notin missed[x]
         /\ life[x] \in {"setup", "pending"}
<1>1. k \in Positions(x) /\ k < next[x] /\ k \notin missed[x]
  BY DEF GraphInv, ListInv, Registered
<1>2. k \in Pending(x)
  BY <1>1 DEF Pending
<1>3. life[x] # "none"
  BY <1>1 DEF GraphInv, SetupInv, SetUp, Positions
<1>4. outstanding[x] # 0
  BY <1>2, <1>3, CountCovers
<1>5. life[x] \in Stages
  BY DEF GraphInv, TypeOK, Shape
<1>6. QED
  BY <1>1, <1>2, <1>3, <1>4, <1>5 DEF GraphInv, SetupInv, SetUp, Stages

(* A step that leaves the lists and the set-up of x alone leaves what is    *)
(* pending for x alone.                                                     *)
LEMMA SamePending ==
  ASSUME NEW x \in Jobs,
         UNCHANGED <<subsequents, newTasks>>,
         prereqs'[x] = prereqs[x], next'[x] = next[x], missed'[x] = missed[x]
  PROVE  Pending(x)' = Pending(x) /\ Positions(x)' = Positions(x)
  BY DEF Pending, Positions, Registered

(* Counts, lists and owners stay as they are when no step is taken.         *)
LEMMA StutterInv ==
  ASSUME GraphInv, UNCHANGED vars
  PROVE  GraphInv'
<1> USE DEF vars, GraphInv
<1>1. TypeOK'
  BY DEF TypeOK, Shape
<1>2. SetupInv' /\ ListInv'
  BY DEF SetupInv, SetUp, ListInv, Positions
<1>3. \A x \in Jobs : Pending(x)' = Pending(x) /\ Positions(x)' = Positions(x)
  BY SamePending
<1>4. CountIsExact' /\ CountedOffInv'
  BY <1>3 DEF CountIsExact, CountedOffInv
<1>5. OwnerInv'
  BY DEF OwnerInv
<1>6. FiresAfterWaits'
  BY DEF FiresAfterWaits, Awaited
<1>7. QED
  BY <1>1, <1>2, <1>4, <1>5, <1>6

-----------------------------------------------------------------------------
LEMMA InitInv == Init => GraphInv
<1> SUFFICES ASSUME Init PROVE GraphInv
  OBVIOUS
<1> USE DEF Init
<1>1. Shape
  BY JobKinds DEF Shape, Stages
<1>2. TypeOK
  BY <1>1 DEF TypeOK
<1>3. SetupInv
  BY DEF SetupInv, SetUp, Positions
<1>4. ListInv
  BY DEF ListInv
<1>5. CountIsExact
  BY DEF CountIsExact
<1>6. CountedOffInv
  BY DEF CountedOffInv, Positions
<1>7. OwnerInv
  BY JobKinds, GraphAssumption DEF OwnerInv
<1>8. FiresAfterWaits
  BY DEF FiresAfterWaits, Tracked
<1>9. QED
  BY <1>2, <1>3, <1>4, <1>5, <1>6, <1>7, <1>8 DEF GraphInv

-----------------------------------------------------------------------------
(* Set-up                                                                   *)

(* Construct counts every position, none of them pushed yet, and the lock.  *)
LEMMA ConstructCount ==
  ASSUME GraphInv, NEW x \in Jobs, NEW c, NEW P \in Seq(Tracked), NEW hold,
         Construct(x, c, P, hold), UNCHANGED <<subsequents, newTasks>>
  PROVE  /\ outstanding'[x] = Cardinality(Pending(x)') + 1
         /\ Pending(x)' = 1 .. Len(P)
         /\ \A y \in Jobs : y # x =>
              /\ Pending(y)' = Pending(y) /\ Positions(y)' = Positions(y)
              /\ outstanding'[y] = outstanding[y] /\ locked'[y] = locked[y]
<1>1. /\ prereqs'[x] = P /\ outstanding'[x] = Len(P) + 1
      /\ next'[x] = 1
  BY DEF Construct, InitialCount, GraphInv, TypeOK, Shape, SetupInv, SetUp
<1>2. Pending(x)' = 1 .. Len(P)
  BY <1>1 DEF Pending, Positions
<1>3. Cardinality(1 .. Len(P)) = Len(P)
  BY FullInterval
<1>4. ASSUME NEW y \in Jobs, y # x
      PROVE  /\ Pending(y)' = Pending(y) /\ Positions(y)' = Positions(y)
             /\ outstanding'[y] = outstanding[y] /\ locked'[y] = locked[y]
  <2>1. /\ prereqs'[y] = prereqs[y] /\ next'[y] = next[y] /\ missed'[y] = missed[y]
        /\ outstanding'[y] = outstanding[y] /\ locked'[y] = locked[y]
    BY <1>4 DEF Construct, GraphInv, TypeOK, Shape
  <2>2. QED
    BY <2>1, SamePending
<1>5. QED
  BY <1>1, <1>2, <1>3, <1>4

(* Nothing is listed for a job that does not exist.                         *)
LEMMA UnbornUnlisted ==
  ASSUME GraphInv, NEW x \in Jobs, life[x] = "none"
  PROVE  /\ missed[x] = {}
         /\ \A k \in Slots : /\ \A e \in Tasks : <<x, k>> \notin subsequents[e]
                             /\ \A y \in Jobs : <<x, k>> \notin newTasks[y]
  BY ListedIsPending DEF GraphInv, SetupInv, SetUp, Positions, Registered

LEMMA CreateTaskInv ==
  ASSUME GraphInv, NEW t \in Tasks, NEW c \in Creators, NEW hold \in BOOLEAN,
         NEW P \in SeqsUpTo(Tracked, MaxPrereqs), CreateTask(t, c, P, hold)
  PROVE  GraphInv'
<1> USE DEF GraphInv, TypeOK, Shape
<1>1. t \in Jobs /\ life[t] = "none" /\ GatherOf[t] \in Jobs
  BY JobKinds DEF CreateTask, Construct
<1>2. P \in Seq(Tracked) /\ Len(P) \in Nat /\ 1 .. Len(P) \subseteq Slots
  <2>1. MaxPrereqs \in Nat
    BY GraphAssumption
  <2>2. P \in Seq(Tracked) /\ Len(P) <= MaxPrereqs
    BY <2>1, PrereqArrays
  <2>3. Len(P) \in Nat
    BY <2>2
  <2>4. QED
    BY <2>1, <2>2, <2>3, SlotBounds
<1>3. /\ Construct(t, c, P, hold) /\ life' = [life EXCEPT ![t] = "setup"]
      /\ UNCHANGED <<subsequents, closed, waitFor, newTasks>>
  BY DEF CreateTask, eventVars
<1>4. /\ life'[t] = "setup" /\ prereqs'[t] = P /\ locked'[t] = TRUE
      /\ missed' = missed /\ next' = next
      /\ \A y \in Jobs : y # t => /\ life'[y] = life[y] /\ prereqs'[y] = prereqs[y]
                                  /\ locked'[y] = locked[y]
                                  /\ outstanding'[y] = outstanding[y]
  BY <1>1, <1>3 DEF Construct
<1>5. Shape' /\ outstanding' \in [Jobs -> Nat]
  <2>1. c \in Jobs \cup Externals
    BY JobKinds DEF Creators
  <2>2. Len(P) + 1 \in Nat
    BY <1>2
  <2>3. QED
    BY <1>1, <1>2, <1>3, <2>1, <2>2, SMTT(20) DEF Construct, InitialCount, Stages
<1>6. /\ outstanding'[t] = Cardinality(Pending(t)') + 1 /\ Pending(t)' = 1 .. Len(P)
      /\ \A y \in Jobs : y # t => Pending(y)' = Pending(y) /\ Positions(y)' = Positions(y)
  BY <1>1, <1>2, <1>3, ConstructCount
<1>7. Positions(t)' = 1 .. Len(P)
  BY <1>4 DEF Positions
<1>8. missed[t] = {} /\ next[t] = 1
  BY <1>1, UnbornUnlisted DEF SetupInv, SetUp
<1>9. SetupInv'
  <2>1. ASSUME NEW x \in Jobs, x # t PROVE Positions(x)' = Positions(x)
    BY <1>6, <2>1
  <2>2. next[t] <= Len(prereqs'[t]) + 1
    BY <1>2, <1>4, <1>8
  <2>3. QED
    <3>1. ASSUME NEW x \in Jobs, x # t PROVE SetUp(x)'
      <4>1. life'[x] = life[x] /\ prereqs'[x] = prereqs[x] /\ locked'[x] = locked[x]
            /\ outstanding'[x] = outstanding[x] /\ missed'[x] = missed[x]
            /\ next'[x] = next[x]
        BY <1>4, <3>1
      <4>2. SetUp(x) /\ Positions(x)' = Positions(x)
        BY <2>1, <3>1 DEF SetupInv
      <4>3. QED
        BY <4>1, <4>2 DEF SetUp
    <3>2. SetUp(t)'
      <4>1. /\ Positions(t)' \subseteq Slots /\ missed'[t] = {} /\ next'[t] <= Len(prereqs'[t]) + 1
            /\ life'[t] = "setup" /\ locked'[t]
        BY <1>1, <1>2, <1>4, <1>7, <1>8, <2>2
      <4>2. QED
        BY <4>1 DEF SetUp
    <3>3. QED
      BY <3>1, <3>2 DEF SetupInv
<1>10. ListInv'
  <2>1. \A k \in Slots : /\ \A e \in Tasks : <<t, k>> \notin subsequents[e]
                         /\ \A y \in Jobs : <<t, k>> \notin newTasks[y]
    BY <1>1, UnbornUnlisted
  <2>2. \A y \in Jobs : life[y] = "closing" => life'[y] = "closing"
    BY <1>1, <1>4
  <2>3. \A x \in Jobs : \A k \in missed'[x] : k < next'[x] /\ closed'[prereqs'[x][k]]
    BY <1>3, <1>4, <1>8 DEF ListInv
  <2>4. ASSUME NEW e \in Tasks, NEW x \in Jobs, NEW k \in Slots, <<x, k>> \in subsequents[e]
        PROVE  /\ k \in Positions(x)' /\ k < next'[x] /\ k \notin missed'[x]
               /\ prereqs'[x][k] = e /\ ~closed'[e]
    <3>1. /\ k \in Positions(x) /\ k < next[x] /\ k \notin missed[x]
          /\ prereqs[x][k] = e /\ ~closed[e] /\ x # t
      BY <2>1, <2>4 DEF ListInv
    <3>2. QED
      BY <1>3, <1>4, <1>6, <3>1
  <2>5. ASSUME NEW y \in Jobs, NEW x \in Jobs, NEW k \in Slots, <<x, k>> \in newTasks[y]
        PROVE  /\ k \in Positions(x)' /\ k < next'[x] /\ k \notin missed'[x]
               /\ prereqs'[x][k] = EventOf(y) /\ closed'[EventOf(y)]
               /\ life'[y] = "closing"
    <3>1. /\ k \in Positions(x) /\ k < next[x] /\ k \notin missed[x]
          /\ prereqs[x][k] = EventOf(y) /\ closed[EventOf(y)] /\ x # t
          /\ life[y] = "closing"
      BY <2>1, <2>5 DEF ListInv
    <3>2. QED
      BY <1>3, <1>4, <1>6, <2>2, <3>1
  <2>6. QED
    BY <1>3, <2>3, <2>4, <2>5 DEF ListInv
<1>11. CountIsExact'
  BY <1>1, <1>4, <1>6 DEF CountIsExact
<1>12. CountedOffInv'
  <2>1. ASSUME NEW x \in Jobs, NEW k \in Positions(x)'
        PROVE  k \in Pending(x)' \/ closed'[prereqs'[x][k]]
    <3>1. CASE x = t
      BY <1>6, <1>7, <2>1, <3>1
    <3>2. CASE x # t
      BY <1>3, <1>4, <1>6, <2>1, <3>2 DEF CountedOffInv
    <3>3. QED
      BY <3>1, <3>2
  <2>2. QED
    BY <2>1 DEF CountedOffInv
<1>13. OwnerInv'
  BY <1>1, <1>3, <1>4, JobKinds DEF OwnerInv
<1>14. FiresAfterWaits'
  <2>1. \A u \in Tracked : u \in Tasks /\ u \in Jobs /\ GatherOf[u] \in Jobs /\ GatherOf[u] # t
    BY JobKinds DEF Tracked
  <2>2. \A u \in Tracked : Awaited(u)' = Awaited(u)
    <3>1. ASSUME NEW u \in Tracked
          PROVE  /\ life'[GatherOf[u]] = life[GatherOf[u]]
                 /\ prereqs'[GatherOf[u]] = prereqs[GatherOf[u]]
                 /\ waitFor'[u] = waitFor[u]
      BY <1>3, <1>4, <2>1
    <3>2. QED
      BY <3>1 DEF Awaited
  <2>3. QED
    BY <1>1, <1>3, <1>4, <2>1, <2>2 DEF FiresAfterWaits
<1>15. QED
  BY <1>5, <1>9, <1>10, <1>11, <1>12, <1>13, <1>14

-----------------------------------------------------------------------------
(* Steps that leave arrays and lists alone                                  *)

LEMMA ListsKept ==
  ASSUME GraphInv, UNCHANGED <<prereqs, next, missed, subsequents, closed, newTasks>>,
         \A y \in Jobs : life[y] = "closing" /\ newTasks[y] # {} => life'[y] = "closing"
  PROVE  /\ ListInv' /\ CountedOffInv'
         /\ \A x \in Jobs : Pending(x)' = Pending(x) /\ Positions(x)' = Positions(x)
<1>1. \A x \in Jobs : Pending(x)' = Pending(x) /\ Positions(x)' = Positions(x)
  BY SamePending
<1>2. CountedOffInv'
  BY <1>1 DEF GraphInv, CountedOffInv
<1>3. \A x \in Jobs : \A k \in missed'[x] : k < next'[x] /\ closed'[prereqs'[x][k]]
  BY DEF GraphInv, ListInv
<1>4. ASSUME NEW e \in Tasks, NEW x \in Jobs, NEW k \in Slots, <<x, k>> \in subsequents'[e]
      PROVE  /\ k \in Positions(x)' /\ k < next'[x] /\ k \notin missed'[x]
             /\ prereqs'[x][k] = e /\ ~closed'[e]
  BY <1>1, <1>4 DEF GraphInv, ListInv
<1>5. ASSUME NEW y \in Jobs, NEW x \in Jobs, NEW k \in Slots, <<x, k>> \in newTasks'[y]
      PROVE  /\ k \in Positions(x)' /\ k < next'[x] /\ k \notin missed'[x]
             /\ prereqs'[x][k] = EventOf(y) /\ closed'[EventOf(y)]
             /\ life'[y] = "closing"
  <2>1. life[y] = "closing" /\ newTasks[y] # {}
    BY <1>5 DEF GraphInv, ListInv
  <2>2. QED
    BY <1>1, <1>5, <2>1 DEF GraphInv, ListInv
<1>6. ListInv'
  BY <1>3, <1>4, <1>5 DEF ListInv
<1>7. QED
  BY <1>1, <1>2, <1>6

LEMMA SetUpKept ==
  ASSUME NEW x \in Jobs, SetUp(x),
         life'[x] = life[x], prereqs'[x] = prereqs[x], next'[x] = next[x],
         missed'[x] = missed[x], locked'[x] = locked[x], outstanding'[x] = outstanding[x]
  PROVE  SetUp(x)'
  BY DEF SetUp, Positions

(* What an event waits for does not change when a gather is not created.    *)
LEMMA AwaitedKept ==
  ASSUME NEW t \in Tracked,
         life'[GatherOf[t]] = "none" <=> life[GatherOf[t]] = "none",
         prereqs'[GatherOf[t]] = prereqs[GatherOf[t]], waitFor'[t] = waitFor[t]
  PROVE  Awaited(t)' = Awaited(t)
  BY DEF Awaited

(* A started job moves on, with nothing but its stage changed.              *)
LEMMA StageStep ==
  ASSUME GraphInv, NEW x \in Jobs, NEW stage,
         life' = [life EXCEPT ![x] = stage],
         UNCHANGED <<setupVars, locked, outstanding, eventVars>>,
         \/ life[x] = "queued" /\ stage = "running"
         \/ life[x] = "running" /\ stage = IF x \in Forget THEN "dead" ELSE "dispatch"
         \/ life[x] = "closing" /\ newTasks[x] = {} /\ stage = "dead"
         \/ life[x] = "gathering" /\ stage = "dead"
  PROVE  GraphInv'
<1>1. /\ UNCHANGED <<creator, prereqs, next, missed, held, locked, outstanding,
                    subsequents, closed, waitFor, newTasks>>
      /\ life \in [Jobs -> Stages] /\ stage \in Stages
      /\ life'[x] = stage /\ \A y \in Jobs : y # x => life'[y] = life[y]
  BY DEF setupVars, eventVars, GraphInv, TypeOK, Shape, Stages
<1>2. TypeOK'
  <2>1. life' \in [Jobs -> Stages]
    BY <1>1
  <2>2. QED
    BY <1>1, <2>1 DEF GraphInv, TypeOK, Shape
<1>3. /\ ListInv' /\ CountedOffInv'
      /\ \A y \in Jobs : Pending(y)' = Pending(y) /\ Positions(y)' = Positions(y)
  <2>1. \A y \in Jobs : life[y] = "closing" /\ newTasks[y] # {} => life'[y] = "closing"
    BY <1>1
  <2>2. QED
    BY <1>1, <2>1, ListsKept
<1>4. SetupInv'
  <2>1. ASSUME NEW y \in Jobs PROVE SetUp(y)'
    <3>1. SetUp(y)
      BY DEF GraphInv, SetupInv
    <3>2. CASE y = x
      BY <1>1, <3>1, <3>2 DEF SetUp, Positions
    <3>3. CASE y # x
      BY <1>1, <3>1, <3>3, SetUpKept
    <3>4. QED
      BY <3>2, <3>3
  <2>2. QED
    BY <2>1 DEF SetupInv
<1>5. CountIsExact'
  BY <1>1, <1>3 DEF GraphInv, CountIsExact
<1>6. OwnerInv'
  <2>1. \A y \in Jobs : life'[y] = "none" <=> life[y] = "none"
    BY <1>1
  <2>2. OwnerInv
    BY DEF GraphInv
  <2>3. ASSUME NEW t \in Tasks
        PROVE  /\ Len(waitFor'[t]) <= MaxWaits
               /\ life'[t] \in {"dispatch", "gathering", "closing"} => t \notin Forget
               /\ life'[t] = "dispatch" => ~closed'[t]
               /\ closed'[t] => life'[t] \in {"gathering", "closing", "dead"}
    BY <1>1, <2>2, JobKinds DEF OwnerInv
  <2>4. ASSUME NEW t \in Tasks, life'[GatherOf[t]] # "none"
        PROVE  /\ t \notin Forget
               /\ life'[t] \in {"gathering", "dead"}
               /\ waitFor'[t] = <<>>
               /\ closed'[t] => life'[GatherOf[t]] \in {"gathering", "closing", "dead"}
    BY <1>1, <2>1, <2>2, <2>4, JobKinds DEF OwnerInv
  <2>5. QED
    BY <1>1, <2>1, <2>2, <2>3, <2>4, JobKinds DEF OwnerInv
<1>7. FiresAfterWaits'
  <2>1. \A t \in Tracked : t \in Tasks /\ t \in Jobs /\ GatherOf[t] \in Jobs
    BY JobKinds DEF Tracked
  <2>2. \A t \in Tracked : Awaited(t)' = Awaited(t)
    BY <1>1, <2>1, AwaitedKept
  <2>3. QED
    BY <1>1, <2>1, <2>2 DEF GraphInv, FiresAfterWaits
<1>8. QED
  BY <1>2, <1>3, <1>4, <1>5, <1>6, <1>7 DEF GraphInv

LEMMA RunInv ==
  ASSUME GraphInv, NEW x \in Jobs, Execute(x) \/ FinishDoTask(x) \/ Destroy(x)
  PROVE  GraphInv'
<1>1. CASE Execute(x)
  BY <1>1, StageStep DEF Execute
<1>2. CASE FinishDoTask(x)
  BY <1>2, StageStep DEF FinishDoTask
<1>3. CASE Destroy(x)
  BY <1>3, StageStep DEF Destroy
<1>4. QED
  BY <1>1, <1>2, <1>3

(* What a running task waits for: nothing that has fired depends on it.     *)
LEMMA DontCompleteUntilInv ==
  ASSUME GraphInv, NEW t \in Tracked, NEW e \in Tracked, DontCompleteUntil(t, e)
  PROVE  GraphInv'
<1>1. /\ UNCHANGED <<life, creator, prereqs, next, missed, held, locked, outstanding,
                    subsequents, closed, newTasks>>
      /\ waitFor' = [waitFor EXCEPT ![t] = Append(waitFor[t], e)]
      /\ life[t] = "running" /\ Len(waitFor[t]) < MaxWaits
  BY DEF DontCompleteUntil, setupVars
<1>2. t \in Tasks /\ t \in Jobs /\ t \notin Forget /\ GatherOf[t] \in Jobs
  BY JobKinds DEF Tracked
<1>3. ~closed[t] /\ life[GatherOf[t]] = "none"
  BY <1>1, <1>2 DEF GraphInv, OwnerInv
<1>4. /\ waitFor' \in [Tasks -> Seq(Tracked)] /\ Len(waitFor'[t]) <= MaxWaits
      /\ \A u \in Tasks : u # t => waitFor'[u] = waitFor[u]
  <2>1. waitFor[t] \in Seq(Tracked) /\ waitFor \in [Tasks -> Seq(Tracked)]
    BY <1>2 DEF GraphInv, TypeOK, Shape
  <2>2. Append(waitFor[t], e) \in Seq(Tracked) /\ Len(Append(waitFor[t], e)) = Len(waitFor[t]) + 1
    BY <2>1
  <2>3. Len(waitFor[t]) \in Nat /\ MaxWaits \in Nat
    BY <2>1, GraphAssumption
  <2>4. QED
    BY <1>1, <1>2, <2>1, <2>2, <2>3
<1>5. TypeOK'
  BY <1>1, <1>4 DEF GraphInv, TypeOK, Shape
<1>6. /\ ListInv' /\ CountedOffInv'
      /\ \A x \in Jobs : Pending(x)' = Pending(x) /\ Positions(x)' = Positions(x)
  BY <1>1, ListsKept
<1>7. SetupInv'
  BY <1>1, SetUpKept DEF GraphInv, SetupInv
<1>8. CountIsExact'
  BY <1>1, <1>6 DEF GraphInv, CountIsExact
<1>9. OwnerInv'
  <2>1. OwnerInv
    BY DEF GraphInv
  <2>2. QED
    BY <1>1, <1>3, <1>4, <2>1 DEF OwnerInv
<1>10. FiresAfterWaits'
  <2>1. \A u \in Tracked : u \in Tasks /\ (closed[u] => u # t)
    BY <1>3 DEF Tracked
  <2>2. \A u \in Tracked : closed[u] => Awaited(u)' = Awaited(u)
    BY <1>1, <1>4, <2>1, AwaitedKept
  <2>3. QED
    BY <1>1, <2>2 DEF GraphInv, FiresAfterWaits
<1>11. QED
  BY <1>5, <1>6, <1>7, <1>8, <1>9, <1>10 DEF GraphInv

-----------------------------------------------------------------------------
(* Steps that count                                                         *)

(* A job that is set up or waits owns no event that could fire.             *)
LEMMA OwnersKept ==
  ASSUME GraphInv, NEW x \in Jobs, UNCHANGED <<prereqs, closed, waitFor>>,
         life[x] \in {"setup", "pending"}, life'[x] \in {"setup", "pending", "queued"},
         \A y \in Jobs : y # x => life'[y] = life[y]
  PROVE  OwnerInv' /\ FiresAfterWaits'
<1>1. OwnerInv
  BY DEF GraphInv
<1>2. \A y \in Jobs : life'[y] = "none" <=> life[y] = "none"
  OBVIOUS
<1>3. OwnerInv'
  <2>1. ASSUME NEW t \in Tasks
        PROVE  /\ Len(waitFor'[t]) <= MaxWaits
               /\ life'[t] \in {"dispatch", "gathering", "closing"} => t \notin Forget
               /\ life'[t] = "dispatch" => ~closed'[t]
               /\ closed'[t] => life'[t] \in {"gathering", "closing", "dead"}
    BY <1>1, JobKinds DEF OwnerInv
  <2>2. ASSUME NEW t \in Tasks, life'[GatherOf[t]] # "none"
        PROVE  /\ t \notin Forget
               /\ life'[t] \in {"gathering", "dead"}
               /\ waitFor'[t] = <<>>
               /\ closed'[t] => life'[GatherOf[t]] \in {"gathering", "closing", "dead"}
    BY <1>1, <1>2, <2>2, JobKinds DEF OwnerInv
  <2>3. QED
    BY <1>1, <1>2, <2>1, <2>2, JobKinds DEF OwnerInv
<1>4. FiresAfterWaits'
  <2>1. \A t \in Tracked : t \in Tasks /\ t \in Jobs /\ GatherOf[t] \in Jobs
    BY JobKinds DEF Tracked
  <2>2. \A t \in Tracked : Awaited(t)' = Awaited(t)
    BY <1>2, <2>1, AwaitedKept
  <2>3. QED
    BY <2>1, <2>2 DEF GraphInv, FiresAfterWaits
<1>5. QED
  BY <1>3, <1>4

LEMMA UnlockInv ==
  ASSUME GraphInv, NEW t \in Tasks, Unlock(t)
  PROVE  GraphInv'
<1>1. /\ UNCHANGED <<creator, prereqs, next, missed, held, subsequents, closed, waitFor, newTasks>>
      /\ locked[t] /\ life[t] = "pending"
      /\ locked' = [locked EXCEPT ![t] = FALSE]
      /\ outstanding' = [outstanding EXCEPT ![t] = outstanding[t] - 1]
      /\ life' = IF outstanding[t] = 1 THEN [life EXCEPT ![t] = "queued"] ELSE life
  BY DEF Unlock, ConditionalQueueTask, setupVars, eventVars
<1>2. t \in Jobs
  BY JobKinds
<1>3. /\ life \in [Jobs -> Stages] /\ locked \in [Jobs -> BOOLEAN]
      /\ outstanding \in [Jobs -> Nat]
      /\ outstanding[t] = Cardinality(Pending(t)) + 1 /\ Cardinality(Pending(t)) \in Nat
  BY <1>1, <1>2, PendingCount DEF GraphInv, TypeOK, Shape, CountIsExact
<1>4. /\ outstanding'[t] = Cardinality(Pending(t)) /\ locked'[t] = FALSE
      /\ life'[t] = IF outstanding'[t] = 0 THEN "queued" ELSE "pending"
      /\ \A y \in Jobs : y # t => /\ outstanding'[y] = outstanding[y]
                                  /\ locked'[y] = locked[y] /\ life'[y] = life[y]
  BY <1>1, <1>2, <1>3
<1>5. TypeOK'
  <2>1. /\ life' \in [Jobs -> Stages] /\ locked' \in [Jobs -> BOOLEAN]
        /\ outstanding' \in [Jobs -> Nat]
    BY <1>1, <1>2, <1>3 DEF Stages
  <2>2. outstanding' \in [Jobs -> Int]
    BY <2>1
  <2>3. QED
    BY <1>1, <2>1, <2>2 DEF GraphInv, TypeOK, Shape
<1>6. /\ ListInv' /\ CountedOffInv'
      /\ \A x \in Jobs : Pending(x)' = Pending(x) /\ Positions(x)' = Positions(x)
  <2>1. \A y \in Jobs : life[y] = "closing" /\ newTasks[y] # {} => life'[y] = "closing"
    BY <1>1, <1>4
  <2>2. QED
    BY <1>1, <2>1, ListsKept
<1>7. SetupInv'
  <2>1. ASSUME NEW y \in Jobs PROVE SetUp(y)'
    <3>1. SetUp(y)
      BY DEF GraphInv, SetupInv
    <3>2. CASE y = t
      BY <1>1, <1>4, <3>1, <3>2 DEF SetUp, Positions
    <3>3. CASE y # t
      BY <1>1, <1>4, <3>1, <3>3, SetUpKept
    <3>4. QED
      BY <3>2, <3>3
  <2>2. QED
    BY <2>1 DEF SetupInv
<1>8. CountIsExact'
  <2>1. ASSUME NEW y \in Jobs, life'[y] # "none"
        PROVE  outstanding'[y] = Cardinality(Pending(y)') + (IF locked'[y] THEN 1 ELSE 0)
    <3>1. CASE y = t
      BY <1>3, <1>4, <1>6, <3>1
    <3>2. CASE y # t
      BY <1>4, <1>6, <2>1, <3>2 DEF GraphInv, CountIsExact
    <3>3. QED
      BY <3>1, <3>2
  <2>2. QED
    BY <2>1 DEF CountIsExact
<1>9. OwnerInv' /\ FiresAfterWaits'
  BY <1>1, <1>2, <1>4, OwnersKept
<1>10. QED
  BY <1>5, <1>6, <1>7, <1>8, <1>9 DEF GraphInv

LEMMA PrerequisitesCompleteInv ==
  ASSUME GraphInv, NEW x \in Jobs, PrerequisitesComplete(x)
  PROVE  GraphInv'
<1>1. /\ UNCHANGED <<creator, prereqs, next, held, subsequents, closed, waitFor, newTasks>>
      /\ life[x] = "setup" /\ next[x] > Len(prereqs[x])
      /\ outstanding' = [outstanding EXCEPT ![x] = outstanding[x] - NumToSub(x)]
      /\ life' = [life EXCEPT ![x] =
                     IF outstanding[x] = NumToSub(x) THEN "queued" ELSE "pending"]
      /\ missed' = [missed EXCEPT ![x] = {}]
      /\ locked' = [locked EXCEPT ![x] = held[x]]
  BY DEF PrerequisitesComplete, eventVars
<1>2. /\ life \in [Jobs -> Stages] /\ locked \in [Jobs -> BOOLEAN]
      /\ held \in [Jobs -> BOOLEAN] /\ missed \in [Jobs -> SUBSET Slots]
      /\ next \in [Jobs -> Nat \ {0}] /\ Len(prereqs[x]) \in Nat
      /\ outstanding \in [Jobs -> Nat]
  BY PendingCount DEF GraphInv, TypeOK, Shape
<1>3. /\ locked[x] /\ next[x] = Len(prereqs[x]) + 1 /\ missed[x] \subseteq Positions(x)
  BY <1>1, <1>2 DEF GraphInv, SetupInv, SetUp
<1>4. /\ missed'[x] = {} /\ locked'[x] = held[x]
      /\ outstanding'[x] = outstanding[x] - NumToSub(x)
      /\ life'[x] = IF outstanding[x] = NumToSub(x) THEN "queued" ELSE "pending"
      /\ \A y \in Jobs : y # x => /\ outstanding'[y] = outstanding[y]
                                  /\ locked'[y] = locked[y] /\ life'[y] = life[y]
                                  /\ missed'[y] = missed[y]
  BY <1>1, <1>2
<1>5. /\ Pending(x)' = Pending(x) \ missed[x]
      /\ Positions(x)' = Positions(x)
      /\ \A y \in Jobs : y # x => Pending(y)' = Pending(y) /\ Positions(y)' = Positions(y)
  <2>1. \A k \in Positions(x) : Registered(x, k) => k \notin missed[x]
    BY ListedIsPending DEF GraphInv, SetupInv, SetUp
  <2>2. \A k \in Positions(x) : ~(k >= next[x])
    BY <1>2, <1>3 DEF Positions
  <2>3. Positions(x)' = Positions(x) /\ \A k \in Positions(x) : Registered(x, k)' <=> Registered(x, k)
    BY <1>1 DEF Positions, Registered
  <2>4. Pending(x)' = {k \in Positions(x) : Registered(x, k)}
    BY <1>1, <1>4, <2>2, <2>3 DEF Pending
  <2>5. Pending(x) = {k \in Positions(x) : k \in missed[x] \/ Registered(x, k)}
    BY <2>2 DEF Pending
  <2>6. \A y \in Jobs : y # x => Pending(y)' = Pending(y) /\ Positions(y)' = Positions(y)
    BY <1>1, <1>4, SamePending
  <2>7. QED
    BY <2>1, <2>3, <2>4, <2>5, <2>6
<1>6. outstanding'[x] = Cardinality(Pending(x)') + (IF locked'[x] THEN 1 ELSE 0)
  <2>1. missed[x] \subseteq Pending(x)
    BY <1>3 DEF Pending
  <2>2. Pending(x) \cap missed[x] = missed[x]
    BY <2>1
  <2>3. IsFiniteSet(Pending(x)) /\ Cardinality(Pending(x)) \in Nat
    BY PendingCount DEF GraphInv, TypeOK
  <2>4. Cardinality(missed[x]) \in Nat
    BY <2>1, <2>3, FS_Subset, FS_CardinalityType
  <2>5. Cardinality(Pending(x)') = Cardinality(Pending(x)) - Cardinality(missed[x])
    BY <1>5, <2>2, <2>3, FS_Difference
  <2>6. outstanding[x] = Cardinality(Pending(x)) + 1
    BY <1>1, <1>3 DEF GraphInv, CountIsExact
  <2>7. held[x] \in BOOLEAN
    BY <1>2
  <2>8. QED
    BY <1>4, <2>3, <2>4, <2>5, <2>6, <2>7 DEF NumToSub
<1>7. /\ outstanding'[x] \in Nat
      /\ life'[x] = IF outstanding'[x] = 0 THEN "queued" ELSE "pending"
  <2>1. Pending(x)' \in SUBSET (1 .. Len(prereqs[x]))
    BY <1>5 DEF Pending, Positions
  <2>2. Cardinality(Pending(x)') \in Nat
    BY <1>2, <2>1, FiniteUpTo
  <2>3. outstanding'[x] \in Nat
    BY <1>6, <2>2
  <2>4. Cardinality(missed[x]) \in Nat
    BY <1>2, <1>3, FiniteUpTo DEF Positions
  <2>5. NumToSub(x) \in Nat /\ outstanding[x] \in Nat
    BY <1>2, <2>4 DEF NumToSub
  <2>6. QED
    BY <1>4, <2>3, <2>5
<1>8. TypeOK'
  <2>1. /\ life' \in [Jobs -> Stages] /\ locked' \in [Jobs -> BOOLEAN]
        /\ missed' \in [Jobs -> SUBSET Slots]
    BY <1>1, <1>2 DEF Stages
  <2>2. outstanding' \in [Jobs -> Nat]
    BY <1>1, <1>2, <1>4, <1>7
  <2>3. outstanding' \in [Jobs -> Int]
    BY <2>2
  <2>4. QED
    BY <1>1, <2>1, <2>2, <2>3 DEF GraphInv, TypeOK, Shape
<1>9. SetupInv'
  <2>1. ASSUME NEW y \in Jobs PROVE SetUp(y)'
    <3>1. SetUp(y)
      BY DEF GraphInv, SetupInv
    <3>2. CASE y = x
      BY <1>1, <1>3, <1>4, <1>7, <3>1, <3>2 DEF SetUp, Positions
    <3>3. CASE y # x
      BY <1>1, <1>4, <3>1, <3>3, SetUpKept
    <3>4. QED
      BY <3>2, <3>3
  <2>2. QED
    BY <2>1 DEF SetupInv
<1>10. ListInv'
  <2>1. ListInv /\ \A y \in Jobs : missed'[y] \subseteq missed[y] /\ Positions(y)' = Positions(y)
    BY <1>4, <1>5 DEF GraphInv
  <2>2. \A y \in Jobs : life[y] = "closing" => life'[y] = "closing"
    BY <1>1, <1>4
  <2>3. \A y \in Jobs : \A k \in missed'[y] : k < next'[y] /\ closed'[prereqs'[y][k]]
    BY <1>1, <2>1 DEF ListInv
  <2>4. ASSUME NEW e \in Tasks, NEW y \in Jobs, NEW k \in Slots, <<y, k>> \in subsequents'[e]
        PROVE  /\ k \in Positions(y)' /\ k < next'[y] /\ k \notin missed'[y]
               /\ prereqs'[y][k] = e /\ ~closed'[e]
    BY <1>1, <2>1, <2>4 DEF ListInv
  <2>5. ASSUME NEW z \in Jobs, NEW y \in Jobs, NEW k \in Slots, <<y, k>> \in newTasks'[z]
        PROVE  /\ k \in Positions(y)' /\ k < next'[y] /\ k \notin missed'[y]
               /\ prereqs'[y][k] = EventOf(z) /\ closed'[EventOf(z)]
               /\ life'[z] = "closing"
    BY <1>1, <2>1, <2>2, <2>5 DEF ListInv
  <2>6. QED
    BY <2>3, <2>4, <2>5 DEF ListInv
<1>11. CountIsExact'
  <2>1. ASSUME NEW y \in Jobs, life'[y] # "none"
        PROVE  outstanding'[y] = Cardinality(Pending(y)') + (IF locked'[y] THEN 1 ELSE 0)
    <3>1. CASE y = x
      BY <1>6, <3>1
    <3>2. CASE y # x
      BY <1>4, <1>5, <2>1, <3>2 DEF GraphInv, CountIsExact
    <3>3. QED
      BY <3>1, <3>2
  <2>2. QED
    BY <2>1 DEF CountIsExact
<1>12. CountedOffInv'
  <2>1. ASSUME NEW y \in Jobs, NEW k \in Positions(y)'
        PROVE  k \in Pending(y)' \/ closed'[prereqs'[y][k]]
    <3>1. k \in Positions(y) /\ (k \in Pending(y) \/ closed[prereqs[y][k]])
      BY <1>5, <2>1 DEF GraphInv, CountedOffInv
    <3>2. k \in missed[y] => closed[prereqs[y][k]]
      BY DEF GraphInv, ListInv
    <3>3. k \in Pending(y) => k \in Pending(y)' \/ k \in missed[y]
      BY <1>5
    <3>4. QED
      BY <1>1, <3>1, <3>2, <3>3
  <2>2. QED
    BY <2>1 DEF CountedOffInv
<1>13. OwnerInv' /\ FiresAfterWaits'
  BY <1>1, <1>4, OwnersKept
<1>14. QED
  BY <1>8, <1>9, <1>10, <1>11, <1>12, <1>13 DEF GraphInv

LEMMA AddSubsequentInv ==
  ASSUME GraphInv, NEW x \in Jobs, AddSubsequent(x)
  PROVE  GraphInv'
<1> DEFINE n == next[x]
           e == prereqs[x][n]
<1>1. /\ UNCHANGED <<life, creator, prereqs, locked, held, outstanding, closed,
                    waitFor, newTasks>>
      /\ life[x] = "setup" /\ n <= Len(prereqs[x])
      /\ next' = [next EXCEPT ![x] = n + 1]
      /\ \/ /\ closed[e]
            /\ missed' = [missed EXCEPT ![x] = missed[x] \cup {n}]
            /\ UNCHANGED subsequents
         \/ /\ ~closed[e]
            /\ subsequents' = [subsequents EXCEPT ![e] = subsequents[e] \cup {<<x, n>>}]
            /\ UNCHANGED missed
  BY DEF AddSubsequent
<1>2. /\ next \in [Jobs -> Nat \ {0}] /\ missed \in [Jobs -> SUBSET Slots]
      /\ subsequents \in [Tasks -> SUBSET Entries] /\ prereqs[x] \in Seq(Tracked)
      /\ n \in Nat \ {0}
  BY DEF GraphInv, TypeOK, Shape
<1>3. /\ n \in Positions(x) /\ n \in Slots /\ n \in Nat /\ e \in Tasks
      /\ \A y \in Jobs : Positions(y) \subseteq Slots
  <2>1. n \in Positions(x)
    BY <1>1, <1>2 DEF Positions
  <2>2. e \in Tracked
    BY <1>2, <2>1 DEF Positions
  <2>3. QED
    BY <1>2, <2>1, <2>2 DEF GraphInv, SetupInv, SetUp, Tracked
<1>4. ListInv
  BY DEF GraphInv
<1>5. /\ next'[x] = n + 1 /\ missed'[x] \subseteq missed[x] \cup {n}
      /\ missed[x] \subseteq missed'[x]
      /\ n \in missed'[x] => closed[e]
      /\ \A y \in Jobs : y # x => next'[y] = next[y] /\ missed'[y] = missed[y]
      /\ \A y \in Jobs : Positions(y)' = Positions(y)
  <2>1. \A k \in missed[x] : k < n
    BY <1>4 DEF ListInv
  <2>2. n \notin missed[x]
    BY <1>2, <2>1
  <2>3. \A y \in Jobs : Positions(y)' = Positions(y)
    BY <1>1 DEF Positions
  <2>4. QED
    BY <1>1, <1>2, <2>2, <2>3
<1>6. \A d \in Tasks, y \in Jobs, k \in Slots :
        <<y, k>> \in subsequents'[d] <=>
          \/ <<y, k>> \in subsequents[d]
          \/ (n \notin missed'[x] /\ d = e /\ y = x /\ k = n)
  <2>1. n \notin missed[x]
    BY <1>2, <1>4 DEF ListInv
  <2>2. CASE closed[e]
    BY <1>1, <1>2, <1>3, <2>1, <2>2
  <2>3. CASE ~closed[e]
    <3>1. /\ subsequents'[e] = subsequents[e] \cup {<<x, n>>} /\ missed' = missed
          /\ \A d \in Tasks : d # e => subsequents'[d] = subsequents[d]
      BY <1>1, <1>2, <1>3, <2>3
    <3>2. \A y \in Jobs, k \in Slots : <<y, k>> = <<x, n>> <=> y = x /\ k = n
      OBVIOUS
    <3>3. QED
      BY <2>1, <3>1, <3>2
  <2>4. QED
    BY <2>2, <2>3
<1>7. \A y \in Jobs, k \in Slots :
        Registered(y, k)' <=> (Registered(y, k) \/ (n \notin missed'[x] /\ y = x /\ k = n))
  <2>1. ASSUME NEW y \in Jobs, NEW k \in Slots
        PROVE  (\E d \in Tasks : <<y, k>> \in subsequents'[d])
                 <=> \/ \E d \in Tasks : <<y, k>> \in subsequents[d]
                     \/ (n \notin missed'[x] /\ y = x /\ k = n)
    BY <1>3, <1>6
  <2>2. QED
    BY <1>1, <2>1 DEF Registered
<1>8. \A y \in Jobs : Pending(y)' = Pending(y)
  <2>1. ASSUME NEW y \in Jobs, y # x PROVE Pending(y)' = Pending(y)
    <3>1. \A k \in Positions(y) : Registered(y, k)' <=> Registered(y, k)
      BY <1>3, <1>7, <2>1
    <3>2. QED
      BY <1>5, <2>1, <3>1 DEF Pending
  <2>2. ASSUME NEW k \in Positions(x)
        PROVE  (k >= next'[x] \/ k \in missed'[x] \/ Registered(x, k)')
                 <=> (k >= next[x] \/ k \in missed[x] \/ Registered(x, k))
    <3>1. k \in Nat /\ k \in Slots
      BY <1>3 DEF Positions
    <3>2. CASE k = n
      BY <1>5, <1>7, <3>1, <3>2
    <3>3. CASE k # n
      <4>1. k >= n + 1 <=> k >= n
        BY <1>2, <3>1, <3>3
      <4>2. k \in missed'[x] <=> k \in missed[x]
        BY <1>5, <3>3
      <4>3. QED
        BY <1>5, <1>7, <3>1, <3>3, <4>1, <4>2
    <3>4. QED
      BY <3>2, <3>3
  <2>3. Pending(x)' = Pending(x)
    BY <1>5, <2>2 DEF Pending
  <2>4. QED
    BY <2>1, <2>3
<1>9. TypeOK'
  <2>1. /\ next' \in [Jobs -> Nat \ {0}] /\ missed' \in [Jobs -> SUBSET Slots]
    BY <1>1, <1>2, <1>3
  <2>2. subsequents' \in [Tasks -> SUBSET Entries]
    BY <1>1, <1>2, <1>3 DEF Entries
  <2>3. QED
    BY <1>1, <2>1, <2>2 DEF GraphInv, TypeOK, Shape
<1>10. SetupInv'
  <2>1. ASSUME NEW y \in Jobs PROVE SetUp(y)'
    <3>1. SetUp(y)
      BY DEF GraphInv, SetupInv
    <3>2. CASE y = x
      <4>1. Len(prereqs[x]) \in Nat /\ n + 1 <= Len(prereqs[x]) + 1
        BY <1>1, <1>2
      <4>2. missed'[x] \subseteq Positions(x)
        BY <1>3, <1>5, <3>1, <3>2 DEF SetUp
      <4>3. QED
        BY <1>1, <1>5, <3>1, <3>2, <4>1, <4>2 DEF SetUp
    <3>3. CASE y # x
      BY <1>1, <1>5, <3>1, <3>3, SetUpKept
    <3>4. QED
      BY <3>2, <3>3
  <2>2. QED
    BY <2>1 DEF SetupInv
<1>11. ListInv'
  <2>1. ASSUME NEW y \in Jobs, NEW k \in missed'[y]
        PROVE  k < next'[y] /\ closed'[prereqs'[y][k]]
    <3>1. CASE y = x /\ k = n
      BY <1>1, <1>2, <1>5, <2>1, <3>1
    <3>2. CASE y = x /\ k # n
      <4>1. k \in missed[x] /\ k \in Slots
        BY <1>2, <1>5, <2>1, <3>2
      <4>2. k < n /\ closed[prereqs[x][k]] /\ k \in Nat
        BY <1>4, <4>1, SlotBounds DEF ListInv
      <4>3. QED
        BY <1>1, <1>2, <1>5, <3>2, <4>2
    <3>3. CASE y # x
      BY <1>1, <1>4, <1>5, <2>1, <3>3 DEF ListInv
    <3>4. QED
      BY <3>1, <3>2, <3>3
  <2>2. ASSUME NEW y \in Jobs, NEW k \in Slots, k < next[y], k \notin missed[y]
        PROVE  k < next'[y] /\ k \notin missed'[y]
    <3>1. k \in Nat /\ next[y] \in Nat
      BY <1>2, SlotBounds
    <3>2. QED
      BY <1>2, <1>5, <2>2, <3>1
  <2>3. ASSUME NEW d \in Tasks, NEW y \in Jobs, NEW k \in Slots, <<y, k>> \in subsequents'[d]
        PROVE  /\ k \in Positions(y)' /\ k < next'[y] /\ k \notin missed'[y]
               /\ prereqs'[y][k] = d /\ ~closed'[d]
    <3>1. CASE <<y, k>> \in subsequents[d]
      BY <1>1, <1>4, <1>5, <2>2, <3>1 DEF ListInv
    <3>2. CASE n \notin missed'[x] /\ d = e /\ y = x /\ k = n
      <4>1. ~closed[e]
        BY <1>1, <1>2, <3>2
      <4>2. n < n + 1
        BY <1>2
      <4>3. QED
        BY <1>1, <1>3, <1>5, <3>2, <4>1, <4>2
    <3>3. QED
      BY <1>6, <2>3, <3>1, <3>2
  <2>4. ASSUME NEW z \in Jobs, NEW y \in Jobs, NEW k \in Slots, <<y, k>> \in newTasks'[z]
        PROVE  /\ k \in Positions(y)' /\ k < next'[y] /\ k \notin missed'[y]
               /\ prereqs'[y][k] = EventOf(z) /\ closed'[EventOf(z)]
               /\ life'[z] = "closing"
    BY <1>1, <1>4, <1>5, <2>2, <2>4 DEF ListInv
  <2>5. QED
    BY <2>1, <2>3, <2>4 DEF ListInv
<1>12. CountIsExact'
  BY <1>1, <1>8 DEF GraphInv, CountIsExact
<1>13. CountedOffInv'
  BY <1>1, <1>5, <1>8 DEF GraphInv, CountedOffInv
<1>14. OwnerInv' /\ FiresAfterWaits'
  BY <1>1, OwnersKept
<1>15. QED
  BY <1>9, <1>10, <1>11, <1>12, <1>13, <1>14 DEF GraphInv

-----------------------------------------------------------------------------
(* Dispatching the subsequents                                              *)

(* Two jobs never work off the list of one event.                           *)
LEMMA OneCloser ==
  ASSUME OwnerInv, NEW y \in Jobs, NEW z \in Jobs, life[y] = "closing", life[z] = "closing",
         EventOf(y) = EventOf(z)
  PROVE  y = z
<1> DEFINE t == EventOf(y)
<1>1. /\ t \in Tasks /\ (y = t \/ y = GatherOf[t]) /\ (z = t \/ z = GatherOf[t])
  BY EventOfJob
<1>2. life[GatherOf[t]] # "none" => life[t] \in {"gathering", "dead"}
  BY <1>1 DEF OwnerInv
<1>3. QED
  BY <1>1, <1>2

LEMMA DispatchSubsequentInv ==
  ASSUME GraphInv, NEW w \in Jobs, NEW entry \in newTasks[w], DispatchSubsequent(w, entry)
  PROVE  GraphInv'
<1>1. PICK x \in Jobs, k \in Slots : entry = <<x, k>>
  BY DEF GraphInv, TypeOK, Shape, Entries
<1>2. /\ UNCHANGED <<creator, prereqs, next, missed, held, locked, subsequents, closed, waitFor>>
      /\ <<x, k>> \in newTasks[w]
      /\ newTasks' = [newTasks EXCEPT ![w] = newTasks[w] \ {<<x, k>>}]
      /\ outstanding' = [outstanding EXCEPT ![x] = outstanding[x] - 1]
      /\ life' = IF outstanding[x] = 1 THEN [life EXCEPT ![x] = "queued"] ELSE life
  BY <1>1 DEF DispatchSubsequent, ConditionalQueueTask, setupVars
<1>3. Registered(x, k)
  BY <1>2 DEF Registered
<1>4. /\ k \in Pending(x) /\ k < next[x] /\ k \in Positions(x) /\ k \notin missed[x]
      /\ life[x] \in {"setup", "pending"}
  BY <1>3, ListedIsPending
<1>5. /\ life \in [Jobs -> Stages] /\ outstanding \in [Jobs -> Nat]
      /\ newTasks \in [Jobs -> SUBSET Entries] /\ next[x] \in Nat /\ k \in Nat
      /\ ListInv /\ OwnerInv /\ CountIsExact
  BY SlotBounds DEF GraphInv, TypeOK, Shape
<1>6. /\ prereqs[x][k] = EventOf(w) /\ closed[EventOf(w)] /\ life[w] = "closing"
  BY <1>2, <1>5 DEF ListInv
<1>7. /\ \A e \in Tasks : <<x, k>> \notin subsequents[e]
      /\ \A y \in Jobs : <<x, k>> \in newTasks[y] => y = w
  <2>1. ASSUME NEW e \in Tasks, <<x, k>> \in subsequents[e] PROVE FALSE
    <3>1. prereqs[x][k] = e /\ ~closed[e]
      BY <1>5, <2>1 DEF ListInv
    <3>2. QED
      BY <1>6, <3>1
  <2>2. ASSUME NEW y \in Jobs, <<x, k>> \in newTasks[y] PROVE y = w
    <3>1. prereqs[x][k] = EventOf(y) /\ life[y] = "closing"
      BY <1>5, <2>2 DEF ListInv
    <3>2. QED
      BY <1>5, <1>6, <3>1, OneCloser
  <2>3. QED
    BY <2>1, <2>2
<1>8. \A y \in Jobs : newTasks'[y] = newTasks[y] \ {<<x, k>>}
  BY <1>2, <1>5, <1>7
<1>9. \A z \in Jobs, j \in Slots :
        Registered(z, j)' <=> (Registered(z, j) /\ <<z, j>> # <<x, k>>)
  <2>1. ASSUME NEW z \in Jobs, NEW j \in Slots
        PROVE  /\ \A y \in Jobs : <<z, j>> \in newTasks'[y] <=>
                   (<<z, j>> \in newTasks[y] /\ <<z, j>> # <<x, k>>)
               /\ \A e \in Tasks : <<z, j>> \in subsequents'[e] <=>
                   (<<z, j>> \in subsequents[e] /\ <<z, j>> # <<x, k>>)
    BY <1>2, <1>7, <1>8
  <2>2. QED
    BY <2>1 DEF Registered
<1>10. \A y \in Jobs : Positions(y)' = Positions(y) /\ Positions(y) \subseteq Slots
  BY <1>2 DEF Positions, GraphInv, SetupInv, SetUp
<1>11. /\ Pending(x)' = Pending(x) \ {k}
       /\ \A y \in Jobs : y # x => Pending(y)' = Pending(y)
  <2>1. ASSUME NEW y \in Jobs, y # x PROVE Pending(y)' = Pending(y)
    <3>1. \A j \in Positions(y) : Registered(y, j)' <=> Registered(y, j)
      BY <1>9, <1>10, <2>1
    <3>2. QED
      BY <1>2, <1>10, <3>1 DEF Pending
  <2>2. ASSUME NEW j \in Positions(x)
        PROVE  (j >= next'[x] \/ j \in missed'[x] \/ Registered(x, j)')
                 <=> ((j >= next[x] \/ j \in missed[x] \/ Registered(x, j)) /\ j # k)
    <3>1. j \in Slots /\ (<<x, j>> = <<x, k>> <=> j = k)
      BY <1>10
    <3>2. ~(k >= next[x])
      BY <1>4, <1>5
    <3>3. QED
      BY <1>2, <1>4, <1>9, <3>1, <3>2
  <2>3. QED
    BY <1>10, <2>1, <2>2 DEF Pending
<1>12. /\ outstanding[x] = Cardinality(Pending(x)) + (IF locked[x] THEN 1 ELSE 0)
       /\ Cardinality(Pending(x)') = Cardinality(Pending(x)) - 1
       /\ Cardinality(Pending(x)) \in Nat /\ Cardinality(Pending(x)') \in Nat
  <2>1. IsFiniteSet(Pending(x)) /\ Cardinality(Pending(x)) \in Nat
    BY PendingCount DEF GraphInv, TypeOK
  <2>2. /\ IsFiniteSet(Pending(x) \ {k})
        /\ Cardinality(Pending(x) \ {k}) = Cardinality(Pending(x)) - 1
    BY <1>4, <2>1, FS_RemoveElement
  <2>3. Cardinality(Pending(x) \ {k}) \in Nat
    BY <2>2, FS_CardinalityType
  <2>4. life[x] # "none"
    BY <1>4
  <2>5. QED
    BY <1>5, <1>11, <2>1, <2>2, <2>3, <2>4 DEF CountIsExact
<1>13. /\ outstanding'[x] = Cardinality(Pending(x)') + (IF locked[x] THEN 1 ELSE 0)
       /\ outstanding'[x] \in Nat
       /\ life'[x] = IF outstanding'[x] = 0 THEN "queued" ELSE life[x]
       /\ \A y \in Jobs : y # x => outstanding'[y] = outstanding[y] /\ life'[y] = life[y]
  <2>1. /\ outstanding'[x] = outstanding[x] - 1
        /\ \A y \in Jobs : y # x => outstanding'[y] = outstanding[y]
    BY <1>2, <1>5
  <2>2. /\ outstanding'[x] = Cardinality(Pending(x)') + (IF locked[x] THEN 1 ELSE 0)
        /\ outstanding'[x] \in Nat
    BY <1>12, <2>1
  <2>3. outstanding[x] = 1 <=> outstanding'[x] = 0
    BY <1>5, <2>1
  <2>4. /\ life'[x] = IF outstanding[x] = 1 THEN "queued" ELSE life[x]
        /\ \A y \in Jobs : y # x => life'[y] = life[y]
    BY <1>2, <1>5
  <2>5. QED
    BY <2>1, <2>2, <2>3, <2>4
<1>14. life[x] = "setup" => locked[x] /\ outstanding'[x] # 0
  <2>1. life[x] = "setup" => locked[x]
    BY DEF GraphInv, SetupInv, SetUp
  <2>2. QED
    BY <1>12, <1>13, <2>1
<1>15. TypeOK'
  <2>1. /\ life' \in [Jobs -> Stages] /\ outstanding' \in [Jobs -> Nat]
        /\ newTasks' \in [Jobs -> SUBSET Entries]
    BY <1>2, <1>5, <1>13 DEF Stages
  <2>2. outstanding' \in [Jobs -> Int]
    BY <2>1
  <2>3. QED
    BY <1>2, <2>1, <2>2 DEF GraphInv, TypeOK, Shape
<1>16. SetupInv'
  <2>1. ASSUME NEW y \in Jobs PROVE SetUp(y)'
    <3>1. SetUp(y)
      BY DEF GraphInv, SetupInv
    <3>2. CASE y = x
      BY <1>2, <1>4, <1>13, <1>14, <3>1, <3>2 DEF SetUp, Positions
    <3>3. CASE y # x
      BY <1>2, <1>13, <3>1, <3>3, SetUpKept
    <3>4. QED
      BY <3>2, <3>3
  <2>2. QED
    BY <2>1 DEF SetupInv
<1>17. ListInv'
  <2>1. \A y \in Jobs : \A j \in missed'[y] : j < next'[y] /\ closed'[prereqs'[y][j]]
    BY <1>2, <1>5 DEF ListInv
  <2>2. ASSUME NEW d \in Tasks, NEW y \in Jobs, NEW j \in Slots, <<y, j>> \in subsequents'[d]
        PROVE  /\ j \in Positions(y)' /\ j < next'[y] /\ j \notin missed'[y]
               /\ prereqs'[y][j] = d /\ ~closed'[d]
    BY <1>2, <1>5, <1>10, <2>2 DEF ListInv
  <2>3. ASSUME NEW z \in Jobs, NEW y \in Jobs, NEW j \in Slots, <<y, j>> \in newTasks'[z]
        PROVE  /\ j \in Positions(y)' /\ j < next'[y] /\ j \notin missed'[y]
               /\ prereqs'[y][j] = EventOf(z) /\ closed'[EventOf(z)]
               /\ life'[z] = "closing"
    <3>1. <<y, j>> \in newTasks[z]
      BY <1>8, <2>3
    <3>2. life[z] = "closing" => life'[z] = "closing"
      BY <1>4, <1>13
    <3>3. QED
      BY <1>2, <1>5, <1>10, <3>1, <3>2 DEF ListInv
  <2>4. QED
    BY <2>1, <2>2, <2>3 DEF ListInv
<1>18. CountIsExact'
  <2>1. ASSUME NEW y \in Jobs, life'[y] # "none"
        PROVE  outstanding'[y] = Cardinality(Pending(y)') + (IF locked'[y] THEN 1 ELSE 0)
    <3>1. CASE y = x
      BY <1>2, <1>13, <3>1
    <3>2. CASE y # x
      BY <1>2, <1>5, <1>11, <1>13, <2>1, <3>2 DEF CountIsExact
    <3>3. QED
      BY <3>1, <3>2
  <2>2. QED
    BY <2>1 DEF CountIsExact
<1>19. CountedOffInv'
  <2>1. ASSUME NEW y \in Jobs, NEW j \in Positions(y)'
        PROVE  j \in Pending(y)' \/ closed'[prereqs'[y][j]]
    <3>1. j \in Pending(y) \/ closed[prereqs[y][j]]
      BY <1>10, <2>1 DEF GraphInv, CountedOffInv
    <3>2. CASE y = x /\ j = k
      BY <1>2, <1>6, <3>2
    <3>3. CASE ~(y = x /\ j = k)
      BY <1>2, <1>11, <3>1, <3>3
    <3>4. QED
      BY <3>2, <3>3
  <2>2. QED
    BY <2>1 DEF CountedOffInv
<1>20. OwnerInv' /\ FiresAfterWaits'
  BY <1>2, <1>4, <1>13, OwnersKept
<1>21. QED
  BY <1>15, <1>16, <1>17, <1>18, <1>19, <1>20 DEF GraphInv

(* Whoever is about to close an event has nothing more to wait for.         *)
LEMMA NothingAwaited ==
  ASSUME GraphInv, NEW w \in Jobs, life[w] = "dispatch", waitFor[EventOf(w)] = <<>>
  PROVE  \A d \in Awaited(EventOf(w)) : closed[d]
<1> DEFINE e == EventOf(w)
<1>1. OwnerInv /\ e \in Tasks /\ (w = e \/ w = GatherOf[e])
  BY EventOfJob DEF GraphInv
<1>2. CASE w = e
  <2>1. life[GatherOf[e]] = "none"
    BY <1>1, <1>2 DEF OwnerInv
  <2>2. Awaited(e) = {}
    BY <2>1 DEF Awaited
  <2>3. QED
    BY <2>2
<1>3. CASE w = GatherOf[e]
  <2>1. outstanding[w] = 0 /\ life[w] # "none"
    BY DEF GraphInv, SetupInv, SetUp
  <2>2. Pending(w) = {}
    BY <2>1, CountCovers
  <2>3. \A k \in Positions(w) : closed[prereqs[w][k]]
    BY <2>2 DEF GraphInv, CountedOffInv
  <2>4. Awaited(e) = {prereqs[w][k] : k \in DOMAIN prereqs[w]}
    BY <1>3, <2>1 DEF Awaited
  <2>5. DOMAIN prereqs[w] = Positions(w)
    BY DEF GraphInv, TypeOK, Shape, Positions
  <2>6. QED
    BY <2>3, <2>4, <2>5
<1>4. QED
  BY <1>1, <1>2, <1>3

(* Closing an event moves its list to the job that closed it.               *)
LEMMA PopAllAndCloseInv ==
  ASSUME GraphInv, NEW w \in Jobs, PopAllAndClose(w)
  PROVE  GraphInv'
<1> DEFINE e == EventOf(w)
<1>1. /\ UNCHANGED <<creator, prereqs, next, missed, held, locked, outstanding, waitFor>>
      /\ life[w] = "dispatch" /\ waitFor[e] = <<>>
      /\ closed' = [closed EXCEPT ![e] = TRUE]
      /\ newTasks' = [newTasks EXCEPT ![w] = subsequents[e]]
      /\ subsequents' = [subsequents EXCEPT ![e] = {}]
      /\ life' = [life EXCEPT ![w] = "closing"]
  BY DEF PopAllAndClose, HasToWait, setupVars
<1>2. /\ life \in [Jobs -> Stages] /\ newTasks \in [Jobs -> SUBSET Entries]
      /\ subsequents \in [Tasks -> SUBSET Entries] /\ closed \in [Tasks -> BOOLEAN]
      /\ ListInv /\ OwnerInv /\ CountIsExact
  BY DEF GraphInv, TypeOK, Shape
<1>3. e \in Tasks /\ (w = e \/ w = GatherOf[e])
  BY <1>1, <1>2, EventOfJob
<1>4. /\ closed'[e] = TRUE /\ newTasks'[w] = subsequents[e] /\ subsequents'[e] = {}
      /\ life'[w] = "closing"
      /\ \A d \in Tasks : d # e => closed'[d] = closed[d] /\ subsequents'[d] = subsequents[d]
      /\ \A y \in Jobs : y # w => newTasks'[y] = newTasks[y] /\ life'[y] = life[y]
  BY <1>1, <1>2, <1>3
<1>5. /\ \A y \in Jobs, k \in Slots : <<y, k>> \notin newTasks[w]
      /\ \A y \in Jobs : \A k \in Positions(y) :
           k \in Slots /\ prereqs[y][k] \in Tasks
  <2>1. \A y \in Jobs, k \in Slots : <<y, k>> \notin newTasks[w]
    BY <1>1, <1>2 DEF ListInv
  <2>2. ASSUME NEW y \in Jobs, NEW k \in Positions(y) PROVE prereqs[y][k] \in Tasks
    <3>1. prereqs[y] \in Seq(Tracked)
      BY DEF GraphInv, TypeOK, Shape
    <3>2. QED
      BY <3>1 DEF Positions, Tracked
  <2>3. QED
    BY <2>1, <2>2 DEF GraphInv, SetupInv, SetUp
<1>6. \A y \in Jobs, k \in Slots : Registered(y, k)' <=> Registered(y, k)
  <2>1. ASSUME NEW y \in Jobs, NEW k \in Slots, Registered(y, k)
        PROVE  Registered(y, k)'
    <3>1. CASE \E d \in Tasks : <<y, k>> \in subsequents[d]
      BY <1>3, <1>4, <3>1 DEF Registered
    <3>2. CASE \E z \in Jobs : <<y, k>> \in newTasks[z]
      BY <1>4, <1>5, <3>2 DEF Registered
    <3>3. QED
      BY <2>1, <3>1, <3>2 DEF Registered
  <2>2. ASSUME NEW y \in Jobs, NEW k \in Slots, Registered(y, k)'
        PROVE  Registered(y, k)
    <3>1. CASE \E d \in Tasks : <<y, k>> \in subsequents'[d]
      BY <1>4, <3>1 DEF Registered
    <3>2. CASE \E z \in Jobs : <<y, k>> \in newTasks'[z]
      BY <1>3, <1>4, <3>2 DEF Registered
    <3>3. QED
      BY <2>2, <3>1, <3>2 DEF Registered
  <2>3. QED
    BY <2>1, <2>2
<1>7. \A y \in Jobs : Positions(y)' = Positions(y) /\ Pending(y)' = Pending(y)
  <2>1. ASSUME NEW y \in Jobs
        PROVE  /\ Positions(y)' = Positions(y)
               /\ \A k \in Positions(y) : Registered(y, k)' <=> Registered(y, k)
    BY <1>1, <1>5, <1>6 DEF Positions
  <2>2. QED
    BY <1>1, <2>1 DEF Pending
<1>8. TypeOK'
  <2>1. /\ life' \in [Jobs -> Stages] /\ newTasks' \in [Jobs -> SUBSET Entries]
        /\ subsequents' \in [Tasks -> SUBSET Entries] /\ closed' \in [Tasks -> BOOLEAN]
    BY <1>1, <1>2, <1>3 DEF Stages
  <2>2. QED
    BY <1>1, <2>1 DEF GraphInv, TypeOK, Shape
<1>9. SetupInv'
  <2>1. ASSUME NEW y \in Jobs PROVE SetUp(y)'
    <3>1. SetUp(y)
      BY DEF GraphInv, SetupInv
    <3>2. CASE y = w
      BY <1>1, <1>4, <3>1, <3>2 DEF SetUp, Positions
    <3>3. CASE y # w
      BY <1>1, <1>4, <3>1, <3>3, SetUpKept
    <3>4. QED
      BY <3>2, <3>3
  <2>2. QED
    BY <2>1 DEF SetupInv
<1>10. ListInv'
  <2>1. ASSUME NEW y \in Jobs, NEW k \in missed'[y]
        PROVE  k < next'[y] /\ closed'[prereqs'[y][k]]
    <3>1. k < next[y] /\ closed[prereqs[y][k]]
      BY <1>1, <1>2, <2>1 DEF ListInv
    <3>2. k \in Positions(y)
      BY <1>1, <2>1 DEF GraphInv, SetupInv, SetUp
    <3>3. prereqs[y][k] \in Tasks
      BY <1>5, <3>2
    <3>4. QED
      BY <1>1, <1>4, <3>1, <3>3
  <2>2. ASSUME NEW d \in Tasks, NEW y \in Jobs, NEW k \in Slots, <<y, k>> \in subsequents'[d]
        PROVE  /\ k \in Positions(y)' /\ k < next'[y] /\ k \notin missed'[y]
               /\ prereqs'[y][k] = d /\ ~closed'[d]
    <3>1. d # e /\ <<y, k>> \in subsequents[d]
      BY <1>4, <2>2
    <3>2. QED
      BY <1>1, <1>2, <1>4, <1>7, <3>1 DEF ListInv
  <2>3. ASSUME NEW z \in Jobs, NEW y \in Jobs, NEW k \in Slots, <<y, k>> \in newTasks'[z]
        PROVE  /\ k \in Positions(y)' /\ k < next'[y] /\ k \notin missed'[y]
               /\ prereqs'[y][k] = EventOf(z) /\ closed'[EventOf(z)]
               /\ life'[z] = "closing"
    <3>1. CASE z = w
      BY <1>1, <1>2, <1>3, <1>4, <1>7, <2>3, <3>1 DEF ListInv
    <3>2. CASE z # w
      <4>1. /\ k \in Positions(y) /\ k < next[y] /\ k \notin missed[y]
            /\ prereqs[y][k] = EventOf(z) /\ closed[EventOf(z)] /\ life[z] = "closing"
        BY <1>2, <1>4, <2>3, <3>2 DEF ListInv
      <4>2. EventOf(z) \in Tasks
        BY <1>2, <4>1, EventOfJob
      <4>3. QED
        BY <1>1, <1>4, <1>7, <3>2, <4>1, <4>2
    <3>3. QED
      BY <3>1, <3>2
  <2>4. QED
    BY <2>1, <2>2, <2>3 DEF ListInv
<1>11. CountIsExact'
  <2>1. \A y \in Jobs : life'[y] = "none" <=> life[y] = "none"
    BY <1>1, <1>4
  <2>2. QED
    BY <1>1, <1>2, <1>7, <2>1 DEF CountIsExact
<1>12. CountedOffInv'
  <2>1. ASSUME NEW y \in Jobs, NEW k \in Positions(y)'
        PROVE  k \in Pending(y)' \/ closed'[prereqs'[y][k]]
    <3>1. k \in Pending(y) \/ closed[prereqs[y][k]]
      BY <1>7, <2>1 DEF GraphInv, CountedOffInv
    <3>2. prereqs[y][k] \in Tasks
      BY <1>5, <1>7, <2>1
    <3>3. QED
      BY <1>1, <1>4, <1>7, <3>1, <3>2
  <2>2. QED
    BY <2>1 DEF CountedOffInv
<1>13. OwnerInv'
  <2>1. \A y \in Jobs : life'[y] = "none" <=> life[y] = "none"
    BY <1>1, <1>4
  <2>2. ASSUME NEW t \in Tasks
        PROVE  /\ Len(waitFor'[t]) <= MaxWaits
               /\ life'[t] \in {"dispatch", "gathering", "closing"} => t \notin Forget
               /\ life'[t] = "dispatch" => ~closed'[t]
               /\ closed'[t] => life'[t] \in {"gathering", "closing", "dead"}
    <3>1. CASE w = e
      BY <1>1, <1>2, <1>3, <1>4, <3>1, JobKinds DEF OwnerInv
    <3>2. CASE w = GatherOf[e]
      BY <1>1, <1>2, <1>3, <1>4, <3>2, JobKinds DEF OwnerInv
    <3>3. QED
      BY <1>3, <3>1, <3>2
  <2>3. ASSUME NEW t \in Tasks, life'[GatherOf[t]] # "none"
        PROVE  /\ t \notin Forget
               /\ life'[t] \in {"gathering", "dead"}
               /\ waitFor'[t] = <<>>
               /\ closed'[t] => life'[GatherOf[t]] \in {"gathering", "closing", "dead"}
    <3>1. CASE w = e
      BY <1>1, <1>2, <1>3, <1>4, <2>1, <2>3, <3>1, JobKinds DEF OwnerInv
    <3>2. CASE w = GatherOf[e]
      BY <1>1, <1>2, <1>3, <1>4, <2>1, <2>3, <3>2, JobKinds DEF OwnerInv
    <3>3. QED
      BY <1>3, <3>1, <3>2
  <2>4. QED
    BY <1>2, <2>1, <2>2, <2>3, JobKinds DEF OwnerInv
<1>14. FiresAfterWaits'
  <2>1. \A t \in Tracked : t \in Tasks /\ t \in Jobs /\ GatherOf[t] \in Jobs
    BY JobKinds DEF Tracked
  <2>2. \A t \in Tracked : Awaited(t)' = Awaited(t)
    BY <1>1, <1>4, <2>1, AwaitedKept
  <2>3. ASSUME NEW t \in Tracked, closed'[t]
        PROVE  life'[t] \in {"gathering", "closing", "dead"}
    BY <1>13, <2>1, <2>3 DEF OwnerInv
  <2>4. ASSUME NEW d, closed[d] PROVE d \in Tasks => closed'[d]
    BY <1>4, <2>4
  <2>5. \A t \in Tracked : Awaited(t) \subseteq Tasks
    <3>1. ASSUME NEW t \in Tracked
          PROVE  waitFor[t] \in Seq(Tracked) /\ prereqs[GatherOf[t]] \in Seq(Tracked)
      BY <2>1 DEF GraphInv, TypeOK, Shape
    <3>2. QED
      BY <3>1 DEF Awaited, Tracked
  <2>6. ASSUME NEW t \in Tracked, t # e, closed'[t] PROVE \A d \in Awaited(t) : closed'[d]
    <3>1. closed[t]
      BY <1>4, <2>1, <2>6
    <3>2. \A d \in Awaited(t) : closed[d]
      BY <3>1 DEF GraphInv, FiresAfterWaits
    <3>3. QED
      BY <2>4, <2>5, <3>2
  <2>7. ASSUME e \in Tracked PROVE \A d \in Awaited(e) : closed'[d]
    <3>1. \A d \in Awaited(e) : closed[d]
      BY <1>1, NothingAwaited
    <3>2. QED
      BY <2>4, <2>5, <2>7, <3>1
  <2>8. QED
    BY <2>2, <2>3, <2>6, <2>7 DEF FiresAfterWaits
<1>15. QED
  BY <1>8, <1>9, <1>10, <1>11, <1>12, <1>13, <1>14 DEF GraphInv

(* The gather takes the event over before it can fire: a task's own         *)
(* dispatch makes it, and there is only one.                                *)
LEMMA CreateGatherInv ==
  ASSUME GraphInv, NEW t \in Jobs, CreateGather(t)
  PROVE  GraphInv'
<1> DEFINE g == GatherOf[t]
           P == waitFor[t]
<1>1. t \in Tasks /\ EventOf(t) = t
  <2>1. OwnerInv /\ life[t] = "dispatch" /\ life[GatherOf[EventOf(t)]] = "none"
    BY DEF CreateGather, Construct, GraphInv
  <2>2. EventOf(t) \in Tasks /\ (t = EventOf(t) \/ t = GatherOf[EventOf(t)])
    BY <2>1, EventOfJob
  <2>3. QED
    BY <2>1, <2>2
<1>2. g \in Jobs /\ g \in Gathers /\ g # t /\ \A u \in Tasks : GatherOf[u] = g => u = t
  BY <1>1, JobKinds
<1>3. /\ Construct(g, t, P, FALSE) /\ life[t] = "dispatch" /\ life[g] = "none" /\ P # <<>>
      /\ UNCHANGED <<subsequents, closed, newTasks>>
      /\ waitFor' = [waitFor EXCEPT ![t] = <<>>]
      /\ life' = [life EXCEPT ![t] = "gathering", ![g] = "setup"]
  BY <1>1 DEF CreateGather, Construct, HasToWait, AfterGather
<1>4. /\ life \in [Jobs -> Stages] /\ prereqs \in [Jobs -> Seq(Tracked)]
      /\ waitFor \in [Tasks -> Seq(Tracked)] /\ locked \in [Jobs -> BOOLEAN]
      /\ creator \in [Jobs -> Jobs \cup Externals] /\ held \in [Jobs -> BOOLEAN]
      /\ outstanding \in [Jobs -> Nat]
      /\ ListInv /\ OwnerInv /\ CountIsExact
  BY DEF GraphInv, TypeOK, Shape
<1>5. P \in Seq(Tracked) /\ Len(P) \in Nat /\ 1 .. Len(P) \subseteq Slots
  <2>1. P \in Seq(Tracked)
    BY <1>1, <1>4
  <2>2. Len(P) \in Nat /\ Len(P) <= MaxWaits
    BY <1>1, <1>4, <2>1 DEF OwnerInv
  <2>3. QED
    BY <2>1, <2>2, SlotBounds
<1>6. /\ life'[t] = "gathering" /\ life'[g] = "setup" /\ prereqs'[g] = P /\ locked'[g] = TRUE
      /\ missed' = missed /\ next' = next /\ waitFor'[t] = <<>>
      /\ prereqs' = [prereqs EXCEPT ![g] = P]
      /\ \A u \in Tasks : u # t => waitFor'[u] = waitFor[u]
      /\ \A y \in Jobs : y # t /\ y # g => life'[y] = life[y]
      /\ \A y \in Jobs : y # g => prereqs'[y] = prereqs[y] /\ locked'[y] = locked[y]
                               /\ outstanding'[y] = outstanding[y]
  BY <1>1, <1>2, <1>3, <1>4 DEF Construct, GraphInv, TypeOK, Shape
<1>7. /\ outstanding'[g] = Cardinality(Pending(g)') + 1 /\ Pending(g)' = 1 .. Len(P)
      /\ \A y \in Jobs : y # g => Pending(y)' = Pending(y) /\ Positions(y)' = Positions(y)
  BY <1>2, <1>3, <1>5, ConstructCount
<1>8. Positions(g)' = 1 .. Len(P) /\ missed[g] = {} /\ next[g] = 1
  <2>1. Positions(g)' = 1 .. Len(P)
    BY <1>6 DEF Positions
  <2>2. missed[g] = {} /\ next[g] = 1
    BY <1>2, <1>3, UnbornUnlisted DEF GraphInv, SetupInv, SetUp
  <2>3. QED
    BY <2>1, <2>2
<1>9. TypeOK'
  <2>1. /\ life' \in [Jobs -> Stages] /\ prereqs' \in [Jobs -> Seq(Tracked)]
        /\ waitFor' \in [Tasks -> Seq(Tracked)] /\ locked' \in [Jobs -> BOOLEAN]
        /\ creator' \in [Jobs -> Jobs \cup Externals] /\ held' \in [Jobs -> BOOLEAN]
    <3>1. life' \in [Jobs -> Stages]
      BY <1>3, <1>4 DEF Stages
    <3>2. prereqs' \in [Jobs -> Seq(Tracked)] /\ waitFor' \in [Tasks -> Seq(Tracked)]
      <4>1. prereqs' \in [Jobs -> Seq(Tracked)]
        BY <1>4, <1>5, <1>6
      <4>2. <<>> \in Seq(Tracked)
        OBVIOUS
      <4>3. waitFor' \in [Tasks -> Seq(Tracked)]
        BY <1>3, <1>4, <4>2
      <4>4. QED
        BY <4>1, <4>3
    <3>3. /\ locked' = [locked EXCEPT ![g] = TRUE] /\ held' = [held EXCEPT ![g] = FALSE]
          /\ creator' = [creator EXCEPT ![g] = t]
      BY <1>3 DEF Construct
    <3>4. QED
      BY <1>4, <3>1, <3>2, <3>3
  <2>2. outstanding' \in [Jobs -> Nat]
    <3>1. outstanding' = [outstanding EXCEPT ![g] = Len(P) + 1] /\ Len(P) + 1 \in Nat
      BY <1>3, <1>5 DEF Construct, InitialCount
    <3>2. QED
      BY <1>4, <3>1
  <2>3. outstanding' \in [Jobs -> Int]
    BY <2>2
  <2>4. QED
    BY <1>3, <1>6, <2>1, <2>2, <2>3 DEF GraphInv, TypeOK, Shape
<1>10. SetupInv'
  <2>1. ASSUME NEW y \in Jobs PROVE SetUp(y)'
    <3>1. SetUp(y)
      BY DEF GraphInv, SetupInv
    <3>2. CASE y = g
      <4>1. /\ Positions(g)' \subseteq Slots /\ missed'[g] = {} /\ next'[g] <= Len(prereqs'[g]) + 1
            /\ life'[g] = "setup" /\ locked'[g]
        BY <1>5, <1>6, <1>8
      <4>2. QED
        BY <3>2, <4>1 DEF SetUp
    <3>3. CASE y = t
      BY <1>2, <1>3, <1>6, <3>1, <3>3 DEF SetUp, Positions
    <3>4. CASE y # t /\ y # g
      BY <1>6, <3>1, <3>4, SetUpKept
    <3>5. QED
      BY <3>2, <3>3, <3>4
  <2>2. QED
    BY <2>1 DEF SetupInv
<1>11. ListInv'
  <2>1. \A k \in Slots : /\ \A e \in Tasks : <<g, k>> \notin subsequents[e]
                         /\ \A y \in Jobs : <<g, k>> \notin newTasks[y]
    BY <1>2, <1>3, UnbornUnlisted
  <2>2. \A y \in Jobs : life[y] = "closing" => life'[y] = "closing"
    BY <1>3, <1>6
  <2>3. ASSUME NEW y \in Jobs, NEW k \in missed'[y]
        PROVE  k < next'[y] /\ closed'[prereqs'[y][k]]
    <3>1. y # g
      BY <1>6, <1>8, <2>3
    <3>2. QED
      BY <1>3, <1>4, <1>6, <2>3, <3>1 DEF ListInv
  <2>4. ASSUME NEW d \in Tasks, NEW y \in Jobs, NEW k \in Slots, <<y, k>> \in subsequents'[d]
        PROVE  /\ k \in Positions(y)' /\ k < next'[y] /\ k \notin missed'[y]
               /\ prereqs'[y][k] = d /\ ~closed'[d]
    <3>1. y # g
      BY <1>3, <2>1, <2>4
    <3>2. QED
      BY <1>3, <1>4, <1>6, <1>7, <2>4, <3>1 DEF ListInv
  <2>5. ASSUME NEW z \in Jobs, NEW y \in Jobs, NEW k \in Slots, <<y, k>> \in newTasks'[z]
        PROVE  /\ k \in Positions(y)' /\ k < next'[y] /\ k \notin missed'[y]
               /\ prereqs'[y][k] = EventOf(z) /\ closed'[EventOf(z)]
               /\ life'[z] = "closing"
    <3>1. y # g
      BY <1>3, <2>1, <2>5
    <3>2. QED
      BY <1>3, <1>4, <1>6, <1>7, <2>2, <2>5, <3>1 DEF ListInv
  <2>6. QED
    BY <2>3, <2>4, <2>5 DEF ListInv
<1>12. CountIsExact'
  <2>1. ASSUME NEW y \in Jobs, life'[y] # "none"
        PROVE  outstanding'[y] = Cardinality(Pending(y)') + (IF locked'[y] THEN 1 ELSE 0)
    <3>1. CASE y = g
      BY <1>6, <1>7, <3>1
    <3>2. CASE y # g
      <4>1. life[y] # "none"
        BY <1>3, <1>6, <2>1, <3>2
      <4>2. QED
        BY <1>4, <1>6, <1>7, <3>2, <4>1 DEF CountIsExact
    <3>3. QED
      BY <3>1, <3>2
  <2>2. QED
    BY <2>1 DEF CountIsExact
<1>13. CountedOffInv'
  <2>1. ASSUME NEW y \in Jobs, NEW k \in Positions(y)'
        PROVE  k \in Pending(y)' \/ closed'[prereqs'[y][k]]
    <3>1. CASE y = g
      BY <1>7, <1>8, <2>1, <3>1
    <3>2. CASE y # g
      BY <1>3, <1>6, <1>7, <2>1, <3>2 DEF GraphInv, CountedOffInv
    <3>3. QED
      BY <3>1, <3>2
  <2>2. QED
    BY <2>1 DEF CountedOffInv
<1>14. ~closed[t] /\ t \notin Forget
  BY <1>1, <1>3, <1>4 DEF OwnerInv
<1>15. OwnerInv'
  <2>1. ASSUME NEW u \in Tasks
        PROVE  /\ Len(waitFor'[u]) <= MaxWaits
               /\ life'[u] \in {"dispatch", "gathering", "closing"} => u \notin Forget
               /\ life'[u] = "dispatch" => ~closed'[u]
               /\ closed'[u] => life'[u] \in {"gathering", "closing", "dead"}
    <3>1. CASE u = t
      <4>1. Len(<<>>) <= MaxWaits
        BY GraphAssumption
      <4>2. QED
        BY <1>3, <1>6, <1>14, <3>1, <4>1
    <3>2. CASE u # t
      <4>1. u \in Jobs /\ u # g
        BY <1>2, JobKinds
      <4>2. QED
        BY <1>3, <1>4, <1>6, <3>2, <4>1 DEF OwnerInv
    <3>3. QED
      BY <3>1, <3>2
  <2>2. ASSUME NEW u \in Tasks, life'[GatherOf[u]] # "none"
        PROVE  /\ u \notin Forget
               /\ life'[u] \in {"gathering", "dead"}
               /\ waitFor'[u] = <<>>
               /\ closed'[u] => life'[GatherOf[u]] \in {"gathering", "closing", "dead"}
    <3>1. CASE u = t
      BY <1>3, <1>6, <1>14, <3>1
    <3>2. CASE u # t
      <4>1. /\ u \in Jobs /\ u # g /\ GatherOf[u] \in Jobs
            /\ GatherOf[u] # t /\ GatherOf[u] # g
        BY <1>1, <1>2, <3>2, JobKinds
      <4>2. QED
        BY <1>3, <1>4, <1>6, <2>2, <3>2, <4>1 DEF OwnerInv
    <3>3. QED
      BY <3>1, <3>2
  <2>3. ASSUME NEW h \in Gathers, life'[h] # "none" PROVE \E u \in Tasks : h = GatherOf[u]
    <3>1. CASE h = g
      BY <1>1, <3>1
    <3>2. CASE h # g
      <4>1. h \in Jobs /\ h # t
        BY <1>1, JobKinds
      <4>2. life[h] # "none"
        BY <1>6, <2>3, <3>2, <4>1
      <4>3. QED
        BY <1>4, <4>2 DEF OwnerInv
    <3>3. QED
      BY <3>1, <3>2
  <2>4. QED
    BY <2>1, <2>2, <2>3 DEF OwnerInv
<1>16. FiresAfterWaits'
  <2>1. ASSUME NEW u \in Tracked, closed'[u]
        PROVE  /\ life'[u] \in {"gathering", "closing", "dead"}
               /\ \A d \in Awaited(u)' : closed'[d]
    <3>1. /\ u \in Tasks /\ closed[u] /\ u # t /\ u \in Jobs
          /\ GatherOf[u] \in Jobs /\ GatherOf[u] # t /\ GatherOf[u] # g
      BY <1>1, <1>2, <1>3, <1>14, <2>1, JobKinds DEF Tracked
    <3>2. Awaited(u)' = Awaited(u)
      BY <1>6, <3>1, AwaitedKept
    <3>3. u # g
      BY <1>2, <3>1, JobKinds
    <3>4. QED
      <4>1. /\ life[u] \in {"gathering", "closing", "dead"}
            /\ \A d \in Awaited(u) : closed[d]
        BY <3>1 DEF GraphInv, FiresAfterWaits
      <4>2. life'[u] = life[u] /\ closed' = closed
        BY <1>3, <1>6, <3>1, <3>3
      <4>3. QED
        BY <3>2, <4>1, <4>2
  <2>2. QED
    BY <2>1 DEF FiresAfterWaits
<1>17. QED
  BY <1>9, <1>10, <1>11, <1>12, <1>13, <1>15, <1>16 DEF GraphInv

-----------------------------------------------------------------------------
(* The invariant, and what it is for                                        *)

LEMMA NextInv == GraphInv /\ [Next]_vars => GraphInv'
<1> SUFFICES ASSUME GraphInv, [Next]_vars PROVE GraphInv'
  OBVIOUS
<1>1. ASSUME NEW t \in Tasks, NEW c \in Creators, NEW hold \in BOOLEAN,
             NEW P \in SeqsUpTo(Tracked, MaxPrereqs), CreateTask(t, c, P, hold)
      PROVE  GraphInv'
  BY <1>1, CreateTaskInv
<1>2. ASSUME NEW t \in Tasks, Unlock(t) PROVE GraphInv'
  BY <1>2, UnlockInv
<1>3. ASSUME NEW t \in Tracked, NEW e \in Tracked, DontCompleteUntil(t, e) PROVE GraphInv'
  BY <1>3, DontCompleteUntilInv
<1>4. ASSUME NEW x \in Jobs, Step(x) PROVE GraphInv'
  <2>1. ASSUME NEW entry \in newTasks[x], DispatchSubsequent(x, entry) PROVE GraphInv'
    BY <2>1, DispatchSubsequentInv
  <2>2. QED
    BY <1>4, <2>1, AddSubsequentInv, PrerequisitesCompleteInv, RunInv, CreateGatherInv,
       PopAllAndCloseInv DEF Step
<1>5. CASE Finished
  BY <1>5, StutterInv DEF Finished
<1>6. CASE UNCHANGED vars
  BY <1>6, StutterInv
<1>7. QED
  BY <1>1, <1>2, <1>3, <1>4, <1>5, <1>6 DEF Next

(* Every reachable state satisfies the inductive invariant.                 *)
THEOREM GraphInvariant == Spec => []GraphInv
<1>1. QED
  BY InitInv, NextInv, PTL DEF Spec

(* The variables keep their shape and no count goes below zero.             *)
THEOREM GraphTypes == Spec => []TypeOK
<1>1. GraphInv => TypeOK
  BY DEF GraphInv
<1>2. QED
  BY <1>1, GraphInvariant, PTL

(* NumberOfPrerequistitesOutstanding is exact at every step of every        *)
(* thread, so it reaches zero once, when the last prerequisite is gone.     *)
THEOREM CountsAreExact == Spec => []CountIsExact
<1>1. GraphInv => CountIsExact
  BY DEF GraphInv
<1>2. QED
  BY <1>1, GraphInvariant, PTL

(* What ConditionalQueueTask counts down is alive and was not queued yet.   *)
THEOREM NobodyQueuedTwice == Spec => []ListedTasksWait
<1>1. GraphInv => ListedTasksWait
  BY ListedIsPending DEF ListedTasksWait
<1>2. QED
  BY <1>1, GraphInvariant, PTL

(* A task runs only after every prerequisite of its constructor completed.  *)
THEOREM PrereqsFirst == Spec => []RunsAfterPrereqs
<1>1. ASSUME GraphInv, NEW x \in Jobs, life[x] \in {"queued", "running"},
             NEW k \in Positions(x)
      PROVE  closed[prereqs[x][k]]
  <2>1. outstanding[x] = 0 /\ life[x] # "none"
    BY <1>1 DEF GraphInv, SetupInv, SetUp
  <2>2. Pending(x) = {}
    BY <1>1, <2>1, CountCovers
  <2>3. QED
    BY <1>1, <2>2 DEF GraphInv, CountedOffInv
<1>2. GraphInv => RunsAfterPrereqs
  BY <1>1 DEF RunsAfterPrereqs
<1>3. QED
  BY <1>2, GraphInvariant, PTL

(* An event fires after its task and everything it was told to wait for.    *)
THEOREM WaitsFirst == Spec => []FiresAfterWaits
<1>1. GraphInv => FiresAfterWaits
  BY DEF GraphInv
<1>2. QED
  BY <1>1, GraphInvariant, PTL

(* No list is closed twice: the assertion of PopAllAndClose holds.          *)
THEOREM NoDoubleClose == Spec => []ClosedOnce
<1>1. ASSUME GraphInv, NEW x \in Jobs, life[x] = "dispatch" PROVE ~closed[EventOf(x)]
  <2>1. OwnerInv
    BY <1>1 DEF GraphInv
  <2>2. EventOf(x) \in Tasks /\ (x = EventOf(x) \/ x = GatherOf[EventOf(x)])
    BY <1>1, <2>1, EventOfJob
  <2>3. QED
    BY <1>1, <2>1, <2>2 DEF OwnerInv
<1>2. ASSUME GraphInv, NEW x \in Jobs, NEW y \in Jobs, EventOf(x) = EventOf(y),
             life[x] \in {"dispatch", "closing"}, life[y] \in {"dispatch", "closing"}
      PROVE  x = y
  <2> DEFINE t == EventOf(x)
  <2>1. OwnerInv
    BY <1>2 DEF GraphInv
  <2>2. t \in Tasks /\ (x = t \/ x = GatherOf[t]) /\ (y = t \/ y = GatherOf[t])
    BY <1>2, <2>1, EventOfJob
  <2>3. life[GatherOf[t]] # "none" => life[t] \in {"gathering", "dead"}
    BY <2>1, <2>2 DEF OwnerInv
  <2>4. QED
    BY <1>2, <2>2, <2>3
<1>3. GraphInv => ClosedOnce
  BY <1>1, <1>2 DEF ClosedOnce
<1>4. QED
  BY <1>3, GraphInvariant, PTL

-----------------------------------------------------------------------------
(* Refinement of TaskDag                                                    *)

LEMMA DagInit == Init => Dag!Init
<1> SUFFICES ASSUME Init PROVE Dag!Init
  OBVIOUS
<1>1. DagPhase = [t \in Tasks |-> "none"]
  BY JobKinds DEF Init, DagPhase, PhaseOf
<1>2. DagReleased = {} /\ DagComplete = {}
  BY JobKinds DEF Init, DagReleased, DagComplete, Tracked
<1>3. DagRequires = [t \in Tasks |-> {}]
  BY JobKinds DEF Init, DagRequires, Positions
<1>4. ASSUME NEW t \in Tasks PROVE Awaited(t) = {}
  BY JobKinds DEF Init, Awaited
<1>5. QED
  BY <1>1, <1>2, <1>3, <1>4 DEF Dag!Init, DagAwaits

(* A step that changes none of what the program sees.                       *)
LEMMA DagStutter ==
  ASSUME \A t \in Tasks : /\ PhaseOf(life'[t]) = PhaseOf(life[t])
                          /\ life'[t] = "none" <=> life[t] = "none"
                          /\ locked'[t] = locked[t] /\ prereqs'[t] = prereqs[t]
                          /\ Awaited(t)' = Awaited(t)
                          /\ closed'[t] = closed[t]
  PROVE  UNCHANGED Dag!dagVars
<1>1. DagPhase' = DagPhase
  BY DEF DagPhase
<1>2. DagReleased' = DagReleased
  BY DEF DagReleased
<1>3. DagRequires' = DagRequires
  BY DEF DagRequires, Positions
<1>4. DagAwaits' = DagAwaits
  BY DEF DagAwaits
<1>5. DagComplete' = DagComplete
  BY DEF DagComplete, Tracked
<1>6. QED
  BY <1>1, <1>2, <1>3, <1>4, <1>5 DEF Dag!dagVars

LEMMA DagCreate ==
  ASSUME GraphInv, NEW t \in Tasks, NEW c \in Creators, NEW hold \in BOOLEAN,
         NEW P \in SeqsUpTo(Tracked, MaxPrereqs), CreateTask(t, c, P, hold)
  PROVE  Dag!Next
<1>1. /\ life[t] = "none" /\ life' = [life EXCEPT ![t] = "setup"]
      /\ prereqs' = [prereqs EXCEPT ![t] = P] /\ locked' = [locked EXCEPT ![t] = TRUE]
      /\ UNCHANGED <<closed, waitFor>>
  BY DEF CreateTask, Construct, eventVars
<1>2. P \in Seq(Tracked)
  BY GraphAssumption, PrereqArrays
<1>3. /\ t \in Jobs /\ life \in [Jobs -> Stages] /\ prereqs \in [Jobs -> Seq(Tracked)]
      /\ locked \in [Jobs -> BOOLEAN]
  BY JobKinds DEF GraphInv, TypeOK, Shape
<1>4. /\ life'[t] = "setup" /\ prereqs'[t] = P /\ locked'[t] = TRUE
      /\ \A y \in Jobs : y # t => life'[y] = life[y] /\ prereqs'[y] = prereqs[y]
                               /\ locked'[y] = locked[y]
  BY <1>1, <1>3
<1>5. \A u \in Tasks : u \in Jobs /\ GatherOf[u] \in Jobs /\ GatherOf[u] # t
  BY JobKinds
<1>6. DagPhase[t] = "none" /\ DagPhase' = [DagPhase EXCEPT ![t] = "created"]
  BY <1>1, <1>4, <1>5 DEF DagPhase, PhaseOf
<1>7. DagReleased' = DagReleased
  BY <1>1, <1>4, <1>5 DEF DagReleased
<1>8. DagComplete' = DagComplete
  BY <1>1 DEF DagComplete
<1>9. DagAwaits' = DagAwaits
  <2>1. \A u \in Tasks : Awaited(u)' = Awaited(u)
    BY <1>1, <1>4, <1>5 DEF Awaited
  <2>2. QED
    BY <2>1 DEF DagAwaits
<1>10. \E Q \in SUBSET Tracked : DagRequires' = [DagRequires EXCEPT ![t] = Q]
  <2> DEFINE Q == {P[k] : k \in 1 .. Len(P)}
  <2>1. Q \in SUBSET Tracked
    BY <1>2
  <2>2. DagRequires' = [DagRequires EXCEPT ![t] = Q]
    <3>1. \A u \in Tasks :
            {prereqs'[u][k] : k \in 1 .. Len(prereqs'[u])} =
              IF u = t THEN Q ELSE {prereqs[u][k] : k \in 1 .. Len(prereqs[u])}
      BY <1>4, <1>5
    <3>2. QED
      BY <3>1 DEF DagRequires, Positions
  <2>3. QED
    BY <2>1, <2>2
<1>11. Dag!Create(t)
  BY <1>6, <1>7, <1>8, <1>9, <1>10 DEF Dag!Create
<1>12. QED
  BY <1>11 DEF Dag!Next

(* The creator gives the lock back: at the end of the set-up, or later.     *)
LEMMA DagRelease ==
  ASSUME GraphInv, NEW t \in Tasks, life[t] \in {"setup", "pending"}, locked[t],
         life' \in [Jobs -> Stages], life'[t] \in {"pending", "queued"},
         locked' = [locked EXCEPT ![t] = FALSE],
         \A y \in Jobs : y # t => life'[y] = life[y],
         UNCHANGED <<prereqs, closed, waitFor>>
  PROVE  Dag!Next
<1>1. /\ t \in Jobs /\ locked \in [Jobs -> BOOLEAN]
      /\ \A u \in Tasks : u \in Jobs /\ GatherOf[u] \in Jobs /\ GatherOf[u] # t
  BY JobKinds DEF GraphInv, TypeOK, Shape
<1>2. DagPhase[t] = "created" /\ DagPhase' = DagPhase
  BY <1>1 DEF DagPhase, PhaseOf
<1>3. t \notin DagReleased /\ DagReleased' = DagReleased \cup {t}
  BY <1>1 DEF DagReleased
<1>4. DagRequires' = DagRequires /\ DagComplete' = DagComplete
  BY DEF DagRequires, DagComplete, Positions
<1>5. DagAwaits' = DagAwaits
  <2>1. \A u \in Tasks : Awaited(u)' = Awaited(u)
    BY <1>1 DEF Awaited
  <2>2. QED
    BY <2>1 DEF DagAwaits
<1>6. Dag!Release(t)
  BY <1>2, <1>3, <1>4, <1>5 DEF Dag!Release
<1>7. QED
  BY <1>6 DEF Dag!Next

(* The started job runs: everything it requires has completed.              *)
LEMMA DagExecute ==
  ASSUME GraphInv, NEW x \in Jobs, Execute(x)
  PROVE  [Dag!Next]_(Dag!dagVars)
<1>1. /\ life[x] = "queued" /\ life' = [life EXCEPT ![x] = "running"]
      /\ UNCHANGED <<prereqs, locked, closed, waitFor>>
  BY DEF Execute, setupVars, eventVars
<1>2. /\ life \in [Jobs -> Stages] /\ prereqs \in [Jobs -> Seq(Tracked)]
      /\ \A u \in Tasks : u \in Jobs /\ GatherOf[u] \in Jobs
  BY JobKinds DEF GraphInv, TypeOK, Shape
<1>3. /\ life'[x] = "running" /\ \A y \in Jobs : y # x => life'[y] = life[y]
      /\ \A y \in Jobs : life'[y] = "none" <=> life[y] = "none"
  BY <1>1, <1>2
<1>4. \A u \in Tasks : Awaited(u)' = Awaited(u)
  BY <1>1, <1>2, <1>3 DEF Awaited
<1>5. CASE x \notin Tasks
  <2>1. UNCHANGED Dag!dagVars
    BY <1>1, <1>2, <1>3, <1>4, <1>5, DagStutter
  <2>2. QED
    BY <2>1
<1>6. CASE x \in Tasks
  <2>1. /\ DagPhase[x] = "created" /\ DagPhase' = [DagPhase EXCEPT ![x] = "running"]
    BY <1>1, <1>2, <1>3, <1>6 DEF DagPhase, PhaseOf
  <2>2. DagReleased' = DagReleased
    BY <1>1, <1>2, <1>3 DEF DagReleased
  <2>3. DagRequires' = DagRequires /\ DagComplete' = DagComplete /\ DagAwaits' = DagAwaits
    BY <1>1, <1>4 DEF DagRequires, DagComplete, DagAwaits, Positions
  <2>4. outstanding[x] = 0 /\ life[x] # "none"
    BY <1>1 DEF GraphInv, SetupInv, SetUp
  <2>5. ~locked[x] /\ Pending(x) = {}
    BY <2>4, CountCovers
  <2>6. x \in DagReleased
    BY <1>6, <2>4, <2>5 DEF DagReleased
  <2>7. DagRequires[x] \subseteq DagComplete
    <3>1. ASSUME NEW k \in Positions(x) PROVE prereqs[x][k] \in Tracked /\ closed[prereqs[x][k]]
      BY <1>2, <2>5 DEF Positions, GraphInv, CountedOffInv
    <3>2. QED
      BY <1>6, <3>1 DEF DagRequires, DagComplete
  <2>8. Dag!Run(x)
    BY <2>1, <2>2, <2>3, <2>6, <2>7 DEF Dag!Run
  <2>9. QED
    BY <1>6, <2>8 DEF Dag!Next
<1>7. QED
  BY <1>5, <1>6

LEMMA DagFinish ==
  ASSUME GraphInv, NEW x \in Jobs, FinishDoTask(x)
  PROVE  [Dag!Next]_(Dag!dagVars)
<1> DEFINE stage == IF x \in Forget THEN "dead" ELSE "dispatch"
<1>1. /\ life[x] = "running" /\ life' = [life EXCEPT ![x] = stage]
      /\ UNCHANGED <<prereqs, locked, closed, waitFor>>
  BY DEF FinishDoTask, setupVars, eventVars
<1>2. /\ life \in [Jobs -> Stages]
      /\ \A u \in Tasks : u \in Jobs /\ GatherOf[u] \in Jobs
  BY JobKinds DEF GraphInv, TypeOK, Shape
<1>3. /\ life'[x] = stage /\ \A y \in Jobs : y # x => life'[y] = life[y]
      /\ \A y \in Jobs : life'[y] = "none" <=> life[y] = "none"
  BY <1>1, <1>2
<1>4. \A u \in Tasks : Awaited(u)' = Awaited(u)
  BY <1>1, <1>2, <1>3 DEF Awaited
<1>5. CASE x \notin Tasks
  <2>1. UNCHANGED Dag!dagVars
    BY <1>1, <1>2, <1>3, <1>4, <1>5, DagStutter
  <2>2. QED
    BY <2>1
<1>6. CASE x \in Tasks
  <2>1. PhaseOf("running") = "running" /\ PhaseOf("dead") = "finished"
        /\ PhaseOf("dispatch") = "finished"
    BY DEF PhaseOf
  <2>2. PhaseOf(stage) = "finished"
    BY <2>1
  <2>3. /\ DagPhase[x] = "running" /\ DagPhase' = [DagPhase EXCEPT ![x] = "finished"]
    BY <1>1, <1>2, <1>3, <1>6, <2>1, <2>2 DEF DagPhase
  <2>4. DagReleased' = DagReleased
    BY <1>1, <1>2, <1>3 DEF DagReleased
  <2>5. DagRequires' = DagRequires /\ DagComplete' = DagComplete /\ DagAwaits' = DagAwaits
    BY <1>1, <1>4 DEF DagRequires, DagComplete, DagAwaits, Positions
  <2>6. Dag!Finish(x)
    BY <2>3, <2>4, <2>5 DEF Dag!Finish
  <2>7. QED
    BY <1>6, <2>6 DEF Dag!Next
<1>7. QED
  BY <1>5, <1>6

LEMMA DagAwaitMore ==
  ASSUME GraphInv, NEW t \in Tracked, NEW e \in Tracked, DontCompleteUntil(t, e)
  PROVE  Dag!Next
<1>1. /\ UNCHANGED <<life, prereqs, locked, closed>>
      /\ waitFor' = [waitFor EXCEPT ![t] = Append(waitFor[t], e)]
      /\ life[t] = "running"
  BY DEF DontCompleteUntil, setupVars
<1>2. /\ t \in Tasks /\ waitFor \in [Tasks -> Seq(Tracked)]
      /\ life[GatherOf[t]] = "none"
  BY <1>1 DEF Tracked, GraphInv, TypeOK, Shape, OwnerInv
<1>3. \A u \in Tasks : u # t => Awaited(u)' = Awaited(u)
  BY <1>1, <1>2 DEF Awaited
<1>4. Awaited(t)' = Awaited(t) \cup {e}
  <2>1. Awaited(t) = {waitFor[t][k] : k \in DOMAIN waitFor[t]}
    BY <1>2 DEF Awaited
  <2>2. Awaited(t)' = {waitFor'[t][k] : k \in DOMAIN waitFor'[t]}
    BY <1>1, <1>2 DEF Awaited
  <2>3. waitFor'[t] = Append(waitFor[t], e) /\ waitFor[t] \in Seq(Tracked)
    BY <1>1, <1>2
  <2>4. ASSUME NEW s \in Seq(Tracked), NEW d \in Tracked
        PROVE  {Append(s, d)[k] : k \in DOMAIN Append(s, d)} = {s[k] : k \in DOMAIN s} \cup {d}
    <3>1. /\ DOMAIN s = 1 .. Len(s) /\ DOMAIN Append(s, d) = 1 .. (Len(s) + 1)
          /\ Len(s) \in Nat /\ Append(s, d)[Len(s) + 1] = d
          /\ \A k \in 1 .. Len(s) : Append(s, d)[k] = s[k]
      OBVIOUS
    <3>2. 1 .. (Len(s) + 1) = (1 .. Len(s)) \cup {Len(s) + 1}
      BY <3>1
    <3>3. QED
      BY <3>1, <3>2
  <2>5. QED
    BY <2>1, <2>2, <2>3, <2>4
<1>5. DagPhase[t] = "running" /\ DagPhase' = DagPhase /\ DagReleased' = DagReleased
  BY <1>1, <1>2 DEF DagPhase, PhaseOf, DagReleased
<1>6. DagRequires' = DagRequires /\ DagComplete' = DagComplete
  BY <1>1 DEF DagRequires, DagComplete, Positions
<1>7. DagAwaits' = [DagAwaits EXCEPT ![t] = DagAwaits[t] \cup {e}]
  BY <1>2, <1>3, <1>4 DEF DagAwaits
<1>8. Dag!AwaitMore(t)
  BY <1>5, <1>6, <1>7 DEF Dag!AwaitMore
<1>9. QED
  BY <1>2, <1>8 DEF Dag!Next

LEMMA DagCompletes ==
  ASSUME GraphInv, NEW w \in Jobs, PopAllAndClose(w)
  PROVE  Dag!Next
<1> DEFINE e == EventOf(w)
<1>1. /\ UNCHANGED <<prereqs, locked, waitFor>>
      /\ life[w] = "dispatch" /\ waitFor[e] = <<>>
      /\ closed' = [closed EXCEPT ![e] = TRUE]
      /\ life' = [life EXCEPT ![w] = "closing"]
  BY DEF PopAllAndClose, HasToWait, setupVars
<1>2. /\ life \in [Jobs -> Stages] /\ closed \in [Tasks -> BOOLEAN] /\ OwnerInv
      /\ \A u \in Tasks : u \in Jobs /\ GatherOf[u] \in Jobs
  BY JobKinds DEF GraphInv, TypeOK, Shape
<1>3. e \in Tasks /\ (w = e \/ w = GatherOf[e])
  BY <1>1, <1>2, EventOfJob
<1>4. /\ life'[w] = "closing" /\ \A y \in Jobs : y # w => life'[y] = life[y]
      /\ \A y \in Jobs : life'[y] = "none" <=> life[y] = "none"
      /\ closed'[e] = TRUE /\ \A d \in Tasks : d # e => closed'[d] = closed[d]
  BY <1>1, <1>2, <1>3
<1>5. /\ life[e] \in {"dispatch", "gathering", "dead"}
      /\ e \notin Forget /\ ~closed[e]
  BY <1>1, <1>2, <1>3 DEF OwnerInv
<1>6. \A d \in Awaited(e) : closed[d]
  BY <1>1, NothingAwaited
<1>7. DagPhase[e] = "finished" /\ DagPhase' = DagPhase
  <2>1. \A t \in Tasks : PhaseOf(life'[t]) = PhaseOf(life[t])
    BY <1>1, <1>2, <1>4 DEF PhaseOf
  <2>2. QED
    BY <1>3, <1>5, <2>1 DEF DagPhase, PhaseOf
<1>8. DagReleased' = DagReleased
  BY <1>1, <1>2, <1>4 DEF DagReleased
<1>9. DagRequires' = DagRequires
  BY <1>1 DEF DagRequires, Positions
<1>10. DagAwaits' = DagAwaits
  <2>1. \A u \in Tasks : Awaited(u)' = Awaited(u)
    BY <1>1, <1>2, <1>4 DEF Awaited
  <2>2. QED
    BY <2>1 DEF DagAwaits
<1>11. e \in Tracked \ DagComplete /\ DagComplete' = DagComplete \cup {e}
  BY <1>3, <1>4, <1>5 DEF DagComplete, Tracked
<1>12. DagAwaits[e] \subseteq DagComplete
  <2>1. waitFor[e] \in Seq(Tracked) /\ prereqs[GatherOf[e]] \in Seq(Tracked)
    BY <1>2, <1>3 DEF GraphInv, TypeOK, Shape
  <2>2. Awaited(e) \subseteq Tracked
    BY <2>1 DEF Awaited
  <2>3. QED
    BY <1>3, <1>6, <2>2 DEF DagAwaits, DagComplete
<1>13. Dag!Complete(e)
  BY <1>7, <1>8, <1>9, <1>10, <1>11, <1>12 DEF Dag!Complete
<1>14. QED
  BY <1>3, <1>13 DEF Dag!Next

(* A gather that takes an event over is invisible to the program.           *)
LEMMA DagGather ==
  ASSUME GraphInv, NEW t \in Jobs, CreateGather(t)
  PROVE  UNCHANGED Dag!dagVars
<1> DEFINE g == GatherOf[t]
<1>1. t \in Tasks /\ EventOf(t) = t
  <2>1. OwnerInv /\ life[t] = "dispatch" /\ life[GatherOf[EventOf(t)]] = "none"
    BY DEF CreateGather, Construct, GraphInv
  <2>2. EventOf(t) \in Tasks /\ (t = EventOf(t) \/ t = GatherOf[EventOf(t)])
    BY <2>1, EventOfJob
  <2>3. QED
    BY <2>1, <2>2
<1>2. /\ life[t] = "dispatch" /\ life[g] = "none" /\ UNCHANGED closed
      /\ prereqs' = [prereqs EXCEPT ![g] = waitFor[t]]
      /\ locked' = [locked EXCEPT ![g] = TRUE]
      /\ waitFor' = [waitFor EXCEPT ![t] = <<>>]
      /\ life' = [life EXCEPT ![t] = "gathering", ![g] = "setup"]
  BY <1>1 DEF CreateGather, Construct, AfterGather
<1>3. /\ life \in [Jobs -> Stages] /\ prereqs \in [Jobs -> Seq(Tracked)]
      /\ locked \in [Jobs -> BOOLEAN] /\ waitFor \in [Tasks -> Seq(Tracked)]
      /\ t \in Jobs /\ g \in Jobs /\ g # t
  BY <1>1, JobKinds DEF GraphInv, TypeOK, Shape
<1>4. /\ life'[t] = "gathering" /\ life'[g] = "setup" /\ prereqs'[g] = waitFor[t]
      /\ \A y \in Jobs : y # t /\ y # g => life'[y] = life[y]
      /\ \A y \in Jobs : y # g => prereqs'[y] = prereqs[y] /\ locked'[y] = locked[y]
      /\ \A u \in Tasks : u # t => waitFor'[u] = waitFor[u]
  BY <1>1, <1>2, <1>3
<1>5. ASSUME NEW u \in Tasks
      PROVE  /\ PhaseOf(life'[u]) = PhaseOf(life[u])
             /\ life'[u] = "none" <=> life[u] = "none"
             /\ locked'[u] = locked[u] /\ prereqs'[u] = prereqs[u]
             /\ Awaited(u)' = Awaited(u)
             /\ closed'[u] = closed[u]
  <2>1. u \in Jobs /\ u # g /\ GatherOf[u] \in Jobs /\ GatherOf[u] # t
    BY <1>1, JobKinds
  <2>2. CASE u = t
    <3>1. PhaseOf(life'[u]) = PhaseOf(life[u])
      BY <1>2, <1>4, <2>2 DEF PhaseOf
    <3>2. Awaited(t)' = Awaited(t)
      BY <1>2, <1>4 DEF Awaited
    <3>3. QED
      BY <1>2, <1>4, <2>1, <2>2, <3>1, <3>2
  <2>3. CASE u # t
    <3>1. GatherOf[u] # g
      BY <1>1, <2>3, JobKinds
    <3>2. Awaited(u)' = Awaited(u)
      BY <1>4, <2>1, <2>3, <3>1 DEF Awaited
    <3>3. QED
      BY <1>2, <1>4, <2>1, <2>3, <3>2
  <2>4. QED
    BY <2>2, <2>3
<1>6. QED
  BY <1>5, DagStutter

(* Counting down and freeing are invisible too, except the last count of a  *)
(* set-up, which is the lock.                                               *)
LEMMA DagCounting ==
  ASSUME GraphInv, NEW x \in Jobs,
         \/ AddSubsequent(x) \/ PrerequisitesComplete(x) \/ Destroy(x)
         \/ \E entry \in newTasks[x] : DispatchSubsequent(x, entry)
  PROVE  [Dag!Next]_(Dag!dagVars)
<1>1. /\ life \in [Jobs -> Stages] /\ locked \in [Jobs -> BOOLEAN]
      /\ \A u \in Tasks : u \in Jobs /\ GatherOf[u] \in Jobs
  BY JobKinds DEF GraphInv, TypeOK, Shape
<1>2. ASSUME UNCHANGED <<prereqs, closed, waitFor>>,
             \A y \in Jobs : life'[y] = "none" <=> life[y] = "none",
             \A u \in Tasks : PhaseOf(life'[u]) = PhaseOf(life[u]),
             \A u \in Tasks : locked'[u] = locked[u]
      PROVE  UNCHANGED Dag!dagVars
  <2>1. \A u \in Tasks : Awaited(u)' = Awaited(u)
    BY <1>1, <1>2 DEF Awaited
  <2>2. QED
    BY <1>1, <1>2, <2>1, DagStutter
<1>3. CASE AddSubsequent(x)
  BY <1>2, <1>3 DEF AddSubsequent
<1>4. CASE Destroy(x)
  <2>1. /\ UNCHANGED <<prereqs, locked, closed, waitFor>>
        /\ life[x] \in {"closing", "gathering"} /\ life' = [life EXCEPT ![x] = "dead"]
    BY <1>4 DEF Destroy, setupVars, eventVars
  <2>2. \A y \in Jobs : life'[y] = IF y = x THEN "dead" ELSE life[y]
    BY <1>1, <2>1
  <2>3. \A u \in Tasks : PhaseOf(life'[u]) = PhaseOf(life[u])
    BY <1>1, <2>1, <2>2 DEF PhaseOf
  <2>4. QED
    BY <1>2, <2>1, <2>2, <2>3
<1>5. CASE \E entry \in newTasks[x] : DispatchSubsequent(x, entry)
  <2>1. PICK entry \in newTasks[x] : DispatchSubsequent(x, entry)
    BY <1>5
  <2>2. PICK z \in Jobs, k \in Slots : entry = <<z, k>>
    BY DEF GraphInv, TypeOK, Shape, Entries
  <2>3. /\ UNCHANGED <<prereqs, locked, closed, waitFor>>
        /\ life' = IF outstanding[z] = 1 THEN [life EXCEPT ![z] = "queued"] ELSE life
    BY <2>1, <2>2 DEF DispatchSubsequent, ConditionalQueueTask, setupVars
  <2>4. life[z] \in {"setup", "pending"}
    BY <2>1, <2>2, ListedIsPending DEF Registered
  <2>5. \A y \in Jobs : life'[y] = life[y] \/ (y = z /\ life'[y] = "queued")
    BY <1>1, <2>3
  <2>6. \A u \in Tasks : PhaseOf(life'[u]) = PhaseOf(life[u])
    BY <1>1, <2>4, <2>5 DEF PhaseOf
  <2>7. QED
    BY <1>2, <2>3, <2>4, <2>5, <2>6
<1>6. CASE PrerequisitesComplete(x)
  <2> DEFINE stage == IF outstanding[x] = NumToSub(x) THEN "queued" ELSE "pending"
  <2>1. /\ UNCHANGED <<prereqs, closed, waitFor>>
        /\ life[x] = "setup" /\ life' = [life EXCEPT ![x] = stage]
        /\ locked' = [locked EXCEPT ![x] = held[x]]
    BY <1>6 DEF PrerequisitesComplete, eventVars
  <2>2. /\ life'[x] = stage /\ stage \in {"queued", "pending"}
        /\ \A y \in Jobs : y # x => life'[y] = life[y] /\ locked'[y] = locked[y]
        /\ locked'[x] = held[x] /\ held[x] \in BOOLEAN /\ locked[x]
    BY <1>1, <2>1 DEF GraphInv, TypeOK, Shape, SetupInv, SetUp
  <2>3. CASE x \in Tasks /\ ~held[x]
    <3>1. life' \in [Jobs -> Stages] /\ locked' = [locked EXCEPT ![x] = FALSE]
      BY <1>1, <2>1, <2>2, <2>3 DEF Stages
    <3>2. Dag!Next
      BY <2>1, <2>2, <2>3, <3>1, DagRelease
    <3>3. QED
      BY <3>2
  <2>4. CASE x \notin Tasks \/ held[x]
    <3>1. \A u \in Tasks : PhaseOf(life'[u]) = PhaseOf(life[u])
      BY <1>1, <2>1, <2>2 DEF PhaseOf
    <3>2. \A u \in Tasks : locked'[u] = locked[u]
      BY <1>1, <2>2, <2>4
    <3>3. \A y \in Jobs : life'[y] = "none" <=> life[y] = "none"
      BY <2>1, <2>2
    <3>4. UNCHANGED Dag!dagVars
      BY <1>2, <2>1, <3>1, <3>2, <3>3
    <3>5. QED
      BY <3>4
  <2>5. QED
    BY <2>2, <2>3, <2>4
<1>7. QED
  BY <1>3, <1>4, <1>5, <1>6

LEMMA DagStep == GraphInv /\ [Next]_vars => [Dag!Next]_(Dag!dagVars)
<1> SUFFICES ASSUME GraphInv, [Next]_vars PROVE [Dag!Next]_(Dag!dagVars)
  OBVIOUS
<1>1. ASSUME NEW t \in Tasks, NEW c \in Creators, NEW hold \in BOOLEAN,
             NEW P \in SeqsUpTo(Tracked, MaxPrereqs), CreateTask(t, c, P, hold)
      PROVE  [Dag!Next]_(Dag!dagVars)
  BY <1>1, DagCreate
<1>2. ASSUME NEW t \in Tasks, Unlock(t) PROVE [Dag!Next]_(Dag!dagVars)
  <2>1. /\ UNCHANGED <<prereqs, closed, waitFor>> /\ locked[t] /\ life[t] = "pending"
        /\ locked' = [locked EXCEPT ![t] = FALSE]
        /\ life' = IF outstanding[t] = 1 THEN [life EXCEPT ![t] = "queued"] ELSE life
    BY <1>2 DEF Unlock, ConditionalQueueTask, setupVars, eventVars
  <2>2. life \in [Jobs -> Stages] /\ t \in Jobs
    BY JobKinds DEF GraphInv, TypeOK, Shape
  <2>3. /\ life' \in [Jobs -> Stages] /\ life'[t] \in {"pending", "queued"}
        /\ \A y \in Jobs : y # t => life'[y] = life[y]
    BY <2>1, <2>2 DEF Stages
  <2>4. QED
    BY <2>1, <2>3, DagRelease
<1>3. ASSUME NEW t \in Tracked, NEW e \in Tracked, DontCompleteUntil(t, e)
      PROVE  [Dag!Next]_(Dag!dagVars)
  BY <1>3, DagAwaitMore
<1>4. ASSUME NEW x \in Jobs, Step(x) PROVE [Dag!Next]_(Dag!dagVars)
  <2>1. CASE CreateGather(x)
    BY <2>1, DagGather
  <2>2. CASE PopAllAndClose(x)
    BY <2>2, DagCompletes
  <2>3. QED
    BY <1>4, <2>1, <2>2, DagExecute, DagFinish, DagCounting DEF Step
<1>5. CASE UNCHANGED vars
  <2>1. ASSUME NEW u \in Tasks PROVE Awaited(u)' = Awaited(u)
    BY <1>5 DEF Awaited, vars
  <2>2. UNCHANGED Dag!dagVars
    BY <1>5, <2>1, DagStutter DEF vars
  <2>3. QED
    BY <2>2
<1>6. CASE Finished
  BY <1>5, <1>6 DEF Finished
<1>7. QED
  BY <1>1, <1>2, <1>3, <1>4, <1>5, <1>6 DEF Next

(* Counts, lists and gather tasks implement the graph the program drew:     *)
(* every step is a step of TaskDag or leaves it alone.                      *)
THEOREM ImplementsDagSafely == Spec => Dag!SafeSpec
<1>1. QED
  BY DagInit, DagStep, GraphInvariant, PTL DEF Spec, Dag!SafeSpec

=============================================================================
