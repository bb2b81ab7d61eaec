-------------------------- MODULE NamedThread_proofs --------------------------
(***************************************************************************)
(* Machine-checked safety of the named threads, for any number of threads, *)
(* tasks and waits: a wait returns when its tasks are done and leaves its  *)
(* own loop, no loop is entered again from within, the stalled bit tells   *)
(* the truth, and no task is stranded in the queue of a thread that waits. *)
(***************************************************************************)
EXTENDS NamedThread, TLAPS, SequenceTheorems, FiniteSetTheorems

-----------------------------------------------------------------------------
(* The inductive invariant                                                  *)

Jobs == Tasks \cup Waits
Frames == [lane : Lanes, stall : BOOLEAN, job : Jobs \cup {NoJob}, wait : Waits \cup {NoJob}]
Pushes == [lane : Lanes \cup {AnyThread}, step : {"none", "exchange", "trigger"}]

(* The phases of a wait somebody is in.                                     *)
Active == {"pending", "ready", "queued", "fired"}

Shut == \E l \in Lanes : quitForShutdown[l]

QueueShapes ==
  /\ queue \in [Lanes -> Seq(Jobs)] /\ stalled \in [Lanes -> BOOLEAN]
  /\ moved \in [Lanes -> BOOLEAN] /\ event \in [Lanes -> BOOLEAN]
  /\ push \in [Threads -> Pushes] /\ pool \subseteq Jobs
  /\ \A p \in Threads : push[p].lane \in Lanes <=> push[p].step # "none"

LoopShapes ==
  /\ quitForReturn \in [Lanes -> BOOLEAN] /\ quitForShutdown \in [Lanes -> BOOLEAN]
  /\ toTrigger \subseteq Lanes
  /\ guard \in [Lanes -> {0, 1}] /\ stack \in [Named -> Seq(Frames)]
  /\ pc \in [Named -> {"out", "loop", "scan", "stall", "wait", "exec", "dispatch", "leave"}]
  /\ \A n \in Named : pc[n] = "out" <=> stack[n] = <<>>

WaitShapes ==
  /\ created \subseteq Tasks /\ done \subseteq Tasks
  /\ doing \in [Workers -> Jobs \cup {NoJob}] /\ ready \in [Threads -> SUBSET Waits]
  /\ blocked \in [Threads -> Waits \cup {NoJob}]
  /\ phase \in [Waits -> Active \cup {"new", "returned"}]
  /\ needs \in [Waits -> SUBSET Tasks] /\ dest \in [Waits -> Lanes \cup {AnyThread}]

(* The loops a thread is inside are loops of its own lanes, one of each.    *)
LoopsInv ==
  /\ \A n \in Named : \A i \in DOMAIN stack[n] :
       stack[n][i].lane[1] = n /\ guard[stack[n][i].lane] = 1
  /\ \A n \in Named : \A i \in DOMAIN stack[n] : \A j \in DOMAIN stack[n] :
       stack[n][i].lane = stack[n][j].lane => i = j
  /\ \A l \in Lanes : guard[l] = 1 => \E i \in DOMAIN stack[l[1]] : stack[l[1]][i].lane = l

(* A wait that processes is the wait of one loop, which stalls and is not   *)
(* left before the return task of that very wait has run in it.             *)
WaitLoops ==
  /\ \A n \in Named : \A i \in DOMAIN stack[n] :
       LET f == stack[n][i] IN
       f.wait # NoJob => /\ f.stall /\ dest[f.wait] = f.lane /\ phase[f.wait] \in Active
                         /\ quitForReturn[f.lane] => phase[f.wait] = "fired"
  /\ \A n \in Named : At(n, "leave") /\ Top(n).wait # NoJob => phase[Top(n).wait] = "fired"
  /\ \A w \in Waits : phase[w] \in Active /\ dest[w] \in Lanes =>
       \E i \in DOMAIN stack[dest[w][1]] : stack[dest[w][1]][i].wait = w

(* Any other wait blocks one thread.                                        *)
WaitBlocks ==
  /\ \A p \in Threads : blocked[p] # NoJob =>
       dest[blocked[p]] = AnyThread /\ phase[blocked[p]] \in Active
  /\ \A p, q \in Threads : blocked[p] = blocked[q] /\ blocked[p] # NoJob => p = q

(* Where the return and trigger tasks are while they are queued.            *)
QueuedWaits ==
  /\ \A l \in Lanes : \A i \in DOMAIN queue[l] : queue[l][i] \in Waits =>
       /\ phase[queue[l][i]] = "queued" /\ dest[queue[l][i]] = l
       /\ \A j \in DOMAIN queue[l] : queue[l][j] = queue[l][i] => j = i
  /\ \A n \in Named : \A i \in DOMAIN stack[n] : stack[n][i].job \in Waits =>
       /\ phase[stack[n][i].job] = "queued" /\ stack[n][i].wait = stack[n][i].job
       /\ \A l \in Lanes : \A j \in DOMAIN queue[l] : queue[l][j] # stack[n][i].job
  /\ \A w \in pool \cap Waits : phase[w] = "queued" /\ dest[w] = AnyThread
  /\ \A o \in Workers : doing[o] \in Waits =>
       /\ phase[doing[o]] = "queued" /\ dest[doing[o]] = AnyThread /\ doing[o] \notin pool
       /\ \A u \in Workers : doing[u] = doing[o] => u = o

(* The others: nobody has them twice, and what they wait for is done.       *)
ReadyWaits ==
  /\ \A p \in Threads : \A w \in ready[p] :
       phase[w] = "ready" /\ \A q \in Threads : w \in ready[q] => q = p
  /\ \A n \in Named : ready[n] # {} => At(n, "dispatch")
  /\ \A w \in Waits : phase[w] \notin {"new", "pending"} => needs[w] \subseteq done

(* The stalled bit, the pusher that took it off and the event it sets wake  *)
(* a thread that waits in that lane, and no other.                          *)
Waiting(l) == At(l[1], "wait") /\ Lane(l[1]) = l
WakeInv ==
  /\ \A l \in Lanes : event[l] /\ ~Shut => Waiting(l) /\ ~stalled[l]
  /\ \A p \in Threads : push[p].step = "trigger" =>
       /\ Waiting(push[p].lane) /\ ~stalled[push[p].lane] /\ ~event[push[p].lane]
       /\ \A q \in Threads : push[q].step = "trigger" /\ push[q].lane = push[p].lane => q = p
  /\ \A n \in Named : At(n, "wait") =>
       \/ stalled[Lane(n)] \/ event[Lane(n)]
       \/ \E p \in Threads : push[p].step = "trigger" /\ push[p].lane = Lane(n)

(* What has come since the scan is noticed at the exchange, or somebody is  *)
(* still to exchange.                                                       *)
ScanInv ==
  \A n \in Named : At(n, "stall") /\ queue[Lane(n)] # <<>> =>
    moved[Lane(n)] \/ \E p \in Threads : push[p].lane = Lane(n)

(* The shutdown begins when nothing is under way.                           *)
ShutInv ==
  /\ toTrigger # {} => Shut
  /\ Shut => /\ \A l \in Lanes : quitForShutdown[l]
             /\ \A p \in Threads : push[p] = NoPush /\ ready[p] = {}
             /\ \A w \in Waits : phase[w] \in {"new", "returned"}

Shapes == QueueShapes /\ LoopShapes /\ WaitShapes
NamedInv ==
  /\ Shapes /\ LoopsInv /\ WaitLoops /\ WaitBlocks /\ QueuedWaits /\ ReadyWaits
  /\ WakeInv /\ StalledMeansWaiting /\ ScanInv /\ NoStrandedTask /\ ShutInv

-----------------------------------------------------------------------------
(* Lanes and loops                                                          *)

LEMMA LaneThreads ==
  /\ \A l \in Lanes : l[1] \in Named
  /\ Named \subseteq Threads /\ Workers \subseteq Threads
  /\ \A o \in Workers : o \notin Named
  /\ AnyThread \notin Lanes /\ NoJob \notin Jobs
  /\ \A w \in Waits : w \notin Tasks
  BY NamedAssumption DEF Lanes, Threads, Jobs

(* Inside a loop there is a frame on top.                                   *)
LEMMA TopFrame ==
  ASSUME Shapes, LoopsInv, NEW n \in Named, ~At(n, "out")
  PROVE  /\ Len(stack[n]) \in DOMAIN stack[n] /\ stack[n] # <<>>
         /\ Top(n) = stack[n][Len(stack[n])] /\ Top(n) \in Frames
         /\ Lane(n) \in Lanes /\ Lane(n)[1] = n /\ guard[Lane(n)] = 1
<1>1. stack[n] \in Seq(Frames) /\ stack[n] # <<>>
  BY DEF Shapes, LoopShapes, At
<1>2. Len(stack[n]) \in Nat /\ Len(stack[n]) # 0 /\ DOMAIN stack[n] = 1 .. Len(stack[n])
  BY <1>1, EmptySeq, LenProperties
<1>3. Len(stack[n]) \in DOMAIN stack[n]
  BY <1>2
<1>4. stack[n][Len(stack[n])] \in Frames
  BY <1>1, <1>2, <1>3, ElementOfSeq
<1>5. QED
  BY <1>1, <1>3, <1>4 DEF Top, Lane, LoopsInv, Frames

(* A frame's fields.                                                        *)
LEMMA FrameFields ==
  ASSUME LoopShapes, NEW n \in Named, NEW i \in DOMAIN stack[n]
  PROVE  /\ stack[n][i] \in Frames /\ stack[n][i].lane \in Lanes
         /\ stack[n][i].wait \in Waits \cup {NoJob}
         /\ stack[n][i].job \in Jobs \cup {NoJob}
<1>1. stack[n] \in Seq(Frames)
  BY DEF LoopShapes
<1>2. stack[n][i] \in Frames
  BY <1>1, ElementOfSeq, LenProperties
<1>3. QED
  BY <1>2 DEF Frames

(* Two loops have one lane only if they are the same.                       *)
LEMMA OneLoopPerLane ==
  ASSUME LoopsInv, NEW m \in Named, NEW i \in DOMAIN stack[m],
         NEW n \in Named, NEW j \in DOMAIN stack[n],
         stack[m][i].lane = stack[n][j].lane
  PROVE  m = n /\ i = j
  BY DEF LoopsInv

(* Two loops have one wait only if they are the same.                       *)
LEMMA OneLoopPerWait ==
  ASSUME LoopsInv, WaitLoops, NEW m \in Named, NEW i \in DOMAIN stack[m],
         NEW n \in Named, NEW j \in DOMAIN stack[n],
         stack[m][i].wait = stack[n][j].wait, stack[m][i].wait # NoJob
  PROVE  m = n /\ i = j
<1>1. stack[m][i].lane = stack[n][j].lane
  BY DEF WaitLoops
<1>2. QED
  BY <1>1, OneLoopPerLane

(* The loops stay what they are, but for the jobs they execute.             *)
SameLoops ==
  \A m \in Named :
    /\ DOMAIN stack'[m] = DOMAIN stack[m] /\ Len(stack'[m]) = Len(stack[m])
    /\ stack'[m] = <<>> <=> stack[m] = <<>>
    /\ \A i \in DOMAIN stack[m] :
         /\ stack'[m][i].lane = stack[m][i].lane /\ stack'[m][i].wait = stack[m][i].wait
         /\ stack'[m][i].stall = stack[m][i].stall

LEMMA SetJobEffect ==
  ASSUME Shapes, LoopsInv, NEW n \in Named, ~At(n, "out"),
         NEW j \in Jobs \cup {NoJob}, stack' = SetJob(n, j)
  PROVE  /\ stack' \in [Named -> Seq(Frames)] /\ SameLoops
         /\ \A m \in Named \ {n} : stack'[m] = stack[m]
         /\ \A i \in DOMAIN stack[n] :
              stack'[n][i].job = IF i = Len(stack[n]) THEN j ELSE stack[n][i].job
<1> DEFINE k == Len(stack[n])
           f == [stack[n][k] EXCEPT !.job = j]
<1>1. /\ stack \in [Named -> Seq(Frames)] /\ stack[n] \in Seq(Frames) /\ k \in DOMAIN stack[n]
      /\ stack[n][k] \in Frames /\ stack[n] # <<>>
  BY TopFrame DEF Shapes, LoopShapes
<1>2. f \in Frames /\ f.job = j /\ f.lane = stack[n][k].lane
      /\ f.wait = stack[n][k].wait /\ f.stall = stack[n][k].stall
  BY <1>1 DEF Frames
<1>3. stack' = [stack EXCEPT ![n] = [stack[n] EXCEPT ![k] = f]]
  BY DEF SetJob
<1> HIDE DEF f
<1>4. /\ [stack[n] EXCEPT ![k] = f] \in Seq(Frames)
      /\ DOMAIN [stack[n] EXCEPT ![k] = f] = DOMAIN stack[n]
      /\ Len([stack[n] EXCEPT ![k] = f]) = Len(stack[n])
      /\ \A i \in DOMAIN stack[n] :
           [stack[n] EXCEPT ![k] = f][i] = IF i = k THEN f ELSE stack[n][i]
  BY <1>1, <1>2, ExceptSeq, LenProperties
<1>5. \A m \in Named \ {n} : stack'[m] = stack[m]
  BY <1>1, <1>3
<1>6. stack'[n] = [stack[n] EXCEPT ![k] = f]
  BY <1>1, <1>3
<1>7. stack' \in [Named -> Seq(Frames)]
  BY <1>1, <1>3, <1>4
<1>8. stack'[n] # <<>>
  BY <1>1, <1>4, <1>6, EmptySeq
<1>9. SameLoops
  <2> SUFFICES ASSUME NEW m \in Named
               PROVE  /\ DOMAIN stack'[m] = DOMAIN stack[m] /\ Len(stack'[m]) = Len(stack[m])
                      /\ stack'[m] = <<>> <=> stack[m] = <<>>
                      /\ \A i \in DOMAIN stack[m] :
                           /\ stack'[m][i].lane = stack[m][i].lane
                           /\ stack'[m][i].wait = stack[m][i].wait
                           /\ stack'[m][i].stall = stack[m][i].stall
    BY DEF SameLoops
  <2>1. CASE m # n
    BY <1>5, <2>1
  <2>2. CASE m = n
    BY <1>1, <1>2, <1>4, <1>6, <1>8, <2>2
  <2>3. QED
    BY <2>1, <2>2
<1>10. QED
  BY <1>2, <1>4, <1>5, <1>6, <1>7, <1>9

(* A new loop on top.                                                       *)
LEMMA GrowEffect ==
  ASSUME Shapes, NEW n \in Named, NEW f \in Frames,
         stack' = [stack EXCEPT ![n] = Append(@, f)]
  PROVE  /\ stack' \in [Named -> Seq(Frames)] /\ stack'[n] # <<>>
         /\ \A m \in Named \ {n} : stack'[m] = stack[m]
         /\ \E k : /\ k \notin DOMAIN stack[n] /\ DOMAIN stack'[n] = DOMAIN stack[n] \cup {k}
                   /\ stack'[n][k] = f /\ k = Len(stack'[n])
                   /\ \A i \in DOMAIN stack[n] : stack'[n][i] = stack[n][i]
<1>1. stack \in [Named -> Seq(Frames)] /\ stack[n] \in Seq(Frames)
  BY DEF Shapes, LoopShapes
<1>2. stack'[n] = Append(stack[n], f) /\ \A m \in Named \ {n} : stack'[m] = stack[m]
  BY <1>1
<1>3. /\ Append(stack[n], f) \in Seq(Frames) /\ Append(stack[n], f) # <<>>
      /\ Len(Append(stack[n], f)) = Len(stack[n]) + 1
      /\ Append(stack[n], f)[Len(stack[n]) + 1] = f
      /\ \A i \in 1 .. Len(stack[n]) : Append(stack[n], f)[i] = stack[n][i]
  BY <1>1, AppendProperties
<1>4. stack' \in [Named -> Seq(Frames)]
  BY <1>1, <1>2, <1>3
<1>5. /\ Len(stack[n]) \in Nat /\ DOMAIN stack[n] = 1 .. Len(stack[n])
      /\ DOMAIN stack'[n] = 1 .. Len(stack[n]) + 1
  BY <1>1, <1>2, <1>3, LenProperties
<1>6. /\ Len(stack[n]) + 1 \notin DOMAIN stack[n]
      /\ DOMAIN stack'[n] = DOMAIN stack[n] \cup {Len(stack[n]) + 1}
  BY <1>5
<1>7. QED
  BY <1>2, <1>3, <1>4, <1>5, <1>6

(* The loop on top is left.                                                 *)
LEMMA ShrinkEffect ==
  ASSUME Shapes, LoopsInv, NEW n \in Named, ~At(n, "out"),
         stack' = [stack EXCEPT ![n] = SubSeq(stack[n], 1, Len(stack[n]) - 1)]
  PROVE  /\ stack' \in [Named -> Seq(Frames)]
         /\ \A m \in Named \ {n} : stack'[m] = stack[m]
         /\ DOMAIN stack'[n] = DOMAIN stack[n] \ {Len(stack[n])}
         /\ \A i \in DOMAIN stack'[n] : stack'[n][i] = stack[n][i]
<1> DEFINE b == SubSeq(stack[n], 1, Len(stack[n]) - 1)
<1>1. /\ stack \in [Named -> Seq(Frames)] /\ stack[n] \in Seq(Frames)
      /\ Len(stack[n]) \in DOMAIN stack[n]
  BY TopFrame DEF Shapes, LoopShapes
<1>2. /\ Len(stack[n]) \in Nat \ {0} /\ DOMAIN stack[n] = 1 .. Len(stack[n])
  BY <1>1, LenProperties
<1>3. b \in Seq(Frames) /\ Len(b) = Len(stack[n]) - 1
      /\ \A i \in 1 .. Len(stack[n]) - 1 : b[i] = stack[n][i]
  BY <1>1, <1>2
<1>4. DOMAIN b = 1 .. Len(stack[n]) - 1
  BY <1>2, <1>3, LenProperties
<1>5. DOMAIN b = DOMAIN stack[n] \ {Len(stack[n])}
  BY <1>2, <1>4
<1>6. stack' = [stack EXCEPT ![n] = b]
  OBVIOUS
<1> HIDE DEF b
<1>7. stack'[n] = b /\ \A m \in Named \ {n} : stack'[m] = stack[m]
  BY <1>1, <1>6
<1>8. stack' \in [Named -> Seq(Frames)]
  BY <1>1, <1>3, <1>6
<1>9. QED
  BY <1>3, <1>4, <1>5, <1>7, <1>8

-----------------------------------------------------------------------------
(* Queueing a task                                                          *)

LEMMA QueueTaskEffect ==
  ASSUME Shapes, NEW p \in Threads, push[p] = NoPush, NEW j \in Jobs,
         NEW to \in Lanes \cup {AnyThread}, QueueTask(p, j, to)
  PROVE  /\ QueueShapes' /\ UNCHANGED <<stalled, moved, event>>
         /\ \A l \in Lanes \ {to} : queue'[l] = queue[l]
         /\ to \in Lanes => \E k : /\ k \notin DOMAIN queue[to]
                                   /\ DOMAIN queue'[to] = DOMAIN queue[to] \cup {k}
                                   /\ queue'[to][k] = j
                                   /\ \A i \in DOMAIN queue[to] : queue'[to][i] = queue[to][i]
         /\ pool' = IF to = AnyThread THEN pool \cup {j} ELSE pool
         /\ \A q \in Threads \ {p} : push'[q] = push[q]
         /\ push'[p] = push[p] \/ push'[p].step = "exchange"
         /\ to \in Lanes => to[1] = p \/ push'[p].lane = to
<1> USE LaneThreads
<1>1. /\ queue \in [Lanes -> Seq(Jobs)] /\ push \in [Threads -> Pushes] /\ pool \subseteq Jobs
      /\ \A q \in Threads : push[q].lane \in Lanes <=> push[q].step # "none"
  BY DEF Shapes, QueueShapes
<1>2. CASE to = AnyThread
  <2>1. pool' = pool \cup {j} /\ UNCHANGED <<laneVars, push>>
    BY <1>2 DEF QueueTask
  <2>2. QED
    BY <1>1, <1>2, <2>1 DEF Shapes, QueueShapes, laneVars
<1>3. CASE to \in Lanes
  <2>1. /\ queue' = [queue EXCEPT ![to] = Append(queue[to], j)]
        /\ push' = IF to[1] = p THEN push
                   ELSE [push EXCEPT ![p] = [lane |-> to, step |-> "exchange"]]
        /\ UNCHANGED <<stalled, moved, event, pool>>
    BY <1>3 DEF QueueTask, PushStarts
  <2>2. /\ Append(queue[to], j) \in Seq(Jobs)
        /\ Len(Append(queue[to], j)) = Len(queue[to]) + 1
        /\ Append(queue[to], j)[Len(queue[to]) + 1] = j
        /\ \A i \in 1 .. Len(queue[to]) : Append(queue[to], j)[i] = queue[to][i]
    BY <1>1, <1>3, AppendProperties
  <2>3. /\ Len(queue[to]) \in Nat /\ DOMAIN queue[to] = 1 .. Len(queue[to])
        /\ DOMAIN Append(queue[to], j) = 1 .. Len(queue[to]) + 1
    BY <1>1, <1>3, <2>2, LenProperties
  <2>4. /\ Len(queue[to]) + 1 \notin DOMAIN queue[to]
        /\ DOMAIN Append(queue[to], j) = DOMAIN queue[to] \cup {Len(queue[to]) + 1}
    BY <2>3
  <2>5. queue'[to] = Append(queue[to], j) /\ \A l \in Lanes \ {to} : queue'[l] = queue[l]
    BY <1>1, <1>3, <2>1
  <2>6. queue' \in [Lanes -> Seq(Jobs)]
    BY <1>1, <2>1, <2>2
  <2>7. \E k : /\ k \notin DOMAIN queue[to]
               /\ DOMAIN queue'[to] = DOMAIN queue[to] \cup {k}
               /\ queue'[to][k] = j
               /\ \A i \in DOMAIN queue[to] : queue'[to][i] = queue[to][i]
    BY <2>2, <2>3, <2>4, <2>5
  <2>8. /\ \A q \in Threads \ {p} : push'[q] = push[q]
        /\ push'[p] = push[p] \/ push'[p].step = "exchange"
        /\ to[1] = p \/ push'[p].lane = to
        /\ push' \in [Threads -> Pushes]
        /\ \A q \in Threads : push'[q].lane \in Lanes <=> push'[q].step # "none"
    BY <1>1, <1>3, <2>1 DEF Pushes
  <2>9. QueueShapes'
    BY <1>1, <2>1, <2>6, <2>8 DEF Shapes, QueueShapes
  <2>10. to # AnyThread
    BY <1>3
  <2>11. QED
    BY <2>1, <2>5, <2>7, <2>8, <2>9, <2>10
<1>4. QED
  BY <1>2, <1>3

(* The places of the queued return and trigger tasks, after one more was    *)
(* queued or a task of the program was.                                     *)
LEMMA QueueTaskPlaces ==
  ASSUME Shapes, QueuedWaits, NEW p \in Threads, push[p] = NoPush, NEW j \in Jobs,
         NEW to \in Lanes \cup {AnyThread}, QueueTask(p, j, to), doing' = doing,
         \A w \in Waits : phase[w] = "queued" => phase'[w] = "queued" /\ dest'[w] = dest[w],
         j \in Waits => phase[j] # "queued" /\ phase'[j] = "queued" /\ dest'[j] = to,
         \A n \in Named : \A i \in DOMAIN stack'[n] : stack'[n][i].job \in Waits =>
           i \in DOMAIN stack[n] /\ stack'[n][i] = stack[n][i]
  PROVE  QueuedWaits'
<1> USE LaneThreads
<1>1. /\ \A l \in Lanes \ {to} : queue'[l] = queue[l]
      /\ to \in Lanes => \E k : /\ k \notin DOMAIN queue[to]
                                /\ DOMAIN queue'[to] = DOMAIN queue[to] \cup {k}
                                /\ queue'[to][k] = j
                                /\ \A i \in DOMAIN queue[to] : queue'[to][i] = queue[to][i]
      /\ pool' = IF to = AnyThread THEN pool \cup {j} ELSE pool
  BY QueueTaskEffect
<1>2. \A l \in Lanes : \A i \in DOMAIN queue'[l] :
        \/ i \in DOMAIN queue[l] /\ queue'[l][i] = queue[l][i]
        \/ i \notin DOMAIN queue[l] /\ l = to /\ queue'[l][i] = j
  BY <1>1
<1>3. \A l \in Lanes : \A i \in DOMAIN queue'[l] : \A k \in DOMAIN queue'[l] :
        i \notin DOMAIN queue[l] /\ k \notin DOMAIN queue[l] => i = k
  BY <1>1
<1>4. \A l \in Lanes : \A i \in DOMAIN queue[l] : queue[l][i] \in Waits =>
        phase[queue[l][i]] = "queued" /\ dest[queue[l][i]] = l /\ queue[l][i] # j
  BY DEF QueuedWaits
<1>5. ASSUME NEW l \in Lanes, NEW i \in DOMAIN queue'[l], queue'[l][i] \in Waits
      PROVE  /\ phase'[queue'[l][i]] = "queued" /\ dest'[queue'[l][i]] = l
             /\ \A k \in DOMAIN queue'[l] : queue'[l][k] = queue'[l][i] => k = i
  <2>1. phase'[queue'[l][i]] = "queued" /\ dest'[queue'[l][i]] = l
    BY <1>2, <1>4, <1>5
  <2>2. ASSUME NEW k \in DOMAIN queue'[l], queue'[l][k] = queue'[l][i]
        PROVE  k = i
    <3>1. CASE i \in DOMAIN queue[l] /\ k \in DOMAIN queue[l]
      <4>1. queue'[l][i] = queue[l][i] /\ queue'[l][k] = queue[l][k]
        BY <1>2, <3>1
      <4>2. queue[l][i] \in Waits /\ queue[l][k] = queue[l][i]
        BY <1>5, <2>2, <4>1
      <4>3. QED
        BY <3>1, <4>2 DEF QueuedWaits
    <3>2. CASE i \in DOMAIN queue[l] /\ k \notin DOMAIN queue[l]
      BY <1>2, <1>4, <1>5, <2>2, <3>2
    <3>3. CASE i \notin DOMAIN queue[l] /\ k \in DOMAIN queue[l]
      BY <1>2, <1>4, <1>5, <2>2, <3>3
    <3>4. CASE i \notin DOMAIN queue[l] /\ k \notin DOMAIN queue[l]
      BY <1>3, <3>4
    <3>5. QED
      BY <3>1, <3>2, <3>3, <3>4
  <2>3. QED
    BY <2>1, <2>2
<1>6. ASSUME NEW n \in Named, NEW i \in DOMAIN stack'[n], stack'[n][i].job \in Waits
      PROVE  /\ phase'[stack'[n][i].job] = "queued" /\ stack'[n][i].wait = stack'[n][i].job
             /\ \A l \in Lanes : \A k \in DOMAIN queue'[l] : queue'[l][k] # stack'[n][i].job
  <2>1. i \in DOMAIN stack[n] /\ stack'[n][i] = stack[n][i]
    BY <1>6
  <2>2. /\ phase[stack[n][i].job] = "queued" /\ stack[n][i].wait = stack[n][i].job
        /\ \A l \in Lanes : \A k \in DOMAIN queue[l] : queue[l][k] # stack[n][i].job
    BY <1>6, <2>1 DEF QueuedWaits
  <2>3. stack[n][i].job # j
    BY <1>6, <2>1, <2>2
  <2>4. QED
    BY <1>2, <1>6, <2>1, <2>2, <2>3
<1>7. \A w \in pool' \cap Waits : phase'[w] = "queued" /\ dest'[w] = AnyThread
  <2>1. \A w \in pool \cap Waits : phase[w] = "queued" /\ dest[w] = AnyThread
    BY DEF QueuedWaits
  <2>2. QED
    BY <1>1, <2>1
<1>8. ASSUME NEW o \in Workers, doing'[o] \in Waits
      PROVE  /\ phase'[doing'[o]] = "queued" /\ dest'[doing'[o]] = AnyThread
             /\ doing'[o] \notin pool'
             /\ \A u \in Workers : doing'[u] = doing'[o] => u = o
  <2>1. /\ phase[doing[o]] = "queued" /\ dest[doing[o]] = AnyThread /\ doing[o] \notin pool
        /\ \A u \in Workers : doing[u] = doing[o] => u = o
    BY <1>8 DEF QueuedWaits
  <2>2. doing[o] # j
    BY <1>8, <2>1
  <2>3. QED
    BY <1>1, <1>8, <2>1, <2>2
<1>9. QED
  BY <1>5, <1>6, <1>7, <1>8 DEF QueuedWaits

-----------------------------------------------------------------------------
(* Steps that leave most of the invariant alone                             *)

Sleepy == {"wait", "stall"}

(* Nobody goes to sleep or wakes up, and whoever adds to the queue of       *)
(* another thread has an exchange to do.                                    *)
LEMMA QuietKeeps ==
  ASSUME NamedInv, quitForShutdown' = quitForShutdown, UNCHANGED <<stalled, event>>,
         \A m \in Named : \/ pc'[m] = pc[m] /\ stack'[m] = stack[m]
                          \/ pc[m] # "wait" /\ pc'[m] \notin Sleepy,
         \A l \in Lanes : moved'[l] = moved[l] \/ pc'[l[1]] \notin Sleepy,
         NEW p \in Threads,
         \A l \in Lanes : \/ queue'[l] = queue[l] \/ push'[p].lane = l
                          \/ pc'[l[1]] \notin Sleepy,
         \A q \in Threads \ {p} : push'[q] = push[q],
         push'[p] = push[p] \/ (push[p] = NoPush /\ push'[p].step = "exchange")
  PROVE  WakeInv' /\ StalledMeansWaiting' /\ ScanInv' /\ NoStrandedTask'
<1> USE LaneThreads
<1>0. /\ Shapes /\ LoopsInv /\ WakeInv /\ StalledMeansWaiting /\ ScanInv /\ NoStrandedTask
      /\ pc \in [Named -> {"out", "loop", "scan", "stall", "wait", "exec", "dispatch", "leave"}]
  BY DEF NamedInv, Shapes, LoopShapes
<1>1. \A m \in Named : pc'[m] \in Sleepy => pc[m] = pc'[m] /\ Lane(m)' = Lane(m)
  BY DEF Lane, Top
<1>2. \A m \in Named : pc[m] = "wait" => pc[m] = pc'[m] /\ Lane(m)' = Lane(m)
  BY DEF Lane, Top
<1>3. \A l \in Lanes : Waiting(l) => Waiting(l)'
  BY <1>2 DEF Waiting, At, Sleepy
<1>4. \A q \in Threads : push'[q].step = "trigger" => push'[q] = push[q]
  OBVIOUS
<1>5. \A q \in Threads : \A l \in Lanes : push[q].lane = l => push'[q].lane = l
  BY DEF NoPush
<1>6. Shut' <=> Shut
  BY DEF Shut
<1>7. \A q \in Threads : push[q].step = "trigger" => push'[q] = push[q]
  BY DEF NoPush
<1>8. \A m \in Named : At(m, "wait") \/ At(m, "stall") => Lane(m) \in Lanes /\ Lane(m)[1] = m
  BY <1>0, TopFrame DEF At
<1>9. WakeInv'
  <2>1. ASSUME NEW l \in Lanes, event'[l], ~Shut' PROVE Waiting(l)' /\ ~stalled'[l]
    BY <1>0, <1>3, <1>6, <2>1 DEF WakeInv
  <2>2. ASSUME NEW q \in Threads, push'[q].step = "trigger"
        PROVE  /\ Waiting(push[q].lane)' /\ ~stalled'[push'[q].lane] /\ ~event'[push'[q].lane]
               /\ \A r \in Threads : push'[r].step = "trigger" /\ push'[r].lane = push'[q].lane
                                       => r = q
    <3>1. push[q].step = "trigger" /\ push[q].lane = push'[q].lane
      BY <1>4, <2>2
    <3>2. push[q].lane \in Lanes
      BY <1>0, <3>1 DEF Shapes, QueueShapes
    <3>3. Waiting(push[q].lane) /\ ~stalled[push[q].lane] /\ ~event[push[q].lane]
          /\ \A r \in Threads : push[r].step = "trigger" /\ push[r].lane = push[q].lane => r = q
      BY <1>0, <3>1 DEF WakeInv
    <3>4. PICK l \in Lanes : l = push[q].lane
      BY <3>2
    <3>5. Waiting(l)' /\ l = push'[q].lane
      BY <1>3, <3>1, <3>3, <3>4
    <3>6. QED
      BY <1>4, <3>1, <3>3, <3>4, <3>5 DEF Waiting
  <2>3. ASSUME NEW m \in Named, At(m, "wait")'
        PROVE  \/ stalled'[Lane(m)'] \/ event'[Lane(m)']
               \/ \E q \in Threads : push'[q].step = "trigger" /\ push'[q].lane = Lane(m)'
    <3>1. At(m, "wait") /\ Lane(m)' = Lane(m)
      BY <1>1, <2>3 DEF At, Sleepy
    <3>2. \/ stalled[Lane(m)] \/ event[Lane(m)]
          \/ \E q \in Threads : push[q].step = "trigger" /\ push[q].lane = Lane(m)
      BY <1>0, <3>1 DEF WakeInv
    <3>3. QED
      BY <1>7, <3>1, <3>2
  <2>4. QED
    BY <2>1, <2>2, <2>3 DEF WakeInv
<1>10. StalledMeansWaiting'
  <2>1. \A l \in Lanes : Waiting(l) <=> At(l[1], "wait") /\ Lane(l[1]) = l
    BY DEF Waiting
  <2>2. \A l \in Lanes : Waiting(l)' <=> At(l[1], "wait")' /\ Lane(l[1])' = l
    BY DEF Waiting
  <2>3. QED
    BY <1>0, <1>3, <2>1, <2>2 DEF StalledMeansWaiting
<1>11. ScanInv'
  <2> SUFFICES ASSUME NEW m \in Named, At(m, "stall")', queue'[Lane(m)'] # <<>>
               PROVE  moved'[Lane(m)'] \/ \E q \in Threads : push'[q].lane = Lane(m)'
    BY DEF ScanInv
  <2>1. At(m, "stall") /\ Lane(m)' = Lane(m) /\ pc'[m] \in Sleepy
    BY <1>1 DEF At, Sleepy
  <2>2. Lane(m) \in Lanes /\ Lane(m)[1] = m
    BY <1>8, <2>1
  <2>3. CASE queue'[Lane(m)] = queue[Lane(m)]
    BY <1>0, <1>5, <2>1, <2>2, <2>3 DEF ScanInv
  <2>4. CASE push'[p].lane = Lane(m)
    BY <2>1, <2>4
  <2>5. QED
    BY <2>1, <2>2, <2>3, <2>4
<1>12. NoStrandedTask'
  <2> SUFFICES ASSUME NEW m \in Named, At(m, "wait")', queue'[Lane(m)'] # <<>>
               PROVE  event'[Lane(m)'] \/ \E q \in Threads : push'[q].lane = Lane(m)'
    BY DEF NoStrandedTask
  <2>1. At(m, "wait") /\ Lane(m)' = Lane(m) /\ pc'[m] \in Sleepy
    BY <1>1 DEF At, Sleepy
  <2>2. Lane(m) \in Lanes /\ Lane(m)[1] = m
    BY <1>8, <2>1
  <2>3. CASE queue'[Lane(m)] = queue[Lane(m)]
    BY <1>0, <1>5, <2>1, <2>2, <2>3 DEF NoStrandedTask
  <2>4. CASE push'[p].lane = Lane(m)
    BY <2>1, <2>4
  <2>5. QED
    BY <2>1, <2>2, <2>3, <2>4
<1>13. QED
  BY <1>9, <1>10, <1>11, <1>12

(* A thread steps about its Pop: the tasks, the waits and the loops stay.   *)
LEMMA LaneStepKeeps ==
  ASSUME NamedInv, NEW n \in Named, NEW x \in {"loop", "scan", "stall", "wait", "leave"},
         ~At(n, "out"), ~At(n, "dispatch"), pc' = [pc EXCEPT ![n] = x],
         stalled' \in [Lanes -> BOOLEAN], moved' \in [Lanes -> BOOLEAN],
         event' \in [Lanes -> BOOLEAN],
         x = "leave" /\ Top(n).wait # NoJob => phase[Top(n).wait] = "fired",
         UNCHANGED <<queue, push, pool, quitVars, guard, stack, ready, taskVars, waitVars>>
  PROVE  /\ Shapes' /\ LoopsInv' /\ WaitLoops' /\ WaitBlocks' /\ QueuedWaits' /\ ReadyWaits'
         /\ ShutInv' /\ pc'[n] = x
         /\ \A m \in Named : m # n => pc'[m] = pc[m]
         /\ \A m \in Named : Top(m)' = Top(m)
<1>0. /\ Shapes /\ LoopsInv /\ WaitLoops /\ WaitBlocks /\ QueuedWaits /\ ReadyWaits /\ ShutInv
      /\ pc \in [Named -> {"out", "loop", "scan", "stall", "wait", "exec", "dispatch", "leave"}]
  BY DEF NamedInv, Shapes, LoopShapes
<1>1. pc'[n] = x /\ \A m \in Named : m # n => pc'[m] = pc[m]
  BY <1>0
<1>2. \A m \in Named : Top(m)' = Top(m)
  BY DEF Top
<1>3. Shapes'
  <2>1. QueueShapes'
    BY <1>0 DEF Shapes, QueueShapes
  <2>2. LoopShapes'
    <3>1. \A m \in Named : pc'[m] = "out" <=> pc[m] = "out"
      BY <1>1 DEF At
    <3>2. pc' \in [Named -> {"out", "loop", "scan", "stall", "wait", "exec", "dispatch", "leave"}]
      BY <1>0
    <3>3. QED
      BY <1>0, <3>1, <3>2 DEF Shapes, LoopShapes, quitVars
  <2>3. WaitShapes'
    BY <1>0 DEF Shapes, WaitShapes, taskVars, waitVars
  <2>4. QED
    BY <2>1, <2>2, <2>3 DEF Shapes
<1>4. LoopsInv'
  BY <1>0 DEF LoopsInv
<1>5. WaitLoops'
  <2>1. \A m \in Named : At(m, "leave")' /\ Top(m)'.wait # NoJob => phase'[Top(m)'.wait] = "fired"
    BY <1>0, <1>1, <1>2 DEF WaitLoops, At, waitVars
  <2>2. QED
    BY <1>0, <2>1 DEF WaitLoops, waitVars, quitVars
<1>6. WaitBlocks' /\ QueuedWaits'
  BY <1>0 DEF WaitBlocks, QueuedWaits, waitVars, taskVars
<1>7. ReadyWaits'
  BY <1>0, <1>1 DEF ReadyWaits, At, waitVars, taskVars
<1>8. ShutInv'
  BY <1>0 DEF ShutInv, Shut, quitVars, waitVars
<1>9. QED
  BY <1>1, <1>2, <1>3, <1>4, <1>5, <1>6, <1>7, <1>8

-----------------------------------------------------------------------------
(* The loop                                                                 *)

LEMMA LoopKeeps ==
  ASSUME NamedInv, NEW n \in Named, Loop(n)
  PROVE  NamedInv'
<1> USE LaneThreads
<1>0. /\ Shapes /\ LoopsInv /\ WaitLoops /\ At(n, "loop") /\ ~At(n, "out")
      /\ Lane(n) \in Lanes /\ Lane(n)[1] = n /\ moved \in [Lanes -> BOOLEAN]
      /\ stalled \in [Lanes -> BOOLEAN] /\ event \in [Lanes -> BOOLEAN]
  BY TopFrame DEF NamedInv, Loop, At, Shapes, QueueShapes
<1>1. PICK x \in {"leave", "scan"} :
        /\ pc' = [pc EXCEPT ![n] = x]
        /\ x = "leave" => quitForReturn[Lane(n)]
        /\ moved' = moved \/ moved' = [moved EXCEPT ![Lane(n)] = FALSE]
  BY DEF Loop
<1>2. UNCHANGED <<queue, stalled, event, push, pool, quitVars, guard, stack, ready,
                  taskVars, waitVars>>
  BY DEF Loop
<1>3. x = "leave" /\ Top(n).wait # NoJob => phase[Top(n).wait] = "fired"
  BY <1>0, <1>1, TopFrame DEF WaitLoops, Lane
<1>4. /\ moved' \in [Lanes -> BOOLEAN]
      /\ \A l \in Lanes : moved'[l] = moved[l] \/ l[1] = n
  BY <1>0, <1>1
<1>5. /\ Shapes' /\ LoopsInv' /\ WaitLoops' /\ WaitBlocks' /\ QueuedWaits' /\ ReadyWaits'
      /\ ShutInv' /\ pc'[n] = x /\ \A m \in Named : m # n => pc'[m] = pc[m]
  <2>1. x \in {"loop", "scan", "stall", "wait", "leave"} /\ ~At(n, "dispatch")
    BY <1>0, <1>1 DEF At
  <2>2. stalled' \in [Lanes -> BOOLEAN] /\ event' \in [Lanes -> BOOLEAN]
    BY <1>0, <1>2
  <2>3. UNCHANGED <<queue, push, pool, quitVars, guard, stack, ready, taskVars, waitVars>>
    BY <1>2
  <2>4. QED
    BY <1>0, <1>1, <1>3, <1>4, <2>1, <2>2, <2>3, LaneStepKeeps
<1>6. WakeInv' /\ StalledMeansWaiting' /\ ScanInv' /\ NoStrandedTask'
  <2>1. pc[n] # "wait" /\ pc'[n] \notin Sleepy
    BY <1>0, <1>1, <1>5 DEF At, Sleepy
  <2>2. \A m \in Named : \/ pc'[m] = pc[m] /\ stack'[m] = stack[m]
                         \/ pc[m] # "wait" /\ pc'[m] \notin Sleepy
    BY <1>2, <1>5, <2>1
  <2>3. \A l \in Lanes : moved'[l] = moved[l] \/ pc'[l[1]] \notin Sleepy
    BY <1>4, <2>1
  <2>4. quitForShutdown' = quitForShutdown /\ UNCHANGED <<stalled, event, queue, push>>
    BY <1>2 DEF quitVars
  <2>5. n \in Threads
    OBVIOUS
  <2>6. QED
    BY <2>2, <2>3, <2>4, <2>5, QuietKeeps
<1>7. QED
  BY <1>5, <1>6 DEF NamedInv

LEMMA PopNothingKeeps ==
  ASSUME NamedInv, NEW n \in Named, PopNothing(n)
  PROVE  NamedInv'
<1> USE LaneThreads
<1>0. /\ Shapes /\ LoopsInv /\ WaitLoops /\ WakeInv /\ StalledMeansWaiting /\ ScanInv
      /\ NoStrandedTask /\ At(n, "scan") /\ ~At(n, "out") /\ queue[Lane(n)] = <<>>
      /\ moved \in [Lanes -> BOOLEAN]
      /\ stalled \in [Lanes -> BOOLEAN] /\ event \in [Lanes -> BOOLEAN]
  BY DEF NamedInv, PopNothing, At, Shapes, QueueShapes
<1>1. PICK x \in {"leave", "stall"} :
        pc' = [pc EXCEPT ![n] = x] /\ (x = "leave" => ~Top(n).stall)
  BY DEF PopNothing
<1>2. UNCHANGED <<queueVars, quitVars, guard, stack, ready, taskVars, waitVars>>
  BY DEF PopNothing
<1>3. x = "leave" => Top(n).wait = NoJob
  BY <1>0, <1>1, TopFrame DEF WaitLoops
<1>4. /\ Shapes' /\ LoopsInv' /\ WaitLoops' /\ WaitBlocks' /\ QueuedWaits' /\ ReadyWaits'
      /\ ShutInv' /\ pc'[n] = x /\ \A m \in Named : m # n => pc'[m] = pc[m]
      /\ \A m \in Named : Top(m)' = Top(m)
  <2>1. x \in {"loop", "scan", "stall", "wait", "leave"} /\ ~At(n, "dispatch")
    BY <1>0, <1>1 DEF At
  <2>2. /\ moved' \in [Lanes -> BOOLEAN]
        /\ stalled' \in [Lanes -> BOOLEAN] /\ event' \in [Lanes -> BOOLEAN]
    BY <1>0, <1>2 DEF queueVars, laneVars
  <2>3. UNCHANGED <<queue, push, pool, quitVars, guard, stack, ready, taskVars, waitVars>>
    BY <1>2 DEF queueVars, laneVars
  <2>4. x = "leave" /\ Top(n).wait # NoJob => phase[Top(n).wait] = "fired"
    BY <1>3
  <2>5. QED
    BY <1>0, <1>1, <2>1, <2>2, <2>3, <2>4, LaneStepKeeps
<1>5. \A m \in Named : Lane(m)' = Lane(m)
  BY <1>4 DEF Lane
<1>6. /\ UNCHANGED <<queue, stalled, moved, event, push>> /\ quitForShutdown' = quitForShutdown
      /\ \A m \in Named : At(m, "wait")' <=> At(m, "wait")
  BY <1>0, <1>1, <1>2, <1>4 DEF At, queueVars, laneVars, quitVars
<1>7. WakeInv'
  <2>1. Shut' <=> Shut
    BY <1>6 DEF Shut
  <2>2. \A l \in Lanes : Waiting(l) => Waiting(l)'
    BY <1>5, <1>6 DEF Waiting
  <2>3. \A p \in Threads : push[p].step = "trigger" =>
          /\ Waiting(push[p].lane)' /\ ~stalled[push[p].lane] /\ ~event[push[p].lane]
          /\ \A q \in Threads : push[q].step = "trigger" /\ push[q].lane = push[p].lane => q = p
    <3> SUFFICES ASSUME NEW p \in Threads, push[p].step = "trigger"
                 PROVE  /\ Waiting(push[p].lane)'
                        /\ ~stalled[push[p].lane] /\ ~event[push[p].lane]
                        /\ \A q \in Threads : push[q].step = "trigger"
                              /\ push[q].lane = push[p].lane => q = p
      OBVIOUS
    <3>1. push[p].lane \in Lanes /\ Waiting(push[p].lane)
      BY <1>0 DEF WakeInv, Shapes, QueueShapes
    <3>2. PICK l \in Lanes : l = push[p].lane
      BY <3>1
    <3>3. Waiting(l)' /\ push'[p].lane = l
      BY <1>6, <2>2, <3>1, <3>2
    <3>4. Waiting(push[p].lane)'
      BY <3>3 DEF Waiting
    <3>5. QED
      BY <1>0, <3>4 DEF WakeInv
  <2>4. QED
    BY <1>0, <1>5, <1>6, <2>1, <2>2, <2>3 DEF WakeInv
<1>8. StalledMeansWaiting' /\ NoStrandedTask'
  BY <1>0, <1>5, <1>6 DEF StalledMeansWaiting, NoStrandedTask
<1>9. ScanInv'
  BY <1>0, <1>4, <1>5, <1>6 DEF ScanInv, At
<1>10. QED
  BY <1>4, <1>7, <1>8, <1>9 DEF NamedInv

LEMMA StallKeeps ==
  ASSUME NamedInv, NEW n \in Named, Stall(n)
  PROVE  NamedInv'
<1> USE LaneThreads
<1>0. /\ Shapes /\ LoopsInv /\ WaitLoops /\ WakeInv /\ StalledMeansWaiting /\ ScanInv
      /\ NoStrandedTask /\ ShutInv /\ At(n, "stall") /\ ~At(n, "out") /\ ~At(n, "wait")
      /\ Lane(n) \in Lanes /\ Lane(n)[1] = n /\ moved \in [Lanes -> BOOLEAN]
      /\ stalled \in [Lanes -> BOOLEAN] /\ event \in [Lanes -> BOOLEAN]
  BY TopFrame DEF NamedInv, Stall, At, Shapes, QueueShapes
<1>1. /\ UNCHANGED <<queue, event, push, pool, quitVars, guard, stack, ready, taskVars, waitVars>>
      /\ ~At(n, "dispatch") /\ quitForShutdown' = quitForShutdown /\ event' \in [Lanes -> BOOLEAN]
  BY <1>0 DEF Stall, At, quitVars
<1>2. CASE moved[Lane(n)]
  <2>1. /\ moved' = [moved EXCEPT ![Lane(n)] = FALSE] /\ pc' = [pc EXCEPT ![n] = "scan"]
        /\ UNCHANGED stalled
    BY <1>2 DEF Stall, MayStall
  <2>2. moved' \in [Lanes -> BOOLEAN] /\ stalled' \in [Lanes -> BOOLEAN]
    BY <1>0, <2>1
  <2>3. /\ Shapes' /\ LoopsInv' /\ WaitLoops' /\ WaitBlocks' /\ QueuedWaits' /\ ReadyWaits'
        /\ ShutInv' /\ pc'[n] = "scan" /\ \A m \in Named : m # n => pc'[m] = pc[m]
    <3>1. "scan" \in {"loop", "scan", "stall", "wait", "leave"} /\ "scan" # "leave"
      OBVIOUS
    <3>2. UNCHANGED <<queue, push, pool, quitVars, guard, stack, ready, taskVars, waitVars>>
      BY <1>1
    <3>3. QED
      BY <1>0, <1>1, <2>1, <2>2, <3>1, <3>2, LaneStepKeeps
  <2>4. \A m \in Named : \/ pc'[m] = pc[m] /\ stack'[m] = stack[m]
                         \/ pc[m] # "wait" /\ pc'[m] \notin Sleepy
    BY <1>0, <1>1, <2>3 DEF At, Sleepy
  <2>5. \A l \in Lanes : moved'[l] = moved[l] \/ pc'[l[1]] \notin Sleepy
    BY <1>0, <2>1, <2>3 DEF Sleepy
  <2>6. WakeInv' /\ StalledMeansWaiting' /\ ScanInv' /\ NoStrandedTask'
    <3>1. n \in Threads /\ UNCHANGED <<stalled, event, queue, push>>
      BY <1>1, <2>1
    <3>2. QED
      BY <1>1, <2>4, <2>5, <3>1, QuietKeeps
  <2>7. QED
    BY <2>3, <2>6 DEF NamedInv
<1>3. CASE ~moved[Lane(n)]
  <2>1. /\ stalled' = [stalled EXCEPT ![Lane(n)] = TRUE] /\ pc' = [pc EXCEPT ![n] = "wait"]
        /\ UNCHANGED moved
    BY <1>3 DEF Stall, MayStall
  <2>2. moved' \in [Lanes -> BOOLEAN] /\ stalled' \in [Lanes -> BOOLEAN]
    BY <1>0, <2>1
  <2>3. /\ Shapes' /\ LoopsInv' /\ WaitLoops' /\ WaitBlocks' /\ QueuedWaits' /\ ReadyWaits'
        /\ ShutInv' /\ pc'[n] = "wait" /\ \A m \in Named : m # n => pc'[m] = pc[m]
        /\ \A m \in Named : Top(m)' = Top(m)
    <3>1. "wait" \in {"loop", "scan", "stall", "wait", "leave"} /\ "wait" # "leave"
      OBVIOUS
    <3>2. UNCHANGED <<queue, push, pool, quitVars, guard, stack, ready, taskVars, waitVars>>
      BY <1>1
    <3>3. QED
      BY <1>0, <1>1, <2>1, <2>2, <3>1, <3>2, LaneStepKeeps
  <2>4. /\ \A m \in Named : Lane(m)' = Lane(m)
        /\ \A m \in Named : At(m, "wait") => At(m, "wait")'
        /\ \A m \in Named : m # n => (At(m, "wait")' <=> At(m, "wait"))
        /\ \A m \in Named : At(m, "stall")' => At(m, "stall") /\ m # n
        /\ At(n, "wait")'
    BY <1>0, <2>3 DEF At, Lane
  <2>5. /\ \A l \in Lanes : Waiting(l) => Waiting(l)' /\ l # Lane(n)
        /\ Waiting(Lane(n))'
    BY <1>0, <2>4 DEF Waiting
  <2>6. stalled'[Lane(n)] /\ \A l \in Lanes : l # Lane(n) => stalled'[l] = stalled[l]
    BY <1>0, <2>1
  <2>7. UNCHANGED <<queue, event, push, moved>> /\ (Shut' <=> Shut)
    BY <1>1, <2>1 DEF Shut
  <2>8. ASSUME NEW p \in Threads, push[p].step = "trigger"
        PROVE  /\ Waiting(push[p].lane)'
               /\ ~stalled'[push[p].lane] /\ ~event'[push[p].lane]
               /\ \A q \in Threads : push[q].step = "trigger" /\ push[q].lane = push[p].lane => q = p
    <3>1. push[p].lane \in Lanes /\ Waiting(push[p].lane)
      BY <1>0, <2>8 DEF WakeInv, Shapes, QueueShapes
    <3>2. PICK l \in Lanes : l = push[p].lane
      BY <3>1
    <3>3. Waiting(l)' /\ l # Lane(n) /\ push'[p].lane = l
      BY <2>5, <2>7, <3>1, <3>2
    <3>4. Waiting(push[p].lane)'
      BY <3>3 DEF Waiting
    <3>5. QED
      BY <1>0, <2>6, <2>7, <2>8, <3>2, <3>3, <3>4 DEF WakeInv
  <2>9. WakeInv'
    <3>1. \A l \in Lanes : event'[l] /\ ~Shut' => Waiting(l)' /\ ~stalled'[l]
      BY <1>0, <2>5, <2>6, <2>7 DEF WakeInv
    <3>2. ASSUME NEW m \in Named, At(m, "wait")'
          PROVE  \/ stalled'[Lane(m)'] \/ event'[Lane(m)']
                 \/ \E p \in Threads : push'[p].step = "trigger" /\ push'[p].lane = Lane(m)'
      <4>1. CASE m = n
        BY <2>4, <2>6, <4>1
      <4>2. CASE m # n
        <5>1. At(m, "wait") /\ Lane(m)' = Lane(m) /\ Lane(m) \in Lanes /\ Lane(m)[1] = m
          BY <1>0, <2>4, <3>2, <4>2, TopFrame DEF At
        <5>2. QED
          BY <1>0, <2>6, <2>7, <4>2, <5>1 DEF WakeInv
      <4>3. QED
        BY <4>1, <4>2
    <3>3. QED
      BY <2>7, <2>8, <3>1, <3>2 DEF WakeInv
  <2>10. StalledMeansWaiting'
    <3> SUFFICES ASSUME NEW l \in Lanes, stalled'[l], ~quitForShutdown'[l]
                 PROVE  At(l[1], "wait")' /\ Lane(l[1])' = l
      BY DEF StalledMeansWaiting
    <3>1. CASE l = Lane(n)
      BY <1>0, <2>4, <3>1
    <3>2. CASE l # Lane(n)
      BY <1>0, <1>1, <2>4, <2>6, <3>2 DEF StalledMeansWaiting
    <3>3. QED
      BY <3>1, <3>2
  <2>11. ScanInv'
    BY <1>0, <2>4, <2>7 DEF ScanInv
  <2>12. NoStrandedTask'
    <3>1. queue[Lane(n)] # <<>> => \E p \in Threads : push[p].lane = Lane(n)
      BY <1>0, <1>3 DEF ScanInv
    <3>2. QED
      BY <1>0, <2>4, <2>7, <3>1 DEF NoStrandedTask
  <2>13. QED
    BY <2>3, <2>9, <2>10, <2>11, <2>12 DEF NamedInv
<1>4. QED
  BY <1>2, <1>3

LEMMA WakeUpKeeps ==
  ASSUME NamedInv, NEW n \in Named, WakeUp(n)
  PROVE  NamedInv'
<1> USE LaneThreads
<1>0. /\ Shapes /\ LoopsInv /\ WaitLoops /\ WakeInv /\ StalledMeansWaiting /\ ScanInv
      /\ NoStrandedTask /\ ShutInv /\ At(n, "wait") /\ ~At(n, "out") /\ ~At(n, "dispatch")
      /\ Lane(n) \in Lanes /\ Lane(n)[1] = n /\ event[Lane(n)]
      /\ moved \in [Lanes -> BOOLEAN]
      /\ stalled \in [Lanes -> BOOLEAN] /\ event \in [Lanes -> BOOLEAN]
  BY TopFrame DEF NamedInv, WakeUp, At, Shapes, QueueShapes
<1>1. PICK x \in {"leave", "loop"} :
        pc' = [pc EXCEPT ![n] = x] /\ (x = "leave" => quitForShutdown[Lane(n)])
  BY DEF WakeUp
<1>2. /\ event' = [event EXCEPT ![Lane(n)] = FALSE]
      /\ UNCHANGED <<queue, stalled, moved, push, pool, quitVars, guard, stack, ready,
                     taskVars, waitVars>>
  BY DEF WakeUp
<1>3. x = "leave" => Top(n).wait = NoJob
  <2>1. x = "leave" => Shut
    BY <1>0, <1>1 DEF Shut
  <2>2. Top(n).wait # NoJob => Top(n).wait \in Waits /\ phase[Top(n).wait] \in Active
    BY <1>0, TopFrame DEF WaitLoops, Frames
  <2>3. QED
    BY <1>0, <2>1, <2>2 DEF ShutInv, Active
<1>4. /\ Shapes' /\ LoopsInv' /\ WaitLoops' /\ WaitBlocks' /\ QueuedWaits' /\ ReadyWaits'
      /\ ShutInv' /\ pc'[n] = x /\ \A m \in Named : m # n => pc'[m] = pc[m]
      /\ \A m \in Named : Top(m)' = Top(m)
  <2>1. x \in {"loop", "scan", "stall", "wait", "leave"}
    BY <1>1
  <2>2. /\ moved' \in [Lanes -> BOOLEAN]
        /\ stalled' \in [Lanes -> BOOLEAN] /\ event' \in [Lanes -> BOOLEAN]
    BY <1>0, <1>2
  <2>3. UNCHANGED <<queue, push, pool, quitVars, guard, stack, ready, taskVars, waitVars>>
    BY <1>2
  <2>4. x = "leave" /\ Top(n).wait # NoJob => phase[Top(n).wait] = "fired"
    BY <1>3
  <2>5. QED
    BY <1>0, <1>1, <2>1, <2>2, <2>3, <2>4, LaneStepKeeps
<1>5. /\ \A m \in Named : Lane(m)' = Lane(m)
      /\ \A m \in Named : At(m, "wait")' <=> At(m, "wait") /\ m # n
      /\ \A m \in Named : At(m, "stall")' => At(m, "stall")
  BY <1>1, <1>4 DEF Lane, At
<1>6. /\ UNCHANGED <<queue, stalled, moved, push>> /\ quitForShutdown' = quitForShutdown
      /\ ~event'[Lane(n)] /\ \A l \in Lanes : l # Lane(n) => event'[l] = event[l]
      /\ Shut' <=> Shut
  BY <1>0, <1>2 DEF quitVars, Shut
<1>7. \A l \in Lanes : Waiting(l) /\ l # Lane(n) => Waiting(l)'
  BY <1>5 DEF Waiting
<1>8. ASSUME NEW p \in Threads, push[p].step = "trigger"
      PROVE  /\ Waiting(push[p].lane)'
             /\ ~stalled'[push[p].lane] /\ ~event'[push[p].lane]
             /\ \A q \in Threads : push[q].step = "trigger" /\ push[q].lane = push[p].lane => q = p
  <2>1. push[p].lane \in Lanes /\ Waiting(push[p].lane) /\ ~event[push[p].lane]
    BY <1>0, <1>8 DEF WakeInv, Shapes, QueueShapes
  <2>2. PICK l \in Lanes : l = push[p].lane
    BY <2>1
  <2>3. Waiting(l)' /\ l # Lane(n) /\ push'[p].lane = l
    BY <1>0, <1>6, <1>7, <2>1, <2>2
  <2>4. Waiting(push[p].lane)'
    BY <2>3 DEF Waiting
  <2>5. QED
    BY <1>0, <1>6, <1>8, <2>2, <2>3, <2>4 DEF WakeInv
<1>9. WakeInv'
  <2>1. \A l \in Lanes : event'[l] /\ ~Shut' => Waiting(l)' /\ ~stalled'[l]
    BY <1>0, <1>6, <1>7 DEF WakeInv
  <2>2. ASSUME NEW m \in Named, At(m, "wait")'
        PROVE  \/ stalled'[Lane(m)'] \/ event'[Lane(m)']
               \/ \E p \in Threads : push'[p].step = "trigger" /\ push'[p].lane = Lane(m)'
    <3>1. At(m, "wait") /\ Lane(m)' = Lane(m) /\ Lane(m) \in Lanes /\ Lane(m)[1] = m /\ m # n
      BY <1>0, <1>5, <2>2, TopFrame DEF At
    <3>2. QED
      BY <1>0, <1>6, <3>1 DEF WakeInv
  <2>3. QED
    BY <1>6, <1>8, <2>1, <2>2 DEF WakeInv
<1>10. StalledMeansWaiting'
  <2> SUFFICES ASSUME NEW l \in Lanes, stalled'[l], ~quitForShutdown'[l]
               PROVE  At(l[1], "wait")' /\ Lane(l[1])' = l
    BY DEF StalledMeansWaiting
  <2>1. stalled[l] /\ At(l[1], "wait") /\ Lane(l[1]) = l
    BY <1>0, <1>6 DEF StalledMeansWaiting
  <2>2. ~Shut
    BY <1>0, <1>6 DEF ShutInv
  <2>3. l # Lane(n)
    BY <1>0, <2>1, <2>2 DEF WakeInv
  <2>4. QED
    BY <1>0, <1>5, <2>1, <2>3
<1>11. ScanInv'
  BY <1>0, <1>5, <1>6 DEF ScanInv
<1>12. NoStrandedTask'
  <2> SUFFICES ASSUME NEW m \in Named, At(m, "wait")', queue'[Lane(m)'] # <<>>
               PROVE  event'[Lane(m)'] \/ \E q \in Threads : push'[q].lane = Lane(m)'
    BY DEF NoStrandedTask
  <2>1. At(m, "wait") /\ Lane(m)' = Lane(m) /\ Lane(m) \in Lanes /\ Lane(m)[1] = m /\ m # n
    BY <1>0, <1>5, TopFrame DEF At
  <2>2. QED
    BY <1>0, <1>6, <2>1 DEF NoStrandedTask
<1>13. QED
  BY <1>4, <1>9, <1>10, <1>11, <1>12 DEF NamedInv

(* Steps that enter and leave no loop.                                      *)
LEMMA SameLoopsKeep ==
  ASSUME NamedInv, SameLoops, UNCHANGED <<guard, blocked, dest>>,
         \A w \in Waits : /\ phase'[w] \in Active <=> phase[w] \in Active
                          /\ phase[w] = "fired" => phase'[w] = "fired",
         \A m \in Named : At(m, "leave")' => At(m, "leave"),
         \A l \in Lanes : quitForReturn'[l] =>
           \/ quitForReturn[l]
           \/ \A m \in Named : \A i \in DOMAIN stack[m] :
                stack[m][i].lane = l /\ stack[m][i].wait # NoJob
                  => phase'[stack[m][i].wait] = "fired"
  PROVE  LoopsInv' /\ WaitLoops' /\ WaitBlocks'
<1> USE LaneThreads
<1>0. Shapes /\ LoopShapes /\ LoopsInv /\ WaitLoops /\ WaitBlocks
  BY DEF NamedInv, Shapes
<1>1. LoopsInv'
  <2>1. \A m \in Named : \A i \in DOMAIN stack'[m] :
          stack'[m][i].lane[1] = m /\ guard'[stack'[m][i].lane] = 1
    BY <1>0 DEF LoopsInv, SameLoops
  <2>2. \A m \in Named : \A i \in DOMAIN stack'[m] : \A j \in DOMAIN stack'[m] :
          stack'[m][i].lane = stack'[m][j].lane => i = j
    BY <1>0 DEF LoopsInv, SameLoops
  <2>3. \A l \in Lanes : guard'[l] = 1 => \E i \in DOMAIN stack'[l[1]] : stack'[l[1]][i].lane = l
    BY <1>0 DEF LoopsInv, SameLoops
  <2>4. QED
    BY <2>1, <2>2, <2>3 DEF LoopsInv
<1>2. ASSUME NEW m \in Named, NEW i \in DOMAIN stack'[m], stack'[m][i].wait # NoJob
      PROVE  /\ stack'[m][i].stall /\ dest'[stack'[m][i].wait] = stack'[m][i].lane
             /\ phase'[stack'[m][i].wait] \in Active
             /\ quitForReturn'[stack'[m][i].lane] => phase'[stack'[m][i].wait] = "fired"
  <2>1. /\ i \in DOMAIN stack[m] /\ stack'[m][i].lane = stack[m][i].lane
        /\ stack'[m][i].wait = stack[m][i].wait /\ stack'[m][i].stall = stack[m][i].stall
    BY <1>2 DEF SameLoops
  <2>2. stack[m][i].lane \in Lanes /\ stack[m][i].wait \in Waits
    BY <1>0, <1>2, <2>1, FrameFields
  <2>3. /\ stack[m][i].stall /\ dest[stack[m][i].wait] = stack[m][i].lane
        /\ phase[stack[m][i].wait] \in Active
        /\ quitForReturn[stack[m][i].lane] => phase[stack[m][i].wait] = "fired"
    BY <1>0, <1>2, <2>1 DEF WaitLoops
  <2>4. QED
    BY <1>2, <2>1, <2>2, <2>3
<1>3. ASSUME NEW m \in Named, At(m, "leave")', Top(m)'.wait # NoJob
      PROVE  phase'[Top(m)'.wait] = "fired"
  <2>1. At(m, "leave") /\ ~At(m, "out")
    BY <1>3 DEF At
  <2>2. Len(stack[m]) \in DOMAIN stack[m] /\ Top(m) = stack[m][Len(stack[m])] /\ Top(m) \in Frames
    BY <1>0, <2>1, TopFrame
  <2>3. Top(m)'.wait = Top(m).wait
    BY <2>2 DEF SameLoops, Top
  <2>4. phase[Top(m).wait] = "fired" /\ Top(m).wait \in Waits
    BY <1>0, <1>3, <2>1, <2>2, <2>3 DEF WaitLoops, Frames
  <2>5. QED
    BY <2>3, <2>4
<1>4. \A w \in Waits : phase'[w] \in Active /\ dest'[w] \in Lanes =>
        \E i \in DOMAIN stack'[dest'[w][1]] : stack'[dest'[w][1]][i].wait = w
  BY <1>0 DEF WaitLoops, SameLoops
<1>5. WaitLoops'
  BY <1>2, <1>3, <1>4 DEF WaitLoops
<1>6. WaitBlocks'
  BY <1>0 DEF WaitBlocks, Shapes, WaitShapes
<1>7. QED
  BY <1>1, <1>5, <1>6

(* Steps that put no return or trigger task anywhere.                       *)
LEMMA PlacesKeep ==
  ASSUME QueuedWaits, queue' = queue, pool' \subseteq pool,
         \A o \in Workers : doing'[o] \in Waits => doing'[o] = doing[o],
         \A n \in Named : \A i \in DOMAIN stack'[n] : stack'[n][i].job \in Waits =>
           /\ i \in DOMAIN stack[n] /\ stack'[n][i].job = stack[n][i].job
           /\ stack'[n][i].wait = stack[n][i].wait,
         \A w \in Waits : phase[w] = "queued" =>
           \/ phase'[w] = "queued" /\ dest'[w] = dest[w]
           \/ /\ \A l \in Lanes : \A i \in DOMAIN queue[l] : queue[l][i] # w
              /\ w \notin pool
              /\ \A n \in Named : \A i \in DOMAIN stack'[n] : stack'[n][i].job # w
              /\ \A o \in Workers : doing'[o] # w
  PROVE  QueuedWaits'
<1>1. ASSUME NEW l \in Lanes, NEW i \in DOMAIN queue[l], queue[l][i] \in Waits
      PROVE  /\ phase'[queue[l][i]] = "queued" /\ dest'[queue[l][i]] = l
             /\ \A j \in DOMAIN queue[l] : queue[l][j] = queue[l][i] => j = i
  <2>1. /\ phase[queue[l][i]] = "queued" /\ dest[queue[l][i]] = l
        /\ \A j \in DOMAIN queue[l] : queue[l][j] = queue[l][i] => j = i
    BY <1>1 DEF QueuedWaits
  <2>2. QED
    BY <1>1, <2>1
<1>2. ASSUME NEW n \in Named, NEW i \in DOMAIN stack'[n], stack'[n][i].job \in Waits
      PROVE  /\ phase'[stack'[n][i].job] = "queued" /\ stack'[n][i].wait = stack'[n][i].job
             /\ \A l \in Lanes : \A j \in DOMAIN queue[l] : queue[l][j] # stack'[n][i].job
  <2>1. /\ i \in DOMAIN stack[n] /\ stack'[n][i].job = stack[n][i].job
        /\ stack'[n][i].wait = stack[n][i].wait
    BY <1>2
  <2>2. /\ phase[stack[n][i].job] = "queued" /\ stack[n][i].wait = stack[n][i].job
        /\ \A l \in Lanes : \A j \in DOMAIN queue[l] : queue[l][j] # stack[n][i].job
    BY <1>2, <2>1 DEF QueuedWaits
  <2>3. QED
    BY <1>2, <2>1, <2>2
<1>3. \A w \in pool' \cap Waits : phase'[w] = "queued" /\ dest'[w] = AnyThread
  BY DEF QueuedWaits
<1>4. ASSUME NEW o \in Workers, doing'[o] \in Waits
      PROVE  /\ phase'[doing'[o]] = "queued" /\ dest'[doing'[o]] = AnyThread
             /\ doing'[o] \notin pool'
             /\ \A u \in Workers : doing'[u] = doing'[o] => u = o
  <2>1. /\ phase[doing[o]] = "queued" /\ dest[doing[o]] = AnyThread /\ doing[o] \notin pool
        /\ \A u \in Workers : doing[u] = doing[o] => u = o
    BY <1>4 DEF QueuedWaits
  <2>2. \A u \in Workers : doing'[u] = doing'[o] => u = o
    BY <1>4, <2>1
  <2>3. QED
    BY <1>4, <2>1, <2>2
<1>5. QED
  BY <1>1, <1>2, <1>3, <1>4 DEF QueuedWaits

LEMMA TailEffect ==
  ASSUME NEW s \in Seq(Jobs), s # <<>>
  PROVE  /\ Head(s) = s[1] /\ 1 \in DOMAIN s /\ Head(s) \in Jobs /\ Tail(s) \in Seq(Jobs)
         /\ \A i \in DOMAIN Tail(s) :
              i + 1 \in DOMAIN s /\ i + 1 # 1 /\ i \in Int /\ Tail(s)[i] = s[i + 1]
<1>1. Len(s) \in Nat \ {0} /\ DOMAIN s = 1 .. Len(s)
  BY EmptySeq, LenProperties
<1>2. /\ Head(s) = s[1] /\ Head(s) \in Jobs /\ Tail(s) \in Seq(Jobs)
      /\ Len(Tail(s)) = Len(s) - 1 /\ \A i \in 1 .. Len(Tail(s)) : Tail(s)[i] = s[i + 1]
  BY <1>1, HeadTailProperties
<1>3. DOMAIN Tail(s) = 1 .. Len(s) - 1
  BY <1>1, <1>2, LenProperties
<1>4. QED
  BY <1>1, <1>2, <1>3

LEMMA PopTaskKeeps ==
  ASSUME NamedInv, NEW n \in Named, PopTask(n)
  PROVE  NamedInv'
<1> USE LaneThreads
<1>0. /\ Shapes /\ LoopsInv /\ WaitLoops /\ QueuedWaits /\ ReadyWaits /\ ShutInv
      /\ At(n, "scan") /\ ~At(n, "out")
      /\ Lane(n) \in Lanes /\ Lane(n)[1] = n /\ queue[Lane(n)] # <<>>
      /\ queue \in [Lanes -> Seq(Jobs)] /\ queue[Lane(n)] \in Seq(Jobs)
      /\ pc \in [Named -> {"out", "loop", "scan", "stall", "wait", "exec", "dispatch", "leave"}]
  BY TopFrame DEF NamedInv, PopTask, At, Shapes, QueueShapes, LoopShapes
<1> DEFINE s == queue[Lane(n)]
           j == Head(s)
<1>1. /\ queue' = [queue EXCEPT ![Lane(n)] = Tail(s)]
      /\ stack' = SetJob(n, j) /\ pc' = [pc EXCEPT ![n] = "exec"]
      /\ UNCHANGED <<stalled, moved, event, push, pool, quitVars, guard, ready, taskVars, waitVars>>
  BY DEF PopTask
<1>2. /\ j = s[1] /\ 1 \in DOMAIN s /\ j \in Jobs /\ Tail(s) \in Seq(Jobs)
      /\ \A i \in DOMAIN Tail(s) :
           i + 1 \in DOMAIN s /\ i + 1 # 1 /\ i \in Int /\ Tail(s)[i] = s[i + 1]
  BY <1>0, TailEffect
<1>3. /\ queue' \in [Lanes -> Seq(Jobs)] /\ queue'[Lane(n)] = Tail(s)
      /\ \A l \in Lanes : l # Lane(n) => queue'[l] = queue[l]
  BY <1>0, <1>1, <1>2
<1> HIDE DEF j
<1>4. /\ stack' \in [Named -> Seq(Frames)] /\ SameLoops
      /\ \A m \in Named \ {n} : stack'[m] = stack[m]
      /\ \A i \in DOMAIN stack[n] :
           stack'[n][i].job = IF i = Len(stack[n]) THEN j ELSE stack[n][i].job
  BY <1>0, <1>1, <1>2, SetJobEffect
<1>5. pc'[n] = "exec" /\ \A m \in Named : m # n => pc'[m] = pc[m]
  BY <1>0, <1>1
<1>6. Shapes'
  <2>1. QueueShapes'
    BY <1>0, <1>1, <1>3 DEF Shapes, QueueShapes
  <2>2. LoopShapes'
    <3>1. \A m \in Named : pc'[m] = "out" <=> pc[m] = "out"
      BY <1>0, <1>5 DEF At
    <3>2. \A m \in Named : stack'[m] = <<>> <=> stack[m] = <<>>
      BY <1>4 DEF SameLoops
    <3>3. pc' \in [Named -> {"out", "loop", "scan", "stall", "wait", "exec", "dispatch", "leave"}]
      BY <1>0, <1>1
    <3>4. QED
      BY <1>0, <1>1, <1>4, <3>1, <3>2, <3>3 DEF Shapes, LoopShapes, quitVars
  <2>3. WaitShapes'
    BY <1>0, <1>1 DEF Shapes, WaitShapes, taskVars, waitVars
  <2>4. QED
    BY <2>1, <2>2, <2>3 DEF Shapes
<1>7. LoopsInv' /\ WaitLoops' /\ WaitBlocks'
  <2>1. UNCHANGED <<guard, blocked, dest, phase, quitForReturn>>
    BY <1>1 DEF waitVars, quitVars
  <2>2. \A m \in Named : At(m, "leave")' => At(m, "leave")
    BY <1>5 DEF At
  <2>3. QED
    BY <1>4, <2>1, <2>2, SameLoopsKeep
<1>8. \A l \in Lanes : \A i \in DOMAIN queue'[l] : \E k \in DOMAIN queue[l] :
        queue'[l][i] = queue[l][k] /\ (l = Lane(n) => k = i + 1 /\ k # 1 /\ i \in Int)
                                   /\ (l # Lane(n) => k = i)
  <2> SUFFICES ASSUME NEW l \in Lanes, NEW i \in DOMAIN queue'[l]
               PROVE  \E k \in DOMAIN queue[l] :
                        queue'[l][i] = queue[l][k]
                        /\ (l = Lane(n) => k = i + 1 /\ k # 1 /\ i \in Int)
                        /\ (l # Lane(n) => k = i)
    OBVIOUS
  <2>1. CASE l = Lane(n)
    <3>1. i \in DOMAIN Tail(s)
      BY <1>3, <2>1
    <3>2. i + 1 \in DOMAIN queue[l] /\ i + 1 # 1 /\ i \in Int /\ queue'[l][i] = queue[l][i + 1]
      BY <1>2, <1>3, <2>1, <3>1
    <3>3. QED
      BY <2>1, <3>2
  <2>2. CASE l # Lane(n)
    BY <1>3, <2>2
  <2>3. QED
    BY <2>1, <2>2
<1>9. j \in Waits => /\ phase[j] = "queued" /\ dest[j] = Lane(n) /\ Top(n).wait = j
                     /\ \A k \in DOMAIN s : s[k] = j => k = 1
  <2> SUFFICES ASSUME j \in Waits
               PROVE  /\ phase[j] = "queued" /\ dest[j] = Lane(n) /\ Top(n).wait = j
                      /\ \A k \in DOMAIN s : s[k] = j => k = 1
    OBVIOUS
  <2>1. /\ phase[j] = "queued" /\ dest[j] = Lane(n)
        /\ \A k \in DOMAIN s : s[k] = j => k = 1
    BY <1>0, <1>2 DEF QueuedWaits
  <2>2. PICK i \in DOMAIN stack[n] : stack[n][i].wait = j
    BY <1>0, <2>1 DEF WaitLoops, Active
  <2>3. j # NoJob
    BY <1>2
  <2>4. stack[n][i].lane = Lane(n)
    BY <1>0, <2>1, <2>2, <2>3 DEF WaitLoops
  <2>5. /\ Len(stack[n]) \in DOMAIN stack[n] /\ Top(n) = stack[n][Len(stack[n])]
        /\ stack[n][Len(stack[n])].lane = Lane(n)
    BY <1>0, TopFrame DEF Lane
  <2>6. i = Len(stack[n])
    BY <1>0, <2>2, <2>4, <2>5 DEF LoopsInv
  <2>7. QED
    BY <2>1, <2>2, <2>5, <2>6
<1>10. QueuedWaits'
  <2>0. UNCHANGED <<phase, dest, pool, doing>>
    BY <1>1 DEF waitVars, taskVars
  <2>1. ASSUME NEW l \in Lanes, NEW i \in DOMAIN queue'[l], queue'[l][i] \in Waits
        PROVE  /\ phase'[queue'[l][i]] = "queued" /\ dest'[queue'[l][i]] = l
               /\ \A k \in DOMAIN queue'[l] : queue'[l][k] = queue'[l][i] => k = i
    <3>1. PICK a \in DOMAIN queue[l] :
            queue'[l][i] = queue[l][a] /\ (l = Lane(n) => a = i + 1 /\ a # 1 /\ i \in Int)
                                       /\ (l # Lane(n) => a = i)
      BY <1>8, <2>1
    <3>2. /\ phase[queue[l][a]] = "queued" /\ dest[queue[l][a]] = l
          /\ \A k \in DOMAIN queue[l] : queue[l][k] = queue[l][a] => k = a
      BY <1>0, <2>1, <3>1 DEF QueuedWaits
    <3>3. ASSUME NEW k \in DOMAIN queue'[l], queue'[l][k] = queue'[l][i] PROVE k = i
      <4>1. PICK b \in DOMAIN queue[l] :
            queue'[l][k] = queue[l][b] /\ (l = Lane(n) => b = k + 1 /\ b # 1 /\ k \in Int)
                                       /\ (l # Lane(n) => b = k)
        BY <1>8, <3>3
      <4>2. a = b
        BY <3>1, <3>2, <3>3, <4>1
      <4>3. QED
        BY <3>1, <4>1, <4>2
    <3>4. QED
      BY <2>0, <3>1, <3>2, <3>3
  <2>2. ASSUME NEW m \in Named, NEW i \in DOMAIN stack'[m], stack'[m][i].job \in Waits
        PROVE  /\ phase'[stack'[m][i].job] = "queued" /\ stack'[m][i].wait = stack'[m][i].job
               /\ \A l \in Lanes : \A k \in DOMAIN queue'[l] : queue'[l][k] # stack'[m][i].job
    <3>1. i \in DOMAIN stack[m] /\ stack'[m][i].wait = stack[m][i].wait
      BY <1>4, <2>2 DEF SameLoops
    <3>2. CASE m = n /\ i = Len(stack[n])
      <4>1. stack'[m][i].job = j /\ j \in Waits
        BY <1>4, <2>2, <3>1, <3>2
      <4>2. /\ phase[j] = "queued" /\ dest[j] = Lane(n) /\ Top(n).wait = j
            /\ \A k \in DOMAIN s : s[k] = j => k = 1
        BY <1>9, <4>1
      <4>3. stack'[m][i].wait = j
        BY <3>1, <3>2, <4>2 DEF Top
      <4>4. ASSUME NEW l \in Lanes, NEW k \in DOMAIN queue'[l] PROVE queue'[l][k] # j
        <5>1. PICK a \in DOMAIN queue[l] :
                queue'[l][k] = queue[l][a] /\ (l = Lane(n) => a # 1)
          BY <1>8, <4>4
        <5>2. CASE l = Lane(n)
          BY <4>2, <5>1, <5>2
        <5>3. CASE l # Lane(n)
          BY <1>0, <4>1, <4>2, <5>1, <5>3 DEF QueuedWaits
        <5>4. QED
          BY <5>2, <5>3
      <4>5. QED
        BY <2>0, <4>1, <4>2, <4>3, <4>4
    <3>3. CASE ~(m = n /\ i = Len(stack[n]))
      <4>1. stack'[m][i].job = stack[m][i].job
        BY <1>4, <3>1, <3>3
      <4>2. /\ phase[stack[m][i].job] = "queued" /\ stack[m][i].wait = stack[m][i].job
            /\ \A l \in Lanes : \A k \in DOMAIN queue[l] : queue[l][k] # stack[m][i].job
        BY <1>0, <2>2, <3>1, <4>1 DEF QueuedWaits
      <4>3. ASSUME NEW l \in Lanes, NEW k \in DOMAIN queue'[l] PROVE queue'[l][k] # stack[m][i].job
        <5>1. PICK a \in DOMAIN queue[l] : queue'[l][k] = queue[l][a]
          BY <1>8, <4>3
        <5>2. QED
          BY <4>2, <5>1
      <4>4. QED
        BY <2>0, <3>1, <4>1, <4>2, <4>3
    <3>4. QED
      BY <3>2, <3>3
  <2>3. \A w \in pool' \cap Waits : phase'[w] = "queued" /\ dest'[w] = AnyThread
    BY <1>0, <2>0 DEF QueuedWaits
  <2>4. \A o \in Workers : doing'[o] \in Waits =>
          /\ phase'[doing'[o]] = "queued" /\ dest'[doing'[o]] = AnyThread /\ doing'[o] \notin pool'
          /\ \A u \in Workers : doing'[u] = doing'[o] => u = o
    BY <1>0, <2>0 DEF QueuedWaits
  <2>5. QED
    BY <2>1, <2>2, <2>3, <2>4 DEF QueuedWaits
<1>11. ReadyWaits'
  <2>1. UNCHANGED <<ready, phase, needs, done>>
    BY <1>1 DEF waitVars, taskVars
  <2>2. \A m \in Named : At(m, "dispatch") => At(m, "dispatch")'
    BY <1>0, <1>5 DEF At
  <2>3. QED
    BY <1>0, <2>1, <2>2 DEF ReadyWaits
<1>12. ShutInv'
  BY <1>0, <1>1 DEF ShutInv, Shut, quitVars, waitVars
<1>13. WakeInv' /\ StalledMeansWaiting' /\ ScanInv' /\ NoStrandedTask'
  <2>1. \A m \in Named : \/ pc'[m] = pc[m] /\ stack'[m] = stack[m]
                         \/ pc[m] # "wait" /\ pc'[m] \notin Sleepy
    BY <1>0, <1>4, <1>5 DEF At, Sleepy
  <2>2. \A l \in Lanes : queue'[l] = queue[l] \/ pc'[l[1]] \notin Sleepy
    BY <1>0, <1>3, <1>5 DEF Sleepy
  <2>3. n \in Threads /\ UNCHANGED <<stalled, event, moved, push>>
        /\ quitForShutdown' = quitForShutdown
    BY <1>1 DEF quitVars
  <2>4. QED
    BY <2>1, <2>2, <2>3, QuietKeeps
<1>14. QED
  BY <1>6, <1>7, <1>10, <1>11, <1>12, <1>13 DEF NamedInv

LEMMA RunReturnTaskKeeps ==
  ASSUME NamedInv, NEW n \in Named, RunReturnTask(n)
  PROVE  NamedInv'
<1> USE LaneThreads
<1> DEFINE w == Top(n).job
           k == Len(stack[n])
<1>0. /\ Shapes /\ LoopsInv /\ WaitLoops /\ QueuedWaits /\ ReadyWaits /\ ShutInv
      /\ At(n, "exec") /\ ~At(n, "out") /\ w \in Waits
      /\ k \in DOMAIN stack[n] /\ Top(n) = stack[n][k] /\ Lane(n) \in Lanes /\ Lane(n)[1] = n
      /\ pc \in [Named -> {"out", "loop", "scan", "stall", "wait", "exec", "dispatch", "leave"}]
      /\ phase \in [Waits -> Active \cup {"new", "returned"}]
      /\ quitForReturn \in [Lanes -> BOOLEAN]
  BY TopFrame DEF NamedInv, RunReturnTask, At, Shapes, LoopShapes, WaitShapes
<1>1. /\ quitForReturn' = [quitForReturn EXCEPT ![dest[w]] = TRUE]
      /\ phase' = [phase EXCEPT ![w] = "fired"]
      /\ stack' = SetJob(n, NoJob) /\ pc' = [pc EXCEPT ![n] = "loop"]
      /\ UNCHANGED <<queueVars, quitForShutdown, toTrigger, guard, ready, taskVars, needs,
                     dest, blocked>>
  BY DEF RunReturnTask
<1>2. /\ stack[n][k].job = w /\ phase[w] = "queued" /\ stack[n][k].wait = w
      /\ \A l \in Lanes : \A i \in DOMAIN queue[l] : queue[l][i] # w
  BY <1>0 DEF QueuedWaits
<1>3. w # NoJob /\ dest[w] = Lane(n) /\ Lane(n) = stack[n][k].lane
  BY <1>0, <1>2 DEF WaitLoops, Lane, Jobs
<1> HIDE DEF w
<1>4. /\ stack' \in [Named -> Seq(Frames)] /\ SameLoops
      /\ \A m \in Named \ {n} : stack'[m] = stack[m]
      /\ \A i \in DOMAIN stack[n] :
           stack'[n][i].job = IF i = k THEN NoJob ELSE stack[n][i].job
  BY <1>0, <1>1, SetJobEffect
<1>5. /\ pc'[n] = "loop" /\ \A m \in Named : m # n => pc'[m] = pc[m]
      /\ phase'[w] = "fired" /\ \A u \in Waits : u # w => phase'[u] = phase[u]
      /\ \A l \in Lanes : quitForReturn'[l] => quitForReturn[l] \/ l = Lane(n)
  BY <1>0, <1>1, <1>3
<1>6. Shapes'
  <2>1. QueueShapes'
    BY <1>0, <1>1 DEF Shapes, QueueShapes, queueVars, laneVars
  <2>2. LoopShapes'
    <3>1. \A m \in Named : pc'[m] = "out" <=> pc[m] = "out"
      BY <1>0, <1>5 DEF At
    <3>2. \A m \in Named : stack'[m] = <<>> <=> stack[m] = <<>>
      BY <1>4 DEF SameLoops
    <3>3. pc' \in [Named -> {"out", "loop", "scan", "stall", "wait", "exec", "dispatch", "leave"}]
      BY <1>0, <1>1
    <3>4. quitForReturn' \in [Lanes -> BOOLEAN]
      BY <1>0, <1>1
    <3>5. QED
      BY <1>0, <1>1, <1>4, <3>1, <3>2, <3>3, <3>4 DEF Shapes, LoopShapes
  <2>3. WaitShapes'
    BY <1>0, <1>1 DEF Shapes, WaitShapes, taskVars, Active
  <2>4. QED
    BY <2>1, <2>2, <2>3 DEF Shapes
<1>7. LoopsInv' /\ WaitLoops' /\ WaitBlocks'
  <2>1. \A u \in Waits : /\ phase'[u] \in Active <=> phase[u] \in Active
                         /\ phase[u] = "fired" => phase'[u] = "fired"
    BY <1>2, <1>5 DEF Active
  <2>2. \A m \in Named : At(m, "leave")' => At(m, "leave")
    BY <1>5 DEF At
  <2>3. ASSUME NEW m \in Named, NEW i \in DOMAIN stack[m], stack[m][i].lane = Lane(n)
        PROVE  phase'[stack[m][i].wait] = "fired"
    <3>1. m = n /\ i = k
      BY <1>0, <1>3, <2>3, OneLoopPerLane
    <3>2. QED
      BY <1>2, <1>5, <3>1
  <2>4. \A l \in Lanes : quitForReturn'[l] =>
           \/ quitForReturn[l]
           \/ \A m \in Named : \A i \in DOMAIN stack[m] :
                stack[m][i].lane = l /\ stack[m][i].wait # NoJob
                  => phase'[stack[m][i].wait] = "fired"
    BY <1>5, <2>3
  <2>5. QED
    BY <1>1, <1>4, <2>1, <2>2, <2>4, SameLoopsKeep
<1>8. QueuedWaits'
  <2>1. ASSUME NEW m \in Named, NEW i \in DOMAIN stack'[m], stack'[m][i].job \in Waits
        PROVE  /\ i \in DOMAIN stack[m] /\ stack'[m][i].job = stack[m][i].job
               /\ stack'[m][i].wait = stack[m][i].wait /\ stack'[m][i].job # w
    <3>1. i \in DOMAIN stack[m] /\ stack'[m][i].wait = stack[m][i].wait
      BY <1>4 DEF SameLoops
    <3>2. ~(m = n /\ i = k)
      BY <1>4, <2>1, <3>1 DEF Jobs
    <3>3. stack'[m][i].job = stack[m][i].job
      BY <1>4, <3>1, <3>2
    <3>4. stack[m][i].wait = stack[m][i].job
      BY <1>0, <2>1, <3>1, <3>3 DEF QueuedWaits
    <3>5. stack[m][i].job # w
      BY <1>0, <1>2, <1>3, <3>1, <3>2, <3>4, OneLoopPerWait
    <3>6. QED
      BY <3>1, <3>3, <3>5
  <2>2. w \notin pool /\ \A o \in Workers : doing[o] # w
    BY <1>0, <1>3 DEF QueuedWaits
  <2>3. UNCHANGED <<queue, pool, doing, dest>>
    BY <1>1 DEF queueVars, laneVars, taskVars
  <2>4. \A u \in Waits : phase[u] = "queued" =>
           \/ phase'[u] = "queued" /\ dest'[u] = dest[u]
           \/ /\ \A l \in Lanes : \A i \in DOMAIN queue[l] : queue[l][i] # u
              /\ u \notin pool
              /\ \A m \in Named : \A i \in DOMAIN stack'[m] : stack'[m][i].job # u
              /\ \A o \in Workers : doing'[o] # u
    BY <1>0, <1>2, <1>5, <2>1, <2>2, <2>3
  <2>5. QED
    BY <1>0, <2>1, <2>3, <2>4, PlacesKeep
<1>9. ReadyWaits'
  <2>1. UNCHANGED <<ready, needs, done>>
    BY <1>1 DEF taskVars
  <2>2. \A m \in Named : At(m, "dispatch") => At(m, "dispatch")'
    BY <1>0, <1>5 DEF At
  <2>3. \A p \in Threads : \A u \in ready[p] : phase'[u] = "ready"
    BY <1>0, <1>2, <1>5 DEF ReadyWaits, Shapes, WaitShapes
  <2>4. \A u \in Waits : phase'[u] \notin {"new", "pending"} => needs[u] \subseteq done
    BY <1>0, <1>2, <1>5 DEF ReadyWaits
  <2>5. QED
    BY <1>0, <2>1, <2>2, <2>3, <2>4 DEF ReadyWaits
<1>10. ShutInv'
  <2>1. ~Shut
    BY <1>0, <1>2 DEF ShutInv
  <2>2. QED
    BY <1>0, <1>1, <2>1 DEF ShutInv, Shut
<1>11. WakeInv' /\ StalledMeansWaiting' /\ ScanInv' /\ NoStrandedTask'
  <2>1. \A m \in Named : \/ pc'[m] = pc[m] /\ stack'[m] = stack[m]
                         \/ pc[m] # "wait" /\ pc'[m] \notin Sleepy
    BY <1>0, <1>4, <1>5 DEF At, Sleepy
  <2>2. n \in Threads /\ UNCHANGED <<queue, stalled, event, moved, push>>
        /\ quitForShutdown' = quitForShutdown
    BY <1>1 DEF queueVars, laneVars
  <2>3. QED
    BY <2>1, <2>2, QuietKeeps
<1>12. QED
  BY <1>6, <1>7, <1>8, <1>9, <1>10, <1>11 DEF NamedInv

-----------------------------------------------------------------------------
(* A task completes                                                         *)

(* What the completion of a task does to the waits.                         *)
LEMMA CompleteKeeps ==
  ASSUME Shapes, ReadyWaits, ShutInv, NEW p \in Threads, NEW t \in Tasks, Complete(p, t),
         ready[p] = {}, p \in Named => At(p, "dispatch")',
         \A m \in Named : At(m, "dispatch") => At(m, "dispatch")',
         UNCHANGED <<needs, quitForShutdown, toTrigger, push>>
  PROVE  /\ phase' \in [Waits -> Active \cup {"new", "returned"}]
         /\ ready' \in [Threads -> SUBSET Waits] /\ done' \subseteq Tasks
         /\ \A w \in Waits : \/ phase'[w] = phase[w]
                             \/ phase[w] = "pending" /\ phase'[w] = "ready"
         /\ ReadyWaits' /\ ShutInv'
<1>1. /\ done' = done \cup {t} /\ ready' = [ready EXCEPT ![p] = Released(t)]
      /\ phase' = [w \in Waits |-> IF w \in Released(t) THEN "ready" ELSE phase[w]]
      /\ ready \in [Threads -> SUBSET Waits] /\ done \subseteq Tasks
      /\ phase \in [Waits -> Active \cup {"new", "returned"}]
  BY DEF Complete, Shapes, WaitShapes
<1>2. /\ Released(t) \subseteq Waits
      /\ \A w \in Released(t) : phase[w] = "pending" /\ needs[w] \subseteq done'
  BY <1>1 DEF Released
<1>3. /\ ready'[p] = Released(t) /\ \A q \in Threads : q # p => ready'[q] = ready[q]
      /\ ready' \in [Threads -> SUBSET Waits]
  BY <1>1, <1>2
<1>4. phase' \in [Waits -> Active \cup {"new", "returned"}]
  BY <1>1 DEF Active
<1>5. \A w \in Waits : \/ w \notin Released(t) /\ phase'[w] = phase[w]
                       \/ w \in Released(t) /\ phase'[w] = "ready"
  BY <1>1
<1>6. \A w \in Waits : phase'[w] = phase[w] \/ (phase[w] = "pending" /\ phase'[w] = "ready")
  BY <1>2, <1>5
<1>7. ReadyWaits'
  <2>1. ASSUME NEW q \in Threads, NEW w \in ready'[q]
        PROVE  phase'[w] = "ready" /\ \A r \in Threads : w \in ready'[r] => r = q
    <3>1. CASE q = p
      <4>1. phase[w] = "pending" /\ phase'[w] = "ready" /\ w \in Waits
        BY <1>2, <1>3, <1>5, <2>1, <3>1
      <4>2. \A r \in Threads : w \notin ready[r]
        BY <4>1 DEF ReadyWaits
      <4>3. QED
        BY <1>3, <3>1, <4>1, <4>2
    <3>2. CASE q # p
      <4>1. w \in ready[q] /\ w \in Waits
        BY <1>1, <1>3, <2>1, <3>2
      <4>2. phase[w] = "ready" /\ \A r \in Threads : w \in ready[r] => r = q
        BY <4>1 DEF ReadyWaits
      <4>3. w \notin Released(t)
        BY <1>2, <4>2
      <4>4. QED
        BY <1>3, <1>5, <4>1, <4>2, <4>3
    <3>3. QED
      BY <3>1, <3>2
  <2>2. \A m \in Named : ready'[m] # {} => At(m, "dispatch")'
    BY <1>3, LaneThreads DEF ReadyWaits
  <2>3. \A w \in Waits : phase'[w] \notin {"new", "pending"} => needs'[w] \subseteq done'
    BY <1>1, <1>2, <1>5 DEF ReadyWaits
  <2>4. QED
    BY <2>1, <2>2, <2>3 DEF ReadyWaits
<1>8. ShutInv'
  <2>1. CASE Shut
    <3>1. Released(t) = {}
      BY <1>2, <2>1 DEF ShutInv
    <3>2. ready' = ready /\ \A w \in Waits : phase'[w] = phase[w]
      BY <1>1, <1>5, <3>1
    <3>3. QED
      BY <3>2 DEF ShutInv, Shut
  <2>2. CASE ~Shut
    BY <2>2 DEF ShutInv, Shut
  <2>3. QED
    BY <2>1, <2>2
<1>9. QED
  BY <1>1, <1>3, <1>4, <1>6, <1>7, <1>8

(* Completed waits: none leaves the phases of a wait somebody is in.        *)
LEMMA CompletePhases ==
  ASSUME NEW w \in Waits, phase[w] \in Active \cup {"new", "returned"},
         phase'[w] = phase[w] \/ (phase[w] = "pending" /\ phase'[w] = "ready")
  PROVE  /\ phase'[w] \in Active <=> phase[w] \in Active
         /\ phase[w] = "fired" => phase'[w] = "fired"
         /\ phase[w] = "queued" => phase'[w] = "queued"
  BY DEF Active

LEMMA FinishTaskKeeps ==
  ASSUME NamedInv, NEW n \in Named, FinishTask(n)
  PROVE  NamedInv'
<1> USE LaneThreads
<1> DEFINE t == Top(n).job
           k == Len(stack[n])
<1>0. /\ Shapes /\ LoopsInv /\ WaitLoops /\ QueuedWaits /\ ReadyWaits /\ ShutInv
      /\ At(n, "exec") /\ ~At(n, "out") /\ t \in Tasks /\ ready[n] = {} /\ n \in Threads
      /\ pc \in [Named -> {"out", "loop", "scan", "stall", "wait", "exec", "dispatch", "leave"}]
      /\ phase \in [Waits -> Active \cup {"new", "returned"}]
  BY DEF NamedInv, FinishTask, Free, At, Shapes, LoopShapes, WaitShapes
<1>1. /\ Complete(n, t) /\ stack' = SetJob(n, NoJob)
      /\ pc' = [pc EXCEPT ![n] = "dispatch"]
      /\ UNCHANGED <<queueVars, quitVars, guard, created, doing, needs, dest, blocked>>
  BY DEF FinishTask
<1> HIDE DEF t
<1>2. /\ stack' \in [Named -> Seq(Frames)] /\ SameLoops
      /\ \A m \in Named \ {n} : stack'[m] = stack[m]
      /\ \A i \in DOMAIN stack[n] :
           stack'[n][i].job = IF i = k THEN NoJob ELSE stack[n][i].job
  BY <1>0, <1>1, SetJobEffect
<1>3. /\ pc'[n] = "dispatch" /\ \A m \in Named : m # n => pc'[m] = pc[m]
      /\ \A m \in Named : At(m, "dispatch") => At(m, "dispatch")'
      /\ At(n, "dispatch")' /\ \A m \in Named : At(m, "leave")' => At(m, "leave")
  BY <1>0, <1>1 DEF At
<1>4. UNCHANGED <<needs, dest, blocked, quitForShutdown, quitForReturn, toTrigger, push, queue,
                  pool, stalled, moved, event, doing, created, guard>>
  BY <1>1 DEF queueVars, laneVars, quitVars
<1>5. /\ phase' \in [Waits -> Active \cup {"new", "returned"}]
      /\ ready' \in [Threads -> SUBSET Waits] /\ done' \subseteq Tasks
      /\ \A w \in Waits : \/ phase'[w] = phase[w]
                          \/ phase[w] = "pending" /\ phase'[w] = "ready"
      /\ ReadyWaits' /\ ShutInv'
  BY <1>0, <1>1, <1>3, <1>4, CompleteKeeps
<1>6. Shapes'
  <2>1. QueueShapes'
    BY <1>0, <1>4 DEF Shapes, QueueShapes
  <2>2. LoopShapes'
    <3>1. \A m \in Named : pc'[m] = "out" <=> pc[m] = "out"
      BY <1>0, <1>3 DEF At
    <3>2. \A m \in Named : stack'[m] = <<>> <=> stack[m] = <<>>
      BY <1>2 DEF SameLoops
    <3>3. pc' \in [Named -> {"out", "loop", "scan", "stall", "wait", "exec", "dispatch", "leave"}]
      BY <1>0, <1>1
    <3>4. QED
      BY <1>0, <1>2, <1>4, <3>1, <3>2, <3>3 DEF Shapes, LoopShapes
  <2>3. WaitShapes'
    BY <1>0, <1>4, <1>5 DEF Shapes, WaitShapes
  <2>4. QED
    BY <2>1, <2>2, <2>3 DEF Shapes
<1>7. \A w \in Waits : /\ phase'[w] \in Active <=> phase[w] \in Active
                       /\ phase[w] = "fired" => phase'[w] = "fired"
                       /\ phase[w] = "queued" => phase'[w] = "queued"
  BY <1>0, <1>5, CompletePhases
<1>8. LoopsInv' /\ WaitLoops' /\ WaitBlocks'
  BY <1>2, <1>3, <1>4, <1>7, SameLoopsKeep
<1>9. QueuedWaits'
  <2>1. \A m \in Named : \A i \in DOMAIN stack'[m] : stack'[m][i].job \in Waits =>
          /\ i \in DOMAIN stack[m] /\ stack'[m][i].job = stack[m][i].job
          /\ stack'[m][i].wait = stack[m][i].wait
    BY <1>2 DEF SameLoops, Jobs
  <2>2. QED
    BY <1>0, <1>4, <1>7, <2>1, PlacesKeep
<1>10. WakeInv' /\ StalledMeansWaiting' /\ ScanInv' /\ NoStrandedTask'
  <2>1. \A m \in Named : \/ pc'[m] = pc[m] /\ stack'[m] = stack[m]
                         \/ pc[m] # "wait" /\ pc'[m] \notin Sleepy
    BY <1>0, <1>2, <1>3 DEF At, Sleepy
  <2>2. QED
    BY <1>0, <1>4, <2>1, QuietKeeps
<1>11. QED
  BY <1>5, <1>6, <1>8, <1>9, <1>10 DEF NamedInv

LEMMA DispatchedKeeps ==
  ASSUME NamedInv, NEW n \in Named, Dispatched(n)
  PROVE  NamedInv'
<1> USE LaneThreads
<1>0. /\ Shapes /\ QueuedWaits /\ ReadyWaits /\ ShutInv /\ At(n, "dispatch") /\ ready[n] = {}
      /\ pc \in [Named -> {"out", "loop", "scan", "stall", "wait", "exec", "dispatch", "leave"}]
  BY DEF NamedInv, Dispatched, Free, Shapes, LoopShapes
<1>1. /\ pc' = [pc EXCEPT ![n] = "loop"]
      /\ UNCHANGED <<queue, stalled, moved, event, push, pool, quitForShutdown, quitForReturn,
                     toTrigger, guard, stack, ready, created, done, doing,
                     phase, needs, dest, blocked>>
  BY DEF Dispatched, queueVars, laneVars, quitVars, taskVars, waitVars
<1>2. /\ pc'[n] = "loop" /\ \A m \in Named : m # n => pc'[m] = pc[m]
      /\ \A m \in Named : At(m, "leave")' => At(m, "leave")
  BY <1>0, <1>1 DEF At
<1>3. Shapes'
  <2>1. \A m \in Named : pc'[m] = "out" <=> pc[m] = "out"
    BY <1>0, <1>2 DEF At
  <2>2. pc' \in [Named -> {"out", "loop", "scan", "stall", "wait", "exec", "dispatch", "leave"}]
    BY <1>0, <1>1
  <2>3. QED
    BY <1>0, <1>1, <2>1, <2>2 DEF Shapes, QueueShapes, LoopShapes, WaitShapes
<1>4. LoopsInv' /\ WaitLoops' /\ WaitBlocks'
  <2>1. SameLoops
    BY <1>1 DEF SameLoops
  <2>2. QED
    BY <1>1, <1>2, <2>1, SameLoopsKeep
<1>5. QueuedWaits'
  BY <1>0, <1>1 DEF QueuedWaits
<1>6. ReadyWaits'
  BY <1>0, <1>1, <1>2 DEF ReadyWaits, At
<1>7. ShutInv'
  BY <1>0, <1>1 DEF ShutInv, Shut
<1>8. WakeInv' /\ StalledMeansWaiting' /\ ScanInv' /\ NoStrandedTask'
  <2>1. \A m \in Named : \/ pc'[m] = pc[m] /\ stack'[m] = stack[m]
                         \/ pc[m] # "wait" /\ pc'[m] \notin Sleepy
    BY <1>0, <1>1, <1>2 DEF At, Sleepy
  <2>2. n \in Threads
    OBVIOUS
  <2>3. QED
    BY <1>1, <2>1, <2>2, QuietKeeps
<1>9. QED
  BY <1>3, <1>4, <1>5, <1>6, <1>7, <1>8 DEF NamedInv

(* Steps in which no named thread moves.                                    *)
LEMMA StillKeeps ==
  ASSUME NamedInv, UNCHANGED <<laneVars, push, pc, stack, quitForShutdown>>,
         NEW p \in Threads
  PROVE  WakeInv' /\ StalledMeansWaiting' /\ ScanInv' /\ NoStrandedTask' /\ SameLoops
<1>1. UNCHANGED <<queue, stalled, moved, event>>
  BY DEF laneVars
<1>2. SameLoops
  BY DEF SameLoops
<1>3. QED
  BY <1>1, <1>2, QuietKeeps

LEMMA RequestReturnKeeps ==
  ASSUME NamedInv, NEW n \in Named, RequestReturn(n)
  PROVE  NamedInv'
<1> USE LaneThreads
<1>0. /\ Shapes /\ LoopsInv /\ QueuedWaits /\ ReadyWaits /\ ShutInv /\ ~At(n, "out")
      /\ Top(n).wait = NoJob /\ quitForReturn \in [Lanes -> BOOLEAN]
  BY DEF NamedInv, RequestReturn, At, Shapes, LoopShapes
<1>1. /\ quitForReturn' = [quitForReturn EXCEPT ![Lane(n)] = TRUE]
      /\ UNCHANGED <<queue, stalled, moved, event, push, pool, quitForShutdown, toTrigger,
                     guard, stack, pc, ready, created, done, doing, phase, needs, dest, blocked>>
  BY DEF RequestReturn, queueVars, laneVars, loopVars, taskVars, waitVars
<1>2. /\ Len(stack[n]) \in DOMAIN stack[n] /\ Lane(n) \in Lanes
      /\ stack[n][Len(stack[n])].lane = Lane(n) /\ stack[n][Len(stack[n])].wait = NoJob
  BY <1>0, TopFrame DEF Lane
<1>3. \A l \in Lanes : quitForReturn'[l] => quitForReturn[l] \/ l = Lane(n)
  BY <1>0, <1>1, <1>2
<1>4. Shapes'
  <2>1. quitForReturn' \in [Lanes -> BOOLEAN]
    BY <1>0, <1>1
  <2>2. QED
    BY <1>0, <1>1, <2>1 DEF Shapes, QueueShapes, LoopShapes, WaitShapes
<1>5. WakeInv' /\ StalledMeansWaiting' /\ ScanInv' /\ NoStrandedTask' /\ SameLoops
  BY <1>1, StillKeeps DEF laneVars
<1>6. LoopsInv' /\ WaitLoops' /\ WaitBlocks'
  <2>1. ASSUME NEW m \in Named, NEW i \in DOMAIN stack[m], stack[m][i].lane = Lane(n)
        PROVE  stack[m][i].wait = NoJob
    BY <1>0, <1>2, <2>1, OneLoopPerLane
  <2>2. \A l \in Lanes : quitForReturn'[l] =>
           \/ quitForReturn[l]
           \/ \A m \in Named : \A i \in DOMAIN stack[m] :
                stack[m][i].lane = l /\ stack[m][i].wait # NoJob
                  => phase'[stack[m][i].wait] = "fired"
    BY <1>3, <2>1
  <2>3. \A m \in Named : At(m, "leave")' => At(m, "leave")
    BY <1>1 DEF At
  <2>4. QED
    BY <1>1, <1>5, <2>2, <2>3, SameLoopsKeep
<1>7. QueuedWaits' /\ ReadyWaits' /\ ShutInv'
  BY <1>0, <1>1 DEF QueuedWaits, ReadyWaits, ShutInv, Shut, At
<1>8. QED
  BY <1>4, <1>5, <1>6, <1>7 DEF NamedInv

-----------------------------------------------------------------------------
(* The workers                                                              *)

LEMMA FinishWorkKeeps ==
  ASSUME NamedInv, NEW o \in Workers, FinishWork(o)
  PROVE  NamedInv'
<1> USE LaneThreads
<1> DEFINE t == doing[o]
<1>0. /\ Shapes /\ LoopsInv /\ WaitLoops /\ QueuedWaits /\ ReadyWaits /\ ShutInv
      /\ t \in Tasks /\ ready[o] = {} /\ o \in Threads /\ o \notin Named
      /\ phase \in [Waits -> Active \cup {"new", "returned"}]
      /\ doing \in [Workers -> Jobs \cup {NoJob}]
  BY DEF NamedInv, FinishWork, Free, Shapes, WaitShapes
<1>1. /\ Complete(o, t) /\ doing' = [doing EXCEPT ![o] = NoJob]
      /\ UNCHANGED <<queue, stalled, moved, event, push, pool, quitForShutdown, quitForReturn,
                     toTrigger, guard, stack, pc, created, needs, dest, blocked>>
  BY DEF FinishWork, queueVars, laneVars, quitVars, loopVars
<1> HIDE DEF t
<1>2. \A m \in Named : /\ At(m, "dispatch") <=> At(m, "dispatch")'
                       /\ At(m, "leave")' => At(m, "leave")
  BY <1>1 DEF At
<1>3. /\ phase' \in [Waits -> Active \cup {"new", "returned"}]
      /\ ready' \in [Threads -> SUBSET Waits] /\ done' \subseteq Tasks
      /\ \A w \in Waits : \/ phase'[w] = phase[w]
                          \/ phase[w] = "pending" /\ phase'[w] = "ready"
      /\ ReadyWaits' /\ ShutInv'
  BY <1>0, <1>1, <1>2, CompleteKeeps
<1>4. /\ doing' \in [Workers -> Jobs \cup {NoJob}] /\ doing'[o] = NoJob
      /\ \A u \in Workers : u # o => doing'[u] = doing[u]
  BY <1>0, <1>1
<1>5. Shapes'
  BY <1>0, <1>1, <1>3, <1>4 DEF Shapes, QueueShapes, LoopShapes, WaitShapes
<1>6. \A w \in Waits : /\ phase'[w] \in Active <=> phase[w] \in Active
                       /\ phase[w] = "fired" => phase'[w] = "fired"
                       /\ phase[w] = "queued" => phase'[w] = "queued"
  BY <1>0, <1>3, CompletePhases
<1>7. WakeInv' /\ StalledMeansWaiting' /\ ScanInv' /\ NoStrandedTask' /\ SameLoops
  BY <1>0, <1>1, StillKeeps DEF laneVars
<1>8. LoopsInv' /\ WaitLoops' /\ WaitBlocks'
  BY <1>1, <1>2, <1>6, <1>7, SameLoopsKeep
<1>9. QueuedWaits'
  <2>1. \A u \in Workers : doing'[u] \in Waits => doing'[u] = doing[u]
    BY <1>4 DEF Jobs
  <2>2. QED
    BY <1>0, <1>1, <1>6, <2>1, PlacesKeep
<1>10. QED
  BY <1>3, <1>5, <1>7, <1>8, <1>9 DEF NamedInv

LEMMA TriggerEventKeeps ==
  ASSUME NamedInv, NEW o \in Workers, TriggerEvent(o)
  PROVE  NamedInv'
<1> USE LaneThreads
<1> DEFINE w == doing[o]
<1>0. /\ Shapes /\ LoopsInv /\ WaitLoops /\ QueuedWaits /\ ReadyWaits /\ ShutInv
      /\ w \in Waits /\ o \in Threads
      /\ phase \in [Waits -> Active \cup {"new", "returned"}]
      /\ doing \in [Workers -> Jobs \cup {NoJob}]
  BY DEF NamedInv, TriggerEvent, Shapes, WaitShapes
<1>1. /\ phase' = [phase EXCEPT ![w] = "fired"] /\ doing' = [doing EXCEPT ![o] = NoJob]
      /\ UNCHANGED <<queue, stalled, moved, event, push, pool, quitForShutdown, quitForReturn,
                     toTrigger, guard, stack, pc, ready, created, done, needs, dest, blocked>>
  BY DEF TriggerEvent, queueVars, laneVars, quitVars, loopVars
<1>2. /\ phase[w] = "queued" /\ dest[w] = AnyThread /\ w \notin pool
      /\ \A u \in Workers : doing[u] = w => u = o
  BY <1>0 DEF QueuedWaits
<1>3. w # NoJob
  BY <1>0 DEF Jobs
<1> HIDE DEF w
<1>4. /\ doing' \in [Workers -> Jobs \cup {NoJob}] /\ doing'[o] = NoJob
      /\ \A u \in Workers : u # o => doing'[u] = doing[u]
      /\ phase'[w] = "fired" /\ \A u \in Waits : u # w => phase'[u] = phase[u]
      /\ phase' \in [Waits -> Active \cup {"new", "returned"}]
  BY <1>0, <1>1 DEF Active
<1>5. Shapes'
  BY <1>0, <1>1, <1>4 DEF Shapes, QueueShapes, LoopShapes, WaitShapes
<1>6. \A u \in Waits : /\ phase'[u] \in Active <=> phase[u] \in Active
                       /\ phase[u] = "fired" => phase'[u] = "fired"
  BY <1>0, <1>2, <1>4 DEF Active
<1>7. WakeInv' /\ StalledMeansWaiting' /\ ScanInv' /\ NoStrandedTask' /\ SameLoops
  BY <1>0, <1>1, StillKeeps DEF laneVars
<1>8. LoopsInv' /\ WaitLoops' /\ WaitBlocks'
  <2>1. \A m \in Named : At(m, "leave")' => At(m, "leave")
    BY <1>1 DEF At
  <2>2. QED
    BY <1>1, <1>6, <1>7, <2>1, SameLoopsKeep
<1>9. QueuedWaits'
  <2>1. \A u \in Workers : /\ doing'[u] \in Waits => doing'[u] = doing[u]
                           /\ doing'[u] # w
    BY <1>2, <1>3, <1>4 DEF Jobs
  <2>2. \A l \in Lanes : \A i \in DOMAIN queue[l] : queue[l][i] # w
    BY <1>0, <1>2 DEF QueuedWaits
  <2>3. \A m \in Named : \A i \in DOMAIN stack[m] : stack[m][i].job # w
    <3> SUFFICES ASSUME NEW m \in Named, NEW i \in DOMAIN stack[m], stack[m][i].job = w
                 PROVE  FALSE
      OBVIOUS
    <3>1. stack[m][i].wait = w
      BY <1>0 DEF QueuedWaits
    <3>2. dest[w] = stack[m][i].lane /\ stack[m][i].lane \in Lanes
      BY <1>0, <1>3, <3>1, FrameFields DEF WaitLoops, Shapes
    <3>3. QED
      BY <1>2, <3>2
  <2>4. \A u \in Waits : phase[u] = "queued" =>
           \/ phase'[u] = "queued" /\ dest'[u] = dest[u]
           \/ /\ \A l \in Lanes : \A i \in DOMAIN queue[l] : queue[l][i] # u
              /\ u \notin pool
              /\ \A m \in Named : \A i \in DOMAIN stack'[m] : stack'[m][i].job # u
              /\ \A v \in Workers : doing'[v] # u
    BY <1>1, <1>2, <1>4, <2>1, <2>2, <2>3
  <2>5. QED
    BY <1>0, <1>1, <2>1, <2>4, PlacesKeep
<1>10. ReadyWaits'
  <2>1. \A p \in Threads : \A u \in ready[p] : phase'[u] = "ready"
    BY <1>0, <1>2, <1>4 DEF ReadyWaits, Shapes, WaitShapes
  <2>2. \A u \in Waits : phase'[u] \notin {"new", "pending"} => needs[u] \subseteq done
    BY <1>0, <1>2, <1>4 DEF ReadyWaits
  <2>3. QED
    BY <1>0, <1>1, <2>1, <2>2 DEF ReadyWaits, At
<1>11. ShutInv'
  <2>1. ~Shut
    BY <1>0, <1>2 DEF ShutInv
  <2>2. QED
    BY <1>0, <1>1, <2>1 DEF ShutInv, Shut
<1>12. QED
  BY <1>5, <1>7, <1>8, <1>9, <1>10, <1>11 DEF NamedInv

LEMMA TakeWorkKeeps ==
  ASSUME NamedInv, NEW o \in Workers, TakeWork(o)
  PROVE  NamedInv'
<1> USE LaneThreads
<1>0. /\ Shapes /\ LoopsInv /\ WaitLoops /\ WaitBlocks /\ QueuedWaits /\ ReadyWaits /\ ShutInv
      /\ doing[o] = NoJob /\ o \in Threads /\ pool \subseteq Jobs
      /\ doing \in [Workers -> Jobs \cup {NoJob}]
  BY DEF NamedInv, TakeWork, Shapes, WaitShapes, QueueShapes
<1>1. PICK j \in pool : doing' = [doing EXCEPT ![o] = j] /\ pool' = pool \ {j}
  BY DEF TakeWork
<1>2. UNCHANGED <<queue, stalled, moved, event, push, quitForShutdown, quitForReturn,
                  toTrigger, guard, stack, pc, ready, created, done, phase, needs, dest, blocked>>
  BY DEF TakeWork, laneVars, quitVars, loopVars, waitVars
<1>3. /\ doing' \in [Workers -> Jobs \cup {NoJob}] /\ doing'[o] = j /\ pool' \subseteq Jobs
      /\ \A u \in Workers : u # o => doing'[u] = doing[u]
      /\ j \notin pool' /\ pool' \subseteq pool
  BY <1>0, <1>1
<1>4. Shapes'
  BY <1>0, <1>2, <1>3 DEF Shapes, QueueShapes, LoopShapes, WaitShapes
<1>5. WakeInv' /\ StalledMeansWaiting' /\ ScanInv' /\ NoStrandedTask' /\ SameLoops
  BY <1>0, <1>2, StillKeeps DEF laneVars
<1>6. LoopsInv' /\ WaitLoops' /\ WaitBlocks'
  <2>1. \A m \in Named : At(m, "leave")' => At(m, "leave")
    BY <1>2 DEF At
  <2>2. QED
    BY <1>2, <1>5, <2>1, SameLoopsKeep
<1>7. QueuedWaits'
  <2>1. j \in Waits => /\ phase[j] = "queued" /\ dest[j] = AnyThread
                       /\ \A u \in Workers : doing[u] # j
    BY <1>0, <1>1 DEF QueuedWaits
  <2>2. ASSUME NEW u \in Workers, doing'[u] \in Waits
        PROVE  /\ phase'[doing'[u]] = "queued" /\ dest'[doing'[u]] = AnyThread
               /\ doing'[u] \notin pool'
               /\ \A v \in Workers : doing'[v] = doing'[u] => v = u
    <3>1. CASE u = o
      BY <1>2, <1>3, <2>1, <2>2, <3>1
    <3>2. CASE u # o
      <4>1. doing'[u] = doing[u] /\ doing[u] \in Waits
        BY <1>3, <2>2, <3>2
      <4>2. /\ phase[doing[u]] = "queued" /\ dest[doing[u]] = AnyThread /\ doing[u] \notin pool
            /\ \A v \in Workers : doing[v] = doing[u] => v = u
        BY <1>0, <4>1 DEF QueuedWaits
      <4>3. QED
        BY <1>1, <1>2, <1>3, <4>1, <4>2
    <3>3. QED
      BY <3>1, <3>2
  <2>3. /\ \A l \in Lanes : \A i \in DOMAIN queue'[l] : queue'[l][i] \in Waits =>
             /\ phase'[queue'[l][i]] = "queued" /\ dest'[queue'[l][i]] = l
             /\ \A k \in DOMAIN queue'[l] : queue'[l][k] = queue'[l][i] => k = i
        /\ \A n \in Named : \A i \in DOMAIN stack'[n] : stack'[n][i].job \in Waits =>
             /\ phase'[stack'[n][i].job] = "queued" /\ stack'[n][i].wait = stack'[n][i].job
             /\ \A l \in Lanes : \A k \in DOMAIN queue'[l] : queue'[l][k] # stack'[n][i].job
    BY <1>0, <1>2 DEF QueuedWaits
  <2>4. \A w \in pool' \cap Waits : phase'[w] = "queued" /\ dest'[w] = AnyThread
    BY <1>0, <1>2, <1>3 DEF QueuedWaits
  <2>5. QED
    BY <2>2, <2>3, <2>4 DEF QueuedWaits
<1>8. ReadyWaits' /\ ShutInv'
  BY <1>0, <1>2 DEF ReadyWaits, ShutInv, Shut, At
<1>9. QED
  BY <1>4, <1>5, <1>6, <1>7, <1>8 DEF NamedInv

-----------------------------------------------------------------------------
(* The rest of a Push, and the shutdown                                     *)

(* Steps that see no task and no loop.                                      *)
LEMMA ElsewhereKeeps ==
  ASSUME NamedInv, UNCHANGED <<queue, pool, quitForReturn, loopVars, ready, taskVars, waitVars>>
  PROVE  /\ LoopsInv' /\ WaitLoops' /\ WaitBlocks' /\ QueuedWaits' /\ ReadyWaits' /\ WaitShapes'
         /\ \A m \in Named : Lane(m)' = Lane(m)
         /\ \A m \in Named : \A x \in {"wait", "stall"} : At(m, x)' <=> At(m, x)
<1>1. UNCHANGED <<queue, pool, quitForReturn, guard, stack, pc, ready, created, done, doing,
                  phase, needs, dest, blocked>>
  BY DEF loopVars, taskVars, waitVars
<1>2. /\ LoopsInv /\ WaitLoops /\ WaitBlocks /\ QueuedWaits /\ ReadyWaits /\ WaitShapes
  BY DEF NamedInv, Shapes
<1>3. LoopsInv' /\ WaitBlocks' /\ QueuedWaits'
  BY <1>1, <1>2 DEF LoopsInv, WaitBlocks, QueuedWaits
<1>4. WaitLoops' /\ ReadyWaits' /\ WaitShapes'
  BY <1>1, <1>2 DEF WaitLoops, ReadyWaits, WaitShapes, At, Top
<1>5. QED
  BY <1>1, <1>3, <1>4 DEF Lane, Top, At

LEMMA PushExchangeKeeps ==
  ASSUME NamedInv, NEW p \in Threads, PushExchange(p)
  PROVE  NamedInv'
<1> USE LaneThreads
<1> DEFINE l == push[p].lane
<1>0. /\ Shapes /\ WakeInv /\ StalledMeansWaiting /\ ScanInv /\ NoStrandedTask /\ ShutInv
      /\ LoopsInv /\ push[p].step = "exchange" /\ l \in Lanes
      /\ push \in [Threads -> Pushes]
      /\ moved \in [Lanes -> BOOLEAN] /\ stalled \in [Lanes -> BOOLEAN]
  BY DEF NamedInv, PushExchange, Shapes, QueueShapes
<1>1. /\ moved' = [moved EXCEPT ![l] = TRUE] /\ stalled' = [stalled EXCEPT ![l] = FALSE]
      /\ push' = [push EXCEPT ![p] = IF stalled[l] THEN [push[p] EXCEPT !.step = "trigger"]
                                                   ELSE NoPush]
      /\ UNCHANGED <<queue, event, pool, quitVars, loopVars, ready, taskVars, waitVars>>
  BY DEF PushExchange, TakesBitOff
<1>2. /\ LoopsInv' /\ WaitLoops' /\ WaitBlocks' /\ QueuedWaits' /\ ReadyWaits' /\ WaitShapes'
      /\ \A m \in Named : Lane(m)' = Lane(m)
      /\ \A m \in Named : \A x \in {"wait", "stall"} : At(m, x)' <=> At(m, x)
  BY <1>1, ElsewhereKeeps DEF quitVars
<1>3. ~Shut /\ quitForShutdown' = quitForShutdown /\ toTrigger' = toTrigger /\ (Shut' <=> Shut)
  BY <1>0, <1>1 DEF ShutInv, quitVars, NoPush, Shut
<1>4. /\ push'[p] = IF stalled[l] THEN [lane |-> l, step |-> "trigger"] ELSE NoPush
      /\ \A q \in Threads : q # p => push'[q] = push[q]
      /\ push' \in [Threads -> Pushes]
      /\ \A q \in Threads : push'[q].lane \in Lanes <=> push'[q].step # "none"
  BY <1>0, <1>1 DEF Shapes, QueueShapes, Pushes, NoPush
<1>5. /\ moved'[l] /\ \A k \in Lanes : k # l => moved'[k] = moved[k]
      /\ ~stalled'[l] /\ \A k \in Lanes : k # l => stalled'[k] = stalled[k]
      /\ moved' \in [Lanes -> BOOLEAN] /\ stalled' \in [Lanes -> BOOLEAN]
      /\ UNCHANGED <<queue, event>>
  BY <1>0, <1>1
<1>6. Shapes'
  BY <1>0, <1>1, <1>2, <1>4, <1>5 DEF Shapes, QueueShapes, LoopShapes, quitVars, loopVars
<1>7. \A k \in Lanes : Waiting(k)' <=> Waiting(k)
  BY <1>2 DEF Waiting
<1>8. stalled[l] => Waiting(l) /\ ~event[l]
                    /\ \A q \in Threads : push[q].step = "trigger" => push[q].lane # l
  <2>1. stalled[l] => Waiting(l)
    BY <1>0, <1>3 DEF StalledMeansWaiting, Waiting, Shut
  <2>2. QED
    BY <1>0, <1>3, <2>1 DEF WakeInv
<1>9. WakeInv'
  <2>1. \A k \in Lanes : event'[k] /\ ~Shut' => Waiting(k)' /\ ~stalled'[k]
    BY <1>0, <1>3, <1>5, <1>7 DEF WakeInv
  <2>2. ASSUME NEW q \in Threads, push'[q].step = "trigger"
        PROVE  /\ Waiting(push[q].lane)' /\ ~stalled'[push'[q].lane] /\ ~event'[push'[q].lane]
               /\ \A r \in Threads : push'[r].step = "trigger" /\ push'[r].lane = push'[q].lane
                                       => r = q
    <3>1. push'[q].lane = push[q].lane /\ push[q].lane \in Lanes
      <4>1. CASE q = p
        BY <1>0, <1>4, <2>2, <4>1 DEF NoPush
      <4>2. CASE q # p
        <5>1. push'[q] = push[q] /\ push[q].step = "trigger"
          BY <1>4, <2>2, <4>2
        <5>2. QED
          BY <1>0, <5>1 DEF Shapes, QueueShapes
      <4>3. QED
        BY <4>1, <4>2
    <3>2. PICK k \in Lanes : k = push[q].lane
      BY <3>1
    <3>3. \A r \in Threads : push'[r].step = "trigger" => push'[r].lane = push[r].lane
      BY <1>4 DEF NoPush
    <3>4. Waiting(k) /\ ~event[k] /\ ~stalled'[k]
      BY <1>0, <1>4, <1>5, <1>8, <2>2, <3>1, <3>2 DEF WakeInv, NoPush
    <3>5. \A r \in Threads : push'[r].step = "trigger" /\ push'[r].lane = k => r = q
      BY <1>0, <1>4, <1>8, <2>2, <3>1, <3>2 DEF WakeInv, NoPush
    <3>6. Waiting(k)' /\ k = push'[q].lane
      BY <1>7, <3>1, <3>2, <3>4
    <3>7. Waiting(push[q].lane)'
      BY <3>6 DEF Waiting
    <3>8. QED
      BY <1>5, <3>4, <3>5, <3>6, <3>7
  <2>3. ASSUME NEW m \in Named, At(m, "wait")'
        PROVE  \/ stalled'[Lane(m)'] \/ event'[Lane(m)']
               \/ \E q \in Threads : push'[q].step = "trigger" /\ push'[q].lane = Lane(m)'
    <3>1. At(m, "wait") /\ Lane(m)' = Lane(m) /\ Lane(m) \in Lanes
      BY <1>0, <1>2, <2>3, TopFrame DEF At
    <3>2. \/ stalled[Lane(m)] \/ event[Lane(m)]
          \/ \E q \in Threads : push[q].step = "trigger" /\ push[q].lane = Lane(m)
      BY <1>0, <3>1 DEF WakeInv
    <3>3. QED
      BY <1>0, <1>4, <1>5, <3>1, <3>2
  <2>4. QED
    BY <2>1, <2>2, <2>3 DEF WakeInv
<1>10. StalledMeansWaiting'
  <2>1. \A k \in Lanes : stalled'[k] => stalled[k]
    BY <1>5
  <2>2. QED
    BY <1>0, <1>2, <1>3, <2>1 DEF StalledMeansWaiting
<1>11. ScanInv'
  <2> SUFFICES ASSUME NEW m \in Named, At(m, "stall")', queue'[Lane(m)'] # <<>>
               PROVE  moved'[Lane(m)'] \/ \E q \in Threads : push'[q].lane = Lane(m)'
    BY DEF ScanInv
  <2>1. At(m, "stall") /\ Lane(m)' = Lane(m) /\ Lane(m) \in Lanes
    BY <1>0, <1>2, TopFrame DEF At
  <2>2. moved[Lane(m)] \/ \E q \in Threads : push[q].lane = Lane(m)
    BY <1>0, <1>5, <2>1 DEF ScanInv
  <2>3. QED
    BY <1>4, <1>5, <2>1, <2>2
<1>12. NoStrandedTask'
  <2> SUFFICES ASSUME NEW m \in Named, At(m, "wait")', queue'[Lane(m)'] # <<>>
               PROVE  event'[Lane(m)'] \/ \E q \in Threads : push'[q].lane = Lane(m)'
    BY DEF NoStrandedTask
  <2>1. At(m, "wait") /\ Lane(m)' = Lane(m) /\ Lane(m) \in Lanes
    BY <1>0, <1>2, TopFrame DEF At
  <2>2. event[Lane(m)] \/ \E q \in Threads : push[q].lane = Lane(m)
    BY <1>0, <1>5, <2>1 DEF NoStrandedTask
  <2>3. \/ stalled[Lane(m)] \/ event[Lane(m)]
        \/ \E q \in Threads : push[q].step = "trigger" /\ push[q].lane = Lane(m)
    BY <1>0, <2>1 DEF WakeInv
  <2>4. QED
    BY <1>0, <1>4, <1>5, <2>1, <2>2, <2>3
<1>13. ShutInv'
  BY <1>0, <1>3 DEF ShutInv
<1>14. QED
  BY <1>2, <1>6, <1>9, <1>10, <1>11, <1>12, <1>13 DEF NamedInv

LEMMA PushTriggerKeeps ==
  ASSUME NamedInv, NEW p \in Threads, PushTrigger(p)
  PROVE  NamedInv'
<1> USE LaneThreads
<1> DEFINE l == push[p].lane
<1>0. /\ Shapes /\ WakeInv /\ StalledMeansWaiting /\ ScanInv /\ NoStrandedTask /\ ShutInv
      /\ LoopsInv /\ push[p].step = "trigger" /\ l \in Lanes
      /\ push \in [Threads -> Pushes] /\ event \in [Lanes -> BOOLEAN]
  BY DEF NamedInv, PushTrigger, Shapes, QueueShapes
<1>1. /\ event' = [event EXCEPT ![l] = TRUE] /\ push' = [push EXCEPT ![p] = NoPush]
      /\ UNCHANGED <<queue, stalled, moved, pool, quitVars, loopVars, ready, taskVars, waitVars>>
  BY DEF PushTrigger
<1>2. /\ LoopsInv' /\ WaitLoops' /\ WaitBlocks' /\ QueuedWaits' /\ ReadyWaits' /\ WaitShapes'
      /\ \A m \in Named : Lane(m)' = Lane(m)
      /\ \A m \in Named : \A x \in {"wait", "stall"} : At(m, x)' <=> At(m, x)
  BY <1>1, ElsewhereKeeps DEF quitVars
<1>3. ~Shut /\ quitForShutdown' = quitForShutdown /\ toTrigger' = toTrigger /\ (Shut' <=> Shut)
  BY <1>0, <1>1 DEF ShutInv, quitVars, NoPush, Shut
<1>4. /\ push'[p] = NoPush /\ \A q \in Threads : q # p => push'[q] = push[q]
      /\ push' \in [Threads -> Pushes]
      /\ \A q \in Threads : push'[q].lane \in Lanes <=> push'[q].step # "none"
  BY <1>0, <1>1 DEF Shapes, QueueShapes, Pushes, NoPush
<1>5. /\ event'[l] /\ \A k \in Lanes : k # l => event'[k] = event[k]
      /\ event' \in [Lanes -> BOOLEAN] /\ UNCHANGED <<queue, stalled, moved>>
  BY <1>0, <1>1
<1>6. Shapes'
  BY <1>0, <1>1, <1>2, <1>4, <1>5 DEF Shapes, QueueShapes, LoopShapes, quitVars, loopVars
<1>7. \A k \in Lanes : Waiting(k)' <=> Waiting(k)
  BY <1>2 DEF Waiting
<1>8. /\ Waiting(l) /\ ~stalled[l]
      /\ \A q \in Threads : push[q].step = "trigger" /\ push[q].lane = l => q = p
  BY <1>0 DEF WakeInv
<1>9. WakeInv'
  <2>1. \A k \in Lanes : event'[k] /\ ~Shut' => Waiting(k)' /\ ~stalled'[k]
    BY <1>0, <1>3, <1>5, <1>7, <1>8 DEF WakeInv
  <2>2. ASSUME NEW q \in Threads, push'[q].step = "trigger"
        PROVE  /\ Waiting(push[q].lane)' /\ ~stalled'[push'[q].lane] /\ ~event'[push'[q].lane]
               /\ \A r \in Threads : push'[r].step = "trigger" /\ push'[r].lane = push'[q].lane
                                       => r = q
    <3>1. q # p /\ push'[q] = push[q] /\ push[q].lane \in Lanes
      BY <1>0, <1>4, <2>2 DEF NoPush, Shapes, QueueShapes
    <3>2. PICK k \in Lanes : k = push[q].lane
      BY <3>1
    <3>3. k # l /\ Waiting(k) /\ ~event[k] /\ ~stalled[k]
          /\ \A r \in Threads : push[r].step = "trigger" /\ push[r].lane = k => r = q
      BY <1>0, <1>8, <2>2, <3>1, <3>2 DEF WakeInv
    <3>4. \A r \in Threads : push'[r].step = "trigger" /\ push'[r].lane = k => r = q
      BY <1>4, <3>3 DEF NoPush
    <3>5. Waiting(k)' /\ k = push'[q].lane
      BY <1>7, <3>1, <3>2, <3>3
    <3>6. Waiting(push[q].lane)'
      BY <3>5 DEF Waiting
    <3>7. QED
      BY <1>5, <3>3, <3>4, <3>5, <3>6
  <2>3. ASSUME NEW m \in Named, At(m, "wait")'
        PROVE  \/ stalled'[Lane(m)'] \/ event'[Lane(m)']
               \/ \E q \in Threads : push'[q].step = "trigger" /\ push'[q].lane = Lane(m)'
    <3>1. At(m, "wait") /\ Lane(m)' = Lane(m) /\ Lane(m) \in Lanes
      BY <1>0, <1>2, <2>3, TopFrame DEF At
    <3>2. \/ stalled[Lane(m)] \/ event[Lane(m)]
          \/ \E q \in Threads : push[q].step = "trigger" /\ push[q].lane = Lane(m)
      BY <1>0, <3>1 DEF WakeInv
    <3>3. QED
      BY <1>0, <1>4, <1>5, <3>1, <3>2
  <2>4. QED
    BY <2>1, <2>2, <2>3 DEF WakeInv
<1>10. StalledMeansWaiting'
  BY <1>0, <1>2, <1>3, <1>5 DEF StalledMeansWaiting
<1>11. ScanInv'
  <2> SUFFICES ASSUME NEW m \in Named, At(m, "stall")', queue'[Lane(m)'] # <<>>
               PROVE  moved'[Lane(m)'] \/ \E q \in Threads : push'[q].lane = Lane(m)'
    BY DEF ScanInv
  <2>1. At(m, "stall") /\ Lane(m)' = Lane(m) /\ Lane(m) \in Lanes /\ Lane(m)[1] = m
    BY <1>0, <1>2, TopFrame DEF At
  <2>2. moved[Lane(m)] \/ \E q \in Threads : push[q].lane = Lane(m)
    BY <1>0, <1>5, <2>1 DEF ScanInv
  <2>3. Lane(m) # l
    BY <1>8, <2>1 DEF Waiting, At
  <2>4. QED
    BY <1>4, <1>5, <2>1, <2>2, <2>3
<1>12. NoStrandedTask'
  <2> SUFFICES ASSUME NEW m \in Named, At(m, "wait")', queue'[Lane(m)'] # <<>>
               PROVE  event'[Lane(m)'] \/ \E q \in Threads : push'[q].lane = Lane(m)'
    BY DEF NoStrandedTask
  <2>1. At(m, "wait") /\ Lane(m)' = Lane(m) /\ Lane(m) \in Lanes
    BY <1>0, <1>2, TopFrame DEF At
  <2>2. event[Lane(m)] \/ \E q \in Threads : push[q].lane = Lane(m)
    BY <1>0, <1>5, <2>1 DEF NoStrandedTask
  <2>3. QED
    BY <1>4, <1>5, <2>1, <2>2
<1>13. ShutInv'
  BY <1>0, <1>3 DEF ShutInv
<1>14. QED
  BY <1>2, <1>6, <1>9, <1>10, <1>11, <1>12, <1>13 DEF NamedInv

LEMMA RequestQuitKeeps ==
  ASSUME NamedInv, RequestQuit
  PROVE  NamedInv'
<1> USE LaneThreads
<1>0. /\ Shapes /\ WakeInv /\ StalledMeansWaiting /\ ScanInv /\ NoStrandedTask /\ ShutInv
      /\ Idle /\ LoopsInv
  BY DEF NamedInv, RequestQuit
<1>1. /\ quitForShutdown' = [l \in Lanes |-> TRUE] /\ toTrigger' = Lanes
      /\ UNCHANGED <<queueVars, quitForReturn, loopVars, ready, taskVars, waitVars>>
  BY DEF RequestQuit, Triggers
<1>2. UNCHANGED <<queue, stalled, moved, event, push, pool>>
  BY <1>1 DEF queueVars, laneVars
<1>3. /\ LoopsInv' /\ WaitLoops' /\ WaitBlocks' /\ QueuedWaits' /\ ReadyWaits' /\ WaitShapes'
      /\ \A m \in Named : Lane(m)' = Lane(m)
      /\ \A m \in Named : \A x \in {"wait", "stall"} : At(m, x)' <=> At(m, x)
  BY <1>1, <1>2, ElsewhereKeeps
<1>4. Shapes'
  BY <1>0, <1>1, <1>2, <1>3 DEF Shapes, QueueShapes, LoopShapes, loopVars
<1>5. /\ \A p \in Threads : push[p] = NoPush /\ ready[p] = {}
      /\ \A w \in Waits : phase[w] \in {"new", "returned"}
  BY <1>0 DEF Idle, Free
<1>6. ShutInv'
  <2>1. UNCHANGED <<push, ready, phase>>
    BY <1>1, <1>2 DEF waitVars
  <2>2. \A l \in Lanes : quitForShutdown'[l]
    BY <1>1
  <2>3. toTrigger' # {} => Shut'
    BY <1>1, <2>2 DEF Shut
  <2>4. QED
    BY <1>5, <2>1, <2>2, <2>3 DEF ShutInv
<1>7. WakeInv'
  <2>1. \A l \in Lanes : Shut'
    BY <1>1 DEF Shut
  <2>2. \A p \in Threads : push'[p].step # "trigger"
    BY <1>2, <1>5 DEF NoPush
  <2>3. \A m \in Named : At(m, "wait") => stalled[Lane(m)] \/ event[Lane(m)]
    BY <1>0, <1>5 DEF WakeInv, NoPush
  <2>4. QED
    BY <1>2, <1>3, <2>1, <2>2, <2>3 DEF WakeInv
<1>8. StalledMeansWaiting' /\ ScanInv' /\ NoStrandedTask'
  BY <1>0, <1>1, <1>2, <1>3 DEF StalledMeansWaiting, ScanInv, NoStrandedTask
<1>9. QED
  BY <1>3, <1>4, <1>6, <1>7, <1>8 DEF NamedInv

LEMMA QuitTriggerKeeps ==
  ASSUME NamedInv, NEW l \in Lanes, QuitTrigger(l)
  PROVE  NamedInv'
<1> USE LaneThreads
<1>0. /\ Shapes /\ WakeInv /\ StalledMeansWaiting /\ ScanInv /\ NoStrandedTask /\ ShutInv
      /\ LoopsInv /\ Shut /\ event \in [Lanes -> BOOLEAN] /\ toTrigger \subseteq Lanes
  BY DEF NamedInv, QuitTrigger, ShutInv, Shapes, QueueShapes, LoopShapes
<1>1. /\ event' = [event EXCEPT ![l] = TRUE] /\ toTrigger' = toTrigger \ {l}
      /\ UNCHANGED <<queue, stalled, moved, push, pool, quitForReturn, quitForShutdown,
                     loopVars, ready, taskVars, waitVars>>
  BY DEF QuitTrigger
<1>2. /\ LoopsInv' /\ WaitLoops' /\ WaitBlocks' /\ QueuedWaits' /\ ReadyWaits' /\ WaitShapes'
      /\ \A m \in Named : Lane(m)' = Lane(m)
      /\ \A m \in Named : \A x \in {"wait", "stall"} : At(m, x)' <=> At(m, x)
  BY <1>1, ElsewhereKeeps
<1>3. event' \in [Lanes -> BOOLEAN] /\ toTrigger' \subseteq Lanes
      /\ \A k \in Lanes : event[k] => event'[k]
  BY <1>0, <1>1
<1>4. Shapes'
  BY <1>0, <1>1, <1>2, <1>3 DEF Shapes, QueueShapes, LoopShapes, loopVars
<1>5. Shut' /\ ShutInv'
  BY <1>0, <1>1 DEF ShutInv, Shut, waitVars
<1>6. \A p \in Threads : push[p].step # "trigger"
  BY <1>0 DEF ShutInv, NoPush
<1>7. \A m \in Named : At(m, "wait") => Lane(m) \in Lanes
  BY <1>0, TopFrame DEF At
<1>8. WakeInv'
  BY <1>0, <1>1, <1>2, <1>3, <1>5, <1>6, <1>7 DEF WakeInv
<1>9. StalledMeansWaiting' /\ ScanInv' /\ NoStrandedTask'
  BY <1>0, <1>1, <1>2, <1>3, <1>7 DEF StalledMeansWaiting, ScanInv, NoStrandedTask
<1>10. QED
  BY <1>2, <1>4, <1>5, <1>8, <1>9 DEF NamedInv

-----------------------------------------------------------------------------
(* Calls                                                                    *)

(* A thread that may call is awake.                                         *)
LEMMA InCodeFacts ==
  ASSUME NEW p \in Threads, InCode(p)
  PROVE  /\ push[p] = NoPush /\ ready[p] = {} /\ blocked[p] = NoJob /\ ~Shut
         /\ p \in Named => At(p, "out") \/ At(p, "exec")
  BY DEF InCode, Free, Shut

LEMMA CreateTaskKeeps ==
  ASSUME NamedInv, NEW p \in Threads, NEW t \in Tasks, CreateTask(p, t)
  PROVE  NamedInv'
<1> USE LaneThreads
<1>0. /\ Shapes /\ LoopsInv /\ QueuedWaits /\ ReadyWaits /\ ShutInv
      /\ push[p] = NoPush /\ ~Shut
      /\ p \in Named => At(p, "out") \/ At(p, "exec")
  BY InCodeFacts DEF NamedInv, CreateTask
<1>1. /\ created' = created \cup {t} /\ QueueTask(p, t, Target[t])
      /\ UNCHANGED <<quitForReturn, quitForShutdown, toTrigger, guard, stack, pc, ready, done,
                     doing, phase, needs, dest, blocked>>
  BY DEF CreateTask, quitVars, loopVars, waitVars
<1>2. Target[t] \in Lanes \cup {AnyThread} /\ t \in Jobs /\ t \notin Waits
  BY NamedAssumption DEF Jobs
<1>3. PICK to \in Lanes \cup {AnyThread} : to = Target[t]
  BY <1>2
<1>4. /\ QueueShapes' /\ UNCHANGED <<stalled, moved, event>>
      /\ \A l \in Lanes \ {to} : queue'[l] = queue[l]
      /\ \A q \in Threads \ {p} : push'[q] = push[q]
      /\ push'[p] = push[p] \/ push'[p].step = "exchange"
      /\ to \in Lanes => to[1] = p \/ push'[p].lane = to
  BY <1>0, <1>1, <1>2, <1>3, QueueTaskEffect
<1>5. Shapes'
  BY <1>0, <1>1, <1>4 DEF Shapes, LoopShapes, WaitShapes
<1>6. LoopsInv' /\ WaitLoops' /\ WaitBlocks'
  <2>1. SameLoops
    BY <1>1 DEF SameLoops
  <2>2. \A m \in Named : At(m, "leave")' => At(m, "leave")
    BY <1>1 DEF At
  <2>3. QED
    BY <1>1, <2>1, <2>2, SameLoopsKeep
<1>7. QueuedWaits'
  BY <1>0, <1>1, <1>2, <1>3, QueueTaskPlaces
<1>8. ReadyWaits'
  BY <1>0, <1>1 DEF ReadyWaits, At
<1>9. ShutInv'
  BY <1>0, <1>1 DEF ShutInv, Shut
<1>10. WakeInv' /\ StalledMeansWaiting' /\ ScanInv' /\ NoStrandedTask'
  <2>1. \A l \in Lanes : \/ queue'[l] = queue[l] \/ push'[p].lane = l
                         \/ pc'[l[1]] \notin Sleepy
    BY <1>0, <1>1, <1>4 DEF At, Sleepy
  <2>2. QED
    BY <1>0, <1>1, <1>4, <2>1, QuietKeeps
<1>11. QED
  BY <1>5, <1>6, <1>7, <1>8, <1>9, <1>10 DEF NamedInv

LEMMA QueueReadyKeeps ==
  ASSUME NamedInv, NEW p \in Threads, NEW w \in Waits, QueueReady(p, w)
  PROVE  NamedInv'
<1> USE LaneThreads
<1>0. /\ Shapes /\ LoopsInv /\ WaitLoops /\ WaitBlocks /\ QueuedWaits /\ ReadyWaits /\ ShutInv
      /\ push[p] = NoPush /\ w \in ready[p]
      /\ p \in Named => At(p, "dispatch")
      /\ phase \in [Waits -> Active \cup {"new", "returned"}]
      /\ ready \in [Threads -> SUBSET Waits]
  BY DEF NamedInv, QueueReady, ReadyWaits, Shapes, WaitShapes
<1>1. /\ ready' = [ready EXCEPT ![p] = @ \ {w}] /\ phase' = [phase EXCEPT ![w] = "queued"]
      /\ QueueTask(p, w, dest[w])
      /\ UNCHANGED <<quitForReturn, quitForShutdown, toTrigger, guard, stack, pc, created, done,
                     doing, needs, dest, blocked>>
  BY DEF QueueReady, quitVars, loopVars, taskVars
<1>2. phase[w] = "ready" /\ ~Shut
  BY <1>0 DEF ReadyWaits, ShutInv
<1>3. PICK to \in Lanes \cup {AnyThread} : to = dest[w]
  BY <1>0 DEF Shapes, WaitShapes
<1>4. /\ QueueShapes' /\ UNCHANGED <<stalled, moved, event>>
      /\ \A l \in Lanes \ {to} : queue'[l] = queue[l]
      /\ \A q \in Threads \ {p} : push'[q] = push[q]
      /\ push'[p] = push[p] \/ push'[p].step = "exchange"
      /\ to \in Lanes => to[1] = p \/ push'[p].lane = to
  BY <1>0, <1>1, <1>3, QueueTaskEffect DEF Jobs
<1>5. /\ phase'[w] = "queued" /\ \A u \in Waits : u # w => phase'[u] = phase[u]
      /\ phase' \in [Waits -> Active \cup {"new", "returned"}]
      /\ ready' \in [Threads -> SUBSET Waits] /\ ready'[p] = ready[p] \ {w}
      /\ \A q \in Threads : q # p => ready'[q] = ready[q]
  BY <1>0, <1>1 DEF Active
<1>6. Shapes'
  BY <1>0, <1>1, <1>4, <1>5 DEF Shapes, LoopShapes, WaitShapes
<1>7. LoopsInv' /\ WaitLoops' /\ WaitBlocks'
  <2>1. SameLoops
    BY <1>1 DEF SameLoops
  <2>2. \A m \in Named : At(m, "leave")' => At(m, "leave")
    BY <1>1 DEF At
  <2>3. \A u \in Waits : /\ phase'[u] \in Active <=> phase[u] \in Active
                         /\ phase[u] = "fired" => phase'[u] = "fired"
    BY <1>2, <1>5 DEF Active
  <2>4. QED
    BY <1>1, <2>1, <2>2, <2>3, SameLoopsKeep
<1>8. QueuedWaits'
  <2>1. \A u \in Waits : phase[u] = "queued" => phase'[u] = "queued" /\ dest'[u] = dest[u]
    BY <1>1, <1>5
  <2>2. QueueTask(p, w, to) /\ w \in Jobs
    BY <1>1, <1>3 DEF Jobs
  <2>3. phase[w] # "queued" /\ phase'[w] = "queued" /\ dest'[w] = to
    BY <1>1, <1>2, <1>3, <1>5
  <2>4. QED
    BY <1>0, <1>1, <2>1, <2>2, <2>3, QueueTaskPlaces
<1>9. ReadyWaits'
  <2>1. \A q \in Threads : ready'[q] \subseteq ready[q] /\ w \notin ready'[q]
    BY <1>0, <1>5 DEF ReadyWaits
  <2>2. ASSUME NEW q \in Threads, NEW u \in ready'[q]
        PROVE  phase'[u] = "ready" /\ \A r \in Threads : u \in ready'[r] => r = q
    <3>1. u \in ready[q] /\ u # w /\ u \in Waits
      BY <1>0, <2>1, <2>2
    <3>2. QED
      BY <1>0, <1>5, <2>1, <3>1 DEF ReadyWaits
  <2>3. \A m \in Named : ready'[m] # {} => At(m, "dispatch")'
    BY <1>0, <1>1, <2>1 DEF ReadyWaits, At
  <2>4. \A u \in Waits : phase'[u] \notin {"new", "pending"} => needs'[u] \subseteq done'
    BY <1>0, <1>1, <1>2, <1>5 DEF ReadyWaits
  <2>5. QED
    BY <2>2, <2>3, <2>4 DEF ReadyWaits
<1>10. ShutInv'
  BY <1>0, <1>1, <1>2 DEF ShutInv, Shut
<1>11. WakeInv' /\ StalledMeansWaiting' /\ ScanInv' /\ NoStrandedTask'
  <2>1. \A l \in Lanes : \/ queue'[l] = queue[l] \/ push'[p].lane = l
                         \/ pc'[l[1]] \notin Sleepy
    BY <1>0, <1>1, <1>4 DEF At, Sleepy
  <2>2. QED
    BY <1>0, <1>1, <1>4, <2>1, QuietKeeps
<1>12. QED
  BY <1>6, <1>7, <1>8, <1>9, <1>10, <1>11 DEF NamedInv

LEMMA WaitForNothingKeeps ==
  ASSUME NamedInv, NEW p \in Threads, NEW l \in Lanes, NEW w \in Waits,
         NEW W \in SUBSET Tasks, WaitForNothing(p, l, w, W)
  PROVE  NamedInv'
<1> USE LaneThreads
<1>0. /\ Shapes /\ LoopsInv /\ WaitLoops /\ WaitBlocks /\ QueuedWaits /\ ReadyWaits /\ ShutInv
      /\ ~Shut /\ phase[w] = "new" /\ W \subseteq done
      /\ phase \in [Waits -> Active \cup {"new", "returned"}]
      /\ needs \in [Waits -> SUBSET Tasks]
  BY InCodeFacts DEF NamedInv, WaitForNothing, BeginWait, NothingPending, Shapes, WaitShapes
<1>1. /\ phase' = [phase EXCEPT ![w] = "returned"] /\ needs' = [needs EXCEPT ![w] = W]
      /\ UNCHANGED <<queue, stalled, moved, event, push, pool, quitForReturn, quitForShutdown,
                     toTrigger, guard, stack, pc, ready, created, done, doing, dest, blocked>>
  BY DEF WaitForNothing, queueVars, laneVars, quitVars, loopVars, taskVars
<1>2. /\ phase'[w] = "returned" /\ \A u \in Waits : u # w => phase'[u] = phase[u]
      /\ phase' \in [Waits -> Active \cup {"new", "returned"}]
      /\ needs'[w] = W /\ \A u \in Waits : u # w => needs'[u] = needs[u]
      /\ needs' \in [Waits -> SUBSET Tasks]
  BY <1>0, <1>1
<1>3. Shapes'
  BY <1>0, <1>1, <1>2 DEF Shapes, QueueShapes, LoopShapes, WaitShapes
<1>4. WakeInv' /\ StalledMeansWaiting' /\ ScanInv' /\ NoStrandedTask' /\ SameLoops
  BY <1>1, StillKeeps DEF laneVars
<1>5. \A u \in Waits : /\ phase'[u] \in Active <=> phase[u] \in Active
                       /\ phase[u] = "fired" => phase'[u] = "fired"
                       /\ phase[u] = "queued" => phase'[u] = "queued"
  BY <1>0, <1>2 DEF Active
<1>6. LoopsInv' /\ WaitLoops' /\ WaitBlocks'
  <2>1. \A m \in Named : At(m, "leave")' => At(m, "leave")
    BY <1>1 DEF At
  <2>2. QED
    BY <1>1, <1>4, <1>5, <2>1, SameLoopsKeep
<1>7. QueuedWaits'
  BY <1>0, <1>1, <1>5, PlacesKeep
<1>8. ReadyWaits'
  <2>1. \A q \in Threads : \A u \in ready[q] : phase'[u] = "ready"
    BY <1>0, <1>2 DEF ReadyWaits, Shapes, WaitShapes
  <2>2. \A u \in Waits : phase'[u] \notin {"new", "pending"} => needs'[u] \subseteq done
    BY <1>0, <1>2 DEF ReadyWaits
  <2>3. QED
    BY <1>0, <1>1, <2>1, <2>2 DEF ReadyWaits, At
<1>9. ShutInv'
  BY <1>0, <1>1 DEF ShutInv, Shut
<1>10. QED
  BY <1>3, <1>4, <1>6, <1>7, <1>8, <1>9 DEF NamedInv

(* The return or trigger task of a new wait is created.                     *)
LEMMA CreateWaitTaskKeeps ==
  ASSUME NamedInv, NEW p \in Threads, push[p] = NoPush, NEW w \in Waits, phase[w] = "new",
         NEW W \in SUBSET Tasks, NEW to \in Lanes \cup {AnyThread},
         CreateWaitTask(p, w, W, to), UNCHANGED <<doing, done, ready>>,
         \A n \in Named : \A i \in DOMAIN stack'[n] : stack'[n][i].job \in Waits =>
           i \in DOMAIN stack[n] /\ stack'[n][i] = stack[n][i],
         \A m \in Named : At(m, "dispatch") => At(m, "dispatch")'
  PROVE  /\ QueueShapes' /\ UNCHANGED <<stalled, moved, event>>
         /\ \A l \in Lanes : \/ queue'[l] = queue[l] \/ push'[p].lane = l
                             \/ l[1] = p /\ l = to
         /\ \A q \in Threads \ {p} : push'[q] = push[q]
         /\ push'[p] = push[p] \/ push'[p].step = "exchange"
         /\ needs' \in [Waits -> SUBSET Tasks] /\ dest' \in [Waits -> Lanes \cup {AnyThread}]
         /\ phase' \in [Waits -> Active \cup {"new", "returned"}]
         /\ phase'[w] \in {"queued", "pending"} /\ dest'[w] = to
         /\ \A u \in Waits : u # w => phase'[u] = phase[u] /\ dest'[u] = dest[u]
         /\ QueuedWaits' /\ ReadyWaits'
<1> USE LaneThreads
<1>0. /\ Shapes /\ QueuedWaits /\ ReadyWaits
      /\ phase \in [Waits -> Active \cup {"new", "returned"}]
      /\ needs \in [Waits -> SUBSET Tasks] /\ dest \in [Waits -> Lanes \cup {AnyThread}]
      /\ ready \in [Threads -> SUBSET Waits]
  BY DEF NamedInv, Shapes, WaitShapes
<1>1. /\ needs' = [needs EXCEPT ![w] = W] /\ dest' = [dest EXCEPT ![w] = to]
      /\ \/ W \subseteq done /\ phase' = [phase EXCEPT ![w] = "queued"] /\ QueueTask(p, w, to)
         \/ phase' = [phase EXCEPT ![w] = "pending"] /\ UNCHANGED queueVars
  BY DEF CreateWaitTask
<1>2. /\ needs' \in [Waits -> SUBSET Tasks] /\ dest' \in [Waits -> Lanes \cup {AnyThread}]
      /\ phase' \in [Waits -> Active \cup {"new", "returned"}]
      /\ needs'[w] = W /\ dest'[w] = to
      /\ phase'[w] = "queued" \/ phase'[w] = "pending"
      /\ \A u \in Waits : u # w =>
           phase'[u] = phase[u] /\ dest'[u] = dest[u] /\ needs'[u] = needs[u]
  BY <1>0, <1>1 DEF Active
<1>3. ReadyWaits'
  <2>1. \A q \in Threads : \A u \in ready[q] : phase'[u] = "ready"
    BY <1>0, <1>2 DEF ReadyWaits
  <2>2. phase'[w] = "queued" => W \subseteq done
    BY <1>0, <1>1
  <2>3. \A u \in Waits : phase'[u] \notin {"new", "pending"} => needs'[u] \subseteq done
    BY <1>0, <1>2, <2>2 DEF ReadyWaits
  <2>4. QED
    BY <1>0, <2>1, <2>3 DEF ReadyWaits
<1>4. \A u \in Waits : phase[u] = "queued" => phase'[u] = "queued" /\ dest'[u] = dest[u]
  BY <1>2
<1>5. CASE W \subseteq done /\ phase' = [phase EXCEPT ![w] = "queued"] /\ QueueTask(p, w, to)
  <2>1. /\ QueueShapes' /\ UNCHANGED <<stalled, moved, event>>
        /\ \A l \in Lanes \ {to} : queue'[l] = queue[l]
        /\ \A q \in Threads \ {p} : push'[q] = push[q]
        /\ push'[p] = push[p] \/ push'[p].step = "exchange"
        /\ to \in Lanes => to[1] = p \/ push'[p].lane = to
    BY <1>0, <1>5, QueueTaskEffect DEF Jobs
  <2>2. QueuedWaits'
    <3>1. phase'[w] = "queued" /\ w \in Jobs
      BY <1>0, <1>5 DEF Jobs
    <3>2. QED
      BY <1>0, <1>2, <1>4, <1>5, <3>1, QueueTaskPlaces
  <2>3. QED
    BY <1>2, <1>3, <2>1, <2>2
<1>6. CASE phase' = [phase EXCEPT ![w] = "pending"] /\ UNCHANGED queueVars
  <2>1. UNCHANGED <<queue, stalled, moved, event, push, pool>>
    BY <1>6 DEF queueVars, laneVars
  <2>2. QueuedWaits'
    BY <1>0, <1>4, <2>1, PlacesKeep
  <2>3. QueueShapes'
    BY <1>0, <2>1 DEF Shapes, QueueShapes
  <2>4. QED
    BY <1>2, <1>3, <2>1, <2>2, <2>3
<1>7. QED
  BY <1>1, <1>5, <1>6

LEMMA WaitOnEventKeeps ==
  ASSUME NamedInv, NEW p \in Threads, NEW l \in Lanes, NEW w \in Waits,
         NEW W \in SUBSET Tasks, WaitOnEvent(p, l, w, W)
  PROVE  NamedInv'
<1> USE LaneThreads
<1>0. /\ Shapes /\ LoopsInv /\ WaitLoops /\ WaitBlocks /\ ShutInv
      /\ ~Shut /\ phase[w] = "new" /\ push[p] = NoPush /\ blocked[p] = NoJob
      /\ p \in Named => At(p, "out") \/ At(p, "exec")
  BY InCodeFacts DEF NamedInv, WaitOnEvent, BeginWait
<1>1. /\ CreateWaitTask(p, w, W, AnyThread) /\ blocked' = [blocked EXCEPT ![p] = w]
      /\ UNCHANGED <<quitForReturn, quitForShutdown, toTrigger, guard, stack, pc, ready,
                     created, done, doing>>
  BY DEF WaitOnEvent, quitVars, loopVars, taskVars
<1>2. /\ QueueShapes' /\ UNCHANGED <<stalled, moved, event>>
      /\ \A k \in Lanes : \/ queue'[k] = queue[k] \/ push'[p].lane = k
                          \/ k[1] = p /\ k = AnyThread
      /\ \A q \in Threads \ {p} : push'[q] = push[q]
      /\ push'[p] = push[p] \/ push'[p].step = "exchange"
      /\ needs' \in [Waits -> SUBSET Tasks] /\ dest' \in [Waits -> Lanes \cup {AnyThread}]
      /\ phase' \in [Waits -> Active \cup {"new", "returned"}]
      /\ phase'[w] \in {"queued", "pending"} /\ dest'[w] = AnyThread
      /\ \A u \in Waits : u # w => phase'[u] = phase[u] /\ dest'[u] = dest[u]
      /\ QueuedWaits' /\ ReadyWaits'
  <2>1. \A n \in Named : \A i \in DOMAIN stack'[n] : stack'[n][i].job \in Waits =>
           i \in DOMAIN stack[n] /\ stack'[n][i] = stack[n][i]
    BY <1>1
  <2>2. \A m \in Named : At(m, "dispatch") => At(m, "dispatch")'
    BY <1>1 DEF At
  <2>3. AnyThread \in Lanes \cup {AnyThread}
    OBVIOUS
  <2>4. QED
    BY <1>0, <1>1, <2>1, <2>2, <2>3, CreateWaitTaskKeeps
<1>3. blocked \in [Threads -> Waits \cup {NoJob}]
  BY <1>0 DEF Shapes, WaitShapes
<1>4. /\ blocked' \in [Threads -> Waits \cup {NoJob}] /\ blocked'[p] = w
      /\ \A q \in Threads : q # p => blocked'[q] = blocked[q]
  BY <1>1, <1>3
<1>5. Shapes'
  BY <1>0, <1>1, <1>2, <1>4 DEF Shapes, LoopShapes, WaitShapes
<1>6. LoopsInv'
  BY <1>0, <1>1 DEF LoopsInv
<1>7. WaitLoops'
  <2>1. \A m \in Named : \A i \in DOMAIN stack[m] : stack[m][i].wait # NoJob =>
          stack[m][i].wait \in Waits /\ stack[m][i].wait # w
    <3> SUFFICES ASSUME NEW m \in Named, NEW i \in DOMAIN stack[m], stack[m][i].wait # NoJob
                 PROVE  stack[m][i].wait \in Waits /\ stack[m][i].wait # w
      OBVIOUS
    <3>1. stack[m][i].wait \in Waits
      BY <1>0, FrameFields DEF Shapes
    <3>2. QED
      BY <1>0, <3>1 DEF WaitLoops, Active
  <2>2. \A m \in Named : \A i \in DOMAIN stack'[m] : stack'[m][i].wait # NoJob =>
          /\ stack'[m][i].stall /\ dest'[stack'[m][i].wait] = stack'[m][i].lane
          /\ phase'[stack'[m][i].wait] \in Active
          /\ quitForReturn'[stack'[m][i].lane] => phase'[stack'[m][i].wait] = "fired"
    BY <1>0, <1>1, <1>2, <2>1 DEF WaitLoops
  <2>3. ASSUME NEW m \in Named, At(m, "leave")', Top(m)'.wait # NoJob
        PROVE  phase'[Top(m)'.wait] = "fired"
    <3>1. At(m, "leave") /\ Top(m)' = Top(m) /\ ~At(m, "out")
      BY <1>1, <2>3 DEF At, Top
    <3>2. Top(m) = stack[m][Len(stack[m])] /\ Len(stack[m]) \in DOMAIN stack[m]
      BY <1>0, <3>1, TopFrame
    <3>3. phase[Top(m).wait] = "fired" /\ Top(m).wait \in Waits /\ Top(m).wait # w
      BY <1>0, <2>1, <2>3, <3>1, <3>2 DEF WaitLoops
    <3>4. QED
      BY <1>2, <3>1, <3>3
  <2>4. \A u \in Waits : phase'[u] \in Active /\ dest'[u] \in Lanes =>
          \E i \in DOMAIN stack'[dest'[u][1]] : stack'[dest'[u][1]][i].wait = u
    <3> SUFFICES ASSUME NEW u \in Waits, phase'[u] \in Active, dest'[u] \in Lanes
                 PROVE  \E i \in DOMAIN stack'[dest'[u][1]] : stack'[dest'[u][1]][i].wait = u
      OBVIOUS
    <3>1. u # w
      BY <1>2
    <3>2. phase'[u] = phase[u] /\ dest'[u] = dest[u]
      BY <1>2, <3>1
    <3>3. \E i \in DOMAIN stack[dest[u][1]] : stack[dest[u][1]][i].wait = u
      BY <1>0, <3>2 DEF WaitLoops
    <3>4. QED
      BY <1>1, <3>2, <3>3
  <2>5. QED
    BY <2>2, <2>3, <2>4 DEF WaitLoops
<1>8. WaitBlocks'
  <2>1. \A q \in Threads : blocked[q] # NoJob => blocked[q] \in Waits /\ blocked[q] # w
    BY <1>0, <1>3 DEF WaitBlocks, Active
  <2>2. \A q \in Threads : blocked'[q] # NoJob =>
          dest'[blocked'[q]] = AnyThread /\ phase'[blocked'[q]] \in Active
    BY <1>0, <1>2, <1>4, <2>1 DEF WaitBlocks, Active
  <2>3. \A q, r \in Threads : blocked'[q] = blocked'[r] /\ blocked'[q] # NoJob => q = r
    BY <1>0, <1>4, <2>1 DEF WaitBlocks, Jobs
  <2>4. QED
    BY <2>2, <2>3 DEF WaitBlocks
<1>9. ShutInv'
  BY <1>0, <1>1 DEF ShutInv, Shut
<1>10. WakeInv' /\ StalledMeansWaiting' /\ ScanInv' /\ NoStrandedTask'
  BY <1>0, <1>1, <1>2, QuietKeeps
<1>11. QED
  BY <1>2, <1>5, <1>6, <1>7, <1>8, <1>9, <1>10 DEF NamedInv

LEMMA EventWaitedKeeps ==
  ASSUME NamedInv, NEW p \in Threads, EventWaited(p)
  PROVE  NamedInv'
<1> USE LaneThreads
<1> DEFINE w == blocked[p]
<1>0. /\ Shapes /\ LoopsInv /\ WaitLoops /\ WaitBlocks /\ QueuedWaits /\ ReadyWaits /\ ShutInv
      /\ phase[w] = "fired" /\ w \in Waits /\ w # NoJob /\ dest[w] = AnyThread
      /\ phase \in [Waits -> Active \cup {"new", "returned"}]
      /\ blocked \in [Threads -> Waits \cup {NoJob}]
  BY DEF NamedInv, EventWaited, Shapes, WaitShapes, WaitBlocks
<1>1. /\ phase' = [phase EXCEPT ![w] = "returned"] /\ blocked' = [blocked EXCEPT ![p] = NoJob]
      /\ UNCHANGED <<queue, stalled, moved, event, push, pool, quitForReturn, quitForShutdown,
                     toTrigger, guard, stack, pc, ready, created, done, doing, needs, dest>>
  BY DEF EventWaited, queueVars, laneVars, quitVars, loopVars, taskVars
<1>2. /\ phase'[w] = "returned" /\ \A u \in Waits : u # w => phase'[u] = phase[u]
      /\ phase' \in [Waits -> Active \cup {"new", "returned"}]
      /\ blocked'[p] = NoJob /\ \A q \in Threads : q # p => blocked'[q] = blocked[q]
      /\ blocked' \in [Threads -> Waits \cup {NoJob}]
  BY <1>0, <1>1
<1>3. \A q \in Threads : q # p => blocked[q] # w
  BY <1>0 DEF WaitBlocks
<1> HIDE DEF w
<1>4. Shapes'
  BY <1>0, <1>1, <1>2 DEF Shapes, QueueShapes, LoopShapes, WaitShapes
<1>5. WakeInv' /\ StalledMeansWaiting' /\ ScanInv' /\ NoStrandedTask' /\ SameLoops
  BY <1>1, StillKeeps DEF laneVars
<1>6. LoopsInv'
  BY <1>0, <1>1 DEF LoopsInv
<1>7. WaitLoops'
  <2>1. \A m \in Named : \A i \in DOMAIN stack[m] : stack[m][i].wait # NoJob =>
          stack[m][i].wait \in Waits /\ stack[m][i].wait # w
    <3> SUFFICES ASSUME NEW m \in Named, NEW i \in DOMAIN stack[m], stack[m][i].wait # NoJob
                 PROVE  stack[m][i].wait \in Waits /\ stack[m][i].wait # w
      OBVIOUS
    <3>1. stack[m][i].wait \in Waits /\ stack[m][i].lane \in Lanes
      BY <1>0, FrameFields DEF Shapes
    <3>2. QED
      BY <1>0, <3>1 DEF WaitLoops
  <2>2. \A m \in Named : \A i \in DOMAIN stack'[m] : stack'[m][i].wait # NoJob =>
          /\ stack'[m][i].stall /\ dest'[stack'[m][i].wait] = stack'[m][i].lane
          /\ phase'[stack'[m][i].wait] \in Active
          /\ quitForReturn'[stack'[m][i].lane] => phase'[stack'[m][i].wait] = "fired"
    BY <1>0, <1>1, <1>2, <2>1 DEF WaitLoops
  <2>3. ASSUME NEW m \in Named, At(m, "leave")', Top(m)'.wait # NoJob
        PROVE  phase'[Top(m)'.wait] = "fired"
    <3>1. At(m, "leave") /\ Top(m)' = Top(m) /\ ~At(m, "out")
      BY <1>1, <2>3 DEF At, Top
    <3>2. Top(m) = stack[m][Len(stack[m])] /\ Len(stack[m]) \in DOMAIN stack[m]
      BY <1>0, <3>1, TopFrame
    <3>3. phase[Top(m).wait] = "fired" /\ Top(m).wait \in Waits /\ Top(m).wait # w
      BY <1>0, <2>1, <2>3, <3>1, <3>2 DEF WaitLoops
    <3>4. QED
      BY <1>2, <3>1, <3>3
  <2>4. \A u \in Waits : phase'[u] \in Active /\ dest'[u] \in Lanes =>
          \E i \in DOMAIN stack'[dest'[u][1]] : stack'[dest'[u][1]][i].wait = u
    BY <1>0, <1>1, <1>2 DEF WaitLoops
  <2>5. QED
    BY <2>2, <2>3, <2>4 DEF WaitLoops
<1>8. WaitBlocks'
  BY <1>0, <1>1, <1>2, <1>3 DEF WaitBlocks
<1>9. QueuedWaits'
  <2>1. \A u \in Waits : phase[u] = "queued" => phase'[u] = "queued" /\ dest'[u] = dest[u]
    BY <1>0, <1>1, <1>2
  <2>2. QED
    BY <1>0, <1>1, <2>1, PlacesKeep
<1>10. ReadyWaits'
  <2>1. \A q \in Threads : \A u \in ready[q] : phase'[u] = "ready"
    BY <1>0, <1>2 DEF ReadyWaits, Shapes, WaitShapes
  <2>2. \A u \in Waits : phase'[u] \notin {"new", "pending"} => needs[u] \subseteq done
    BY <1>0, <1>2 DEF ReadyWaits
  <2>3. QED
    BY <1>0, <1>1, <2>1, <2>2 DEF ReadyWaits, At
<1>11. ShutInv'
  BY <1>0, <1>1, <1>2 DEF ShutInv, Shut
<1>12. QED
  BY <1>4, <1>5, <1>6, <1>7, <1>8, <1>9, <1>10, <1>11 DEF NamedInv

-----------------------------------------------------------------------------
(* Loops are entered and left                                               *)

LEMMA ProcessKeeps ==
  ASSUME NamedInv, NEW l \in Lanes, NEW stall \in BOOLEAN, NEW x \in Waits \cup {NoJob},
         guard[l] = 0, At(l[1], "out") \/ At(l[1], "exec"), Process(l, stall, x),
         UNCHANGED <<quitForShutdown, toTrigger>>,
         x # NoJob => stall /\ dest'[x] = l /\ phase[x] = "new"
                      /\ phase'[x] \in {"queued", "pending"},
         \A u \in Waits : u # x => phase'[u] = phase[u] /\ dest'[u] = dest[u]
  PROVE  /\ LoopShapes' /\ LoopsInv' /\ WaitLoops'
         /\ \A n \in Named : \A i \in DOMAIN stack'[n] : stack'[n][i].job \in Waits =>
              i \in DOMAIN stack[n] /\ stack'[n][i] = stack[n][i]
         /\ \A m \in Named : \/ pc'[m] = pc[m] /\ stack'[m] = stack[m]
                             \/ pc[m] # "wait" /\ pc'[m] \notin Sleepy
         /\ \A m \in Named : At(m, "dispatch") <=> At(m, "dispatch")'
         /\ pc'[l[1]] \notin Sleepy
<1> USE LaneThreads
<1> DEFINE f == [lane |-> l, stall |-> stall, job |-> NoJob, wait |-> x]
<1>0. PICK n \in Named : n = l[1]
  OBVIOUS
<1>1. /\ Shapes /\ LoopsInv /\ WaitLoops
      /\ At(n, "out") \/ At(n, "exec")
      /\ pc \in [Named -> {"out", "loop", "scan", "stall", "wait", "exec", "dispatch", "leave"}]
      /\ quitForReturn \in [Lanes -> BOOLEAN] /\ guard \in [Lanes -> {0, 1}]
      /\ \A m \in Named : pc[m] = "out" <=> stack[m] = <<>>
  BY <1>0 DEF NamedInv, Shapes, LoopShapes
<1>2. /\ quitForReturn' = [quitForReturn EXCEPT ![l] = FALSE]
      /\ guard' = [guard EXCEPT ![l] = @ + 1]
      /\ stack' = [stack EXCEPT ![n] = Append(@, f)]
      /\ pc' = [pc EXCEPT ![n] = "loop"]
  BY <1>0 DEF Process, EnterLoop, Enters
<1>3. /\ f \in Frames /\ f.lane = l /\ f.stall = stall /\ f.wait = x /\ f.job = NoJob
  BY DEF Frames
<1> HIDE DEF f
<1>4. /\ stack' \in [Named -> Seq(Frames)] /\ stack'[n] # <<>>
      /\ \A m \in Named \ {n} : stack'[m] = stack[m]
      /\ \E k : /\ k \notin DOMAIN stack[n] /\ DOMAIN stack'[n] = DOMAIN stack[n] \cup {k}
                /\ stack'[n][k] = f /\ k = Len(stack'[n])
                /\ \A i \in DOMAIN stack[n] : stack'[n][i] = stack[n][i]
  BY <1>1, <1>2, <1>3, GrowEffect, ZenonT(40)
<1>5. \A m \in Named : \A i \in DOMAIN stack'[m] :
        \/ i \in DOMAIN stack[m] /\ stack'[m][i] = stack[m][i]
        \/ i \notin DOMAIN stack[m] /\ m = n /\ stack'[m][i] = f
  BY <1>4
<1>6. \A m \in Named : \A i, j \in DOMAIN stack'[m] :
        i \notin DOMAIN stack[m] /\ j \notin DOMAIN stack[m] => i = j
  BY <1>4
<1>7. /\ quitForReturn' \in [Lanes -> BOOLEAN] /\ ~quitForReturn'[l]
      /\ \A r \in Lanes : r # l => quitForReturn'[r] = quitForReturn[r]
      /\ guard' \in [Lanes -> {0, 1}] /\ guard'[l] = 1
      /\ \A r \in Lanes : r # l => guard'[r] = guard[r]
  BY <1>1, <1>2
<1>8. /\ pc'[n] = "loop" /\ \A m \in Named : m # n => pc'[m] = pc[m]
      /\ pc' \in [Named -> {"out", "loop", "scan", "stall", "wait", "exec", "dispatch", "leave"}]
  BY <1>1, <1>2
<1>9. \A m \in Named : \A i \in DOMAIN stack[m] :
        stack[m][i].lane \in Lanes /\ stack[m][i].lane # l
  <2>1. \A m \in Named : \A i \in DOMAIN stack[m] : stack[m][i].lane \in Lanes
    BY <1>1, FrameFields DEF Shapes
  <2>2. QED
    BY <1>1, <2>1 DEF LoopsInv
<1>10. LoopShapes'
  <2>1. \A m \in Named : pc'[m] = "out" <=> stack'[m] = <<>>
    BY <1>1, <1>4, <1>8
  <2>2. QED
    BY <1>1, <1>4, <1>7, <1>8, <2>1 DEF Shapes, LoopShapes
<1>11. LoopsInv'
  <2>1. ASSUME NEW m \in Named, NEW i \in DOMAIN stack'[m]
        PROVE  stack'[m][i].lane[1] = m /\ guard'[stack'[m][i].lane] = 1
    <3>1. CASE i \in DOMAIN stack[m] /\ stack'[m][i] = stack[m][i]
      BY <1>1, <1>7, <1>9, <3>1 DEF LoopsInv
    <3>2. CASE m = n /\ stack'[m][i] = f
      BY <1>0, <1>3, <1>7, <3>2
    <3>3. QED
      BY <1>5, <3>1, <3>2
  <2>2. ASSUME NEW m \in Named, NEW i \in DOMAIN stack'[m], NEW j \in DOMAIN stack'[m],
               stack'[m][i].lane = stack'[m][j].lane
        PROVE  i = j
    <3>1. CASE i \in DOMAIN stack[m] /\ j \in DOMAIN stack[m]
      BY <1>1, <1>5, <2>2, <3>1 DEF LoopsInv
    <3>2. CASE i \in DOMAIN stack[m] /\ j \notin DOMAIN stack[m]
      BY <1>3, <1>5, <1>9, <2>2, <3>2
    <3>3. CASE i \notin DOMAIN stack[m] /\ j \in DOMAIN stack[m]
      BY <1>3, <1>5, <1>9, <2>2, <3>3
    <3>4. CASE i \notin DOMAIN stack[m] /\ j \notin DOMAIN stack[m]
      BY <1>6, <3>4
    <3>5. QED
      BY <3>1, <3>2, <3>3, <3>4
  <2>3. ASSUME NEW r \in Lanes, guard'[r] = 1
        PROVE  \E i \in DOMAIN stack'[r[1]] : stack'[r[1]][i].lane = r
    <3>1. CASE r = l
      BY <1>0, <1>3, <1>4, <3>1
    <3>2. CASE r # l
      <4>1. PICK m \in Named : m = r[1]
        OBVIOUS
      <4>2. PICK i \in DOMAIN stack[m] : stack[m][i].lane = r
        BY <1>1, <1>7, <2>3, <3>2, <4>1 DEF LoopsInv
      <4>3. i \in DOMAIN stack'[m] /\ stack'[m][i] = stack[m][i]
        BY <1>4, <4>2
      <4>4. QED
        BY <4>1, <4>2, <4>3
    <3>3. QED
      BY <3>1, <3>2
  <2>4. QED
    BY <2>1, <2>2, <2>3 DEF LoopsInv
<1>12. \A m \in Named : \A i \in DOMAIN stack[m] : stack[m][i].wait # NoJob =>
         stack[m][i].wait \in Waits /\ stack[m][i].wait # x
  <2> SUFFICES ASSUME NEW m \in Named, NEW i \in DOMAIN stack[m], stack[m][i].wait # NoJob
               PROVE  stack[m][i].wait \in Waits /\ stack[m][i].wait # x
    OBVIOUS
  <2>1. stack[m][i].wait \in Waits
    BY <1>1, FrameFields DEF Shapes
  <2>2. QED
    BY <1>1, <2>1 DEF WaitLoops, Active
<1>13. WaitLoops'
  <2>1. ASSUME NEW m \in Named, NEW i \in DOMAIN stack'[m], stack'[m][i].wait # NoJob
        PROVE  /\ stack'[m][i].stall /\ dest'[stack'[m][i].wait] = stack'[m][i].lane
               /\ phase'[stack'[m][i].wait] \in Active
               /\ quitForReturn'[stack'[m][i].lane] => phase'[stack'[m][i].wait] = "fired"
    <3>1. CASE i \in DOMAIN stack[m] /\ stack'[m][i] = stack[m][i]
      <4>1. /\ stack[m][i].stall /\ dest[stack[m][i].wait] = stack[m][i].lane
            /\ phase[stack[m][i].wait] \in Active
            /\ quitForReturn[stack[m][i].lane] => phase[stack[m][i].wait] = "fired"
        BY <1>1, <2>1, <3>1 DEF WaitLoops
      <4>2. stack[m][i].wait \in Waits /\ stack[m][i].wait # x
        BY <1>12, <2>1, <3>1
      <4>3. quitForReturn'[stack[m][i].lane] = quitForReturn[stack[m][i].lane]
        BY <1>7, <1>9, <3>1
      <4>4. QED
        BY <3>1, <4>1, <4>2, <4>3
    <3>2. CASE m = n /\ stack'[m][i] = f
      BY <1>3, <1>7, <2>1, <3>2 DEF Active
    <3>3. QED
      BY <1>5, <3>1, <3>2
  <2>2. ASSUME NEW m \in Named, At(m, "leave")', Top(m)'.wait # NoJob
        PROVE  phase'[Top(m)'.wait] = "fired"
    <3>1. m # n /\ At(m, "leave") /\ ~At(m, "out")
      BY <1>8, <2>2 DEF At
    <3>2. Top(m)' = Top(m)
      BY <1>4, <3>1 DEF Top
    <3>3. Top(m) = stack[m][Len(stack[m])] /\ Len(stack[m]) \in DOMAIN stack[m]
      BY <1>1, <3>1, TopFrame
    <3>4. phase[Top(m).wait] = "fired" /\ Top(m).wait \in Waits /\ Top(m).wait # x
      BY <1>1, <1>12, <2>2, <3>1, <3>2, <3>3 DEF WaitLoops
    <3>5. QED
      BY <3>2, <3>4
  <2>3. ASSUME NEW u \in Waits, phase'[u] \in Active, dest'[u] \in Lanes
        PROVE  \E i \in DOMAIN stack'[dest'[u][1]] : stack'[dest'[u][1]][i].wait = u
    <3>1. CASE u = x
      <4>1. dest'[u] = l
        BY <3>1 DEF Jobs
      <4>2. \E i \in DOMAIN stack'[n] : stack'[n][i].wait = u
        BY <1>3, <1>4, <3>1
      <4>3. QED
        BY <1>0, <4>1, <4>2
    <3>2. CASE u # x
      <4>1. PICK r \in Lanes : r = dest'[u]
        BY <2>3
      <4>2. PICK m \in Named : m = r[1]
        OBVIOUS
      <4>3. PICK i \in DOMAIN stack[m] : stack[m][i].wait = u
        <5>1. phase[u] \in Active /\ dest[u] \in Lanes /\ dest[u][1] = m
          BY <2>3, <3>2, <4>1, <4>2
        <5>2. QED
          BY <1>1, <5>1 DEF WaitLoops
      <4>4. i \in DOMAIN stack'[m] /\ stack'[m][i] = stack[m][i]
        BY <1>4, <4>3
      <4>5. QED
        BY <4>1, <4>2, <4>3, <4>4
    <3>3. QED
      BY <3>1, <3>2
  <2>4. QED
    BY <2>1, <2>2, <2>3 DEF WaitLoops
<1>14. \A m \in Named : \A i \in DOMAIN stack'[m] : stack'[m][i].job \in Waits =>
         i \in DOMAIN stack[m] /\ stack'[m][i] = stack[m][i]
  BY <1>3, <1>5 DEF Jobs
<1>15. /\ \A m \in Named : \/ pc'[m] = pc[m] /\ stack'[m] = stack[m]
                           \/ pc[m] # "wait" /\ pc'[m] \notin Sleepy
       /\ \A m \in Named : At(m, "dispatch") <=> At(m, "dispatch")'
       /\ pc'[l[1]] \notin Sleepy
  BY <1>0, <1>1, <1>4, <1>8 DEF At, Sleepy
<1>16. QED
  BY <1>10, <1>11, <1>13, <1>14, <1>15

LEMMA ProcessThreadKeeps ==
  ASSUME NamedInv, NEW l \in Lanes, NEW stall \in BOOLEAN, ProcessThread(l, stall)
  PROVE  NamedInv'
<1> USE LaneThreads
<1>0. /\ Shapes /\ WaitBlocks /\ QueuedWaits /\ ReadyWaits /\ ShutInv
      /\ guard[l] = 0 /\ At(l[1], "out") /\ Process(l, stall, NoJob)
  BY DEF NamedInv, ProcessThread
<1>1. UNCHANGED <<queue, stalled, moved, event, push, pool, quitForShutdown, toTrigger, ready,
                  created, done, doing, phase, needs, dest, blocked>>
  BY DEF ProcessThread, queueVars, laneVars, taskVars, waitVars
<1>2. /\ LoopShapes' /\ LoopsInv' /\ WaitLoops'
      /\ \A n \in Named : \A i \in DOMAIN stack'[n] : stack'[n][i].job \in Waits =>
           i \in DOMAIN stack[n] /\ stack'[n][i] = stack[n][i]
      /\ \A m \in Named : \/ pc'[m] = pc[m] /\ stack'[m] = stack[m]
                          \/ pc[m] # "wait" /\ pc'[m] \notin Sleepy
      /\ \A m \in Named : At(m, "dispatch") <=> At(m, "dispatch")'
  <2>1. NoJob \in Waits \cup {NoJob}
    OBVIOUS
  <2>2. QED
    BY <1>0, <1>1, <2>1, ProcessKeeps
<1>3. Shapes'
  BY <1>0, <1>1, <1>2 DEF Shapes, QueueShapes, WaitShapes
<1>4. QueuedWaits'
  BY <1>0, <1>1, <1>2, PlacesKeep
<1>5. WaitBlocks' /\ ReadyWaits' /\ ShutInv'
  BY <1>0, <1>1, <1>2 DEF WaitBlocks, ReadyWaits, ShutInv, Shut
<1>6. WakeInv' /\ StalledMeansWaiting' /\ ScanInv' /\ NoStrandedTask'
  <2>1. l[1] \in Threads
    OBVIOUS
  <2>2. QED
    BY <1>1, <1>2, <2>1, QuietKeeps
<1>7. QED
  BY <1>2, <1>3, <1>4, <1>5, <1>6 DEF NamedInv

LEMMA WaitAndProcessKeeps ==
  ASSUME NamedInv, NEW p \in Threads, NEW l \in Lanes, NEW w \in Waits,
         NEW W \in SUBSET Tasks, WaitAndProcess(p, l, w, W)
  PROVE  NamedInv'
<1> USE LaneThreads
<1>0. /\ Shapes /\ LoopsInv /\ WaitBlocks /\ ShutInv
      /\ ~Shut /\ phase[w] = "new" /\ push[p] = NoPush
      /\ p \in Named /\ l[1] = p /\ guard[l] = 0
      /\ At(p, "out") \/ At(p, "exec")
  BY InCodeFacts DEF NamedInv, WaitAndProcess, BeginWait, Processes
<1>1. /\ CreateWaitTask(p, w, W, l) /\ Process(l, TRUE, w)
      /\ UNCHANGED <<quitForShutdown, toTrigger, ready, created, done, doing, blocked>>
  BY DEF WaitAndProcess, taskVars
<1>2. /\ dest'[w] = l /\ phase'[w] \in {"queued", "pending"}
      /\ \A u \in Waits : u # w => phase'[u] = phase[u] /\ dest'[u] = dest[u]
  <2>1. /\ dest' = [dest EXCEPT ![w] = l]
        /\ \E s \in {"queued", "pending"} : phase' = [phase EXCEPT ![w] = s]
    BY <1>1 DEF CreateWaitTask
  <2>2. QED
    BY <1>0, <2>1 DEF Shapes, WaitShapes
<1>3. /\ LoopShapes' /\ LoopsInv' /\ WaitLoops'
      /\ \A n \in Named : \A i \in DOMAIN stack'[n] : stack'[n][i].job \in Waits =>
           i \in DOMAIN stack[n] /\ stack'[n][i] = stack[n][i]
      /\ \A m \in Named : \/ pc'[m] = pc[m] /\ stack'[m] = stack[m]
                          \/ pc[m] # "wait" /\ pc'[m] \notin Sleepy
      /\ \A m \in Named : At(m, "dispatch") <=> At(m, "dispatch")'
      /\ pc'[l[1]] \notin Sleepy
  <2>1. At(l[1], "out") \/ At(l[1], "exec")
    BY <1>0
  <2>2. TRUE \in BOOLEAN /\ w \in Waits \cup {NoJob}
    OBVIOUS
  <2>3. UNCHANGED <<quitForShutdown, toTrigger>> /\ Process(l, TRUE, w) /\ guard[l] = 0
    BY <1>0, <1>1
  <2>4. w # NoJob => TRUE /\ dest'[w] = l /\ phase[w] = "new"
                     /\ phase'[w] \in {"queued", "pending"}
    BY <1>0, <1>2
  <2>5. \A u \in Waits : u # w => phase'[u] = phase[u] /\ dest'[u] = dest[u]
    BY <1>2
  <2>6. QED
    BY <2>1, <2>2, <2>3, <2>4, <2>5, ProcessKeeps
<1>4. /\ QueueShapes' /\ UNCHANGED <<stalled, moved, event>>
      /\ \A k \in Lanes : \/ queue'[k] = queue[k] \/ push'[p].lane = k
                          \/ k[1] = p /\ k = l
      /\ \A q \in Threads \ {p} : push'[q] = push[q]
      /\ push'[p] = push[p] \/ push'[p].step = "exchange"
      /\ needs' \in [Waits -> SUBSET Tasks] /\ dest' \in [Waits -> Lanes \cup {AnyThread}]
      /\ phase' \in [Waits -> Active \cup {"new", "returned"}]
      /\ QueuedWaits' /\ ReadyWaits'
  <2>1. l \in Lanes \cup {AnyThread}
    OBVIOUS
  <2>2. \A n \in Named : \A i \in DOMAIN stack'[n] : stack'[n][i].job \in Waits =>
           i \in DOMAIN stack[n] /\ stack'[n][i] = stack[n][i]
    BY <1>3
  <2>3. \A m \in Named : At(m, "dispatch") => At(m, "dispatch")'
    BY <1>3
  <2>4. CreateWaitTask(p, w, W, l) /\ UNCHANGED <<doing, done, ready>>
    BY <1>1
  <2>5. push[p] = NoPush /\ phase[w] = "new" /\ p \in Threads
    BY <1>0
  <2>6. QED
    BY <2>1, <2>2, <2>3, <2>4, <2>5, CreateWaitTaskKeeps
<1>5. Shapes'
  BY <1>0, <1>1, <1>3, <1>4 DEF Shapes, WaitShapes
<1>6. WaitBlocks'
  <2>1. \A q \in Threads : blocked[q] # NoJob => blocked[q] \in Waits /\ blocked[q] # w
    BY <1>0 DEF WaitBlocks, Active, Shapes, WaitShapes
  <2>2. QED
    BY <1>0, <1>1, <1>2, <2>1 DEF WaitBlocks
<1>7. ShutInv'
  BY <1>0, <1>1 DEF ShutInv, Shut
<1>8. WakeInv' /\ StalledMeansWaiting' /\ ScanInv' /\ NoStrandedTask'
  <2>1. \A k \in Lanes : \/ queue'[k] = queue[k] \/ push'[p].lane = k
                         \/ pc'[k[1]] \notin Sleepy
    BY <1>3, <1>4
  <2>2. QED
    BY <1>0, <1>1, <1>3, <1>4, <2>1, QuietKeeps
<1>9. QED
  BY <1>3, <1>4, <1>5, <1>6, <1>7, <1>8 DEF NamedInv

LEMMA LeaveKeeps ==
  ASSUME NamedInv, NEW n \in Named, Leave(n)
  PROVE  NamedInv'
<1> USE LaneThreads
<1> DEFINE w == Top(n).wait
           k == Len(stack[n])
           b == SubSeq(stack[n], 1, Len(stack[n]) - 1)
<1>0. /\ Shapes /\ LoopsInv /\ WaitLoops /\ WaitBlocks /\ QueuedWaits /\ ReadyWaits /\ ShutInv
      /\ At(n, "leave") /\ ~At(n, "out")
      /\ k \in DOMAIN stack[n] /\ Top(n) = stack[n][k] /\ Lane(n) \in Lanes /\ Lane(n)[1] = n
      /\ guard[Lane(n)] = 1 /\ w \in Waits \cup {NoJob} /\ Lane(n) = stack[n][k].lane
      /\ pc \in [Named -> {"out", "loop", "scan", "stall", "wait", "exec", "dispatch", "leave"}]
      /\ phase \in [Waits -> Active \cup {"new", "returned"}]
      /\ guard \in [Lanes -> {0, 1}] /\ stack \in [Named -> Seq(Frames)]
      /\ \A m \in Named : pc[m] = "out" <=> stack[m] = <<>>
  BY TopFrame DEF NamedInv, Leave, At, Shapes, LoopShapes, WaitShapes, Frames, Lane
<1>1. /\ guard' = [guard EXCEPT ![Lane(n)] = @ - 1] /\ stack' = [stack EXCEPT ![n] = b]
      /\ pc' = [pc EXCEPT ![n] = IF b = <<>> THEN "out" ELSE "exec"]
      /\ phase' = IF w = NoJob THEN phase ELSE [phase EXCEPT ![w] = "returned"]
      /\ UNCHANGED <<queue, stalled, moved, event, push, pool, quitForReturn, quitForShutdown,
                     toTrigger, ready, created, done, doing, needs, dest, blocked>>
  BY DEF Leave, queueVars, laneVars, quitVars, taskVars
<1>2. /\ stack' \in [Named -> Seq(Frames)]
      /\ \A m \in Named \ {n} : stack'[m] = stack[m]
      /\ DOMAIN stack'[n] = DOMAIN stack[n] \ {k}
      /\ \A i \in DOMAIN stack'[n] : stack'[n][i] = stack[n][i]
  BY <1>0, <1>1, ShrinkEffect
<1>3. stack'[n] = b
  BY <1>0, <1>1
<1> HIDE DEF b
<1>4. /\ pc'[n] \in {"out", "exec"} /\ (pc'[n] = "out" <=> stack'[n] = <<>>)
      /\ \A m \in Named : m # n => pc'[m] = pc[m]
      /\ pc' \in [Named -> {"out", "loop", "scan", "stall", "wait", "exec", "dispatch", "leave"}]
  BY <1>0, <1>1, <1>3
<1>5. /\ guard' \in [Lanes -> {0, 1}] /\ guard'[Lane(n)] = 0
      /\ \A l \in Lanes : l # Lane(n) => guard'[l] = guard[l]
  BY <1>0, <1>1
<1>6. w # NoJob => w \in Waits /\ phase[w] = "fired" /\ dest[w] = Lane(n)
  BY <1>0 DEF WaitLoops
<1>7. /\ \A u \in Waits : u # w => phase'[u] = phase[u]
      /\ w # NoJob => phase'[w] = "returned"
      /\ phase' \in [Waits -> Active \cup {"new", "returned"}]
  BY <1>0, <1>1, <1>6
<1>8. \A m \in Named : \A i \in DOMAIN stack'[m] :
        i \in DOMAIN stack[m] /\ stack'[m][i] = stack[m][i] /\ ~(m = n /\ i = k)
  BY <1>2
<1>9. \A m \in Named : \A i \in DOMAIN stack[m] : ~(m = n /\ i = k) =>
        i \in DOMAIN stack'[m] /\ stack'[m][i] = stack[m][i]
  BY <1>2
<1>10. Shapes'
  <2>1. \A m \in Named : pc'[m] = "out" <=> stack'[m] = <<>>
    BY <1>0, <1>2, <1>4
  <2>2. LoopShapes'
    BY <1>0, <1>1, <1>2, <1>4, <1>5, <2>1 DEF Shapes, LoopShapes
  <2>3. QED
    BY <1>0, <1>1, <1>7, <2>2 DEF Shapes, QueueShapes, WaitShapes
<1>11. LoopsInv'
  <2>1. ASSUME NEW m \in Named, NEW i \in DOMAIN stack'[m]
        PROVE  stack'[m][i].lane[1] = m /\ guard'[stack'[m][i].lane] = 1
    <3>1. i \in DOMAIN stack[m] /\ stack'[m][i] = stack[m][i] /\ ~(m = n /\ i = k)
      BY <1>8
    <3>2. stack[m][i].lane \in Lanes
      BY <1>0, <3>1, FrameFields DEF Shapes
    <3>3. stack[m][i].lane # Lane(n)
      BY <1>0, <3>1, OneLoopPerLane
    <3>4. stack[m][i].lane[1] = m /\ guard[stack[m][i].lane] = 1
      BY <1>0, <3>1 DEF LoopsInv
    <3>5. QED
      BY <1>5, <3>1, <3>2, <3>3, <3>4
  <2>2. \A m \in Named : \A i \in DOMAIN stack'[m] : \A j \in DOMAIN stack'[m] :
          stack'[m][i].lane = stack'[m][j].lane => i = j
    BY <1>0, <1>8 DEF LoopsInv
  <2>3. ASSUME NEW l \in Lanes, guard'[l] = 1
        PROVE  \E i \in DOMAIN stack'[l[1]] : stack'[l[1]][i].lane = l
    <3>1. l # Lane(n) /\ guard[l] = 1
      BY <1>5, <2>3
    <3>2. PICK m \in Named : m = l[1]
      OBVIOUS
    <3>3. PICK i \in DOMAIN stack[m] : stack[m][i].lane = l
      BY <1>0, <3>1, <3>2 DEF LoopsInv
    <3>4. ~(m = n /\ i = k)
      BY <1>0, <3>1, <3>3
    <3>5. QED
      BY <1>9, <3>2, <3>3, <3>4
  <2>4. QED
    BY <2>1, <2>2, <2>3 DEF LoopsInv
<1>12. \A m \in Named : \A i \in DOMAIN stack'[m] : stack'[m][i].wait # NoJob =>
         stack'[m][i].wait \in Waits /\ stack'[m][i].wait # w
  <2> SUFFICES ASSUME NEW m \in Named, NEW i \in DOMAIN stack'[m], stack'[m][i].wait # NoJob
               PROVE  stack'[m][i].wait \in Waits /\ stack'[m][i].wait # w
    OBVIOUS
  <2>1. i \in DOMAIN stack[m] /\ stack'[m][i] = stack[m][i] /\ ~(m = n /\ i = k)
    BY <1>8
  <2>2. stack[m][i].wait \in Waits
    BY <1>0, <2>1, FrameFields DEF Shapes
  <2>3. stack[m][i].wait # stack[n][k].wait
    BY <1>0, <2>1, OneLoopPerWait
  <2>4. QED
    BY <1>0, <2>1, <2>2, <2>3
<1>13. WaitLoops'
  <2>1. ASSUME NEW m \in Named, NEW i \in DOMAIN stack'[m], stack'[m][i].wait # NoJob
        PROVE  /\ stack'[m][i].stall /\ dest'[stack'[m][i].wait] = stack'[m][i].lane
               /\ phase'[stack'[m][i].wait] \in Active
               /\ quitForReturn'[stack'[m][i].lane] => phase'[stack'[m][i].wait] = "fired"
    <3>1. i \in DOMAIN stack[m] /\ stack'[m][i] = stack[m][i]
      BY <1>8
    <3>2. /\ stack[m][i].stall /\ dest[stack[m][i].wait] = stack[m][i].lane
          /\ phase[stack[m][i].wait] \in Active
          /\ quitForReturn[stack[m][i].lane] => phase[stack[m][i].wait] = "fired"
      BY <1>0, <2>1, <3>1 DEF WaitLoops
    <3>3. phase'[stack[m][i].wait] = phase[stack[m][i].wait]
      BY <1>7, <1>12, <2>1, <3>1
    <3>4. QED
      BY <1>1, <3>1, <3>2, <3>3
  <2>2. ASSUME NEW m \in Named, At(m, "leave")', Top(m)'.wait # NoJob
        PROVE  phase'[Top(m)'.wait] = "fired"
    <3>1. m # n /\ At(m, "leave") /\ ~At(m, "out")
      BY <1>4, <2>2 DEF At
    <3>2. Top(m)' = Top(m)
      BY <1>2, <3>1 DEF Top
    <3>3. Top(m) = stack[m][Len(stack[m])] /\ Len(stack[m]) \in DOMAIN stack[m]
      BY <1>0, <3>1, TopFrame
    <3>4. phase[Top(m).wait] = "fired"
      BY <1>0, <2>2, <3>1, <3>2 DEF WaitLoops
    <3>5. Top(m).wait \in Waits /\ Top(m).wait # w
      BY <1>9, <1>12, <2>2, <3>1, <3>2, <3>3
    <3>6. QED
      BY <1>7, <3>2, <3>4, <3>5
  <2>3. ASSUME NEW u \in Waits, phase'[u] \in Active, dest'[u] \in Lanes
        PROVE  \E i \in DOMAIN stack'[dest'[u][1]] : stack'[dest'[u][1]][i].wait = u
    <3>1. u # w /\ phase'[u] = phase[u] /\ dest'[u] = dest[u]
      BY <1>1, <1>7, <2>3 DEF Active, Jobs
    <3>2. PICK m \in Named : m = dest[u][1]
      BY <2>3, <3>1
    <3>3. PICK i \in DOMAIN stack[m] : stack[m][i].wait = u
      BY <1>0, <2>3, <3>1, <3>2 DEF WaitLoops
    <3>4. ~(m = n /\ i = k)
      BY <1>0, <3>1, <3>3
    <3>5. QED
      BY <1>9, <3>1, <3>2, <3>3, <3>4
  <2>4. QED
    BY <2>1, <2>2, <2>3 DEF WaitLoops
<1>14. WaitBlocks'
  <2>1. \A q \in Threads : blocked[q] # NoJob => blocked[q] \in Waits /\ blocked[q] # w
    BY <1>0, <1>6 DEF WaitBlocks, Shapes, WaitShapes
  <2>2. QED
    BY <1>0, <1>1, <1>7, <2>1 DEF WaitBlocks
<1>15. QueuedWaits'
  <2>1. \A u \in Waits : phase[u] = "queued" => phase'[u] = "queued" /\ dest'[u] = dest[u]
    BY <1>1, <1>6, <1>7 DEF Jobs
  <2>2. QED
    BY <1>0, <1>1, <1>8, <2>1, PlacesKeep
<1>16. ReadyWaits'
  <2>1. \A q \in Threads : \A u \in ready[q] : phase'[u] = "ready"
    BY <1>0, <1>6, <1>7 DEF ReadyWaits, Shapes, WaitShapes, Jobs
  <2>2. \A u \in Waits : phase'[u] \notin {"new", "pending"} => needs[u] \subseteq done
    BY <1>0, <1>6, <1>7 DEF ReadyWaits, Jobs
  <2>3. \A m \in Named : At(m, "dispatch") => At(m, "dispatch")'
    BY <1>0, <1>4 DEF At
  <2>4. QED
    BY <1>0, <1>1, <2>1, <2>2, <2>3 DEF ReadyWaits
<1>17. ShutInv'
  BY <1>0, <1>1, <1>6, <1>7 DEF ShutInv, Shut
<1>18. WakeInv' /\ StalledMeansWaiting' /\ ScanInv' /\ NoStrandedTask'
  <2>1. \A m \in Named : \/ pc'[m] = pc[m] /\ stack'[m] = stack[m]
                         \/ pc[m] # "wait" /\ pc'[m] \notin Sleepy
    BY <1>0, <1>2, <1>4 DEF At, Sleepy
  <2>2. n \in Threads
    OBVIOUS
  <2>3. QED
    BY <1>1, <2>1, <2>2, QuietKeeps
<1>19. QED
  BY <1>10, <1>11, <1>13, <1>14, <1>15, <1>16, <1>17, <1>18 DEF NamedInv

-----------------------------------------------------------------------------
(* The theorems                                                             *)

LEMMA InitNamed == Init => NamedInv
<1> SUFFICES ASSUME Init PROVE NamedInv
  OBVIOUS
<1> USE LaneThreads
<1>1. /\ queue = [l \in Lanes |-> <<>>] /\ stack = [n \in Named |-> <<>>]
      /\ stalled = [l \in Lanes |-> FALSE] /\ event = [l \in Lanes |-> FALSE]
      /\ moved = [l \in Lanes |-> FALSE] /\ pc = [n \in Named |-> "out"]
      /\ guard = [l \in Lanes |-> 0] /\ push = [p \in Threads |-> NoPush]
      /\ quitForShutdown = [l \in Lanes |-> FALSE] /\ phase = [w \in Waits |-> "new"]
      /\ doing = [o \in Workers |-> NoJob] /\ blocked = [p \in Threads |-> NoJob]
      /\ ready = [p \in Threads |-> {}] /\ pool = {} /\ toTrigger = {}
  BY DEF Init
<1>2. /\ \A l \in Lanes : queue[l] = <<>> /\ ~stalled[l] /\ ~event[l] /\ guard[l] = 0
                          /\ ~quitForShutdown[l]
      /\ \A n \in Named : stack[n] = <<>> /\ pc[n] = "out"
      /\ \A p \in Threads : push[p] = NoPush /\ blocked[p] = NoJob /\ ready[p] = {}
      /\ \A o \in Workers : doing[o] = NoJob
      /\ \A w \in Waits : phase[w] = "new"
      /\ DOMAIN <<>> = {}
  BY <1>1
<1>3. QueueShapes
  <2>1. <<>> \in Seq(Jobs) /\ NoPush \in Pushes
    BY EmptySeq DEF NoPush, Pushes
  <2>2. queue \in [Lanes -> Seq(Jobs)] /\ push \in [Threads -> Pushes]
    BY <1>1, <2>1
  <2>3. QED
    BY <1>1, <1>2, <2>2 DEF QueueShapes, NoPush
<1>4. LoopShapes
  <2>1. stack \in [Named -> Seq(Frames)]
    BY <1>1, EmptySeq
  <2>2. QED
    BY <1>1, <1>2, <2>1 DEF Init, LoopShapes
<1>5. WaitShapes
  BY DEF Init, WaitShapes, Active
<1>6. LoopsInv /\ WaitLoops
  BY <1>2 DEF LoopsInv, WaitLoops, Active, At
<1>7. WaitBlocks /\ QueuedWaits /\ ReadyWaits
  BY <1>1, <1>2 DEF WaitBlocks, QueuedWaits, ReadyWaits, Jobs
<1>8. WakeInv /\ StalledMeansWaiting /\ ScanInv /\ NoStrandedTask /\ ShutInv
  BY <1>1, <1>2 DEF WakeInv, StalledMeansWaiting, ScanInv, NoStrandedTask, ShutInv, Shut, At,
                    NoPush
<1>9. QED
  BY <1>3, <1>4, <1>5, <1>6, <1>7, <1>8 DEF NamedInv, Shapes

LEMMA NextNamed == NamedInv /\ [Next]_vars => NamedInv'
<1> SUFFICES ASSUME NamedInv, [Next]_vars PROVE NamedInv'
  OBVIOUS
<1>1. CASE UNCHANGED vars
  <2>1. UNCHANGED <<queue, stalled, moved, event, quitForReturn, quitForShutdown, toTrigger,
                    guard, stack, pc, push, ready, pool, created, done, doing,
                    phase, needs, dest, blocked>>
    BY <1>1 DEF vars, laneVars, quitVars, loopVars, taskVars, waitVars
  <2>2. /\ Shapes' /\ LoopsInv' /\ WaitBlocks' /\ QueuedWaits' /\ ReadyWaits'
    BY <2>1 DEF NamedInv, Shapes, QueueShapes, LoopShapes, WaitShapes, LoopsInv, WaitBlocks,
                QueuedWaits, ReadyWaits, At
  <2>3. WaitLoops' /\ ShutInv'
    BY <2>1 DEF NamedInv, WaitLoops, ShutInv, Shut, At, Top
  <2>4. WakeInv' /\ StalledMeansWaiting' /\ ScanInv' /\ NoStrandedTask'
    BY <2>1 DEF NamedInv, WakeInv, StalledMeansWaiting, ScanInv, NoStrandedTask, Waiting, Shut,
                At, Lane, Top
  <2>5. QED
    BY <2>2, <2>3, <2>4 DEF NamedInv
<1>2. ASSUME NEW p \in Threads, Call(p) PROVE NamedInv'
  BY <1>2, CreateTaskKeeps, WaitForNothingKeeps, WaitAndProcessKeeps, WaitOnEventKeeps DEF Call
<1>3. ASSUME NEW p \in Threads, ThreadStep(p) PROVE NamedInv'
  BY <1>3, PushExchangeKeeps, PushTriggerKeeps, EventWaitedKeeps, QueueReadyKeeps
     DEF ThreadStep
<1>4. ASSUME NEW l \in Lanes, NEW stall \in BOOLEAN, ProcessThread(l, stall) PROVE NamedInv'
  BY <1>4, ProcessThreadKeeps
<1>5. ASSUME NEW n \in Named, LoopStep(n) PROVE NamedInv'
  BY <1>5, LoopKeeps, PopTaskKeeps, PopNothingKeeps, StallKeeps, WakeUpKeeps,
     RunReturnTaskKeeps, FinishTaskKeeps, DispatchedKeeps, LeaveKeeps DEF LoopStep
<1>6. ASSUME NEW n \in Named, RequestReturn(n) PROVE NamedInv'
  BY <1>6, RequestReturnKeeps
<1>7. ASSUME NEW o \in Workers, WorkStep(o) PROVE NamedInv'
  BY <1>7, TakeWorkKeeps, FinishWorkKeeps, TriggerEventKeeps DEF WorkStep
<1>8. CASE RequestQuit
  BY <1>8, RequestQuitKeeps
<1>9. ASSUME NEW l \in Lanes, QuitTrigger(l) PROVE NamedInv'
  BY <1>9, QuitTriggerKeeps
<1>10. QED
  BY <1>1, <1>2, <1>3, <1>4, <1>5, <1>6, <1>7, <1>8, <1>9 DEF Next

(* The inductive invariant: which loops each named thread is inside, where  *)
(* every return and trigger task is, and who will wake a thread that waits. *)
THEOREM NamedInvariant == Spec => []NamedInv
<1>1. QED
  BY InitNamed, NextNamed, PTL DEF Spec

(* WaitUntilTasksComplete returns only when the tasks have completed,       *)
(* although a loop is left for any request to return and a task may enter   *)
(* the other queue's loop (TaskGraph.cpp, ProcessTasksUntilQuit).           *)
THEOREM WaitsReturnDone == Spec => []WaitsAreHonoured
<1>1. NamedInv => WaitsAreHonoured
  BY DEF NamedInv, ReadyWaits, WaitsAreHonoured
<1>2. QED
  BY NamedInvariant, <1>1, PTL

(* The asserts that a thread is not stalled when it enqueues to itself or   *)
(* asks for a task hold (TaskGraph.cpp:589, LockFreeList.h:710).            *)
THEOREM StalledThreadsWait == Spec => []StalledMeansWaiting
<1>1. NamedInv => StalledMeansWaiting
  BY DEF NamedInv
<1>2. QED
  BY NamedInvariant, <1>1, PTL

(* No task stays in the queue of a thread that waits on it without a        *)
(* wake-up under way: scan, exchange and wait against enqueue, exchange and *)
(* trigger (LockFreeList.h, FStallingTaskQueue).                            *)
THEOREM NothingIsStranded == Spec => []NoStrandedTask
<1>1. NamedInv => NoStrandedTask
  BY DEF NamedInv
<1>2. QED
  BY NamedInvariant, <1>1, PTL

LEMMA GuardCounts == NamedInv => NeverReentered
<1> SUFFICES ASSUME NamedInv, NEW l \in Lanes
             PROVE  /\ guard[l] = Cardinality({i \in DOMAIN stack[l[1]] : stack[l[1]][i].lane = l})
                    /\ guard[l] <= 1
  BY DEF NeverReentered
<1> DEFINE S == {i \in DOMAIN stack[l[1]] : stack[l[1]][i].lane = l}
<1>1. PICK n \in Named : n = l[1]
  BY LaneThreads
<1>2. LoopsInv /\ guard[l] \in {0, 1}
  BY DEF NamedInv, Shapes, LoopShapes
<1>3. CASE guard[l] = 0
  <2>1. S = {}
    BY <1>1, <1>2, <1>3 DEF LoopsInv
  <2>2. QED
    BY <1>3, <2>1, FS_EmptySet
<1>4. CASE guard[l] = 1
  <2>1. PICK i \in DOMAIN stack[n] : stack[n][i].lane = l
    BY <1>1, <1>2, <1>4 DEF LoopsInv
  <2>2. S = {i}
    BY <1>1, <1>2, <2>1 DEF LoopsInv
  <2>3. Cardinality({i}) = 1
    BY FS_Singleton
  <2>4. Cardinality(S) = 1
    <3> HIDE DEF S
    <3>1. QED
      BY <2>2, <2>3, Zenon
  <2>5. QED
    BY <1>4, <2>4
<1>5. QED
  BY <1>2, <1>3, <1>4

(* The verify on RecursionGuard never fails (TaskGraph.cpp:537): a task may *)
(* enter the loop of the other queue, never that of its own.                *)
THEOREM LoopsAreNotReentered == Spec => []NeverReentered
<1>1. QED
  BY NamedInvariant, GuardCounts, PTL

(* A return task ends the loop its own wait has entered and no other, and   *)
(* is in no queue any more when the wait returns.                           *)
THEOREM ReturnsAreMatched == Spec => []ReturnsItsOwnLoop
<1>1. NamedInv => ReturnsItsOwnLoop
  BY DEF NamedInv, QueuedWaits, ReturnsItsOwnLoop
<1>2. QED
  BY NamedInvariant, <1>1, PTL
=============================================================================
