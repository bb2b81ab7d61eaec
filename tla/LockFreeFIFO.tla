---------------------------- MODULE LockFreeFIFO ----------------------------
(***************************************************************************)
(* FLockFreePointerFIFOBase, the queue of links the task queues are built  *)
(* from, at the granularity of its atomic reads and compare-exchanges.     *)
(* Links are recycled while other threads may still hold their index, so   *)
(* every indexed pointer carries a counter that each exchange advances.    *)
(*                                                                         *)
(* All lists of the program share the links; here one list allocates and   *)
(* frees them, and the thread-local caches of free links are one set.  The *)
(* counters do not wrap: that takes 2^38 exchanges of one word inside one  *)
(* loop body of another thread.                                            *)
(***************************************************************************)
EXTENDS LinkChain

CONSTANTS
  Threads,
  Items,      (* payloads; each is pushed once, which bounds the runs      *)
  NoItem      (* the payload of a link that is not in use                  *)

ASSUME FIFOAssumption == Links # {} /\ NoItem \notin Items

VARIABLES
  head, tail,      (* Head and Tail                                        *)
  doubleNext,      (* DoubleNext of each link                              *)
  payload,         (* Payload of each link                                 *)
  free,            (* links in the allocator                               *)
  unpushed,        (* payloads nobody has started to push                  *)
  popped,          (* history: payloads returned, in order                 *)
  pc,              (* where each thread is                                 *)
  item,            (* Item of a pushing thread                             *)
  localHead, localTail, localNext,   (* the local copies of each thread    *)
  result,          (* Result of a popping thread                           *)
  seen,            (* history: was the queue empty during the operation?   *)
  retries          (* history: how often a thread has gone back to the     *)
                   (* head of its loop since another thread took a step    *)

memory == <<head, tail, doubleNext, payload, free>>
locals == <<item, localHead, localTail, localNext, result>>
vars   == <<memory, unpushed, popped, pc, locals, seen, retries>>

Null == [ptr |-> NoLink, counter |-> 0]

(* Wrong variant: pointers without a counter (the ABA problem).             *)
AdvanceWithoutCounter(from, to) == [ptr |-> to, counter |-> from.counter]

(* AdvanceCounterAndState, then SetPtr.                                     *)
Advance(from, to) == [ptr |-> to, counter |-> from.counter + 1]

Goto(p, label) == pc' = [pc EXCEPT ![p] = label]

(* The operation returns and its locals go out of scope.                    *)
Return(p) ==
  /\ Goto(p, "idle")
  /\ item' = [item EXCEPT ![p] = NoLink]
  /\ localHead' = [localHead EXCEPT ![p] = Null]
  /\ localTail' = [localTail EXCEPT ![p] = Null]
  /\ localNext' = [localNext EXCEPT ![p] = Null]
  /\ result' = [result EXCEPT ![p] = NoItem]

Init ==
  /\ \E stub \in Links :
       /\ head = [Null EXCEPT !.ptr = stub]
       /\ tail = [Null EXCEPT !.ptr = stub]
       /\ free = Links \ {stub}
  /\ doubleNext = [l \in Indices |-> Null]
  /\ payload = [l \in Indices |-> NoItem]
  /\ unpushed = Items
  /\ popped = <<>>
  /\ pc = [p \in Threads |-> "idle"]
  /\ item = [p \in Threads |-> NoLink]
  /\ localHead = [p \in Threads |-> Null]
  /\ localTail = [p \in Threads |-> Null]
  /\ localNext = [p \in Threads |-> Null]
  /\ result = [p \in Threads |-> NoItem]
  /\ seen = [p \in Threads |-> {}]
  /\ retries = [p \in Threads |-> 0]

-----------------------------------------------------------------------------
(* Push                                                                     *)

BeginPush(p, x) ==
  /\ pc[p] = "idle"
  /\ x \in unpushed
  /\ unpushed' = unpushed \ {x}
  /\ \E l \in free :
       /\ free' = free \ {l}
       /\ item' = [item EXCEPT ![p] = l]
       /\ payload' = [payload EXCEPT ![l] = x]
  /\ Goto(p, "pushTail")
  /\ UNCHANGED <<head, tail, doubleNext, popped, localHead, localTail,
                 localNext, result>>

PushReadTail(p) ==
  /\ pc[p] = "pushTail"
  /\ localTail' = [localTail EXCEPT ![p] = tail]
  /\ Goto(p, "pushNext")
  /\ UNCHANGED <<memory, unpushed, popped, item, localHead, localNext, result>>

PushReadNext(p) ==
  /\ pc[p] = "pushNext"
  /\ localNext' = [localNext EXCEPT ![p] = doubleNext[localTail[p].ptr]]
  /\ Goto(p, "pushTest")
  /\ UNCHANGED <<memory, unpushed, popped, item, localHead, localTail, result>>

PushTestTail(p) ==
  /\ pc[p] = "pushTest"
  /\ Goto(p, IF tail # localTail[p] THEN "pushTail"
             ELSE IF localNext[p].ptr # NoLink THEN "pushHelp" ELSE "pushLink")
  /\ UNCHANGED <<memory, unpushed, popped, locals>>

(* Tail.InterlockedCompareExchange, its outcome not looked at.              *)
SwingTail(p, to) ==
  /\ tail' = IF tail = localTail[p] THEN Advance(localTail[p], to) ELSE tail
  /\ UNCHANGED <<head, doubleNext, payload, free, unpushed, popped>>

(* Wrong variant: wait for the other pusher instead of helping it.          *)
SpinUntilSwung(p) ==
  /\ pc[p] = "pushHelp"
  /\ Goto(p, "pushTail")
  /\ UNCHANGED <<memory, unpushed, popped, locals>>

PushHelp(p) ==
  /\ pc[p] = "pushHelp"
  /\ SwingTail(p, localNext[p].ptr)
  /\ Goto(p, "pushTail")
  /\ UNCHANGED locals

PushLink(p) ==
  /\ pc[p] = "pushLink"
  /\ LET l == localTail[p].ptr IN
     \/ /\ doubleNext[l] = localNext[p]
        /\ doubleNext' = [doubleNext EXCEPT ![l] = Advance(localNext[p], item[p])]
        /\ Goto(p, "pushSwing")
     \/ /\ doubleNext[l] # localNext[p]
        /\ Goto(p, "pushTail")
        /\ UNCHANGED doubleNext
  /\ UNCHANGED <<head, tail, payload, free, unpushed, popped, locals>>

PushSwing(p) ==
  /\ pc[p] = "pushSwing"
  /\ SwingTail(p, item[p])
  /\ Return(p)

-----------------------------------------------------------------------------
(* Pop                                                                      *)

BeginPop(p) ==
  /\ pc[p] = "idle"
  /\ Goto(p, "popHead")
  /\ UNCHANGED <<memory, unpushed, popped, locals>>

PopReadHead(p) ==
  /\ pc[p] = "popHead"
  /\ localHead' = [localHead EXCEPT ![p] = head]
  /\ Goto(p, "popTail")
  /\ UNCHANGED <<memory, unpushed, popped, item, localTail, localNext, result>>

PopReadTail(p) ==
  /\ pc[p] = "popTail"
  /\ localTail' = [localTail EXCEPT ![p] = tail]
  /\ Goto(p, "popNext")
  /\ UNCHANGED <<memory, unpushed, popped, item, localHead, localNext, result>>

PopReadNext(p) ==
  /\ pc[p] = "popNext"
  /\ localNext' = [localNext EXCEPT ![p] = doubleNext[localHead[p].ptr]]
  /\ Goto(p, "popTest")
  /\ UNCHANGED <<memory, unpushed, popped, item, localHead, localTail, result>>

(* Wrong variant: the three reads of Pop are taken as they come.            *)
HeadUnchangedUntested(p) == TRUE

HeadUnchanged(p) == head = localHead[p]

PopTestHead(p) ==
  /\ pc[p] = "popTest"
  /\ Goto(p, IF ~HeadUnchanged(p) THEN "popHead"
             ELSE IF localHead[p].ptr # localTail[p].ptr THEN "popPayload"
             ELSE IF localNext[p].ptr # NoLink THEN "popHelp" ELSE "popNull")
  /\ UNCHANGED <<memory, unpushed, popped, locals>>

PopReturnNull(p) ==
  /\ pc[p] = "popNull"
  /\ Return(p)
  /\ UNCHANGED <<memory, unpushed, popped>>

PopHelp(p) ==
  /\ pc[p] = "popHelp"
  /\ SwingTail(p, localNext[p].ptr)
  /\ Goto(p, "popHead")
  /\ UNCHANGED locals

(* The payload of a link that another thread may have recycled by now.      *)
PopReadPayload(p) ==
  /\ pc[p] = "popPayload"
  /\ result' = [result EXCEPT ![p] = payload[localNext[p].ptr]]
  /\ Goto(p, "popSwing")
  /\ UNCHANGED <<memory, unpushed, popped, item, localHead, localTail, localNext>>

PopSwing(p) ==
  /\ pc[p] = "popSwing"
  /\ \/ /\ head = localHead[p]
        /\ head' = Advance(localHead[p], localNext[p].ptr)
        /\ popped' = Append(popped, result[p])
        /\ Goto(p, "popFree")
     \/ /\ head # localHead[p]
        /\ Goto(p, "popHead")
        /\ UNCHANGED <<head, popped>>
  /\ UNCHANGED <<tail, doubleNext, payload, free, unpushed, locals>>

(* FreeLockFreeLink keeps the counter of DoubleNext: a thread that still    *)
(* holds the index compares with it.                                        *)
ClearPtr(next) == [next EXCEPT !.ptr = NoLink]

PopFree(p) ==
  /\ pc[p] = "popFree"
  /\ LET l == localHead[p].ptr IN
     /\ doubleNext' = [doubleNext EXCEPT ![l] = ClearPtr(@)]
     /\ payload' = [payload EXCEPT ![l] = NoItem]
     /\ free' = free \cup {l}
  /\ Return(p)
  /\ UNCHANGED <<head, tail, unpushed, popped>>

-----------------------------------------------------------------------------
(* IsEmpty: two reads with no test between them.                            *)

BeginIsEmpty(p) ==
  /\ pc[p] = "idle"
  /\ Goto(p, "emptyHead")
  /\ UNCHANGED <<memory, unpushed, popped, locals>>

IsEmptyReadHead(p) ==
  /\ pc[p] = "emptyHead"
  /\ localHead' = [localHead EXCEPT ![p] = head]
  /\ Goto(p, "emptyNext")
  /\ UNCHANGED <<memory, unpushed, popped, item, localTail, localNext, result>>

IsEmptyReadNext(p) ==
  /\ pc[p] = "emptyNext"
  /\ Goto(p, IF doubleNext[localHead[p].ptr].ptr = NoLink THEN "saysEmpty"
                                                          ELSE "saysFilled")
  /\ UNCHANGED <<memory, unpushed, popped, locals>>

IsEmptyReturn(p) ==
  /\ pc[p] \in {"saysEmpty", "saysFilled"}
  /\ Return(p)
  /\ UNCHANGED <<memory, unpushed, popped>>

-----------------------------------------------------------------------------
(* The links from the head on, and the payloads behind the stub.            *)
Chain == LinksFrom([l \in Indices |-> doubleNext[l].ptr], head.ptr)

Contents == [k \in 1 .. Len(Chain) - 1 |-> payload[Chain[k + 1]]]

LoopHeads == {"pushTail", "popHead"}

(* What a thread inside an operation could have seen of the queue, and      *)
(* whether it gets on by itself.                                            *)
Observe(p) ==
  /\ seen' = [q \in Threads |->
                IF pc'[q] = "idle" THEN {}
                ELSE seen[q] \cup {(doubleNext[head.ptr].ptr = NoLink)'}]
  /\ retries' = [q \in Threads |->
                   IF q # p \/ pc'[p] = "idle" THEN 0
                   ELSE IF pc[p] # "idle" /\ pc'[p] \in LoopHeads
                   THEN retries[p] + 1 ELSE retries[p]]

Begin(p) ==
  \/ \E x \in Items : BeginPush(p, x)
  \/ BeginPop(p) \/ BeginIsEmpty(p)

Step(p) ==
  \/ PushReadTail(p) \/ PushReadNext(p) \/ PushTestTail(p) \/ PushHelp(p)
  \/ PushLink(p) \/ PushSwing(p)
  \/ PopReadHead(p) \/ PopReadTail(p) \/ PopReadNext(p) \/ PopTestHead(p)
  \/ PopReturnNull(p) \/ PopHelp(p) \/ PopReadPayload(p) \/ PopSwing(p)
  \/ PopFree(p)
  \/ IsEmptyReadHead(p) \/ IsEmptyReadNext(p) \/ IsEmptyReturn(p)

Next == \E p \in Threads : (Begin(p) \/ Step(p)) /\ Observe(p)

Spec == Init /\ [][Next]_vars

-----------------------------------------------------------------------------
(* Properties                                                               *)

InUse == {Chain[k] : k \in DOMAIN Chain}

(* Links the threads own: allocated and not linked yet, or unlinked and not *)
(* freed yet.                                                               *)
Owned(p) ==
  IF pc[p] \in {"pushTail", "pushNext", "pushTest", "pushHelp", "pushLink"}
  THEN {item[p]}
  ELSE IF pc[p] = "popFree" THEN {localHead[p].ptr} ELSE {}

(* The indices a thread is about to follow; index 0 is no link.             *)
Dereferenced(p) ==
  CASE pc[p] \in {"pushNext", "pushLink"} -> {localTail[p].ptr}
    [] pc[p] \in {"popNext", "emptyNext", "popFree"} -> {localHead[p].ptr}
    [] pc[p] = "popPayload" -> {localNext[p].ptr}
    [] OTHER -> {}

(* No link is lost or has two owners: each is in the allocator, in the      *)
(* queue, or held by exactly one thread; the tail is a link of the queue;   *)
(* and no thread follows index 0 (LockFreeList.h:532-635).                  *)
EveryLinkHasOneOwner ==
  /\ free \cap InUse = {}
  /\ Links = free \cup InUse \cup UNION {Owned(p) : p \in Threads}
  /\ \A p \in Threads :
       /\ Owned(p) \cap (free \cup InUse) = {}
       /\ \A q \in Threads \ {p} : Owned(p) \cap Owned(q) = {}
  /\ tail.ptr \in InUse
  /\ \A p \in Threads : Dereferenced(p) \subseteq Links

(* A Pop that found nothing was right to say so at some instant of the call *)
(* (FStallingTaskQueue::Pop goes on to record the worker as stalled).       *)
NullMeansEmpty == \A p \in Threads : pc[p] = "popNull" => TRUE \in seen[p]

(* Nobody waits for a stopped thread (LockFreeList.h:532-626): a thread on  *)
(* its own goes back to the head of its loop twice at most, once because    *)
(* what it had read is out of date and once because it has helped Tail on.  *)
AloneItGetsThrough == \A p \in Threads : retries[p] <= 2

(* Linearizability: what the links hold is a queue that changes by one Push *)
(* or Pop at a time, and what is popped is what was at its front.           *)
Queue == INSTANCE AtomicQueue WITH items <- Contents
ImplementsAtomicQueue == Queue!Spec
=============================================================================
