---------------------------- MODULE LockFreeLIFO ----------------------------
(***************************************************************************)
(* FLockFreePointerListLIFOBase over FLockFreePointerListLIFORoot: the     *)
(* stack behind the link and block allocators (Push, Pop, PopAll) and,     *)
(* with one state bit in the head's counter, the closable list of the      *)
(* subsequents of a graph event (PushIf, PopAllAndChangeState).            *)
(*                                                                         *)
(* As in LockFreeFIFO, one list allocates and frees the links, the caches  *)
(* of free links are one set, and the counters do not wrap.                *)
(***************************************************************************)
EXTENDS LinkChain

CONSTANTS
  Threads,
  Items,       (* payloads; each is pushed once, which bounds the runs     *)
  NoItem       (* the payload of a link that is not in use                 *)

ASSUME LIFOAssumption == NoItem \notin Items

VARIABLES
  closable,    (* which of the two uses this list is for: TABAInc is 2 or 1 *)
  head,        (* Head: index, state bit and counter                       *)
  singleNext, payload,   (* of each link                                   *)
  free,        (* links in the allocator                                   *)
  unpushed,    (* payloads nobody has started to push                      *)
  refused,     (* payloads PushIf returned false for                       *)
  delivered,   (* payloads the removing operations have handed out         *)
  closing,     (* some thread has called PopAllAndClose                    *)
  pc, job,     (* where each thread is, and the payload it pushes          *)
  item,        (* Item of each thread; Links while it walks a taken list   *)
  localHead, next   (* LocalHead, and the index NewHead is to get          *)

memory  == <<head, singleNext, payload, free>>
history == <<unpushed, refused, delivered, closing>>
locals  == <<job, item, localHead, next>>
vars    == <<closable, memory, history, pc, locals>>

Null    == [ptr |-> NoLink, closed |-> FALSE, counter |-> 0]

(* Wrong variant: a head without a counter (the ABA problem).               *)
AdvanceWithoutCounter(from, to) == [from EXCEPT !.ptr = to]

(* AdvanceCounterAndState keeps the state bits below the counter.           *)
Advance(from, to) == [from EXCEPT !.ptr = to, !.counter = @ + 1]

Goto(p, label) == pc' = [pc EXCEPT ![p] = label]

Init ==
  /\ closable \in BOOLEAN
  /\ head = Null
  /\ singleNext = [l \in Indices |-> NoLink]
  /\ payload = [l \in Indices |-> NoItem]
  /\ free = Links
  /\ unpushed = Items /\ refused = {} /\ delivered = <<>> /\ closing = FALSE
  /\ pc = [p \in Threads |-> "idle"]
  /\ job = [p \in Threads |-> NoItem]
  /\ item = [p \in Threads |-> NoLink]
  /\ localHead = [p \in Threads |-> Null]
  /\ next = [p \in Threads |-> NoLink]

(* The operation returns and its locals go out of scope.                    *)
Return(p) ==
  /\ Goto(p, "idle")
  /\ job' = [job EXCEPT ![p] = NoItem]
  /\ item' = [item EXCEPT ![p] = NoLink]
  /\ localHead' = [localHead EXCEPT ![p] = Null]
  /\ next' = [next EXCEPT ![p] = NoLink]

(* A link goes back to the allocator, which clears it.                      *)
Free(l) ==
  /\ free' = free \cup {l}
  /\ payload' = [payload EXCEPT ![l] = NoItem]
  /\ singleNext' = [singleNext EXCEPT ![l] = NoLink]

ReadHead(p, from, to) ==
  /\ pc[p] = from
  /\ localHead' = [localHead EXCEPT ![p] = head]
  /\ Goto(p, to)
  /\ UNCHANGED <<memory, history, job, item, next>>

Exchanged(p) == head = localHead[p]

RetryUnlessExchanged(p, from, to) ==
  /\ pc[p] = from /\ ~Exchanged(p)
  /\ Goto(p, to)
  /\ UNCHANGED <<memory, history, locals>>

-----------------------------------------------------------------------------
(* Push and PushIf                                                          *)

BeginPush(p, x) ==
  /\ pc[p] = "idle" /\ x \in unpushed
  /\ unpushed' = unpushed \ {x}
  /\ job' = [job EXCEPT ![p] = x]
  /\ Goto(p, "pushHead")
  /\ UNCHANGED <<memory, refused, delivered, closing, item, localHead, next>>

PushReadHead(p) ==
  /\ closable \/ item[p] # NoLink
  /\ ReadHead(p, "pushHead", "pushLink")

(* Wrong variant: the state is not tested again on a retry.                 *)
RefusesFirstTime(p) == localHead[p].closed /\ item[p] = NoLink

(* OkToPush, asked again in every round.                                    *)
Refuses(p) == localHead[p].closed

(* Push allocates its link before it looks at the list; PushIf the first    *)
(* time round, and only if the list is open.  Later rounds keep it.         *)
PushAllocate(p) ==
  /\ item[p] = NoLink
  /\ \/ ~closable /\ pc[p] = "pushHead"
     \/ closable /\ pc[p] = "pushLink" /\ ~Refuses(p)
  /\ \E l \in free :
       /\ free' = free \ {l}
       /\ item' = [item EXCEPT ![p] = l]
       /\ payload' = [payload EXCEPT ![l] = job[p]]
  /\ UNCHANGED <<head, singleNext, history, pc, job, localHead, next>>

PushSetNext(p) ==
  /\ pc[p] = "pushLink" /\ ~Refuses(p)
  /\ item[p] # NoLink
  /\ singleNext' = [singleNext EXCEPT ![item[p]] = localHead[p].ptr]
  /\ Goto(p, "pushSwing")
  /\ UNCHANGED <<head, payload, free, history, locals>>

(* "We allocated the link, but it turned out that the list was closed."     *)
PushRefused(p) ==
  /\ pc[p] = "pushLink" /\ Refuses(p)
  /\ refused' = refused \cup {job[p]}
  /\ IF item[p] = NoLink THEN UNCHANGED <<free, payload, singleNext>>
                         ELSE Free(item[p])
  /\ Return(p)
  /\ UNCHANGED <<head, unpushed, delivered, closing>>

PushSwing(p) ==
  /\ pc[p] = "pushSwing" /\ Exchanged(p)
  /\ head' = Advance(localHead[p], item[p])
  /\ Return(p)
  /\ UNCHANGED <<singleNext, payload, free, history>>

PushRetry(p) == RetryUnlessExchanged(p, "pushSwing", "pushHead")

-----------------------------------------------------------------------------
(* Pop                                                                      *)

BeginPop(p) ==
  /\ pc[p] = "idle"
  /\ Goto(p, "popHead")
  /\ UNCHANGED <<memory, history, locals>>

PopReadHead(p) == ReadHead(p, "popHead", "popNext")

PopReturnNull(p) ==
  /\ pc[p] = "popNext" /\ localHead[p].ptr = NoLink
  /\ Return(p)
  /\ UNCHANGED <<memory, history>>

(* SingleNext of a link that another thread may have recycled by now.       *)
PopReadNext(p) ==
  /\ pc[p] = "popNext" /\ localHead[p].ptr # NoLink
  /\ next' = [next EXCEPT ![p] = singleNext[localHead[p].ptr]]
  /\ Goto(p, "popSwing")
  /\ UNCHANGED <<memory, history, job, item, localHead>>

PopSwing(p) ==
  /\ pc[p] = "popSwing" /\ Exchanged(p)
  /\ head' = Advance(localHead[p], next[p])
  /\ item' = [item EXCEPT ![p] = localHead[p].ptr]
  /\ Goto(p, "popFree")
  /\ UNCHANGED <<singleNext, payload, free, history, job, localHead, next>>

PopRetry(p) == RetryUnlessExchanged(p, "popSwing", "popHead")

(* The link is this thread's own by now: Pop's SingleNext = 0, the read of  *)
(* the payload and the allocator's reset of the link are one step.          *)
PopFree(p) ==
  /\ pc[p] = "popFree"
  /\ delivered' = Append(delivered, payload[item[p]])
  /\ Free(item[p])
  /\ Return(p)
  /\ UNCHANGED <<head, unpushed, refused, closing>>

-----------------------------------------------------------------------------
(* PopAll and PopAllAndChangeState                                          *)

BeginPopAll(p) ==
  /\ pc[p] = "idle"
  /\ Goto(p, "allHead")
  /\ UNCHANGED <<memory, history, locals>>

(* The list has a single consumer, which closes it once.                    *)
BeginClose(p) ==
  /\ pc[p] = "idle" /\ ~closing
  /\ closing' = TRUE
  /\ Goto(p, "closeHead")
  /\ UNCHANGED <<memory, unpushed, refused, delivered, locals>>

AllReadHead(p) == ReadHead(p, "allHead", "allSwing")
CloseReadHead(p) == ReadHead(p, "closeHead", "closeSwing")

AllReturnNone(p) ==
  /\ pc[p] = "allSwing" /\ localHead[p].ptr = NoLink
  /\ Return(p)
  /\ UNCHANGED <<memory, history>>

AllSwing(p) ==
  /\ pc[p] = "allSwing" /\ localHead[p].ptr # NoLink
  /\ Exchanged(p)
  /\ head' = Advance(localHead[p], NoLink)
  /\ item' = [item EXCEPT ![p] = localHead[p].ptr]
  /\ Goto(p, "walk")
  /\ UNCHANGED <<singleNext, payload, free, history, job, localHead, next>>

AllRetry(p) ==
  /\ localHead[p].ptr # NoLink
  /\ RetryUnlessExchanged(p, "allSwing", "allHead")

CloseSwing(p) ==
  /\ pc[p] = "closeSwing" /\ Exchanged(p)
  /\ head' = [Advance(localHead[p], NoLink) EXCEPT !.closed = TRUE]
  /\ item' = [item EXCEPT ![p] = localHead[p].ptr]
  /\ Goto(p, "walk")
  /\ UNCHANGED <<singleNext, payload, free, history, job, localHead, next>>

CloseRetry(p) == RetryUnlessExchanged(p, "closeSwing", "closeHead")

(* Wrong variant: the link is freed before its successor is read.           *)
NextAfterFree(p) == NoLink

(* The next link is read before the link is freed.                          *)
NextInWalk(p) == singleNext[item[p]]

(* One turn of the loop that hands out the taken links and frees them.      *)
Walk(p) ==
  /\ pc[p] = "walk" /\ item[p] # NoLink
  /\ delivered' = Append(delivered, payload[item[p]])
  /\ item' = [item EXCEPT ![p] = NextInWalk(p)]
  /\ Free(item[p])
  /\ UNCHANGED <<head, unpushed, refused, closing, pc, job, localHead, next>>

WalkEnds(p) ==
  /\ pc[p] = "walk" /\ item[p] = NoLink
  /\ Return(p)
  /\ UNCHANGED <<memory, history>>

-----------------------------------------------------------------------------
Begin(p) ==
  \/ \E x \in Items : BeginPush(p, x)
  \/ ~closable /\ (BeginPop(p) \/ BeginPopAll(p))
  \/ closable /\ BeginClose(p)

Step(p) ==
  \/ PushReadHead(p) \/ PushAllocate(p) \/ PushSetNext(p) \/ PushRefused(p)
  \/ PushSwing(p) \/ PushRetry(p)
  \/ PopReadHead(p) \/ PopReturnNull(p) \/ PopReadNext(p) \/ PopSwing(p)
  \/ PopRetry(p) \/ PopFree(p)
  \/ AllReadHead(p) \/ AllReturnNone(p) \/ AllSwing(p) \/ AllRetry(p)
  \/ CloseReadHead(p) \/ CloseSwing(p) \/ CloseRetry(p)
  \/ Walk(p) \/ WalkEnds(p)

(* A closed list with nothing left to push: the event is done with.         *)
Finished ==
  /\ closable /\ closing /\ unpushed = {}
  /\ \A p \in Threads : pc[p] = "idle"
  /\ UNCHANGED vars

Next ==
  \/ (\E p \in Threads : Begin(p) \/ Step(p)) /\ UNCHANGED closable
  \/ Finished

Spec == Init /\ [][Next]_vars

-----------------------------------------------------------------------------
(* Properties                                                               *)

(* The links from index l on.                                               *)
ChainFrom(l) == LinksFrom(singleNext, l)

InList == Range(ChainFrom(head.ptr))

(* Links a thread owns: its item before the exchange that links it and      *)
(* after the one that unlinks it, with all that follows it in a taken list. *)
Owned(p) ==
  IF pc[p] = "walk" THEN Range(ChainFrom(item[p])) ELSE {item[p]} \ {NoLink}

(* No link is lost and none has two owners: each is in the allocator, in    *)
(* the list, or held by exactly one thread, when a push is refused too.     *)
EveryLinkHasOneOwner ==
  /\ free \cap InList = {}
  /\ Links = free \cup InList \cup UNION {Owned(p) : p \in Threads}
  /\ \A p \in Threads :
       /\ Owned(p) \cap (free \cup InList) = {}
       /\ \A q \in Threads \ {p} : Owned(p) \cap Owned(q) = {}

InHand == {x \in Items : \E p \in Threads :
             pc[p] \in {"walk", "popFree"} /\ \E l \in Owned(p) : payload[l] = x}
Listed == {payload[l] : l \in InList}
BeingPushed == {job[p] : p \in Threads} \ {NoItem}

(* Every payload is in exactly one place: not pushed yet, being pushed, in  *)
(* the list, taken and about to be delivered, delivered once, or refused by *)
(* a closed list.  A subsequent is told of the completion or told that it   *)
(* came too late, never both and never neither.                             *)
NoneLostNoneTwice ==
  LET places == <<unpushed, BeingPushed, Listed, InHand, Range(delivered), refused>>
  IN /\ \A x \in Items : \E k \in DOMAIN places :
          x \in places[k] /\ \A j \in DOMAIN places \ {k} : x \notin places[j]
     /\ \A j, k \in DOMAIN delivered : delivered[j] = delivered[k] => j = k

List == INSTANCE ClosableList WITH
  list <- [k \in DOMAIN ChainFrom(head.ptr) |-> payload[ChainFrom(head.ptr)[k]]],
  closed <- head.closed,
  taken <- InHand \cup Range(delivered)

(* Linearizability: the links from the head on are a stack that changes by  *)
(* one operation at a time, and is emptied and closed at once; only a list  *)
(* that is closed refuses a push (LockFreeList.h:420-493, 904-922).         *)
ImplementsClosableList == List!Spec
=============================================================================
