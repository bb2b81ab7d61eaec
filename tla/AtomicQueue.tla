---------------------------- MODULE AtomicQueue ----------------------------
(***************************************************************************)
(* What FLockFreePointerFIFOBase promises its callers: each Push and each  *)
(* Pop that returns a payload takes effect at one instant, first in first  *)
(* out, and every payload is pushed once.                                  *)
(***************************************************************************)
EXTENDS SequencesExt

CONSTANT Items

VARIABLES items, popped   (* the queue, and what was popped, in order *)

Init == items = <<>> /\ popped = <<>>

Push(x) ==
  /\ x \notin ToSet(items) \cup ToSet(popped)
  /\ items' = Append(items, x)
  /\ UNCHANGED popped

Pop ==
  /\ items # <<>>
  /\ popped' = Append(popped, Head(items))
  /\ items' = Tail(items)

Next == Pop \/ \E x \in Items : Push(x)

Spec == Init /\ [][Next]_<<items, popped>>
=============================================================================
