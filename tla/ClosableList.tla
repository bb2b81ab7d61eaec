---------------------------- MODULE ClosableList ----------------------------
(***************************************************************************)
(* What the lock-free LIFO promises: a Push, a Pop and a PopAll take       *)
(* effect at one instant; a PopAllAndClose empties the list and closes it  *)
(* at one instant, after which nothing can be pushed.                      *)
(***************************************************************************)
EXTENDS Sequences

CONSTANT Items

VARIABLES list, closed,
          taken, refused   (* payloads somebody has removed, or not pushed *)

vars == <<list, closed, taken, refused>>

Init == list = <<>> /\ closed = FALSE /\ taken = {} /\ refused = {}

Push(x) ==
  /\ ~closed
  /\ \A k \in DOMAIN list : list[k] # x
  /\ x \notin taken
  /\ list' = <<x>> \o list
  /\ UNCHANGED <<closed, taken, refused>>

Refuse(x) ==
  /\ closed
  /\ refused' = refused \cup {x}
  /\ UNCHANGED <<list, closed, taken>>

Pop ==
  /\ list # <<>>
  /\ taken' = taken \cup {Head(list)}
  /\ list' = Tail(list)
  /\ UNCHANGED <<closed, refused>>

TakeAll ==
  /\ taken' = taken \cup {list[k] : k \in DOMAIN list}
  /\ list' = <<>>
  /\ closed' \in {closed, TRUE}
  /\ UNCHANGED refused

Next == Pop \/ TakeAll \/ \E x \in Items : Push(x) \/ Refuse(x)

Spec == Init /\ [][Next]_vars
=============================================================================
