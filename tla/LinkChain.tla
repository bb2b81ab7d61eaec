------------------------------ MODULE LinkChain ------------------------------
(***************************************************************************)
(* The links that a list strings together, as LockFreeLIFO and             *)
(* LockFreeFIFO see them: from a link on, one after the other, up to the   *)
(* index 0.                                                                *)
(***************************************************************************)
EXTENDS Integers, Sequences, FiniteSets, Functions

CONSTANTS
  Links,       (* the FIndexedLockFreeLinks                                *)
  NoLink       (* index 0                                                  *)

ASSUME LinksAssumption == IsFiniteSet(Links) /\ NoLink \notin Links

Indices == Links \cup {NoLink}

(* The links from index l on, if each is followed by next.                  *)
LinksFrom(next, l) ==
  LET walk[n \in 0 .. Cardinality(Links)] ==
        [k \in Indices |-> IF n = 0 \/ k = NoLink THEN <<>>
                                                 ELSE <<k>> \o walk[n - 1][next[k]]]
  IN walk[Cardinality(Links)][l]

(* A path leads from index l along next to index 0.                         *)
Path(s, next, l) ==
  /\ s \in Seq(Links)
  /\ \A j, k \in 1 .. Len(s) : s[j] = s[k] => j = k
  /\ l = IF s = <<>> THEN NoLink ELSE s[1]
  /\ \A k \in 1 .. Len(s) : next[s[k]] = IF k = Len(s) THEN NoLink ELSE s[k + 1]

(* The walks of at most n steps along next.                                 *)
Walks(n, next) ==
  {w \in [0 .. n -> [Indices -> Seq(Links)]] :
     \A m \in 0 .. n, k \in Indices :
       w[m][k] = IF m = 0 \/ k = NoLink THEN <<>> ELSE <<k>> \o w[m - 1][next[k]]}
=============================================================================
