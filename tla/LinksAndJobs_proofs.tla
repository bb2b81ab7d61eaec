------------------------- MODULE LinksAndJobs_proofs -------------------------
(***************************************************************************)
(* Machine-checked safety of two small components, each for any values of  *)
(* its constants.  The link allocator: every bundle that is passed on is   *)
(* full, every link that was ever allocated has exactly one home.  The     *)
(* task graph under Test: none of its threads sleeps over a job, and it    *)
(* implements the safety of TaskDag: a job runs once and after all its     *)
(* prerequisites, its handle completes once and after all it waits for.    *)
(***************************************************************************)
EXTENDS MCLinksAndJobs, Sequences, TLAPS, FiniteSetTheorems, SequenceTheorems

-----------------------------------------------------------------------------
(* The inductive invariant                                                  *)

Shapes ==
  /\ partial \in [Threads -> SUBSET Nat] /\ full \in [Threads -> SUBSET Nat]
  /\ numPartial \in [Threads -> Int]
  /\ bundles \subseteq SUBSET Nat
  /\ nextIndex \in Nat \ {0}
  /\ first \in [Threads -> Nat] /\ cursor \in [Threads -> Nat]
  /\ pc \in [Threads -> {"idle", "alloc", "construct", "install"}]

Finite ==
  /\ \A t \in Threads : IsFiniteSet(partial[t]) /\ IsFiniteSet(full[t])
  /\ \A B \in bundles : IsFiniteSet(B)

(* A thread is inside Alloc only with both its bundles empty, and what it   *)
(* makes there is its own range of indices.                                 *)
InsideAlloc ==
  \A t \in Threads :
    /\ pc[t] # "idle" => partial[t] = {} /\ full[t] = {}
    /\ pc[t] \in {"construct", "install"} =>
         /\ 1 <= first[t] /\ first[t] + PerBundle <= nextIndex
         /\ first[t] <= cursor[t] /\ cursor[t] <= first[t] + PerBundle

(* OneHome, link by link.                                                   *)
Cached(t) == partial[t] \cup full[t] \cup Making(t)

OwnPlaces(t) ==
  /\ \A l \in partial[t] : l \notin full[t] /\ l \notin Making(t)
  /\ \A l \in full[t] : l \notin Making(t)

Apart ==
  /\ \A t \in Threads : \A l \in Cached(t) :
       /\ l \notin used
       /\ \A B \in bundles : l \notin B
       /\ \A u \in Threads \ {t} : l \notin Cached(u)
  /\ \A B \in bundles : \A l \in B : l \notin used /\ \A C \in bundles : l \in C => B = C

Everything ==
  \A l : l \in 1 .. nextIndex - 1 <=>
    \/ l \in used
    \/ \E B \in bundles : l \in B
    \/ \E t \in Threads : l \in Cached(t)

Homes == (\A t \in Threads : OwnPlaces(t)) /\ Apart /\ Everything

AllocatorInv == Shapes /\ Finite /\ InsideAlloc /\ BundlesAreFull /\ Homes

LEMMA HomesAreOne == Homes => OneHome
<1> SUFFICES ASSUME Homes PROVE OneHome
  OBVIOUS
<1>1. ASSUME NEW t \in Threads
      PROVE  /\ partial[t] \cap full[t] = {}
             /\ (partial[t] \cup full[t] \cup Making(t)) \cap used = {}
             /\ (partial[t] \cup full[t]) \cap Making(t) = {}
  BY DEF Homes, OwnPlaces, Apart, Cached
<1>2. ASSUME NEW t \in Threads, NEW B \in bundles
      PROVE  B \cap (partial[t] \cup full[t] \cup Making(t)) = {}
  BY DEF Homes, Apart, Cached
<1>3. ASSUME NEW t \in Threads, NEW u \in Threads \ {t}
      PROVE  (partial[t] \cup full[t] \cup Making(t))
               \cap (partial[u] \cup full[u] \cup Making(u)) = {}
  BY DEF Homes, Apart, Cached
<1>4. /\ \A B, C \in bundles : B # C => B \cap C = {}
      /\ (UNION bundles) \cap used = {}
  BY DEF Homes, Apart
<1>5. 1 .. nextIndex - 1 =
        used \cup (UNION bundles)
          \cup (UNION {partial[t] \cup full[t] \cup Making(t) : t \in Threads})
  BY DEF Homes, Everything, Cached
<1>6. QED
  BY <1>1, <1>2, <1>3, <1>4, <1>5 DEF OneHome

-----------------------------------------------------------------------------
(* Initially                                                                *)

LEMMA InitAllocator == Init => AllocatorInv
<1> SUFFICES ASSUME Init PROVE AllocatorInv
  OBVIOUS
<1>1. Shapes /\ InsideAlloc
  BY DEF Init, Shapes, InsideAlloc
<1>2. Finite /\ BundlesAreFull
  BY FS_EmptySet, LinkAssumption DEF Init, Finite, BundlesAreFull
<1>3. Homes
  BY DEF Init, Homes, OwnPlaces, Apart, Everything, Cached, Making
<1>4. QED
  BY <1>1, <1>2, <1>3 DEF AllocatorInv

-----------------------------------------------------------------------------
(* Steps of Pop                                                             *)

(* What Hand does to the counts: the link comes out of a finite bundle.     *)
HandEffect(t, P) ==
  /\ partial' \in [Threads -> SUBSET Nat]
  /\ numPartial' \in [Threads -> Int]
  /\ IsFiniteSet(partial'[t])
  /\ numPartial'[t] = Cardinality(partial'[t])
  /\ numPartial'[t] = Cardinality(P) - 1
  /\ \A u \in Threads \ {t} :
       partial'[u] = partial[u] /\ numPartial'[u] = numPartial[u]

LEMMA HandCounts ==
  ASSUME NEW t \in Threads, NEW P \in SUBSET Nat, IsFiniteSet(P),
         Shapes, Finite, Hand(t, P, Cardinality(P))
  PROVE  HandEffect(t, P)
<1>1. PICK l \in P :
        /\ partial' = [partial EXCEPT ![t] = P \ {l}]
        /\ numPartial' = [numPartial EXCEPT ![t] = Cardinality(P) - 1]
  BY DEF Hand
<1>2. Cardinality(P) \in Nat
  BY FS_CardinalityType
<1>3. IsFiniteSet(P \ {l}) /\ Cardinality(P \ {l}) = Cardinality(P) - 1
  BY FS_RemoveElement
<1>4. QED
  BY <1>1, <1>2, <1>3 DEF Shapes, HandEffect

(* The bundle P had at most PerBundle links, and so has what is left of it. *)
LEMMA HandFull ==
  ASSUME NEW t \in Threads, NEW P, Cardinality(P) \in Nat,
         Cardinality(P) <= PerBundle, BundlesAreFull, HandEffect(t, P)
  PROVE  \A u \in Threads :
           numPartial'[u] = Cardinality(partial'[u]) /\ numPartial'[u] <= PerBundle
<1>1. numPartial'[t] = Cardinality(partial'[t]) /\ numPartial'[t] <= PerBundle
  BY LinkAssumption DEF HandEffect
<1>2. ASSUME NEW u \in Threads, u # t
      PROVE  numPartial'[u] = Cardinality(partial'[u]) /\ numPartial'[u] <= PerBundle
  <2>1. partial'[u] = partial[u] /\ numPartial'[u] = numPartial[u]
    BY <1>2 DEF HandEffect
  <2>2. numPartial[u] = Cardinality(partial[u]) /\ numPartial[u] <= PerBundle
    BY DEF BundlesAreFull
  <2>3. QED
    BY <2>1, <2>2
<1>3. QED
  BY <1>1, <1>2

(* What it does to the homes: before the step the links of P are in the     *)
(* bundles of t, in its new links, or in a global bundle, and only there.   *)
LEMMA HandHomes ==
  ASSUME Shapes, Homes, NEW t \in Threads, NEW P, NEW n, Hand(t, P, n),
         nextIndex' = nextIndex,
         \A u \in Threads \ {t} : full'[u] = full[u] /\ Making(u)' = Making(u),
         full'[t] \subseteq full[t], Making(t)' \subseteq Making(t),
         bundles' \subseteq bundles,
         P \cap (full'[t] \cup Making(t)') = {},
         P \cap used = {},
         \A B \in bundles' : P \cap B = {},
         \A u \in Threads \ {t} : P \cap Cached(u) = {},
         Cached(t) \cup (UNION bundles) = P \cup full'[t] \cup Making(t)' \cup (UNION bundles')
  PROVE  Homes'
<1>1. PICK l \in P :
        /\ partial' = [partial EXCEPT ![t] = P \ {l}]
        /\ used' = used \cup {l}
  BY DEF Hand
<1>2. partial'[t] = P \ {l} /\ \A u \in Threads \ {t} : partial'[u] = partial[u]
  BY <1>1 DEF Shapes
<1>3. \A u \in Threads \ {t} : Cached(u)' = Cached(u)
  BY <1>2 DEF Cached
<1>4. Cached(t)' = (P \ {l}) \cup full'[t] \cup Making(t)'
  BY <1>2 DEF Cached
<1>5. \A u \in Threads : OwnPlaces(u)'
  BY <1>2 DEF OwnPlaces, Homes
<1>6. Apart'
  <2>1. \A k \in full'[t] \cup Making(t)' :
          /\ k \notin used /\ \A B \in bundles' : k \notin B
          /\ \A u \in Threads \ {t} : k \notin Cached(u)
    BY DEF Homes, Apart, Cached
  <2>2. \A k \in Cached(t)' :
          /\ k \notin used' /\ \A B \in bundles' : k \notin B
          /\ \A u \in Threads \ {t} : k \notin Cached(u)'
    BY <1>1, <1>3, <1>4, <2>1
  <2>3. \A u \in Threads \ {t} : \A k \in Cached(u)' :
          /\ k \notin used' /\ \A B \in bundles' : k \notin B
          /\ k \notin Cached(t)'
          /\ \A v \in Threads \ {u, t} : k \notin Cached(v)'
    BY <1>1, <1>3, <2>2 DEF Homes, Apart
  <2>4. \A B \in bundles' : \A k \in B :
          k \notin used' /\ \A C \in bundles' : k \in C => B = C
    BY <1>1 DEF Homes, Apart
  <2>5. QED
    BY <2>2, <2>3, <2>4 DEF Apart
<1>7. Everything'
  <2>1. \A k : (k \in Cached(t) \/ \E B \in bundles : k \in B) <=>
               (k = l \/ k \in Cached(t)' \/ \E B \in bundles' : k \in B)
    BY <1>1, <1>4
  <2>2. QED
    BY <1>1, <1>3, <2>1 DEF Homes, Everything
<1>8. QED
  BY <1>5, <1>6, <1>7 DEF Homes

LEMMA PopPartialKeeps ==
  ASSUME AllocatorInv, NEW t \in Threads, PopPartial(t)
  PROVE  AllocatorInv'
<1> USE DEF AllocatorInv
<1>1. /\ IsFiniteSet(partial[t]) /\ partial[t] \in SUBSET Nat
      /\ Cardinality(partial[t]) <= PerBundle /\ Cardinality(partial[t]) \in Nat
      /\ Hand(t, partial[t], Cardinality(partial[t]))
  BY FS_CardinalityType DEF Shapes, Finite, BundlesAreFull, PopPartial
<1>2. HandEffect(t, partial[t])
  BY <1>1, HandCounts
<1>3. UNCHANGED <<full, bundles, nextIndex, first, cursor, pc>> /\ pc[t] = "idle"
  BY DEF PopPartial, allocVars
<1>4. Shapes' /\ Finite' /\ InsideAlloc'
  BY <1>2, <1>3 DEF Shapes, Finite, InsideAlloc, HandEffect
<1>5. BundlesAreFull'
  BY <1>1, <1>2, <1>3, HandFull DEF BundlesAreFull
<1>6. Homes'
  <2>1. \A u \in Threads : Making(u)' = Making(u)
    BY <1>3 DEF Making
  <2>2. /\ partial[t] \cap (full[t] \cup Making(t)) = {} /\ partial[t] \cap used = {}
        /\ \A B \in bundles : partial[t] \cap B = {}
        /\ \A u \in Threads \ {t} : partial[t] \cap Cached(u) = {}
    BY DEF Homes, OwnPlaces, Apart, Cached
  <2>3. QED
    BY <1>1, <1>3, <2>1, <2>2, HandHomes DEF Cached
<1>7. QED
  BY <1>4, <1>5, <1>6

LEMMA PopFullKeeps ==
  ASSUME AllocatorInv, NEW t \in Threads, PopFull(t)
  PROVE  AllocatorInv'
<1> USE DEF AllocatorInv
<1>1. /\ IsFiniteSet(full[t]) /\ full[t] \in SUBSET Nat
      /\ Cardinality(full[t]) = PerBundle
      /\ Hand(t, full[t], Cardinality(full[t]))
  BY DEF Shapes, Finite, BundlesAreFull, PopFull
<1>2. HandEffect(t, full[t])
  BY <1>1, HandCounts
<1>3. /\ UNCHANGED <<bundles, nextIndex, first, cursor, pc>> /\ pc[t] = "idle"
      /\ full' = [full EXCEPT ![t] = {}] /\ partial[t] = {}
  BY DEF PopFull, allocVars
<1>4. Shapes' /\ Finite' /\ InsideAlloc'
  BY <1>2, <1>3, FS_EmptySet DEF Shapes, Finite, InsideAlloc, HandEffect
<1>5. BundlesAreFull'
  <2>1. full'[t] = {} /\ \A u \in Threads \ {t} : full'[u] = full[u]
    BY <1>3 DEF Shapes
  <2>2. QED
    BY <1>1, <1>2, <1>3, <2>1, HandFull, LinkAssumption DEF BundlesAreFull
<1>6. Homes'
  <2>1. \A u \in Threads : Making(u)' = Making(u)
    BY <1>3 DEF Making
  <2>2. /\ full[t] \cap Making(t) = {} /\ full[t] \cap used = {}
        /\ \A B \in bundles : full[t] \cap B = {}
        /\ \A u \in Threads \ {t} : full[t] \cap Cached(u) = {}
    BY DEF Homes, OwnPlaces, Apart, Cached
  <2>3. full'[t] = {} /\ \A u \in Threads \ {t} : full'[u] = full[u]
    BY <1>3 DEF Shapes
  <2>4. QED
    BY <1>1, <1>3, <2>1, <2>2, <2>3, HandHomes DEF Cached
<1>7. QED
  BY <1>4, <1>5, <1>6

LEMMA PopBundleKeeps ==
  ASSUME AllocatorInv, NEW t \in Threads, PopBundle(t)
  PROVE  AllocatorInv'
<1> USE DEF AllocatorInv
<1>1. PICK B \in bundles : bundles' = bundles \ {B} /\ Hand(t, B, PerBundle)
  BY DEF PopBundle
<1>2. IsFiniteSet(B) /\ B \in SUBSET Nat /\ Cardinality(B) = PerBundle
  BY DEF Shapes, Finite, BundlesAreFull
<1>3. HandEffect(t, B)
  BY <1>1, <1>2, HandCounts
<1>4. /\ UNCHANGED <<full, nextIndex, first, cursor, pc>> /\ pc[t] = "idle"
      /\ partial[t] = {} /\ full[t] = {}
  BY DEF PopBundle, allocVars
<1>5. Shapes' /\ Finite' /\ InsideAlloc'
  BY <1>1, <1>3, <1>4 DEF Shapes, Finite, InsideAlloc, HandEffect
<1>6. BundlesAreFull'
  BY <1>1, <1>2, <1>3, <1>4, HandFull, LinkAssumption DEF BundlesAreFull
<1>7. Homes'
  <2>1. \A u \in Threads : Making(u)' = Making(u)
    BY <1>4 DEF Making
  <2>2. /\ B \cap Making(t) = {} /\ B \cap used = {}
        /\ \A C \in bundles' : B \cap C = {}
        /\ \A u \in Threads \ {t} : B \cap Cached(u) = {}
    BY <1>1 DEF Homes, Apart, Cached
  <2>3. UNION bundles = B \cup (UNION bundles')
    BY <1>1
  <2>4. Cached(t) \cup (UNION bundles) =
          B \cup full'[t] \cup Making(t)' \cup (UNION bundles')
    BY <1>4, <2>1, <2>3 DEF Cached
  <2>5. QED
    BY <1>1, <1>4, <2>1, <2>2, <2>4, HandHomes
<1>8. QED
  BY <1>5, <1>6, <1>7

LEMMA PopFreshKeeps ==
  ASSUME AllocatorInv, NEW t \in Threads, PopFresh(t)
  PROVE  AllocatorInv'
<1> USE DEF AllocatorInv
<1> DEFINE P == first[t] .. cursor[t] - 1
<1>1. /\ first[t] \in Nat /\ cursor[t] = first[t] + PerBundle /\ pc[t] = "construct"
      /\ Hand(t, P, PerBundle) /\ pc' = [pc EXCEPT ![t] = "idle"]
      /\ UNCHANGED <<full, bundles, nextIndex, first, cursor>>
  BY DEF PopFresh, Shapes, Goto, allocVars
<1>2. IsFiniteSet(P) /\ P \in SUBSET Nat /\ Cardinality(P) = PerBundle
  <2>1. /\ first[t] \in Int /\ cursor[t] - 1 \in Int /\ P \in SUBSET Nat
        /\ ~(first[t] > cursor[t] - 1) /\ (cursor[t] - 1) - first[t] + 1 = PerBundle
    BY <1>1, LinkAssumption
  <2>2. QED
    BY <2>1, FS_Interval
<1>3. P = Making(t) /\ partial[t] = {} /\ full[t] = {}
  BY <1>1, LinkAssumption DEF Making, InsideAlloc
<1> HIDE DEF P
<1>4. HandEffect(t, P)
  BY <1>1, <1>2, HandCounts
<1>5. /\ pc'[t] = "idle" /\ \A u \in Threads \ {t} : pc'[u] = pc[u]
      /\ pc' \in [Threads -> {"idle", "alloc", "construct", "install"}]
  BY <1>1 DEF Shapes
<1>6. Shapes' /\ Finite' /\ InsideAlloc'
  BY <1>1, <1>4, <1>5 DEF Shapes, Finite, InsideAlloc, HandEffect
<1>7. BundlesAreFull'
  BY <1>1, <1>2, <1>4, HandFull, LinkAssumption DEF BundlesAreFull
<1>8. Homes'
  <2>1. Making(t)' = {} /\ \A u \in Threads \ {t} : Making(u)' = Making(u)
    BY <1>1, <1>5 DEF Making
  <2>2. /\ P \cap used = {} /\ \A B \in bundles : P \cap B = {}
        /\ \A u \in Threads \ {t} : P \cap Cached(u) = {}
    BY <1>3 DEF Homes, Apart, Cached
  <2>3. QED
    BY <1>1, <1>3, <2>1, <2>2, HandHomes DEF Cached
<1>9. QED
  BY <1>6, <1>7, <1>8

-----------------------------------------------------------------------------
(* Steps of Alloc                                                           *)

(* Steps that leave the bundles, the lists and the ranges alone.            *)
LEMMA PlacesStay ==
  ASSUME AllocatorInv, UNCHANGED <<cacheVars, bundles, used, nextIndex>>,
         \A u \in Threads : Making(u)' = Making(u)
  PROVE  Finite' /\ BundlesAreFull' /\ Homes'
<1>1. \A u \in Threads : Cached(u)' = Cached(u)
  BY DEF Cached, cacheVars
<1>2. QED
  BY <1>1 DEF AllocatorInv, Finite, BundlesAreFull, Homes, OwnPlaces, Apart,
              Everything, cacheVars

LEMMA AllocKeeps ==
  ASSUME AllocatorInv, NEW t \in Threads, Alloc(t)
  PROVE  AllocatorInv'
<1> USE DEF AllocatorInv
<1>1. /\ pc[t] = "alloc" /\ nextIndex \in Nat \ {0}
      /\ nextIndex' = nextIndex + PerBundle
      /\ first' = [first EXCEPT ![t] = nextIndex]
      /\ cursor' = [cursor EXCEPT ![t] = nextIndex]
      /\ pc' = [pc EXCEPT ![t] = "construct"]
      /\ UNCHANGED <<partial, full, numPartial, bundles, used>>
  BY DEF Alloc, Shapes, Goto, cacheVars
<1>2. Shapes' /\ Finite' /\ BundlesAreFull'
  BY <1>1, LinkAssumption DEF Shapes, Finite, BundlesAreFull
<1>3. /\ Making(t) = {} /\ Making(t)' = nextIndex .. nextIndex + PerBundle - 1
      /\ \A u \in Threads \ {t} : Making(u)' = Making(u)
  BY <1>1 DEF Making, Shapes
<1>4. InsideAlloc'
  BY <1>1, LinkAssumption DEF InsideAlloc, Shapes
<1>5. /\ \A u \in Threads \ {t} : Cached(u)' = Cached(u)
      /\ Cached(t)' = Cached(t) \cup Making(t)'
  BY <1>1, <1>3 DEF Cached
<1>6. \A l \in Making(t)' :
        /\ l \notin used /\ \A B \in bundles : l \notin B
        /\ \A u \in Threads : l \notin Cached(u)
  <2>1. \A l \in Making(t)' : l \notin 1 .. nextIndex - 1
    BY <1>1, <1>3
  <2>2. QED
    BY <2>1 DEF Homes, Everything
<1>7. Homes'
  <2>1. \A u \in Threads : OwnPlaces(u)'
    BY <1>1, <1>3, <1>6, ZenonT(40) DEF Homes, OwnPlaces, Cached
  <2>2. Apart'
    BY <1>1, <1>5, <1>6 DEF Homes, Apart
  <2>3. \A l : l \in 1 .. nextIndex' - 1 <=> l \in 1 .. nextIndex - 1 \/ l \in Making(t)'
    BY <1>1, <1>3, LinkAssumption
  <2>4. Everything'
    BY <1>1, <1>5, <2>3 DEF Homes, Everything
  <2>5. QED
    BY <2>1, <2>2, <2>4 DEF Homes
<1>8. QED
  BY <1>2, <1>4, <1>7

LEMMA ConstructKeeps ==
  ASSUME AllocatorInv, NEW t \in Threads,
         PopNothing(t) \/ MissPage(t) \/ InstallPage(t) \/ Construct(t)
  PROVE  AllocatorInv'
<1> USE DEF AllocatorInv
<1>1. UNCHANGED <<partial, full, numPartial, bundles, used, nextIndex, first>>
  BY DEF PopNothing, MissPage, InstallPage, Construct, cacheVars, allocVars
<1>2. \/ /\ pc' = [pc EXCEPT ![t] = "alloc"] /\ cursor' = cursor
         /\ pc[t] = "idle" /\ partial[t] = {} /\ full[t] = {}
      \/ /\ pc' \in {[pc EXCEPT ![t] = "install"], [pc EXCEPT ![t] = "construct"]}
         /\ pc[t] \in {"construct", "install"} /\ cursor' = cursor
      \/ /\ pc' = pc /\ cursor' = [cursor EXCEPT ![t] = @ + 1]
         /\ pc[t] = "construct" /\ cursor[t] < first[t] + PerBundle
  BY DEF PopNothing, MissPage, InstallPage, Construct, Goto, allocVars
<1>3. Shapes' /\ InsideAlloc'
  BY <1>1, <1>2, LinkAssumption DEF Shapes, InsideAlloc
<1>4. \A u \in Threads : Making(u)' = Making(u)
  BY <1>1, <1>2 DEF Making, Shapes
<1>5. Finite' /\ BundlesAreFull' /\ Homes'
  BY <1>1, <1>4, PlacesStay DEF cacheVars
<1>6. QED
  BY <1>3, <1>5

-----------------------------------------------------------------------------
(* Push                                                                     *)

(* Where a link that is given back goes: to the caller's partial bundle,    *)
(* whose links, when it is full, have become the full bundle, and those of  *)
(* the full bundle a global one.                                            *)
LEMMA PushHomes ==
  ASSUME AllocatorInv, NEW t \in Threads, NEW l \in Links, Push(t, l)
  PROVE  Homes'
<1> USE DEF AllocatorInv
<1>1. /\ UNCHANGED <<nextIndex, first, cursor, pc>>
      /\ l \in used /\ used' = used \ {l} /\ pc[t] = "idle"
  BY DEF Push, allocVars
<1>2. \A u \in Threads : Making(u)' = Making(u)
  BY <1>1 DEF Making
<1>3. l \notin Making(t) /\ \A u \in Threads : l \notin Cached(u)
  BY <1>1 DEF Homes, Apart, Cached
<1>4. \A B \in bundles : l \notin B
  BY <1>1 DEF Homes, Apart
<1>5. CASE BundleIsFull(t)
  <2>1. /\ bundles' = bundles \cup ({full[t]} \ {{}})
        /\ full' = [full EXCEPT ![t] = partial[t]]
        /\ partial' = [partial EXCEPT ![t] = {l}]
    BY <1>5 DEF Push
  <2>2. full'[t] = partial[t] /\ partial'[t] = {l}
        /\ \A u \in Threads \ {t} : full'[u] = full[u] /\ partial'[u] = partial[u]
    BY <2>1 DEF Shapes
  <2>3. \A u \in Threads \ {t} : Cached(u)' = Cached(u)
    BY <1>2, <2>2 DEF Cached
  <2>4. Cached(t)' = {l} \cup partial[t] \cup Making(t)
    BY <1>2, <2>2 DEF Cached
  <2>5. \A u \in Threads : OwnPlaces(u)'
    BY <1>2, <1>3, <2>2 DEF Homes, OwnPlaces, Cached
  <2>6. \A k \in full[t] : k \notin Cached(t)'
    BY <1>3, <2>4 DEF Homes, OwnPlaces, Cached
  <2>7. Apart'
    <3>1. \A k \in Cached(t)' :
            /\ k \notin used' /\ \A B \in bundles' : k \notin B
            /\ \A u \in Threads \ {t} : k \notin Cached(u)'
      BY <1>1, <1>3, <1>4, <2>1, <2>3, <2>4, <2>6 DEF Homes, Apart, Cached
    <3>2. ASSUME NEW u \in Threads \ {t}, NEW k \in Cached(u)'
          PROVE  /\ k \notin used' /\ \A B \in bundles' : k \notin B
                 /\ \A v \in Threads \ {u} : k \notin Cached(v)'
      <4>1. k \in Cached(u) /\ k \notin used /\ k \notin Cached(t)
            /\ \A v \in Threads \ {u} : k \notin Cached(v)
            /\ \A B \in bundles : k \notin B
        BY <2>3 DEF Homes, Apart
      <4>2. k \notin full[t] /\ k \notin Cached(t)'
        BY <3>1, <3>2, <4>1 DEF Cached
      <4>3. QED
        BY <1>1, <2>1, <2>3, <4>1, <4>2
    <3>3. \A k \in full[t] : k \notin used /\ \A B \in bundles : k \notin B
      BY DEF Homes, Apart, Cached
    <3>4. \A B \in bundles' : \A k \in B :
            k \notin used' /\ \A C \in bundles' : k \in C => B = C
      BY <1>1, <2>1, <3>3 DEF Homes, Apart
    <3>5. QED
      BY <3>1, <3>2, <3>4 DEF Apart
  <2>8. Everything'
    <3>1. \A k : (k \in used \/ k \in Cached(t) \/ \E B \in bundles : k \in B) <=>
                 (k \in used' \/ k \in Cached(t)' \/ \E B \in bundles' : k \in B)
      BY <1>1, <2>1, <2>4 DEF Cached
    <3>2. QED
      BY <1>1, <2>3, <3>1 DEF Homes, Everything
  <2>9. QED
    BY <2>5, <2>7, <2>8 DEF Homes
<1>6. CASE ~BundleIsFull(t)
  <2>1. UNCHANGED <<full, bundles>> /\ partial' = [partial EXCEPT ![t] = @ \cup {l}]
    BY <1>6 DEF Push
  <2>2. partial'[t] = partial[t] \cup {l}
        /\ \A u \in Threads \ {t} : partial'[u] = partial[u]
    BY <2>1 DEF Shapes
  <2>3. /\ Cached(t)' = Cached(t) \cup {l}
        /\ \A u \in Threads \ {t} : Cached(u)' = Cached(u)
    BY <1>2, <2>1, <2>2 DEF Cached
  <2>4. \A u \in Threads : OwnPlaces(u)'
    BY <1>2, <1>3, <2>1, <2>2 DEF Homes, OwnPlaces, Cached
  <2>5. Apart'
    BY <1>1, <1>3, <1>4, <2>1, <2>3 DEF Homes, Apart
  <2>6. Everything'
    BY <1>1, <2>1, <2>3 DEF Homes, Everything
  <2>7. QED
    BY <2>4, <2>5, <2>6 DEF Homes
<1>7. QED
  BY <1>5, <1>6

LEMMA PushKeeps ==
  ASSUME AllocatorInv, NEW t \in Threads, NEW l \in Links, Push(t, l)
  PROVE  AllocatorInv'
<1> USE DEF AllocatorInv
<1>1. /\ UNCHANGED <<nextIndex, first, cursor, pc>>
      /\ l \in used /\ pc[t] = "idle" /\ l \in Nat
  BY LinkAssumption DEF Push, allocVars, Links
<1>2. l \notin partial[t]
  BY <1>1 DEF Homes, Apart, Cached
<1>3. /\ IsFiniteSet(partial[t]) /\ Cardinality(partial[t]) \in Nat
      /\ numPartial[t] = Cardinality(partial[t]) /\ numPartial[t] <= PerBundle
      /\ IsFiniteSet({l}) /\ Cardinality({l}) = 1
  BY FS_CardinalityType, FS_Singleton DEF Finite, BundlesAreFull
<1>4. CASE BundleIsFull(t)
  <2>1. /\ bundles' = bundles \cup ({full[t]} \ {{}})
        /\ full' = [full EXCEPT ![t] = partial[t]]
        /\ partial' = [partial EXCEPT ![t] = {l}]
        /\ numPartial' = [numPartial EXCEPT ![t] = 1]
    BY <1>4 DEF Push
  <2>2. /\ full'[t] = partial[t] /\ partial'[t] = {l} /\ numPartial'[t] = 1
        /\ \A u \in Threads \ {t} : /\ full'[u] = full[u] /\ partial'[u] = partial[u]
                                   /\ numPartial'[u] = numPartial[u]
    BY <2>1 DEF Shapes
  <2>3. Shapes' /\ Finite' /\ InsideAlloc'
    <3>1. bundles' \subseteq SUBSET Nat /\ \A B \in bundles' : IsFiniteSet(B)
      <4>1. full[t] \in SUBSET Nat /\ IsFiniteSet(full[t]) /\ bundles \subseteq SUBSET Nat
        BY DEF Shapes, Finite
      <4>2. \A B \in bundles' : B \in bundles \/ B = full[t]
        BY <2>1
      <4>3. QED
        BY <4>1, <4>2 DEF Finite
    <3>2. Shapes'
      BY <1>1, <2>1, <3>1 DEF Shapes
    <3>3. Finite'
      BY <1>3, <2>2, <3>1 DEF Finite
    <3>4. InsideAlloc'
      BY <1>1, <2>2 DEF InsideAlloc
    <3>5. QED
      BY <3>2, <3>3, <3>4
  <2>4. Cardinality(partial[t]) = PerBundle
    BY <1>3, <1>4, LinkAssumption DEF BundleIsFull
  <2>5. \A u \in Threads :
          /\ numPartial'[u] = Cardinality(partial'[u]) /\ numPartial'[u] <= PerBundle
          /\ full'[u] # {} => Cardinality(full'[u]) = PerBundle
    BY <1>3, <2>2, <2>4, LinkAssumption DEF BundlesAreFull
  <2>6. \A B \in bundles' : Cardinality(B) = PerBundle
    BY <2>1 DEF BundlesAreFull
  <2>7. QED
    BY <2>3, <2>5, <2>6, PushHomes DEF BundlesAreFull
<1>5. CASE ~BundleIsFull(t)
  <2>1. /\ UNCHANGED <<full, bundles>> /\ numPartial[t] < PerBundle
        /\ partial' = [partial EXCEPT ![t] = @ \cup {l}]
        /\ numPartial' = [numPartial EXCEPT ![t] = @ + 1]
    BY <1>3, <1>5, LinkAssumption DEF Push, BundleIsFull
  <2>2. /\ partial'[t] = partial[t] \cup {l} /\ numPartial'[t] = numPartial[t] + 1
        /\ \A u \in Threads \ {t} : partial'[u] = partial[u] /\ numPartial'[u] = numPartial[u]
    BY <2>1 DEF Shapes
  <2>3. /\ IsFiniteSet(partial'[t])
        /\ Cardinality(partial[t] \cup {l}) = Cardinality(partial[t]) + 1
    BY <1>2, <1>3, <2>2, FS_AddElement
  <2>4. Shapes' /\ Finite' /\ InsideAlloc'
    BY <1>1, <2>1, <2>2, <2>3 DEF Shapes, Finite, InsideAlloc
  <2>5. numPartial'[t] = Cardinality(partial'[t]) /\ numPartial'[t] <= PerBundle
    <3>1. numPartial'[t] = Cardinality(partial[t]) + 1 /\ numPartial'[t] <= PerBundle
      BY <1>3, <2>1, <2>2, LinkAssumption
    <3>2. Cardinality(partial'[t]) = Cardinality(partial[t]) + 1
      BY <2>2, <2>3
    <3>3. QED
      BY <3>1, <3>2
  <2>6. BundlesAreFull'
    BY <2>1, <2>2, <2>5 DEF BundlesAreFull
  <2>7. QED
    BY <2>4, <2>6, PushHomes
<1>6. QED
  BY <1>4, <1>5

-----------------------------------------------------------------------------
(* The theorems                                                             *)

LEMMA NextKeeps == AllocatorInv /\ [Next]_vars => AllocatorInv'
<1> SUFFICES ASSUME AllocatorInv, [Next]_vars PROVE AllocatorInv'
  OBVIOUS
<1>1. CASE UNCHANGED vars
  <2>1. UNCHANGED <<cacheVars, bundles, used, nextIndex, first, cursor, pc>>
    BY <1>1 DEF vars, allocVars
  <2>2. Shapes' /\ InsideAlloc'
    BY <2>1 DEF AllocatorInv, Shapes, InsideAlloc, cacheVars
  <2>3. Finite' /\ BundlesAreFull' /\ Homes'
    BY <2>1, PlacesStay DEF Making
  <2>4. QED
    BY <2>2, <2>3 DEF AllocatorInv
<1>2. ASSUME NEW t \in Threads, Pop(t) PROVE AllocatorInv'
  BY <1>2, PopPartialKeeps, PopFullKeeps, PopBundleKeeps, AllocKeeps,
     ConstructKeeps, PopFreshKeeps DEF Pop
<1>3. ASSUME NEW t \in Threads, NEW l \in Links, Push(t, l) PROVE AllocatorInv'
  BY <1>3, PushKeeps
<1>4. QED
  BY <1>1, <1>2, <1>3 DEF Next

(* The inductive invariant of LockFreeLinkAllocator_TLSCache: what each     *)
(* thread holds, that its counts are exact, and where every link is.        *)
THEOREM AllocatorInvariant == Spec => []AllocatorInv
  BY InitAllocator, NextKeeps, PTL DEF Spec

(* Every bundle that changes hands has NUM_PER_BUNDLE links, so Pop may set *)
(* NumPartial without counting (LockFreeList.cpp:92-157).                   *)
THEOREM BundlesStayFull == Spec => []BundlesAreFull
<1>1. AllocatorInv => BundlesAreFull
  BY DEF AllocatorInv
<1>2. QED
  BY AllocatorInvariant, <1>1, PTL

(* No link is lost or handed out twice, whichever thread takes it and       *)
(* whichever gives it back (LockFreeList.cpp:92-157).                       *)
THEOREM LinksHaveOneHome == Spec => []OneHome
<1>1. AllocatorInv => OneHome
  BY HomesAreOne DEF AllocatorInv
<1>2. QED
  BY AllocatorInvariant, <1>1, PTL

-----------------------------------------------------------------------------
(* Where a link is stored                                                   *)

LEMMA PageExists ==
  ASSUME NEW l \in Links
  PROVE  PageOf(l) \in PageNumbers
<1>1. /\ l \in Nat /\ MaxTotalItems \in Nat /\ l <= MaxTotalItems
      /\ ItemsPerPage \in Nat \ {0}
  BY LinkAssumption DEF Links
<1>2. l \div ItemsPerPage \in Nat /\ l \div ItemsPerPage <= MaxTotalItems \div ItemsPerPage
  BY <1>1
<1>3. QED
  BY <1>1, <1>2 DEF PageOf, PageNumbers

Circulates(l) ==
  \/ l \in used
  \/ \E B \in bundles : l \in B
  \/ \E t \in Threads : l \in partial[t] \/ l \in full[t]

StorageInv ==
  /\ pages \in [PageNumbers -> Threads \cup {NoBlock}]
  /\ storage \in [Links -> Threads \cup {NoBlock}]
  /\ nextIndex = 1 \/ nextIndex <= MaxTotalItems
  /\ \A l \in Links : storage[l] # NoBlock => storage[l] = pages[PageOf(l)]
  /\ \A l : Circulates(l) => storage[l] # NoBlock
  /\ \A t \in Threads : pc[t] \in {"construct", "install"} =>
       \A l \in first[t] .. cursor[t] - 1 : storage[l] # NoBlock

LEMMA InitStorage == Init => StorageInv
<1> SUFFICES ASSUME Init PROVE StorageInv
  OBVIOUS
<1>1. \A l : ~Circulates(l)
  BY DEF Init, Circulates
<1>2. QED
  BY <1>1 DEF Init, StorageInv

(* A link that was ever allocated has an index below MaxTotalItems.         *)
LEMMA AllocatedAreLinks ==
  ASSUME Shapes, StorageInv
  PROVE  1 .. nextIndex - 1 \subseteq Links
BY LinkAssumption DEF Shapes, StorageInv, Links

LEMMA StorageImplies == Shapes /\ StorageInv => StorageStays
<1> SUFFICES ASSUME Shapes, StorageInv PROVE StorageStays
  OBVIOUS
<1>1. \A l \in used \cup (UNION bundles)
              \cup (UNION {partial[t] \cup full[t] : t \in Threads}) : Circulates(l)
  BY DEF Circulates
<1>2. QED
  BY <1>1, AllocatedAreLinks DEF StorageInv, StorageStays

(* Steps that neither construct a link nor install a page.                  *)
LEMMA StorageKept ==
  ASSUME Shapes, StorageInv, UNCHANGED <<pages, storage, nextIndex>>,
         \A l : Circulates(l)' => Circulates(l)
                  \/ \E t \in Threads : /\ pc[t] \in {"construct", "install"}
                                       /\ l \in first[t] .. cursor[t] - 1,
         \A t \in Threads : pc'[t] \in {"construct", "install"} =>
           /\ pc[t] \in {"construct", "install"}
           /\ first'[t] = first[t] /\ cursor'[t] = cursor[t]
  PROVE  StorageInv'
<1>1. \A l : Circulates(l)' => storage'[l] # NoBlock
  BY DEF StorageInv
<1>2. \A t \in Threads : pc'[t] \in {"construct", "install"} =>
        \A l \in first'[t] .. cursor'[t] - 1 : storage'[l] # NoBlock
  BY DEF StorageInv
<1>3. QED
  BY <1>1, <1>2 DEF StorageInv

LEMMA HandStorage ==
  ASSUME Shapes, StorageInv, NEW t \in Threads,
         PopPartial(t) \/ PopFull(t) \/ PopBundle(t)
  PROVE  StorageInv'
<1>1. UNCHANGED <<pages, storage, nextIndex, first, cursor, pc>>
  BY DEF PopPartial, PopFull, PopBundle, allocVars
<1>2. PICK P, n : /\ Hand(t, P, n) /\ \A l \in P : Circulates(l)
                  /\ bundles' \subseteq bundles
                  /\ \A u \in Threads : full'[u] \subseteq full[u]
  <2>1. CASE PopPartial(t)
    BY <2>1 DEF PopPartial, Circulates
  <2>2. CASE PopFull(t)
    BY <2>2 DEF PopFull, Circulates, Shapes
  <2>3. CASE PopBundle(t)
    BY <2>3 DEF PopBundle, Circulates
  <2>4. QED
    BY <2>1, <2>2, <2>3
<1>3. PICK l \in P :
        /\ partial' = [partial EXCEPT ![t] = P \ {l}] /\ used' = used \cup {l}
  BY <1>2 DEF Hand
<1>4. \A u \in Threads : partial'[u] \subseteq partial[u] \cup P
  BY <1>3 DEF Shapes
<1>5. \A k : Circulates(k)' => Circulates(k)
  BY <1>2, <1>3, <1>4 DEF Circulates
<1>6. QED
  BY <1>1, <1>5, StorageKept

LEMMA FreshStorage ==
  ASSUME Shapes, InsideAlloc, StorageInv, NEW t \in Threads, PopFresh(t)
  PROVE  StorageInv'
<1>1. /\ UNCHANGED <<pages, storage, nextIndex, first, cursor, full, bundles>>
      /\ pc[t] = "construct" /\ pc' = [pc EXCEPT ![t] = "idle"]
  BY DEF PopFresh, allocVars, Goto
<1>2. PICK l \in first[t] .. cursor[t] - 1 :
        /\ partial' = [partial EXCEPT ![t] = (first[t] .. cursor[t] - 1) \ {l}]
        /\ used' = used \cup {l}
  BY DEF PopFresh, Hand
<1>3. \A k : Circulates(k)' => Circulates(k) \/ k \in first[t] .. cursor[t] - 1
  BY <1>1, <1>2 DEF Circulates, Shapes
<1>4. \A u \in Threads : pc'[u] \in {"construct", "install"} =>
        pc[u] \in {"construct", "install"}
  BY <1>1 DEF Shapes
<1>5. QED
  BY <1>1, <1>3, <1>4, StorageKept

LEMMA PushStorage ==
  ASSUME Shapes, StorageInv, NEW t \in Threads, NEW l \in Links, Push(t, l)
  PROVE  StorageInv'
<1>1. UNCHANGED <<pages, storage, nextIndex, first, cursor, pc>> /\ l \in used
  BY DEF Push, allocVars
<1>2. \A k : Circulates(k)' => Circulates(k)
  <2>1. CASE BundleIsFull(t)
    <3>1. /\ bundles' = bundles \cup ({full[t]} \ {{}}) /\ used' = used \ {l}
          /\ \A u \in Threads : /\ full'[u] \subseteq full[u] \cup partial[t]
                               /\ partial'[u] \subseteq partial[u] \cup {l}
      BY <2>1 DEF Push, Shapes
    <3>2. QED
      BY <1>1, <3>1 DEF Circulates
  <2>2. CASE ~BundleIsFull(t)
    <3>1. /\ UNCHANGED <<full, bundles>> /\ used' = used \ {l}
          /\ \A u \in Threads : partial'[u] \subseteq partial[u] \cup {l}
      BY <2>2 DEF Push, Shapes
    <3>2. QED
      BY <1>1, <3>1 DEF Circulates
  <2>3. QED
    BY <2>1, <2>2
<1>3. QED
  BY <1>1, <1>2, StorageKept

LEMMA AllocStorage ==
  ASSUME Shapes, Homes, StorageInv, NEW t \in Threads, Alloc(t)
  PROVE  StorageInv'
<1>1. /\ UNCHANGED <<pages, storage, partial, full, bundles, used>>
      /\ nextIndex' = nextIndex + PerBundle /\ nextIndex' <= MaxTotalItems
      /\ first' = [first EXCEPT ![t] = nextIndex]
      /\ cursor' = [cursor EXCEPT ![t] = nextIndex]
      /\ pc' = [pc EXCEPT ![t] = "construct"]
  BY DEF Alloc, Goto, cacheVars
<1>2. \A l : Circulates(l)' <=> Circulates(l)
  BY <1>1 DEF Circulates
<1>3. \A u \in Threads : pc'[u] \in {"construct", "install"} =>
        \A l \in first'[u] .. cursor'[u] - 1 : storage'[l] # NoBlock
  <2>1. first'[t] .. cursor'[t] - 1 = {}
    BY <1>1 DEF Shapes
  <2>2. \A u \in Threads \ {t} :
          pc'[u] = pc[u] /\ first'[u] = first[u] /\ cursor'[u] = cursor[u]
    BY <1>1 DEF Shapes
  <2>3. QED
    BY <1>1, <2>1, <2>2 DEF StorageInv
<1>4. QED
  BY <1>1, <1>2, <1>3 DEF StorageInv

LEMMA ConstructStorage ==
  ASSUME Shapes, InsideAlloc, StorageInv, NEW t \in Threads, Construct(t)
  PROVE  StorageInv'
<1>1. /\ UNCHANGED <<pages, nextIndex, partial, full, bundles, used, first, pc>>
      /\ pc[t] = "construct" /\ cursor[t] < first[t] + PerBundle
      /\ pages[PageOf(cursor[t])] # NoBlock
      /\ storage' = [storage EXCEPT ![cursor[t]] = pages[PageOf(cursor[t])]]
      /\ cursor' = [cursor EXCEPT ![t] = @ + 1]
  BY DEF Construct, cacheVars
<1>2. cursor[t] \in 1 .. nextIndex - 1 /\ cursor[t] \in Nat /\ first[t] \in Nat
  BY <1>1, LinkAssumption DEF InsideAlloc, Shapes
<1>3. cursor[t] \in Links
  BY <1>2, AllocatedAreLinks
<1>4. PageOf(cursor[t]) \in PageNumbers
  BY <1>3, PageExists
<1>5. storage' \in [Links -> Threads \cup {NoBlock}]
  BY <1>1, <1>3, <1>4 DEF StorageInv
<1>6. /\ storage'[cursor[t]] = pages[PageOf(cursor[t])]
      /\ \A l : l # cursor[t] /\ l \in Links => storage'[l] = storage[l]
  BY <1>1, <1>3 DEF StorageInv
<1>7. \A l : storage[l] # NoBlock => storage'[l] # NoBlock
  BY <1>1, <1>3, <1>6 DEF StorageInv
<1>8. \A l \in Links : storage'[l] # NoBlock => storage'[l] = pages'[PageOf(l)]
  BY <1>1, <1>6 DEF StorageInv
<1>9. \A l : Circulates(l)' => storage'[l] # NoBlock
  BY <1>1, <1>7 DEF StorageInv, Circulates
<1>10. \A u \in Threads : pc'[u] \in {"construct", "install"} =>
         \A l \in first'[u] .. cursor'[u] - 1 : storage'[l] # NoBlock
  <2>1. \A u \in Threads \ {t} : cursor'[u] = cursor[u]
    BY <1>1 DEF Shapes
  <2>2. \A l \in first'[t] .. cursor'[t] - 1 :
          l = cursor[t] \/ l \in first[t] .. cursor[t] - 1
    BY <1>1, <1>2 DEF Shapes
  <2>3. QED
    BY <1>1, <1>6, <1>7, <2>1, <2>2 DEF StorageInv
<1>11. QED
  BY <1>1, <1>5, <1>8, <1>9, <1>10 DEF StorageInv

LEMMA InstallStorage ==
  ASSUME Shapes, InsideAlloc, StorageInv, NEW t \in Threads, InstallPage(t)
  PROVE  StorageInv'
<1> DEFINE page == PageOf(cursor[t])
<1>1. /\ UNCHANGED <<storage, nextIndex, partial, full, bundles, used, first, cursor>>
      /\ pages' = [pages EXCEPT ![page] = IF @ = NoBlock THEN t ELSE @]
      /\ pc[t] = "install" /\ pc' = [pc EXCEPT ![t] = "construct"]
  BY DEF InstallPage, Installed, Goto, cacheVars
<1>2. pages' \in [PageNumbers -> Threads \cup {NoBlock}]
  BY <1>1 DEF StorageInv
<1>3. \A p \in PageNumbers : pages[p] # NoBlock => pages'[p] = pages[p]
  BY <1>1 DEF StorageInv
<1>4. \A l \in Links : storage[l] # NoBlock => storage[l] = pages'[PageOf(l)]
  BY <1>3, PageExists DEF StorageInv
<1>5. \A l : Circulates(l)' <=> Circulates(l)
  BY <1>1 DEF Circulates
<1>6. \A u \in Threads : pc'[u] \in {"construct", "install"} =>
        pc[u] \in {"construct", "install"}
  BY <1>1 DEF Shapes
<1>7. QED
  BY <1>1, <1>2, <1>4, <1>5, <1>6 DEF StorageInv

LEMMA NextStorage == AllocatorInv /\ StorageInv /\ [Next]_vars => StorageInv'
<1> SUFFICES ASSUME Shapes, InsideAlloc, Homes, StorageInv, [Next]_vars
             PROVE  StorageInv'
  BY DEF AllocatorInv
<1>1. CASE UNCHANGED vars
  <2>1. UNCHANGED <<pages, storage, nextIndex, partial, full, bundles, used, first, cursor, pc>>
    BY <1>1 DEF vars, allocVars, cacheVars
  <2>2. \A l : Circulates(l)' <=> Circulates(l)
    BY <2>1 DEF Circulates
  <2>3. QED
    BY <2>1, <2>2, StorageKept
<1>2. ASSUME NEW t \in Threads, PopNothing(t) \/ MissPage(t) PROVE StorageInv'
  <2>1. /\ UNCHANGED <<pages, storage, nextIndex, partial, full, bundles, used, first, cursor>>
        /\ \/ pc' = [pc EXCEPT ![t] = "alloc"]
           \/ pc' = [pc EXCEPT ![t] = "install"] /\ pc[t] = "construct"
    BY <1>2 DEF PopNothing, MissPage, Goto, allocVars, cacheVars
  <2>2. \A l : Circulates(l)' <=> Circulates(l)
    BY <2>1 DEF Circulates
  <2>3. \A u \in Threads : pc'[u] \in {"construct", "install"} =>
          pc[u] \in {"construct", "install"}
    BY <2>1 DEF Shapes
  <2>4. QED
    BY <2>1, <2>2, <2>3, StorageKept
<1>3. ASSUME NEW t \in Threads, Pop(t) PROVE StorageInv'
  BY <1>2, <1>3, HandStorage, AllocStorage, ConstructStorage, InstallStorage,
     FreshStorage DEF Pop
<1>4. ASSUME NEW t \in Threads, NEW l \in Links, Push(t, l) PROVE StorageInv'
  BY <1>4, PushStorage
<1>5. QED
  BY <1>1, <1>3, <1>4 DEF Next

(* A link stays where it was constructed, although two threads may allocate *)
(* a block for its page (LockFreeList.h:94-115), and the page of a link in  *)
(* use exists (LockFreeList.h:89).                                          *)
THEOREM LinksStayPut == Spec => []StorageStays
<1>1. AllocatorInv /\ StorageInv => StorageStays
  BY StorageImplies DEF AllocatorInv
<1>2. QED
  BY AllocatorInvariant, InitStorage, NextStorage, <1>1, PTL DEF Spec

-----------------------------------------------------------------------------
(* The task graph under Test                                                *)

(* The types the argument needs; nothing is assumed of the jobs.            *)
WakeShapes ==
  /\ workerPc \in [Workers -> {"pop", "wait", "task", "subsequents", "gather", "children"}]
  /\ signalled \in [Workers -> BOOLEAN]
  /\ DOMAIN queue = Workers /\ queue = [w \in Workers |-> queue[w]]

WakeInv == WakeShapes /\ NoLostWakeUp

LEMMA InitWake == Jobs!Init => WakeInv
  BY DEF Jobs!Init, WakeInv, WakeShapes, NoLostWakeUp, Jobs!NoLostWakeUp

(* The only step that fills an array: it triggers the event of an empty     *)
(* one, and the event of any other was triggered and is not yet consumed.   *)
LEMMA AddJobWakes ==
  ASSUME WakeInv, NEW x, NEW w \in Workers, Jobs!AddJob(x, w), workerPc' = workerPc
  PROVE  WakeInv'
<1>1. /\ queue' = [queue EXCEPT ![w] = Append(@, x)]
      /\ signalled' = [signalled EXCEPT ![w] = @ \/ queue[w] = <<>>]
  BY DEF Jobs!AddJob, Jobs!MustTrigger
<1>2. \A u \in Workers \ {w} : queue'[u] = queue[u] /\ signalled'[u] = signalled[u]
  BY <1>1 DEF WakeInv, WakeShapes
<1>3. signalled'[w] <=> signalled[w] \/ queue[w] = <<>>
  BY <1>1 DEF WakeInv, WakeShapes
<1>4. workerPc[w] = "wait" => signalled'[w]
  BY <1>3 DEF WakeInv, NoLostWakeUp, Jobs!NoLostWakeUp
<1>5. WakeShapes'
  BY <1>1 DEF WakeInv, WakeShapes
<1>6. NoLostWakeUp'
  BY <1>2, <1>4 DEF WakeInv, NoLostWakeUp, Jobs!NoLostWakeUp
<1>7. QED
  BY <1>5, <1>6 DEF WakeInv

LEMMA CountOffWakes ==
  ASSUME WakeInv, NEW x, NEW stage, Jobs!CountOff(x, stage), workerPc' = workerPc
  PROVE  WakeInv'
<1>1. CASE \E w \in Workers : Jobs!AddJob(x, w)
  BY <1>1, AddJobWakes
<1>2. CASE UNCHANGED Jobs!queueVars
  BY <1>2 DEF Jobs!queueVars, WakeInv, WakeShapes, NoLostWakeUp, Jobs!NoLostWakeUp
<1>3. QED
  BY <1>1, <1>2 DEF Jobs!CountOff

(* A thread goes to its wait only from an empty array.                      *)
LEMMA RunWakes ==
  ASSUME WakeInv, NEW w \in Workers, Jobs!Run(w)
  PROVE  WakeInv'
<1>1. CASE Jobs!Pop(w)
  <2>1. CASE queue[w] # <<>>
    <3>1. /\ queue' = [queue EXCEPT ![w] = Jobs!Front(@)] /\ signalled' = signalled
          /\ workerPc' = [workerPc EXCEPT ![w] = "task"]
      BY <1>1, <2>1 DEF Jobs!Pop, Jobs!Goto
    <3>2. workerPc'[w] = "task" /\ \A u \in Workers \ {w} : queue'[u] = queue[u] /\ workerPc'[u] = workerPc[u]
      BY <3>1 DEF WakeInv, WakeShapes
    <3>3. WakeShapes'
      BY <3>1 DEF WakeInv, WakeShapes
    <3>4. QED
      BY <3>1, <3>2, <3>3 DEF WakeInv, NoLostWakeUp, Jobs!NoLostWakeUp
  <2>2. CASE queue[w] = <<>>
    <3>1. UNCHANGED <<queue, signalled>> /\ workerPc' = [workerPc EXCEPT ![w] = "wait"]
      BY <1>1, <2>2 DEF Jobs!Pop, Jobs!Goto
    <3>2. QED
      BY <2>2, <3>1 DEF WakeInv, WakeShapes, NoLostWakeUp, Jobs!NoLostWakeUp
  <2>3. QED
    BY <2>1, <2>2
<1>2. CASE Jobs!WakeUp(w)
  <2>1. /\ signalled' = [signalled EXCEPT ![w] = FALSE] /\ queue' = queue
        /\ workerPc' = [workerPc EXCEPT ![w] = "pop"]
    BY <1>2 DEF Jobs!WakeUp, Jobs!Goto
  <2>2. QED
    BY <2>1 DEF WakeInv, WakeShapes, NoLostWakeUp, Jobs!NoLostWakeUp
<1>3. CASE \/ Jobs!TaskReturns(w) \/ Jobs!CreateNullJob(w) \/ Jobs!NullJobDispatched(w)
           \/ Jobs!GetArrayValueAndClosed(w) \/ Jobs!DeleteJob(w)
  <2>1. /\ UNCHANGED <<queue, signalled>>
        /\ \/ workerPc' = [workerPc EXCEPT ![w] = "subsequents"]
           \/ workerPc' = [workerPc EXCEPT ![w] = "gather"]
           \/ workerPc' = [workerPc EXCEPT ![w] = "children"]
           \/ workerPc' = [workerPc EXCEPT ![w] = "pop"]
    BY <1>3 DEF Jobs!TaskReturns, Jobs!CreateNullJob, Jobs!NullJobDispatched,
                Jobs!GetArrayValueAndClosed, Jobs!DeleteJob, Jobs!Goto, Jobs!queueVars
  <2>2. QED
    BY <2>1 DEF WakeInv, WakeShapes, NoLostWakeUp, Jobs!NoLostWakeUp
<1>4. CASE Jobs!DispatchChild(w)
  BY <1>4, CountOffWakes DEF Jobs!DispatchChild
<1>5. QED
  BY <1>1, <1>2, <1>3, <1>4 DEF Jobs!Run

LEMMA NextWakes == WakeInv /\ [Jobs!Next]_Jobs!vars => WakeInv'
<1> SUFFICES ASSUME WakeInv, [Jobs!Next]_Jobs!vars PROVE WakeInv'
  OBVIOUS
<1>1. CASE UNCHANGED Jobs!vars
  BY <1>1 DEF Jobs!vars, Jobs!queueVars, Jobs!workerVars, WakeInv, WakeShapes,
              NoLostWakeUp, Jobs!NoLostWakeUp
<1>2. ASSUME NEW t \in Tasks, Jobs!Create(t) PROVE WakeInv'
  BY <1>2 DEF Jobs!Create, Jobs!queueVars, Jobs!workerVars, WakeInv, WakeShapes,
              NoLostWakeUp, Jobs!NoLostWakeUp
<1>3. ASSUME NEW x \in Jobs!Jobs, Jobs!SetUp(x) PROVE WakeInv'
  <2>1. CASE Jobs!AddIfNotClosed(x) \/ Jobs!Created(x)
    BY <2>1 DEF Jobs!AddIfNotClosed, Jobs!Created, Jobs!queueVars, Jobs!workerVars, WakeInv,
                WakeShapes, NoLostWakeUp, Jobs!NoLostWakeUp
  <2>2. CASE Jobs!DispatchJob(x)
    BY <2>2, CountOffWakes DEF Jobs!DispatchJob, Jobs!workerVars
  <2>3. QED
    BY <1>3, <2>1, <2>2 DEF Jobs!SetUp
<1>4. ASSUME NEW w \in Workers, Jobs!TimeOut(w) \/ Jobs!DoNotCompleteUnitl(w) PROVE WakeInv'
  <2>1. /\ UNCHANGED <<queue, signalled>>
        /\ workerPc' = workerPc \/ workerPc' = [workerPc EXCEPT ![w] = "pop"]
    BY <1>4 DEF Jobs!TimeOut, Jobs!DoNotCompleteUnitl, Jobs!Goto, Jobs!queueVars, Jobs!workerVars
  <2>2. QED
    BY <2>1 DEF WakeInv, WakeShapes, NoLostWakeUp, Jobs!NoLostWakeUp
<1>5. QED
  BY <1>1, <1>2, <1>3, <1>4, RunWakes DEF Jobs!Next

(* No thread waits with a job in its array and its event not set, although  *)
(* AddJob triggers the event for the first job only and the thread reads    *)
(* the array and waits in two steps (YTaskGraph.cpp:34-69).                 *)
THEOREM NoWakeUpIsLost == Jobs!Spec => []NoLostWakeUp
<1>1. WakeInv => NoLostWakeUp
  BY DEF WakeInv
<1>2. QED
  BY InitWake, NextWakes, <1>1, PTL DEF Jobs!Spec

-----------------------------------------------------------------------------
(* The task graph under Test: the inductive invariant                       *)

JobsOf == Tasks \cup Gathers
Done == {"finished", "deleted"}
Held == {"none", "setup", "created"}
Stages == Held \cup Done \cup {"pending", "queued", "running"}
Places == {"pop", "wait", "task", "subsequents", "gather", "children"}

JobShapes ==
  /\ life \in [JobsOf -> Stages]
  /\ deps \in [JobsOf -> Seq(Tasks)] /\ next \in [JobsOf -> Nat \ {0}]
  /\ missed \in [JobsOf -> SUBSET Nat]
  /\ counter \in [JobsOf -> Int]
  /\ children \in [Tasks -> SUBSET (JobsOf \X Nat)] /\ closed \in [Tasks -> BOOLEAN]
  /\ waitFor \in [Tasks -> Seq(Tasks)]
  /\ queue \in [Workers -> Seq(JobsOf)]
  /\ workerPc \in [Workers -> Places] /\ job \in [Workers -> JobsOf \cup {NoJob}]
  /\ childrenJobs \in [Workers -> SUBSET (JobsOf \X Nat)]

(* Where the k-th prerequisite of a job is as long as it is counted: CreateJob *)
(* has yet to come to it or to count it off, or it is among the children of *)
(* its handle, or with the thread that tells these.                         *)
Told(x, k) == \E w \in Workers : <<x, k>> \in childrenJobs[w]

Outstanding(x) ==
  {k \in 1 .. Len(deps[x]) : \/ k >= next[x] \/ k \in missed[x]
                             \/ <<x, k>> \in children[deps[x][k]] \/ Told(x, k)}

DepsInPlace ==
  /\ \A x \in JobsOf : /\ next[x] <= Len(deps[x]) + 1
                       /\ \A k \in missed[x] : k \in 1 .. next[x] - 1 /\ closed[deps[x][k]]
  /\ \A e \in Tasks : \A x \in JobsOf : \A k \in Nat :
       <<x, k>> \in children[e] => k \in 1 .. next[x] - 1 /\ deps[x][k] = e /\ ~closed[e]
  /\ \A w \in Workers : \A x \in JobsOf : \A k \in Nat :
       <<x, k>> \in childrenJobs[w] => /\ k \in 1 .. next[x] - 1 /\ closed[deps[x][k]]
                                       /\ k \notin missed[x] /\ workerPc[w] = "children"
  /\ \A v, w \in Workers : v # w => childrenJobs[v] \cap childrenJobs[w] = {}

(* What is not outstanding any more has completed.                          *)
CountedOff ==
  \A x \in JobsOf : \A k \in 1 .. Len(deps[x]) : k \notin Outstanding(x) => closed[deps[x][k]]

(* The counter has one more as long as the job is not dispatched.           *)
CountsRight ==
  \A x \in JobsOf :
    counter[x] = Cardinality(Outstanding(x)) + (IF life[x] \in Held THEN 1 ELSE 0)

StagesOfJobs ==
  \A x \in JobsOf :
    /\ life[x] = "none" => deps[x] = <<>> /\ next[x] = 1
    /\ life[x] # "setup" => missed[x] = {} /\ next[x] = Len(deps[x]) + 1
    /\ life[x] \in Done \cup {"queued", "running"} => Outstanding(x) = {}

(* A job that was queued is in one array or with one thread.                *)
OneThreadEach ==
  /\ \A w \in Workers : \A i \in 1 .. Len(queue[w]) : life[queue[w][i]] = "queued"
  /\ \A v, w \in Workers : \A i \in 1 .. Len(queue[v]) : \A j \in 1 .. Len(queue[w]) :
       queue[v][i] = queue[w][j] => v = w /\ i = j
  /\ \A v, w \in Workers : v # w /\ job[v] = job[w] => job[v] = NoJob
  /\ \A w \in Workers :
       /\ workerPc[w] \in {"pop", "wait"} <=> job[w] = NoJob
       /\ workerPc[w] = "task" => life[job[w]] = "running"
       /\ workerPc[w] \in {"subsequents", "gather", "children"} => life[job[w]] = "finished"

(* A handle is closed by the job that has it last: its null job, if it has  *)
(* one.                                                                     *)
HandlesInv ==
  /\ \A t \in Tasks :
       /\ closed[t] => life[t] \in Done /\ life[GatherOf[t]] \in {"none"} \cup Done
       /\ life[GatherOf[t]] # "none" => waitFor[t] = <<>> /\ life[t] \in Done
  /\ \A w \in Workers : workerPc[w] = "subsequents" =>
       /\ job[w] \in Tasks => ~closed[job[w]] /\ life[GatherOf[job[w]]] = "none"
       /\ \A t \in Tasks : job[w] = GatherOf[t] => ~closed[t]

JobsInv ==
  /\ JobShapes /\ DepsInPlace /\ CountedOff /\ CountsRight /\ StagesOfJobs
  /\ OneThreadEach /\ HandlesInv

-----------------------------------------------------------------------------
(* The task graph under Test: what its constants and its counts are         *)

LEMMA KindsOfJobs ==
  /\ Jobs!Jobs = JobsOf /\ Tasks \subseteq JobsOf /\ NoJob \notin JobsOf
  /\ \A t \in Tasks : /\ GatherOf[t] \in JobsOf /\ GatherOf[t] \notin Tasks
                      /\ Jobs!HandleOf(t) = t /\ Jobs!HandleOf(GatherOf[t]) = t
                      /\ \A u \in Tasks : GatherOf[t] = GatherOf[u] => t = u
  /\ \A x \in JobsOf : /\ Jobs!HandleOf(x) \in Tasks
                       /\ x = Jobs!HandleOf(x) \/ x = GatherOf[Jobs!HandleOf(x)]
<1>1. /\ Jobs!Jobs = JobsOf /\ Tasks \subseteq JobsOf /\ NoJob \notin JobsOf
      /\ \A t \in Tasks : /\ GatherOf[t] \in JobsOf /\ GatherOf[t] \notin Tasks
                          /\ \A u \in Tasks : GatherOf[t] = GatherOf[u] => t = u
  BY JobsAssumed DEF Jobs!JobsAssumption, Jobs!Jobs, JobsOf
<1>2. ASSUME NEW t \in Tasks
      PROVE  Jobs!HandleOf(t) = t /\ Jobs!HandleOf(GatherOf[t]) = t
  <2>1. Jobs!HandleOf(GatherOf[t]) \in Tasks /\ GatherOf[Jobs!HandleOf(GatherOf[t])] = GatherOf[t]
    BY <1>1 DEF Jobs!HandleOf
  <2> QED BY <1>1, <2>1 DEF Jobs!HandleOf
<1>3. ASSUME NEW x \in JobsOf
      PROVE  /\ Jobs!HandleOf(x) \in Tasks
             /\ x = Jobs!HandleOf(x) \/ x = GatherOf[Jobs!HandleOf(x)]
  <2>1. x \in Tasks \/ \E t \in Tasks : x = GatherOf[t]
    BY JobsAssumed DEF Jobs!JobsAssumption, JobsOf
  <2> QED BY <1>2, <2>1
<1> QED BY <1>1, <1>2, <1>3

LEMMA OutstandingSize ==
  ASSUME JobShapes, NEW x \in JobsOf
  PROVE  /\ Len(deps[x]) \in Nat /\ Outstanding(x) \subseteq 1 .. Len(deps[x])
         /\ IsFiniteSet(Outstanding(x)) /\ Cardinality(Outstanding(x)) \in Nat
<1>1. Len(deps[x]) \in Nat
  BY DEF JobShapes
<1>2. 1 \in Int /\ Len(deps[x]) \in Int
  BY <1>1
<1>3. IsFiniteSet(1 .. Len(deps[x]))
  BY <1>2, FS_Interval
<1>4. Outstanding(x) \subseteq 1 .. Len(deps[x])
  BY DEF Outstanding
<1> QED BY <1>1, <1>3, <1>4, FS_Subset, FS_CardinalityType

LEMMA InitJobs == Jobs!Init => JobsInv
<1> SUFFICES ASSUME Jobs!Init PROVE JobsInv
  OBVIOUS
<1>1. /\ life = [x \in JobsOf |-> "none"] /\ deps = [x \in JobsOf |-> <<>>]
      /\ next = [x \in JobsOf |-> 1] /\ missed = [x \in JobsOf |-> {}]
      /\ counter = [x \in JobsOf |-> 1]
      /\ children = [t \in Tasks |-> {}] /\ closed = [t \in Tasks |-> FALSE]
      /\ waitFor = [t \in Tasks |-> <<>>] /\ queue = [w \in Workers |-> <<>>]
      /\ workerPc = [w \in Workers |-> "pop"] /\ job = [w \in Workers |-> NoJob]
      /\ childrenJobs = [w \in Workers |-> {}]
  BY KindsOfJobs DEF Jobs!Init
<1>2. JobShapes
  BY <1>1 DEF JobShapes, Stages, Held, Places
<1>3. \A x \in JobsOf : Outstanding(x) = {} /\ Cardinality(Outstanding(x)) = 0
  BY <1>1, FS_EmptySet DEF Outstanding
<1>4. DepsInPlace
  BY <1>1 DEF DepsInPlace
<1>5. CountedOff
  BY <1>1 DEF CountedOff
<1>6. CountsRight
  BY <1>1, <1>3 DEF CountsRight, Held
<1>7. StagesOfJobs
  BY <1>1, <1>3 DEF StagesOfJobs, Done
<1>8. OneThreadEach
  BY <1>1 DEF OneThreadEach
<1>9. HandlesInv
  BY <1>1, KindsOfJobs DEF HandlesInv
<1> QED BY <1>2, <1>4, <1>5, <1>6, <1>7, <1>8, <1>9 DEF JobsInv

LEMMA SameSize == \A S : Jobs!Cardinality(S) = Cardinality(S)
  BY DEF Jobs!Cardinality, Cardinality

-----------------------------------------------------------------------------
(* The task graph under Test: what a step keeps by leaving alone            *)

(* The counts do not see that a queued job is taken, runs and is deleted.   *)
LEMMA CountsKeep ==
  ASSUME JobsInv, UNCHANGED <<deps, next, missed, children, closed, childrenJobs, counter>>,
         \A x \in JobsOf : life'[x] = life[x] \/ /\ life[x] \in {"queued", "running"} \cup Done
                                                 /\ life'[x] \in {"running"} \cup Done,
         \A w \in Workers : workerPc[w] = "children" =>
           workerPc'[w] = "children" \/ childrenJobs[w] = {}
  PROVE  DepsInPlace' /\ CountedOff' /\ CountsRight' /\ StagesOfJobs'
<1>1. \A x \in JobsOf : Outstanding(x)' = Outstanding(x)
  BY DEF Outstanding, Told
<1>2. DepsInPlace'
  <2>1. ASSUME NEW w \in Workers, childrenJobs[w] # {}, workerPc[w] = "children"
        PROVE  workerPc'[w] = "children"
    BY <2>1
  <2> QED BY <2>1 DEF JobsInv, DepsInPlace
<1>3. CountedOff'
  BY <1>1 DEF JobsInv, CountedOff
<1>4. CountsRight'
  BY <1>1 DEF JobsInv, CountsRight, Held, Done
<1>5. StagesOfJobs'
  BY <1>1 DEF JobsInv, StagesOfJobs, Done
<1> QED BY <1>2, <1>3, <1>4, <1>5

LEMMA ThreadsKeep ==
  ASSUME OneThreadEach, JobShapes, UNCHANGED <<queue, job, workerPc>>,
         \A x \in JobsOf : life[x] \in {"queued", "running", "finished"} => life'[x] = life[x]
  PROVE  OneThreadEach'
<1>1. \A w \in Workers : \A i \in 1 .. Len(queue[w]) : queue[w][i] \in JobsOf
  BY DEF JobShapes
<1>2. \A w \in Workers : job[w] # NoJob => job[w] \in JobsOf
  BY DEF JobShapes
<1>3. \A w \in Workers : \A i \in 1 .. Len(queue[w]) : life'[queue[w][i]] = "queued"
  BY <1>1 DEF OneThreadEach
<1>4. \A w \in Workers :
        /\ workerPc[w] = "task" => life'[job[w]] = "running"
        /\ workerPc[w] \in {"subsequents", "gather", "children"} => life'[job[w]] = "finished"
  BY <1>2 DEF OneThreadEach
<1> QED BY <1>3, <1>4 DEF OneThreadEach

LEMMA HandlesKeep ==
  ASSUME HandlesInv, JobShapes, UNCHANGED <<closed, waitFor>>,
         \A x \in JobsOf : life[x] \in Done => life'[x] \in Done,
         \A t \in Tasks : life'[GatherOf[t]] = "none" <=> life[GatherOf[t]] = "none",
         \A w \in Workers : workerPc'[w] = "subsequents" =>
           workerPc[w] = "subsequents" /\ job'[w] = job[w]
  PROVE  HandlesInv'
<1>1. \A t \in Tasks : t \in JobsOf /\ GatherOf[t] \in JobsOf
  BY KindsOfJobs
<1>2. ASSUME NEW t \in Tasks
      PROVE  /\ closed'[t] => life'[t] \in Done /\ life'[GatherOf[t]] \in {"none"} \cup Done
             /\ life'[GatherOf[t]] # "none" => waitFor'[t] = <<>> /\ life'[t] \in Done
  BY <1>1 DEF HandlesInv
<1>3. ASSUME NEW w \in Workers, workerPc'[w] = "subsequents"
      PROVE  /\ job'[w] \in Tasks => ~closed'[job'[w]] /\ life'[GatherOf[job'[w]]] = "none"
             /\ \A t \in Tasks : job'[w] = GatherOf[t] => ~closed'[t]
  BY <1>3 DEF HandlesInv
<1> QED BY <1>2, <1>3 DEF HandlesInv

-----------------------------------------------------------------------------
(* The task graph under Test: the steps                                     *)

(* DispatchJob, called for a job that is not queued yet.                    *)
LEMMA CountOffQueues ==
  ASSUME JobsInv, NEW x \in JobsOf, NEW stage \in {"setup", "created", "pending"},
         life[x] \in {"setup", "created", "pending"}, Jobs!CountOff(x, stage),
         UNCHANGED <<closed, waitFor, job, workerPc>>
  PROVE  /\ life' \in [JobsOf -> Stages] /\ counter' \in [JobsOf -> Int]
         /\ queue' \in [Workers -> Seq(JobsOf)]
         /\ OneThreadEach' /\ HandlesInv'
         /\ \A y \in JobsOf : y # x => life'[y] = life[y] /\ counter'[y] = counter[y]
         /\ counter'[x] = counter[x] - 1
         /\ life'[x] = IF counter[x] = 1 THEN "queued" ELSE stage
<1>1. /\ life \in [JobsOf -> Stages] /\ counter \in [JobsOf -> Int]
      /\ queue \in [Workers -> Seq(JobsOf)]
  BY DEF JobsInv, JobShapes
<1>2. /\ counter' = [counter EXCEPT ![x] = @ - 1]
      /\ life' = [life EXCEPT ![x] = IF counter[x] = 1 THEN "queued" ELSE stage]
  BY DEF Jobs!CountOff
<1>3. /\ \A y \in JobsOf : y # x => life'[y] = life[y] /\ counter'[y] = counter[y]
      /\ counter'[x] = counter[x] - 1
      /\ life'[x] = IF counter[x] = 1 THEN "queued" ELSE stage
      /\ life' \in [JobsOf -> Stages] /\ counter' \in [JobsOf -> Int]
  BY <1>1, <1>2 DEF Stages, Held
<1>4. HandlesInv'
  <2>1. \A y \in JobsOf : /\ life[y] \in Done => life'[y] \in Done
                          /\ life'[y] = "none" <=> life[y] = "none"
    BY <1>3 DEF Done
  <2> QED BY <2>1, HandlesKeep, KindsOfJobs DEF JobsInv
<1>5. CASE counter[x] # 1
  <2>1. queue' = queue
    BY <1>5 DEF Jobs!CountOff, Jobs!queueVars
  <2>2. OneThreadEach'
    BY <2>1, <1>3, ThreadsKeep DEF JobsInv
  <2> QED BY <1>1, <1>3, <1>4, <2>1, <2>2
<1>6. CASE counter[x] = 1
  <2>1. PICK w \in Workers : queue' = [queue EXCEPT ![w] = Append(@, x)]
    BY <1>6 DEF Jobs!CountOff, Jobs!AddJob
  <2> DEFINE q == queue[w]
             n == Len(q)
  <2>2. /\ n \in Nat /\ q \in Seq(JobsOf) /\ queue'[w] = Append(q, x)
        /\ Len(queue'[w]) = n + 1 /\ queue'[w][n + 1] = x
        /\ \A i \in 1 .. n : queue'[w][i] = q[i]
        /\ \A u \in Workers : u # w => queue'[u] = queue[u]
        /\ queue' \in [Workers -> Seq(JobsOf)]
    BY <1>1, <2>1
  <2> HIDE DEF q, n
  <2>a. \A i \in 1 .. n + 1 : i \in 1 .. n \/ i = n + 1
    BY <2>2
  <2>3. \A u \in Workers : \A i \in 1 .. Len(queue[u]) :
          queue[u][i] \in JobsOf /\ queue[u][i] # x /\ life'[queue[u][i]] = "queued"
    BY <1>1, <1>3 DEF JobsInv, OneThreadEach
  <2>4. \A u \in Workers : \A i \in 1 .. Len(queue'[u]) :
          \/ u = w /\ i = n + 1 /\ queue'[u][i] = x
          \/ i \in 1 .. Len(queue[u]) /\ queue'[u][i] = queue[u][i]
    BY <2>2, <2>a DEF q, n
  <2>5. \A u \in Workers : \A i \in 1 .. Len(queue'[u]) : life'[queue'[u][i]] = "queued"
    BY <1>3, <1>6, <2>3, <2>4
  <2>6. ASSUME NEW u \in Workers, NEW v \in Workers, NEW i \in 1 .. Len(queue'[u]),
               NEW j \in 1 .. Len(queue'[v]), queue'[u][i] = queue'[v][j]
        PROVE  u = v /\ i = j
    <3>1. \A u1, v1 \in Workers : \A i1 \in 1 .. Len(queue[u1]) : \A j1 \in 1 .. Len(queue[v1]) :
            queue[u1][i1] = queue[v1][j1] => u1 = v1 /\ i1 = j1
      BY DEF JobsInv, OneThreadEach
    <3>2. /\ \/ u = w /\ i = n + 1 /\ queue'[u][i] = x
             \/ i \in 1 .. Len(queue[u]) /\ queue'[u][i] = queue[u][i]
          /\ \/ v = w /\ j = n + 1 /\ queue'[v][j] = x
             \/ j \in 1 .. Len(queue[v]) /\ queue'[v][j] = queue[v][j]
      BY <2>4
    <3>3. /\ i \in 1 .. Len(queue[u]) => queue[u][i] # x
          /\ j \in 1 .. Len(queue[v]) => queue[v][j] # x
      BY <2>3
    <3> QED BY <2>6, <3>1, <3>2, <3>3
  <2>7. \A v \in Workers :
          /\ workerPc'[v] = "task" => life'[job'[v]] = "running"
          /\ workerPc'[v] \in {"subsequents", "gather", "children"} => life'[job'[v]] = "finished"
    <3>1. \A v \in Workers : job[v] # NoJob => job[v] \in JobsOf
      BY DEF JobsInv, JobShapes
    <3>2. \A v \in Workers :
            /\ workerPc[v] = "task" => job[v] # NoJob /\ life[job[v]] = "running"
            /\ workerPc[v] \in {"subsequents", "gather", "children"} =>
                 job[v] # NoJob /\ life[job[v]] = "finished"
      BY DEF JobsInv, OneThreadEach
    <3> QED BY <1>3, <3>1, <3>2
  <2>8. OneThreadEach'
    <3>1. /\ \A v, u \in Workers : v # u /\ job'[v] = job'[u] => job'[v] = NoJob
          /\ \A u \in Workers : workerPc'[u] \in {"pop", "wait"} <=> job'[u] = NoJob
      BY DEF JobsInv, OneThreadEach
    <3> QED BY <2>5, <2>6, <2>7, <3>1 DEF OneThreadEach
  <2> QED BY <1>3, <1>4, <2>2, <2>8
<1> QED BY <1>5, <1>6

LEMMA DispatchKeepsJobs ==
  ASSUME JobsInv, NEW x \in JobsOf, Jobs!DispatchJob(x)
  PROVE  JobsInv'
<1>1. /\ life[x] = "created" /\ Jobs!CountOff(x, "pending")
      /\ UNCHANGED <<deps, next, missed, children, closed, waitFor, workerPc, job, childrenJobs>>
  BY DEF Jobs!DispatchJob, Jobs!setupVars, Jobs!handleVars, Jobs!workerVars
<1>2. /\ life' \in [JobsOf -> Stages] /\ counter' \in [JobsOf -> Int]
      /\ queue' \in [Workers -> Seq(JobsOf)]
      /\ OneThreadEach' /\ HandlesInv'
      /\ \A y \in JobsOf : y # x => life'[y] = life[y] /\ counter'[y] = counter[y]
      /\ counter'[x] = counter[x] - 1
      /\ life'[x] = IF counter[x] = 1 THEN "queued" ELSE "pending"
  BY <1>1, CountOffQueues
<1>3. JobShapes'
  BY <1>1, <1>2 DEF JobsInv, JobShapes
<1>4. \A y \in JobsOf : Outstanding(y)' = Outstanding(y)
  BY <1>1 DEF Outstanding, Told
<1>5. DepsInPlace' /\ CountedOff'
  BY <1>1, <1>4 DEF JobsInv, DepsInPlace, CountedOff
<1>6. counter[x] = Cardinality(Outstanding(x)) + 1
  BY <1>1 DEF JobsInv, CountsRight, Held
<1>7. CountsRight'
  <2>1. Cardinality(Outstanding(x)) \in Nat
    BY OutstandingSize DEF JobsInv
  <2>2. counter'[x] = Cardinality(Outstanding(x))
    BY <1>2, <1>6, <2>1
  <2> QED BY <1>2, <1>4, <2>2 DEF JobsInv, CountsRight, Held
<1>8. StagesOfJobs'
  <2>1. counter[x] = 1 => Outstanding(x) = {}
    BY <1>6, OutstandingSize, FS_EmptySet DEF JobsInv
  <2>2. missed[x] = {} /\ next[x] = Len(deps[x]) + 1
    BY <1>1 DEF JobsInv, StagesOfJobs
  <2> QED BY <1>1, <1>2, <1>4, <2>1, <2>2 DEF JobsInv, StagesOfJobs, Done
<1> QED BY <1>2, <1>3, <1>5, <1>7, <1>8 DEF JobsInv

(* The child is outstanding, so it is neither queued nor without its lock,  *)
(* if this is the last count.                                               *)
LEMMA DispatchChildKeepsJobs ==
  ASSUME JobsInv, NEW w \in Workers, Jobs!DispatchChild(w)
  PROVE  JobsInv'
<1>1. PICK child \in childrenJobs[w] :
         /\ childrenJobs' = [childrenJobs EXCEPT ![w] = @ \ {child}]
         /\ Jobs!CountOff(child[1], life[child[1]])
  BY DEF Jobs!DispatchChild
<1>2. UNCHANGED <<deps, next, missed, children, closed, waitFor, workerPc, job>>
  BY DEF Jobs!DispatchChild, Jobs!setupVars, Jobs!handleVars
<1>3. PICK x \in JobsOf, k \in Nat : child = <<x, k>>
  BY DEF JobsInv, JobShapes
<1>4. /\ Jobs!CountOff(x, life[x]) /\ <<x, k>> \in childrenJobs[w]
      /\ childrenJobs' = [childrenJobs EXCEPT ![w] = @ \ {<<x, k>>}]
  BY <1>1, <1>3
<1>5. /\ k \in 1 .. next[x] - 1 /\ closed[deps[x][k]] /\ k \notin missed[x]
      /\ next[x] <= Len(deps[x]) + 1 /\ next[x] \in Nat /\ Len(deps[x]) \in Nat
      /\ deps[x] \in Seq(Tasks)
  BY <1>4 DEF JobsInv, DepsInPlace, JobShapes
<1>6. k \in 1 .. Len(deps[x]) /\ ~(k >= next[x]) /\ deps[x][k] \in Tasks
  BY <1>5
<1>7. k \in Outstanding(x)
  BY <1>4, <1>6 DEF Outstanding, Told
<1>8. life[x] \in {"setup", "created", "pending"}
  <2>1. life[x] # "none"
    BY <1>5 DEF JobsInv, StagesOfJobs
  <2>2. life[x] \in Stages
    BY DEF JobsInv, JobShapes
  <2> QED BY <1>7, <2>1, <2>2 DEF JobsInv, StagesOfJobs, Stages, Held, Done
<1>9. /\ life' \in [JobsOf -> Stages] /\ counter' \in [JobsOf -> Int]
      /\ queue' \in [Workers -> Seq(JobsOf)]
      /\ OneThreadEach' /\ HandlesInv'
      /\ \A y \in JobsOf : y # x => life'[y] = life[y] /\ counter'[y] = counter[y]
      /\ counter'[x] = counter[x] - 1
      /\ life'[x] = IF counter[x] = 1 THEN "queued" ELSE life[x]
  BY <1>2, <1>4, <1>8, CountOffQueues
<1>10. /\ childrenJobs' \in [Workers -> SUBSET (JobsOf \X Nat)]
       /\ childrenJobs'[w] = childrenJobs[w] \ {<<x, k>>}
       /\ \A u \in Workers : u # w => childrenJobs'[u] = childrenJobs[u]
  BY <1>4 DEF JobsInv, JobShapes
<1>11. JobShapes'
  BY <1>2, <1>9, <1>10 DEF JobsInv, JobShapes
<1>12. \A y \in JobsOf : \A j \in Nat :
         Told(y, j)' <=> Told(y, j) /\ ~(y = x /\ j = k)
  <2>1. \A u \in Workers : u # w => <<x, k>> \notin childrenJobs[u]
    BY <1>4 DEF JobsInv, DepsInPlace
  <2>2. ASSUME NEW y \in JobsOf, NEW j \in Nat
        PROVE  Told(y, j)' <=> Told(y, j) /\ ~(y = x /\ j = k)
    BY <1>10, <2>1 DEF Told
  <2> QED BY <2>2
<1>13. ~(<<x, k>> \in children[deps[x][k]])
  BY <1>5, <1>6 DEF JobsInv, DepsInPlace
<1>14. /\ Outstanding(x)' = Outstanding(x) \ {k}
       /\ \A y \in JobsOf : y # x => Outstanding(y)' = Outstanding(y)
  <2>1. ASSUME NEW y \in JobsOf, NEW j \in Nat
        PROVE  j \in Outstanding(y)' <=> j \in Outstanding(y) /\ ~(y = x /\ j = k)
    BY <1>2, <1>5, <1>6, <1>12, <1>13 DEF Outstanding
  <2>2. ASSUME NEW y \in JobsOf
        PROVE  Outstanding(y) \subseteq Nat /\ Outstanding(y)' \subseteq Nat
    <3>1. /\ Outstanding(y) \subseteq 1 .. Len(deps[y])
          /\ Outstanding(y)' \subseteq 1 .. Len(deps[y])
      BY <1>2 DEF Outstanding
    <3> QED BY <3>1
  <2> QED BY <2>1, <2>2
<1>15. Cardinality(Outstanding(x)') = Cardinality(Outstanding(x)) - 1
  <2>1. IsFiniteSet(Outstanding(x))
    BY OutstandingSize DEF JobsInv
  <2> QED BY <1>7, <1>14, <2>1, FS_RemoveElement
<1>16. DepsInPlace'
  BY <1>2, <1>10 DEF JobsInv, DepsInPlace
<1>17. CountedOff'
  BY <1>2, <1>5, <1>14 DEF JobsInv, CountedOff
<1>18. /\ counter[x] = Cardinality(Outstanding(x)) + (IF life[x] \in Held THEN 1 ELSE 0)
       /\ Cardinality(Outstanding(x)) \in Nat /\ Cardinality(Outstanding(x)') \in Nat
  <2>1. IsFiniteSet(Outstanding(x)')
    BY <1>14, OutstandingSize, FS_Subset DEF JobsInv
  <2> QED BY <2>1, OutstandingSize, FS_CardinalityType DEF JobsInv, CountsRight
<1>19. counter[x] = 1 => life[x] \notin Held /\ Cardinality(Outstanding(x)') = 0
  BY <1>15, <1>18
<1>20. counter[x] = 1 => Outstanding(x)' = {}
  BY <1>14, <1>19, OutstandingSize, FS_Subset, FS_EmptySet DEF JobsInv
<1>21. CountsRight'
  <2>1. life'[x] \in Held <=> life[x] \in Held
    BY <1>9, <1>19 DEF Held
  <2>2. counter'[x] = Cardinality(Outstanding(x)') + (IF life'[x] \in Held THEN 1 ELSE 0)
    BY <1>9, <1>15, <1>18, <2>1
  <2> QED BY <1>9, <1>14, <2>2 DEF JobsInv, CountsRight
<1>22. StagesOfJobs'
  <2>1. counter[x] = 1 => life[x] # "setup"
    BY <1>19 DEF Held
  <2> QED BY <1>2, <1>8, <1>9, <1>14, <1>20, <2>1 DEF JobsInv, StagesOfJobs, Done
<1> QED BY <1>9, <1>11, <1>16, <1>17, <1>21, <1>22 DEF JobsInv

(* A job gets its prerequisites: nobody knows it yet.                       *)
LEMMA SetUpBegins ==
  ASSUME JobsInv, NEW t \in JobsOf, NEW D \in Seq(Tasks), life[t] = "none",
         life' = [life EXCEPT ![t] = "setup"], deps' = [deps EXCEPT ![t] = D],
         counter' = [counter EXCEPT ![t] = @ + Len(D)],
         UNCHANGED <<next, missed, children, closed, childrenJobs>>,
         \A w \in Workers : workerPc[w] = "children" => workerPc'[w] = "children"
  PROVE  /\ life' \in [JobsOf -> Stages] /\ counter' \in [JobsOf -> Int]
         /\ deps' \in [JobsOf -> Seq(Tasks)]
         /\ life'[t] = "setup" /\ \A y \in JobsOf : y # t => life'[y] = life[y]
         /\ DepsInPlace' /\ CountedOff' /\ CountsRight' /\ StagesOfJobs'
<1> DEFINE n == Len(D)
<1>6. /\ life' \in [JobsOf -> Stages] /\ counter' \in [JobsOf -> Int]
      /\ deps' \in [JobsOf -> Seq(Tasks)] /\ n \in Nat
      /\ life'[t] = "setup" /\ deps'[t] = D /\ counter'[t] = counter[t] + n
      /\ \A y \in JobsOf : y # t =>
           life'[y] = life[y] /\ deps'[y] = deps[y] /\ counter'[y] = counter[y]
  BY DEF JobsInv, JobShapes, Stages, Held
<1>7. /\ deps[t] = <<>> /\ next[t] = 1 /\ missed[t] = {}
      /\ counter[t] = Cardinality(Outstanding(t)) + 1
  BY DEF JobsInv, StagesOfJobs, CountsRight, Held
<1>9. \A y \in JobsOf : y # t => Outstanding(y)' = Outstanding(y)
  BY <1>6 DEF Outstanding, Told
<1>10. Outstanding(t)' = 1 .. n /\ Outstanding(t) = {}
  BY <1>6, <1>7 DEF Outstanding
<1>11. Cardinality(Outstanding(t)') = n /\ Cardinality(Outstanding(t)) = 0
  BY <1>6, <1>10, FS_Interval, FS_EmptySet
<1>12. \A e \in Tasks : \A k \in Nat : <<t, k>> \notin children[e]
  BY <1>7 DEF JobsInv, DepsInPlace
<1>13. \A w \in Workers : \A k \in Nat : <<t, k>> \notin childrenJobs[w]
  BY <1>7 DEF JobsInv, DepsInPlace
<1>14. DepsInPlace'
  <2>1. \A x \in JobsOf :
          /\ next'[x] <= Len(deps'[x]) + 1
          /\ \A k \in missed'[x] : k \in 1 .. next'[x] - 1 /\ closed'[deps'[x][k]]
    <3>1. next'[t] <= Len(deps'[t]) + 1 /\ missed'[t] = {}
      BY <1>6, <1>7
    <3> QED BY <1>6, <3>1 DEF JobsInv, DepsInPlace
  <2>2. ASSUME NEW e \in Tasks, NEW x \in JobsOf, NEW k \in Nat, <<x, k>> \in children'[e]
        PROVE  k \in 1 .. next'[x] - 1 /\ deps'[x][k] = e /\ ~closed'[e]
    <3>1. x # t /\ <<x, k>> \in children[e]
      BY <1>12, <2>2
    <3>2. k \in 1 .. next[x] - 1 /\ deps[x][k] = e /\ ~closed[e]
      BY <3>1 DEF JobsInv, DepsInPlace
    <3> QED BY <1>6, <3>1, <3>2
  <2>3. \A w \in Workers : \A x \in JobsOf : \A k \in Nat :
          <<x, k>> \in childrenJobs'[w] =>
            /\ k \in 1 .. next'[x] - 1 /\ closed'[deps'[x][k]]
            /\ k \notin missed'[x] /\ workerPc'[w] = "children"
    BY <1>6, <1>13 DEF JobsInv, DepsInPlace
  <2>4. \A v, w \in Workers : v # w => childrenJobs'[v] \cap childrenJobs'[w] = {}
    BY DEF JobsInv, DepsInPlace
  <2> QED BY <2>1, <2>2, <2>3, <2>4 DEF DepsInPlace
<1>15. CountedOff'
  BY <1>6, <1>9, <1>10 DEF JobsInv, CountedOff
<1>16. CountsRight'
  <2>1. counter'[t] = Cardinality(Outstanding(t)') + 1
    BY <1>6, <1>7, <1>11
  <2> QED BY <1>6, <1>9, <2>1 DEF JobsInv, CountsRight, Held
<1>17. StagesOfJobs'
  BY <1>6, <1>9 DEF JobsInv, StagesOfJobs, Done
<1> QED BY <1>6, <1>14, <1>15, <1>16, <1>17

LEMMA CreateKeepsJobs ==
  ASSUME JobsInv, NEW t \in Tasks, Jobs!Create(t)
  PROVE  JobsInv'
<1>1. PICK n \in 0 .. MaxDeps : \E D \in [1 .. n -> Jobs!Lower(t)] :
        deps' = [deps EXCEPT ![t] = D] /\ counter' = [counter EXCEPT ![t] = @ + n]
  BY DEF Jobs!Create
<1>2. PICK D \in [1 .. n -> Jobs!Lower(t)] :
        deps' = [deps EXCEPT ![t] = D] /\ counter' = [counter EXCEPT ![t] = @ + n]
  BY <1>1
<1>3. /\ life[t] = "none" /\ life' = [life EXCEPT ![t] = "setup"]
      /\ UNCHANGED <<next, missed, children, closed, waitFor, queue, workerPc, job, childrenJobs>>
  BY DEF Jobs!Create, Jobs!handleVars, Jobs!queueVars, Jobs!workerVars
<1>4. D \in Seq(Tasks) /\ Len(D) = n
  <2>1. n \in Nat
    BY JobsAssumed DEF Jobs!JobsAssumption
  <2>2. D \in [1 .. n -> Tasks]
    BY DEF Jobs!Lower
  <2> QED BY <2>1, <2>2
<1>5. t \in JobsOf /\ \A u \in Tasks : GatherOf[u] # t
  BY KindsOfJobs
<1>6. /\ life' \in [JobsOf -> Stages] /\ counter' \in [JobsOf -> Int]
      /\ deps' \in [JobsOf -> Seq(Tasks)]
      /\ life'[t] = "setup" /\ \A y \in JobsOf : y # t => life'[y] = life[y]
      /\ DepsInPlace' /\ CountedOff' /\ CountsRight' /\ StagesOfJobs'
  BY <1>2, <1>3, <1>4, <1>5, SetUpBegins
<1>7. JobShapes'
  BY <1>3, <1>6 DEF JobsInv, JobShapes
<1>8. OneThreadEach'
  BY <1>3, <1>6, ThreadsKeep DEF JobsInv
<1>9. HandlesInv'
  <2>1. \A y \in JobsOf : life[y] \in Done => life'[y] \in Done
    BY <1>3, <1>6 DEF Done
  <2>2. \A u \in Tasks : life'[GatherOf[u]] = "none" <=> life[GatherOf[u]] = "none"
    BY <1>5, <1>6, KindsOfJobs
  <2> QED BY <1>3, <2>1, <2>2, HandlesKeep DEF JobsInv
<1> QED BY <1>6, <1>7, <1>8, <1>9 DEF JobsInv

(* The prerequisite that the loop of CreateJob comes to is a child now, or  *)
(* counted in nWaitFor; it stays outstanding.                               *)
LEMMA AddIfNotClosedKeepsJobs ==
  ASSUME JobsInv, NEW x \in JobsOf, Jobs!AddIfNotClosed(x)
  PROVE  JobsInv'
<1> DEFINE n == next[x]
           e == deps[x][n]
<1>1. /\ life[x] = "setup" /\ n <= Len(deps[x])
      /\ next' = [next EXCEPT ![x] = @ + 1]
      /\ UNCHANGED <<life, counter, deps, closed, waitFor, queue, workerPc, job, childrenJobs>>
      /\ \/ closed[e] /\ missed' = [missed EXCEPT ![x] = @ \cup {n}] /\ UNCHANGED children
         \/ /\ ~closed[e] /\ UNCHANGED missed
            /\ children' = [children EXCEPT ![e] = @ \cup {<<x, n>>}]
  BY DEF Jobs!AddIfNotClosed, Jobs!queueVars, Jobs!workerVars
<1>2. /\ n \in Nat \ {0} /\ Len(deps[x]) \in Nat /\ deps[x] \in Seq(Tasks)
      /\ n \in 1 .. Len(deps[x]) /\ e \in Tasks
  BY <1>1 DEF JobsInv, JobShapes
<1>3. /\ next' \in [JobsOf -> Nat \ {0}] /\ next'[x] = n + 1
      /\ \A y \in JobsOf : y # x => next'[y] = next[y]
  BY <1>1 DEF JobsInv, JobShapes
<1>4. /\ missed' \in [JobsOf -> SUBSET Nat] /\ children' \in [Tasks -> SUBSET (JobsOf \X Nat)]
      /\ \A y \in JobsOf : y # x => missed'[y] = missed[y]
      /\ \A d \in Tasks : d # e => children'[d] = children[d]
      /\ \/ closed[e] /\ missed'[x] = missed[x] \cup {n} /\ children'[e] = children[e]
         \/ ~closed[e] /\ missed'[x] = missed[x] /\ children'[e] = children[e] \cup {<<x, n>>}
  <2>1. missed \in [JobsOf -> SUBSET Nat] /\ children \in [Tasks -> SUBSET (JobsOf \X Nat)]
    BY DEF JobsInv, JobShapes
  <2>2. n \in Nat /\ <<x, n>> \in JobsOf \X Nat
    BY <1>2
  <2> HIDE DEF n, e
  <2>3. CASE closed[e] /\ missed' = [missed EXCEPT ![x] = @ \cup {n}] /\ UNCHANGED children
    BY <2>1, <2>2, <2>3
  <2>4. CASE /\ ~closed[e] /\ UNCHANGED missed
             /\ children' = [children EXCEPT ![e] = @ \cup {<<x, n>>}]
    BY <1>2, <2>1, <2>2, <2>4
  <2> QED BY <1>1, <2>3, <2>4
<1>a. \A y \in JobsOf : next[y] \in Nat /\ next'[y] \in Nat /\ next[y] <= next'[y]
  <2>1. \A y \in JobsOf : next[y] \in Nat /\ next'[y] \in Nat
    BY <1>3 DEF JobsInv, JobShapes
  <2> QED BY <1>3, <2>1
<1> HIDE DEF n
<1>5. JobShapes'
  BY <1>1, <1>3, <1>4 DEF JobsInv, JobShapes
<1>6. \A y \in JobsOf : Outstanding(y)' = Outstanding(y)
  <2>1. ASSUME NEW y \in JobsOf, NEW k \in 1 .. Len(deps[y])
        PROVE  k \in Outstanding(y)' <=> k \in Outstanding(y)
    <3>1. deps[y] \in Seq(Tasks) /\ Len(deps[y]) \in Nat /\ next[y] \in Nat /\ deps[y][k] \in Tasks
      BY DEF JobsInv, JobShapes
    <3>2. Told(y, k)' <=> Told(y, k)
      BY <1>1 DEF Told
    <3>3. CASE y # x
      <4>1. \A d \in Tasks : <<y, k>> \in children'[d] <=> <<y, k>> \in children[d]
        BY <1>4, <3>3
      <4> QED BY <1>1, <1>3, <1>4, <3>1, <3>2, <3>3, <4>1 DEF Outstanding
    <3>4. CASE y = x /\ k # n
      <4>1. \A d \in Tasks : <<y, k>> \in children'[d] <=> <<y, k>> \in children[d]
        BY <1>4, <3>4
      <4>2. k >= next'[y] <=> k >= next[y]
        BY <1>2, <1>3, <3>1, <3>4 DEF n
      <4>3. k \in missed'[y] <=> k \in missed[y]
        BY <1>4, <3>4
      <4> QED BY <1>1, <3>1, <3>2, <4>1, <4>2, <4>3 DEF Outstanding
    <3>5. CASE y = x /\ k = n
      <4>1. k \in Outstanding(y)
        BY <1>2, <3>1, <3>5 DEF Outstanding, n
      <4>2. k \in missed'[y] \/ <<y, k>> \in children'[deps[y][k]]
        BY <1>4, <3>5
      <4> QED BY <1>1, <4>1, <4>2 DEF Outstanding
    <3> QED BY <3>3, <3>4, <3>5
  <2>2. \A y \in JobsOf : /\ Outstanding(y) \subseteq 1 .. Len(deps[y])
                          /\ Outstanding(y)' \subseteq 1 .. Len(deps[y])
    BY <1>1 DEF Outstanding
  <2> QED BY <2>1, <2>2
<1>7. DepsInPlace'
  <2>1. \A y \in JobsOf :
          /\ next'[y] <= Len(deps'[y]) + 1
          /\ \A k \in missed'[y] : k \in 1 .. next'[y] - 1 /\ closed'[deps'[y][k]]
    <3>1. \A k \in 1 .. n - 1 : k \in 1 .. n
      BY <1>2
    <3>2. /\ next'[x] <= Len(deps'[x]) + 1
          /\ \A k \in missed'[x] : k \in 1 .. next'[x] - 1 /\ closed'[deps'[x][k]]
      <4>1. next'[x] - 1 = n /\ n \in 1 .. n /\ next'[x] <= Len(deps'[x]) + 1
        BY <1>1, <1>2, <1>3
      <4>2. \A k \in missed[x] : k \in 1 .. n - 1 /\ closed[deps[x][k]]
        BY DEF JobsInv, DepsInPlace, n
      <4> QED BY <1>1, <1>4, <3>1, <4>1, <4>2
    <3> QED BY <1>1, <1>3, <1>4, <3>2 DEF JobsInv, DepsInPlace
  <2>2. ASSUME NEW d \in Tasks, NEW y \in JobsOf, NEW k \in Nat, <<y, k>> \in children'[d]
        PROVE  k \in 1 .. next'[y] - 1 /\ deps'[y][k] = d /\ ~closed'[d]
    <3>1. CASE <<y, k>> \in children[d]
      <4>1. k \in 1 .. next[y] - 1 /\ deps[y][k] = d /\ ~closed[d]
        BY <3>1 DEF JobsInv, DepsInPlace
      <4>2. next[y] \in Nat /\ next'[y] \in Nat /\ next[y] <= next'[y]
        BY <1>a
      <4> QED BY <1>1, <4>1, <4>2
    <3>2. CASE <<y, k>> \notin children[d]
      <4>1. d = e /\ y = x /\ k = n /\ ~closed[e]
        BY <1>4, <2>2, <3>2
      <4>2. k \in 1 .. next'[y] - 1
        BY <1>2, <1>3, <4>1
      <4> QED BY <1>1, <4>1, <4>2
    <3> QED BY <3>1, <3>2
  <2>3. ASSUME NEW w \in Workers, NEW y \in JobsOf, NEW k \in Nat, <<y, k>> \in childrenJobs'[w]
        PROVE  /\ k \in 1 .. next'[y] - 1 /\ closed'[deps'[y][k]]
               /\ k \notin missed'[y] /\ workerPc'[w] = "children"
    <3>1. /\ k \in 1 .. next[y] - 1 /\ closed[deps[y][k]]
          /\ k \notin missed[y] /\ workerPc[w] = "children"
      BY <1>1, <2>3 DEF JobsInv, DepsInPlace
    <3>2. next[y] \in Nat /\ next'[y] \in Nat /\ next[y] <= next'[y]
      BY <1>a
    <3>3. ~(y = x /\ k = n)
      BY <3>1, <3>2 DEF n
    <3>4. k \notin missed'[y]
      BY <1>4, <3>1, <3>3
    <3> QED BY <1>1, <3>1, <3>2, <3>4
  <2>4. \A v, w \in Workers : v # w => childrenJobs'[v] \cap childrenJobs'[w] = {}
    BY <1>1 DEF JobsInv, DepsInPlace
  <2> QED BY <2>1, <2>2, <2>3, <2>4 DEF DepsInPlace
<1>8. CountedOff' /\ CountsRight'
  BY <1>1, <1>6 DEF JobsInv, CountedOff, CountsRight
<1>9. StagesOfJobs'
  BY <1>1, <1>3, <1>4, <1>6 DEF JobsInv, StagesOfJobs, Done
<1>10. OneThreadEach'
  BY <1>1, ThreadsKeep DEF JobsInv
<1>11. HandlesInv'
  BY <1>1 DEF JobsInv, HandlesInv
<1> QED BY <1>5, <1>7, <1>8, <1>9, <1>10, <1>11 DEF JobsInv

(* nWaitFor is counted off: what was missed has completed.                  *)
LEMMA CreatedKeepsJobs ==
  ASSUME JobsInv, NEW x \in JobsOf, Jobs!Created(x)
  PROVE  JobsInv'
<1>1. /\ life[x] = "setup" /\ next[x] > Len(deps[x])
      /\ counter' = [counter EXCEPT ![x] = @ - Cardinality(missed[x])]
      /\ missed' = [missed EXCEPT ![x] = {}] /\ life' = [life EXCEPT ![x] = "created"]
      /\ UNCHANGED <<deps, next, children, closed, waitFor, queue, workerPc, job, childrenJobs>>
  BY SameSize DEF Jobs!Created, Jobs!NumMissed, Jobs!handleVars, Jobs!queueVars, Jobs!workerVars
<1>2. /\ deps[x] \in Seq(Tasks) /\ Len(deps[x]) \in Nat /\ next[x] \in Nat
      /\ next[x] = Len(deps[x]) + 1
      /\ \A k \in missed[x] : k \in 1 .. Len(deps[x]) /\ closed[deps[x][k]]
  <2>1. deps[x] \in Seq(Tasks) /\ next[x] \in Nat /\ next[x] <= Len(deps[x]) + 1
    BY DEF JobsInv, JobShapes, DepsInPlace
  <2>2. next[x] = Len(deps[x]) + 1
    BY <1>1, <2>1
  <2>3. \A k \in missed[x] : k \in 1 .. next[x] - 1 /\ closed[deps[x][k]]
    BY DEF JobsInv, DepsInPlace
  <2> QED BY <2>1, <2>2, <2>3
<1>3. missed[x] \subseteq Outstanding(x)
  BY <1>2 DEF Outstanding
<1>4. IsFiniteSet(missed[x]) /\ Cardinality(missed[x]) \in Nat
  BY <1>3, OutstandingSize, FS_Subset, FS_CardinalityType DEF JobsInv
<1>5. /\ life' \in [JobsOf -> Stages] /\ counter' \in [JobsOf -> Int]
      /\ missed' \in [JobsOf -> SUBSET Nat]
      /\ life'[x] = "created" /\ missed'[x] = {}
      /\ counter'[x] = counter[x] - Cardinality(missed[x])
      /\ \A y \in JobsOf : y # x =>
           life'[y] = life[y] /\ missed'[y] = missed[y] /\ counter'[y] = counter[y]
  BY <1>1, <1>4 DEF JobsInv, JobShapes, Stages, Held
<1>6. JobShapes'
  BY <1>1, <1>5 DEF JobsInv, JobShapes
<1>7. \A y \in JobsOf : y # x => Outstanding(y)' = Outstanding(y)
  BY <1>1, <1>5 DEF Outstanding, Told
<1>8. Outstanding(x)' = Outstanding(x) \ missed[x]
  <2>1. ASSUME NEW k \in missed[x]
        PROVE  ~(k >= next[x]) /\ <<x, k>> \notin children[deps[x][k]] /\ ~Told(x, k)
    <3>1. k \in 1 .. Len(deps[x]) /\ closed[deps[x][k]] /\ deps[x][k] \in Tasks /\ k \in Nat
      BY <1>2
    <3>2. ~(k >= next[x])
      BY <1>2, <3>1
    <3>3. <<x, k>> \notin children[deps[x][k]]
      BY <3>1 DEF JobsInv, DepsInPlace
    <3>4. ~Told(x, k)
      BY <3>1 DEF JobsInv, DepsInPlace, Told
    <3> QED BY <3>2, <3>3, <3>4
  <2>2. \A k : Told(x, k)' <=> Told(x, k)
    BY <1>1 DEF Told
  <2> QED BY <1>1, <1>5, <2>1, <2>2 DEF Outstanding
<1>9. Cardinality(Outstanding(x)') = Cardinality(Outstanding(x)) - Cardinality(missed[x])
  <2>1. Cardinality(Outstanding(x) \ missed[x]) =
          Cardinality(Outstanding(x)) - Cardinality(Outstanding(x) \cap missed[x])
    BY OutstandingSize, FS_Difference DEF JobsInv
  <2>2. Outstanding(x) \cap missed[x] = missed[x]
    BY <1>3
  <2> QED BY <1>8, <2>1, <2>2
<1>10. DepsInPlace'
  <2>1. \A y \in JobsOf : \A k \in missed'[y] : k \in missed[y]
    BY <1>5
  <2> QED BY <1>1, <2>1 DEF JobsInv, DepsInPlace
<1>11. CountedOff'
  <2>1. \A k \in 1 .. Len(deps[x]) : k \notin Outstanding(x)' => closed[deps[x][k]]
    BY <1>2, <1>8 DEF JobsInv, CountedOff
  <2> QED BY <1>1, <1>7, <2>1 DEF JobsInv, CountedOff
<1>12. CountsRight'
  <2>1. counter[x] = Cardinality(Outstanding(x)) + 1 /\ Cardinality(Outstanding(x)) \in Nat
    BY <1>1, OutstandingSize DEF JobsInv, CountsRight, Held
  <2>2. counter'[x] = Cardinality(Outstanding(x)') + 1
    BY <1>4, <1>5, <1>9, <2>1
  <2> QED BY <1>5, <1>7, <2>2 DEF JobsInv, CountsRight, Held
<1>13. StagesOfJobs'
  BY <1>1, <1>2, <1>5, <1>7 DEF JobsInv, StagesOfJobs, Done
<1>14. OneThreadEach'
  BY <1>1, <1>5, ThreadsKeep DEF JobsInv
<1>15. HandlesInv'
  <2>1. \A y \in JobsOf : /\ life[y] \in Done => life'[y] \in Done
                          /\ life'[y] = "none" <=> life[y] = "none"
    BY <1>1, <1>5 DEF Done
  <2> QED BY <1>1, <2>1, HandlesKeep, KindsOfJobs DEF JobsInv
<1> QED BY <1>6, <1>10, <1>11, <1>12, <1>13, <1>14, <1>15 DEF JobsInv

(* Steps that only move a thread to another place.                          *)
LEMMA MovesKeepJobs ==
  ASSUME JobsInv, NEW w \in Workers,
         Jobs!WakeUp(w) \/ Jobs!TimeOut(w) \/ Jobs!NullJobDispatched(w)
  PROVE  JobsInv'
<1>1. UNCHANGED <<life, counter, deps, next, missed, children, closed, waitFor, queue, job,
                  childrenJobs>>
  BY DEF Jobs!WakeUp, Jobs!TimeOut, Jobs!NullJobDispatched, Jobs!setupVars, Jobs!handleVars,
         Jobs!queueVars
<1>2. \/ workerPc[w] = "wait" /\ workerPc' = [workerPc EXCEPT ![w] = "pop"]
      \/ workerPc[w] = "gather" /\ workerPc' = [workerPc EXCEPT ![w] = "children"]
  BY DEF Jobs!WakeUp, Jobs!TimeOut, Jobs!NullJobDispatched, Jobs!Goto
<1>3. /\ workerPc' \in [Workers -> Places]
      /\ \A u \in Workers : u # w => workerPc'[u] = workerPc[u]
      /\ \/ workerPc[w] = "wait" /\ workerPc'[w] = "pop"
         \/ workerPc[w] = "gather" /\ workerPc'[w] = "children"
  BY <1>2 DEF JobsInv, JobShapes, Places
<1>4. JobShapes'
  BY <1>1, <1>3 DEF JobsInv, JobShapes
<1>5. DepsInPlace' /\ CountedOff' /\ CountsRight' /\ StagesOfJobs'
  <2>1. \A u \in Workers : workerPc[u] = "children" => workerPc'[u] = "children"
    BY <1>3
  <2> QED BY <1>1, <2>1, CountsKeep
<1>6. OneThreadEach'
  <2>1. \A u \in Workers :
          /\ workerPc'[u] \in {"pop", "wait"} <=> job'[u] = NoJob
          /\ workerPc'[u] = "task" => life'[job'[u]] = "running"
          /\ workerPc'[u] \in {"subsequents", "gather", "children"} =>
               life'[job'[u]] = "finished"
    BY <1>1, <1>3 DEF JobsInv, OneThreadEach
  <2> QED BY <1>1, <2>1 DEF JobsInv, OneThreadEach
<1>7. HandlesInv'
  <2>1. \A u \in Workers : workerPc'[u] = "subsequents" => workerPc[u] = "subsequents"
    BY <1>3
  <2> QED BY <1>1, <2>1, HandlesKeep DEF JobsInv
<1> QED BY <1>4, <1>5, <1>6, <1>7 DEF JobsInv

(* A thread takes the last job of its array, or goes to its wait.           *)
LEMMA PopKeepsJobs ==
  ASSUME JobsInv, NEW w \in Workers, Jobs!Pop(w)
  PROVE  JobsInv'
<1>1. /\ workerPc[w] = "pop"
      /\ UNCHANGED <<counter, deps, next, missed, children, closed, waitFor, childrenJobs>>
  BY DEF Jobs!Pop, Jobs!setupVars, Jobs!handleVars
<1>2. CASE UNCHANGED <<queue, job, life>> /\ workerPc' = [workerPc EXCEPT ![w] = "wait"]
  <2>1. /\ workerPc' \in [Workers -> Places] /\ workerPc'[w] = "wait"
        /\ \A u \in Workers : u # w => workerPc'[u] = workerPc[u]
    BY <1>2 DEF JobsInv, JobShapes, Places
  <2>2. JobShapes'
    BY <1>1, <1>2, <2>1 DEF JobsInv, JobShapes
  <2>3. DepsInPlace' /\ CountedOff' /\ CountsRight' /\ StagesOfJobs'
    <3>1. \A u \in Workers : workerPc[u] = "children" => workerPc'[u] = "children"
      BY <1>1, <2>1
    <3> QED BY <1>1, <1>2, <3>1, CountsKeep
  <2>4. OneThreadEach'
    <3>1. \A u \in Workers :
            /\ workerPc'[u] \in {"pop", "wait"} <=> job'[u] = NoJob
            /\ workerPc'[u] = "task" => life'[job'[u]] = "running"
            /\ workerPc'[u] \in {"subsequents", "gather", "children"} =>
                 life'[job'[u]] = "finished"
      BY <1>1, <1>2, <2>1 DEF JobsInv, OneThreadEach
    <3> QED BY <1>2, <3>1 DEF JobsInv, OneThreadEach
  <2>5. HandlesInv'
    <3>1. \A u \in Workers : workerPc'[u] = "subsequents" => workerPc[u] = "subsequents"
      BY <2>1
    <3> QED BY <1>1, <1>2, <3>1, HandlesKeep DEF JobsInv
  <2> QED BY <2>2, <2>3, <2>4, <2>5 DEF JobsInv
<1>3. CASE /\ queue[w] # <<>> /\ queue' = [queue EXCEPT ![w] = Jobs!Front(@)]
           /\ job' = [job EXCEPT ![w] = Jobs!Last(queue[w])]
           /\ life' = [life EXCEPT ![Jobs!Last(queue[w])] = "running"]
           /\ workerPc' = [workerPc EXCEPT ![w] = "task"]
  <2> DEFINE n == Len(queue[w])
             x == queue[w][n]
  <2>1. /\ n \in Nat \ {0} /\ n \in 1 .. n /\ queue[w] \in Seq(JobsOf) /\ x \in JobsOf
        /\ Jobs!Last(queue[w]) = x /\ Jobs!Front(queue[w]) \in Seq(JobsOf)
        /\ Len(Jobs!Front(queue[w])) = n - 1
        /\ \A i \in 1 .. n - 1 : Jobs!Front(queue[w])[i] = queue[w][i]
    <3>1. queue[w] \in Seq(JobsOf) /\ queue[w] # <<>>
      BY <1>3 DEF JobsInv, JobShapes
    <3>2. ASSUME NEW s \in Seq(JobsOf), s # <<>>
          PROVE  /\ Len(s) \in Nat \ {0} /\ Len(s) \in 1 .. Len(s) /\ s[Len(s)] \in JobsOf
                 /\ SubSeq(s, 1, Len(s) - 1) \in Seq(JobsOf)
                 /\ Len(SubSeq(s, 1, Len(s) - 1)) = Len(s) - 1
                 /\ \A i \in 1 .. Len(s) - 1 : SubSeq(s, 1, Len(s) - 1)[i] = s[i]
      <4> DEFINE l == Len(s)
      <4>1. l \in Nat \ {0} /\ l \in 1 .. l /\ \A i \in 1 .. l : s[i] \in JobsOf
        BY <3>2
      <4> HIDE DEF l
      <4>2. l - 1 \in Int /\ \A i \in 1 .. l - 1 : i \in 1 .. l /\ 1 + i - 1 = i
        BY <4>1
      <4>3. /\ SubSeq(s, 1, l - 1) \in Seq(JobsOf)
            /\ Len(SubSeq(s, 1, l - 1)) = IF 1 <= l - 1 THEN (l - 1) - 1 + 1 ELSE 0
            /\ \A i \in 1 .. (l - 1) - 1 + 1 : SubSeq(s, 1, l - 1)[i] = s[1 + i - 1]
        BY <4>1, <4>2, SubSeqProperties
      <4>4. (l - 1) - 1 + 1 = l - 1 /\ (IF 1 <= l - 1 THEN (l - 1) - 1 + 1 ELSE 0) = l - 1
        BY <4>1
      <4>5. \A i \in 1 .. l - 1 : SubSeq(s, 1, l - 1)[i] = s[i]
        BY <4>2, <4>3, <4>4
      <4> QED BY <4>1, <4>3, <4>4, <4>5 DEF l
    <3> QED BY <3>1, <3>2 DEF Jobs!Last, Jobs!Front
  <2> HIDE DEF n, x
  <2>2. life[x] = "queued"
    BY <2>1 DEF JobsInv, OneThreadEach, n, x
  <2>3. /\ life' \in [JobsOf -> Stages] /\ job' \in [Workers -> JobsOf \cup {NoJob}]
        /\ queue' \in [Workers -> Seq(JobsOf)] /\ workerPc' \in [Workers -> Places]
        /\ life'[x] = "running" /\ \A y \in JobsOf : y # x => life'[y] = life[y]
        /\ job'[w] = x /\ workerPc'[w] = "task" /\ queue'[w] = Jobs!Front(queue[w])
        /\ \A u \in Workers : u # w =>
             job'[u] = job[u] /\ workerPc'[u] = workerPc[u] /\ queue'[u] = queue[u]
    BY <1>3, <2>1 DEF JobsInv, JobShapes, Stages, Places
  <2>4. JobShapes'
    BY <1>1, <2>3 DEF JobsInv, JobShapes
  <2>5. DepsInPlace' /\ CountedOff' /\ CountsRight' /\ StagesOfJobs'
    <3>1. \A u \in Workers : workerPc[u] = "children" => workerPc'[u] = "children"
      BY <1>1, <2>3
    <3>2. \A y \in JobsOf : life'[y] = life[y] \/ /\ life[y] \in {"queued", "running"} \cup Done
                                                  /\ life'[y] \in {"running"} \cup Done
      BY <2>2, <2>3
    <3> QED BY <1>1, <3>1, <3>2, CountsKeep
  <2>6. \A u \in Workers : \A i \in 1 .. Len(queue'[u]) :
          /\ i \in 1 .. Len(queue[u]) /\ queue'[u][i] = queue[u][i]
          /\ queue[u][i] \in JobsOf /\ queue[u][i] # x /\ life'[queue[u][i]] = "queued"
    <3>1. ASSUME NEW u \in Workers, NEW i \in 1 .. Len(queue'[u])
          PROVE  /\ i \in 1 .. Len(queue[u]) /\ queue'[u][i] = queue[u][i]
                 /\ ~(u = w /\ i = n)
      <4>1. CASE u = w
        <5>1. i \in 1 .. n - 1
          BY <2>1, <2>3, <3>1, <4>1
        <5>2. i \in 1 .. n /\ i # n
          BY <2>1, <5>1
        <5> QED BY <2>1, <2>3, <4>1, <5>1, <5>2 DEF n
      <4>2. CASE u # w
        BY <2>3, <3>1, <4>2
      <4> QED BY <4>1, <4>2
    <3>2. \A u \in Workers : \A i \in 1 .. Len(queue[u]) :
            queue[u][i] \in JobsOf /\ life[queue[u][i]] = "queued"
      BY DEF JobsInv, JobShapes, OneThreadEach
    <3>3. \A u \in Workers : \A i \in 1 .. Len(queue[u]) :
            queue[u][i] = x => u = w /\ i = n
      BY <2>1 DEF JobsInv, OneThreadEach, n, x
    <3>4. ASSUME NEW u \in Workers, NEW i \in 1 .. Len(queue'[u])
          PROVE  /\ queue[u][i] \in JobsOf /\ queue[u][i] # x
                 /\ life'[queue[u][i]] = "queued"
      <4>1. /\ queue[u][i] \in JobsOf /\ life[queue[u][i]] = "queued"
            /\ queue[u][i] # x
        BY <3>1, <3>2, <3>3
      <4> QED BY <2>3, <4>1
    <3> QED BY <3>1, <3>4
  <2>7. OneThreadEach'
    <3>1. \A u \in Workers : \A i \in 1 .. Len(queue'[u]) : life'[queue'[u][i]] = "queued"
      BY <2>6
    <3>2. \A u, v \in Workers : \A i \in 1 .. Len(queue'[u]) : \A j \in 1 .. Len(queue'[v]) :
            queue'[u][i] = queue'[v][j] => u = v /\ i = j
      <4>1. \A u, v \in Workers : \A i \in 1 .. Len(queue[u]) : \A j \in 1 .. Len(queue[v]) :
              queue[u][i] = queue[v][j] => u = v /\ i = j
        BY DEF JobsInv, OneThreadEach
      <4> QED BY <2>6, <4>1
    <3>3. \A u \in Workers : job[u] # NoJob =>
            job[u] \in JobsOf /\ life[job[u]] \in {"running", "finished"}
      BY DEF JobsInv, JobShapes, OneThreadEach, Places
    <3>4. \A u, v \in Workers : u # v /\ job'[u] = job'[v] => job'[u] = NoJob
      <4>1. \A u \in Workers : job[u] # x
        BY <2>1, <2>2, <3>3, KindsOfJobs
      <4>2. \A u, v \in Workers : u # v /\ job[u] = job[v] => job[u] = NoJob
        BY DEF JobsInv, OneThreadEach
      <4>3. \A u \in Workers : job'[u] = IF u = w THEN x ELSE job[u]
        BY <2>3
      <4> QED BY <4>1, <4>2, <4>3
    <3>5. \A u \in Workers :
            /\ workerPc'[u] \in {"pop", "wait"} <=> job'[u] = NoJob
            /\ workerPc'[u] = "task" => life'[job'[u]] = "running"
            /\ workerPc'[u] \in {"subsequents", "gather", "children"} =>
                 life'[job'[u]] = "finished"
      <4>1. ASSUME NEW u \in Workers, u # w
            PROVE  /\ workerPc'[u] \in {"pop", "wait"} <=> job'[u] = NoJob
                   /\ workerPc'[u] = "task" => life'[job'[u]] = "running"
                   /\ workerPc'[u] \in {"subsequents", "gather", "children"} =>
                        life'[job'[u]] = "finished"
        <5>1. /\ workerPc'[u] = workerPc[u] /\ job'[u] = job[u]
              /\ job[u] # NoJob => life'[job[u]] = life[job[u]]
          BY <2>2, <2>3, <3>3, <4>1
        <5> QED BY <5>1 DEF JobsInv, OneThreadEach
      <4>2. /\ workerPc'[w] = "task" /\ job'[w] = x /\ x # NoJob /\ life'[x] = "running"
        BY <2>1, <2>3, KindsOfJobs
      <4> QED BY <4>1, <4>2
    <3> QED BY <3>1, <3>2, <3>4, <3>5 DEF OneThreadEach
  <2>8. HandlesInv'
    <3>1. \A u \in Workers : workerPc'[u] = "subsequents" =>
            workerPc[u] = "subsequents" /\ job'[u] = job[u]
      BY <2>3
    <3>2. \A y \in JobsOf : /\ life[y] \in Done => life'[y] \in Done
                            /\ life'[y] = "none" <=> life[y] = "none"
      BY <2>2, <2>3 DEF Done
    <3> QED BY <1>1, <3>1, <3>2, HandlesKeep, KindsOfJobs DEF JobsInv
  <2> QED BY <2>4, <2>5, <2>7, <2>8 DEF JobsInv
<1> QED BY <1>2, <1>3 DEF Jobs!Pop, Jobs!Goto

LEMMA TaskReturnsKeepsJobs ==
  ASSUME JobsInv, NEW w \in Workers, Jobs!TaskReturns(w)
  PROVE  JobsInv'
<1> DEFINE x == job[w]
<1>1. /\ workerPc[w] = "task" /\ life' = [life EXCEPT ![x] = "finished"]
      /\ workerPc' = [workerPc EXCEPT ![w] = "subsequents"]
      /\ UNCHANGED <<counter, deps, next, missed, children, closed, waitFor, queue, job,
                     childrenJobs>>
  BY DEF Jobs!TaskReturns, Jobs!Goto, Jobs!setupVars, Jobs!handleVars, Jobs!queueVars
<1>2. x \in JobsOf /\ x # NoJob /\ life[x] = "running"
  <2>1. x \in JobsOf \cup {NoJob}
    BY DEF JobsInv, JobShapes
  <2>2. x # NoJob /\ life[x] = "running"
    BY <1>1 DEF JobsInv, OneThreadEach
  <2> QED BY <2>1, <2>2
<1>3. /\ life' \in [JobsOf -> Stages] /\ workerPc' \in [Workers -> Places]
      /\ life'[x] = "finished" /\ \A y \in JobsOf : y # x => life'[y] = life[y]
      /\ workerPc'[w] = "subsequents"
      /\ \A u \in Workers : u # w => workerPc'[u] = workerPc[u]
  BY <1>1, <1>2 DEF JobsInv, JobShapes, Stages, Done, Places
<1>4. \A u \in Workers : u # w /\ job[u] # NoJob => job[u] \in JobsOf /\ job[u] # x
  BY <1>2 DEF JobsInv, JobShapes, OneThreadEach
<1>5. \A u \in Workers : \A i \in 1 .. Len(queue[u]) : queue[u][i] \in JobsOf /\ queue[u][i] # x
  BY <1>2 DEF JobsInv, JobShapes, OneThreadEach
<1> HIDE DEF x
<1>6. JobShapes'
  BY <1>1, <1>3 DEF JobsInv, JobShapes
<1>7. DepsInPlace' /\ CountedOff' /\ CountsRight' /\ StagesOfJobs'
  <2>1. \A u \in Workers : workerPc[u] = "children" => workerPc'[u] = "children"
    BY <1>1, <1>3
  <2>2. \A y \in JobsOf : life'[y] = life[y] \/ /\ life[y] \in {"queued", "running"} \cup Done
                                                /\ life'[y] \in {"running"} \cup Done
    BY <1>2, <1>3 DEF Done
  <2> QED BY <1>1, <2>1, <2>2, CountsKeep
<1>8. OneThreadEach'
  <2>1. \A u \in Workers : \A i \in 1 .. Len(queue'[u]) : life'[queue'[u][i]] = "queued"
    BY <1>1, <1>3, <1>5 DEF JobsInv, OneThreadEach
  <2>2. ASSUME NEW u \in Workers, u # w
        PROVE  /\ workerPc'[u] \in {"pop", "wait"} <=> job'[u] = NoJob
               /\ workerPc'[u] = "task" => life'[job'[u]] = "running"
               /\ workerPc'[u] \in {"subsequents", "gather", "children"} =>
                    life'[job'[u]] = "finished"
    <3>1. /\ workerPc'[u] = workerPc[u] /\ job'[u] = job[u]
          /\ job[u] # NoJob => life'[job[u]] = life[job[u]]
      BY <1>1, <1>3, <1>4, <2>2
    <3> QED BY <3>1 DEF JobsInv, OneThreadEach
  <2>3. workerPc'[w] = "subsequents" /\ job'[w] = x /\ x # NoJob /\ life'[x] = "finished"
    BY <1>1, <1>2, <1>3 DEF x
  <2>4. \A u \in Workers :
          /\ workerPc'[u] \in {"pop", "wait"} <=> job'[u] = NoJob
          /\ workerPc'[u] = "task" => life'[job'[u]] = "running"
          /\ workerPc'[u] \in {"subsequents", "gather", "children"} =>
               life'[job'[u]] = "finished"
    BY <2>2, <2>3
  <2> QED BY <1>1, <2>1, <2>4 DEF JobsInv, OneThreadEach
<1>9. HandlesInv'
  <2>1. \A t \in Tasks : t \in JobsOf /\ GatherOf[t] \in JobsOf /\ GatherOf[t] \notin Tasks
    BY KindsOfJobs
  <2>2. ASSUME NEW t \in Tasks
        PROVE  /\ closed'[t] => life'[t] \in Done /\ life'[GatherOf[t]] \in {"none"} \cup Done
               /\ life'[GatherOf[t]] # "none" => waitFor'[t] = <<>> /\ life'[t] \in Done
    <3>1. /\ life'[t] = life[t] \/ t = x
          /\ life'[GatherOf[t]] = life[GatherOf[t]] \/ GatherOf[t] = x
      BY <1>3, <2>1
    <3>2. /\ closed[t] => life[t] \in Done /\ life[GatherOf[t]] \in {"none"} \cup Done
          /\ life[GatherOf[t]] # "none" => waitFor[t] = <<>> /\ life[t] \in Done
      BY DEF JobsInv, HandlesInv
    <3> QED BY <1>1, <1>2, <1>3, <3>1, <3>2 DEF Done
  <2>3. ASSUME NEW u \in Workers, workerPc'[u] = "subsequents", u # w
        PROVE  /\ job'[u] \in Tasks => ~closed'[job'[u]] /\ life'[GatherOf[job'[u]]] = "none"
               /\ \A t \in Tasks : job'[u] = GatherOf[t] => ~closed'[t]
    <3>1. workerPc[u] = "subsequents" /\ job'[u] = job[u] /\ closed' = closed
      BY <1>1, <1>3, <2>3
    <3>2. /\ job[u] \in Tasks => ~closed[job[u]] /\ life[GatherOf[job[u]]] = "none"
          /\ \A t \in Tasks : job[u] = GatherOf[t] => ~closed[t]
      BY <3>1 DEF JobsInv, HandlesInv
    <3> QED BY <1>2, <1>3, <2>1, <3>1, <3>2
  <2>4. /\ x \in Tasks => ~closed[x] /\ life[GatherOf[x]] = "none"
        /\ \A t \in Tasks : x = GatherOf[t] => ~closed[t]
    BY <1>2 DEF JobsInv, HandlesInv, Done
  <2>5. /\ job'[w] \in Tasks => ~closed'[job'[w]] /\ life'[GatherOf[job'[w]]] = "none"
        /\ \A t \in Tasks : job'[w] = GatherOf[t] => ~closed'[t]
    BY <1>1, <1>2, <1>3, <2>1, <2>4 DEF x
  <2> QED BY <2>2, <2>3, <2>5 DEF HandlesInv
<1> QED BY <1>6, <1>7, <1>8, <1>9 DEF JobsInv

LEMMA DeleteJobKeepsJobs ==
  ASSUME JobsInv, NEW w \in Workers, Jobs!DeleteJob(w)
  PROVE  JobsInv'
<1> DEFINE x == job[w]
<1>1. /\ workerPc[w] = "children" /\ childrenJobs[w] = {}
      /\ life' = [life EXCEPT ![x] = "deleted"] /\ job' = [job EXCEPT ![w] = NoJob]
      /\ workerPc' = [workerPc EXCEPT ![w] = "pop"]
      /\ UNCHANGED <<counter, deps, next, missed, children, closed, waitFor, queue,
                     childrenJobs>>
  BY DEF Jobs!DeleteJob, Jobs!Goto, Jobs!setupVars, Jobs!handleVars, Jobs!queueVars
<1>2. x \in JobsOf /\ x # NoJob /\ life[x] = "finished"
  <2>1. x \in JobsOf \cup {NoJob}
    BY DEF JobsInv, JobShapes
  <2>2. x # NoJob /\ life[x] = "finished"
    BY <1>1 DEF JobsInv, OneThreadEach
  <2> QED BY <2>1, <2>2
<1>3. /\ life' \in [JobsOf -> Stages] /\ workerPc' \in [Workers -> Places]
      /\ job' \in [Workers -> JobsOf \cup {NoJob}]
      /\ life'[x] = "deleted" /\ \A y \in JobsOf : y # x => life'[y] = life[y]
      /\ workerPc'[w] = "pop" /\ job'[w] = NoJob
      /\ \A u \in Workers : u # w => workerPc'[u] = workerPc[u] /\ job'[u] = job[u]
  BY <1>1, <1>2 DEF JobsInv, JobShapes, Stages, Done, Places
<1>4. \A u \in Workers : u # w /\ job[u] # NoJob => job[u] \in JobsOf /\ job[u] # x
  BY <1>2 DEF JobsInv, JobShapes, OneThreadEach
<1>5. \A u \in Workers : \A i \in 1 .. Len(queue[u]) : queue[u][i] \in JobsOf /\ queue[u][i] # x
  BY <1>2 DEF JobsInv, JobShapes, OneThreadEach
<1> HIDE DEF x
<1>6. JobShapes'
  BY <1>1, <1>3 DEF JobsInv, JobShapes
<1>7. DepsInPlace' /\ CountedOff' /\ CountsRight' /\ StagesOfJobs'
  <2>1. \A u \in Workers :
          workerPc[u] = "children" => workerPc'[u] = "children" \/ childrenJobs[u] = {}
    BY <1>1, <1>3
  <2>2. \A y \in JobsOf : life'[y] = life[y] \/ /\ life[y] \in {"queued", "running"} \cup Done
                                                /\ life'[y] \in {"running"} \cup Done
    BY <1>2, <1>3 DEF Done
  <2> QED BY <1>1, <2>1, <2>2, CountsKeep
<1>8. OneThreadEach'
  <2>1. \A u \in Workers : \A i \in 1 .. Len(queue'[u]) : life'[queue'[u][i]] = "queued"
    BY <1>1, <1>3, <1>5 DEF JobsInv, OneThreadEach
  <2>2. ASSUME NEW u \in Workers, u # w
        PROVE  /\ workerPc'[u] \in {"pop", "wait"} <=> job'[u] = NoJob
               /\ workerPc'[u] = "task" => life'[job'[u]] = "running"
               /\ workerPc'[u] \in {"subsequents", "gather", "children"} =>
                    life'[job'[u]] = "finished"
    <3>1. /\ workerPc'[u] = workerPc[u] /\ job'[u] = job[u]
          /\ job[u] # NoJob => life'[job[u]] = life[job[u]]
      BY <1>3, <1>4, <2>2
    <3> QED BY <3>1 DEF JobsInv, OneThreadEach
  <2>3. \A u \in Workers :
          /\ workerPc'[u] \in {"pop", "wait"} <=> job'[u] = NoJob
          /\ workerPc'[u] = "task" => life'[job'[u]] = "running"
          /\ workerPc'[u] \in {"subsequents", "gather", "children"} =>
               life'[job'[u]] = "finished"
    BY <1>3, <2>2
  <2>4. \A u, v \in Workers : u # v /\ job'[u] = job'[v] => job'[u] = NoJob
    BY <1>3 DEF JobsInv, OneThreadEach
  <2> QED BY <1>1, <2>1, <2>3, <2>4 DEF JobsInv, OneThreadEach
<1>9. HandlesInv'
  <2>1. \A u \in Workers : workerPc'[u] = "subsequents" =>
          workerPc[u] = "subsequents" /\ job'[u] = job[u]
    BY <1>3
  <2>2. \A y \in JobsOf : /\ life[y] \in Done => life'[y] \in Done
                          /\ life'[y] = "none" <=> life[y] = "none"
    BY <1>2, <1>3 DEF Done
  <2> QED BY <1>1, <2>1, <2>2, HandlesKeep, KindsOfJobs DEF JobsInv
<1> QED BY <1>6, <1>7, <1>8, <1>9 DEF JobsInv

LEMMA DoNotCompleteKeepsJobs ==
  ASSUME JobsInv, NEW w \in Workers, Jobs!DoNotCompleteUnitl(w)
  PROVE  JobsInv'
<1>1. PICK e \in Jobs!Lower(job[w]) : waitFor' = [waitFor EXCEPT ![job[w]] = Append(@, e)]
  BY DEF Jobs!DoNotCompleteUnitl
<1>2. /\ workerPc[w] = "task" /\ job[w] \in Tasks /\ e \in Tasks
      /\ UNCHANGED <<life, counter, deps, next, missed, children, closed, queue, workerPc, job,
                     childrenJobs>>
  BY DEF Jobs!DoNotCompleteUnitl, Jobs!Lower, Jobs!setupVars, Jobs!queueVars, Jobs!workerVars
<1>3. /\ waitFor' \in [Tasks -> Seq(Tasks)]
      /\ \A t \in Tasks : t # job[w] => waitFor'[t] = waitFor[t]
  BY <1>1, <1>2 DEF JobsInv, JobShapes
<1>4. JobShapes'
  BY <1>2, <1>3 DEF JobsInv, JobShapes
<1>5. DepsInPlace' /\ CountedOff' /\ CountsRight' /\ StagesOfJobs'
  BY <1>2, CountsKeep
<1>6. OneThreadEach'
  BY <1>2, ThreadsKeep DEF JobsInv
<1>7. HandlesInv'
  <2>1. life[job[w]] = "running"
    BY <1>2 DEF JobsInv, OneThreadEach
  <2>2. \A t \in Tasks : life[GatherOf[t]] # "none" => t # job[w]
    BY <2>1 DEF JobsInv, HandlesInv, Done
  <2> QED BY <1>2, <1>3, <2>2 DEF JobsInv, HandlesInv
<1> QED BY <1>4, <1>5, <1>6, <1>7 DEF JobsInv

(* The job that dispatches its subsequents has its handle last.             *)
LEMMA LastOfTheHandle ==
  ASSUME JobsInv, NEW w \in Workers, workerPc[w] = "subsequents"
  PROVE  LET e == Jobs!HandleOf(job[w]) IN
         /\ e \in Tasks /\ ~closed[e] /\ life[e] \in Done
         /\ life[GatherOf[e]] \in {"none"} \cup Done
         /\ job[w] \in JobsOf /\ life[job[w]] = "finished"
         /\ \/ job[w] = e /\ life[GatherOf[e]] = "none"
            \/ job[w] = GatherOf[e] /\ waitFor[e] = <<>>
         /\ \A u \in Workers \ {w} :
              workerPc[u] = "subsequents" => job[u] # e /\ job[u] # GatherOf[e]
<1> DEFINE e == Jobs!HandleOf(job[w])
<1>1. job[w] \in JobsOf /\ life[job[w]] = "finished"
  <2>1. job[w] \in JobsOf \cup {NoJob}
    BY DEF JobsInv, JobShapes
  <2>2. job[w] # NoJob /\ life[job[w]] = "finished"
    BY DEF JobsInv, OneThreadEach
  <2> QED BY <2>1, <2>2
<1>2. /\ e \in Tasks /\ GatherOf[e] \in JobsOf /\ GatherOf[e] \notin Tasks
      /\ job[w] = e \/ job[w] = GatherOf[e]
  BY <1>1, KindsOfJobs
<1> HIDE DEF e
<1>3. /\ life[GatherOf[e]] # "none" => waitFor[e] = <<>> /\ life[e] \in Done
      /\ job[w] \in Tasks => ~closed[job[w]] /\ life[GatherOf[job[w]]] = "none"
      /\ job[w] = GatherOf[e] => ~closed[e]
  BY <1>2 DEF JobsInv, HandlesInv
<1>4. ASSUME NEW u \in Workers \ {w}, workerPc[u] = "subsequents"
      PROVE  job[u] # e /\ job[u] # GatherOf[e]
  <2>1. job[u] # job[w] /\ life[job[u]] = "finished"
    BY <1>4 DEF JobsInv, OneThreadEach
  <2>2. job[u] = e => life[GatherOf[e]] = "none"
    BY <1>2, <1>4 DEF JobsInv, HandlesInv
  <2> QED BY <1>1, <1>2, <1>3, <2>1, <2>2
<1>5. /\ e \in Tasks /\ ~closed[e] /\ life[e] \in Done
      /\ life[GatherOf[e]] \in {"none"} \cup Done
      /\ \/ job[w] = e /\ life[GatherOf[e]] = "none"
         \/ job[w] = GatherOf[e] /\ waitFor[e] = <<>>
  BY <1>1, <1>2, <1>3 DEF Done
<1> QED BY <1>1, <1>4, <1>5 DEF e

(* The null job takes the handle over: it has not been used before.         *)
LEMMA NullJobKeepsJobs ==
  ASSUME JobsInv, NEW w \in Workers, Jobs!CreateNullJob(w)
  PROVE  JobsInv'
<1> DEFINE e == Jobs!HandleOf(job[w])
           g == GatherOf[e]
<1>1. /\ workerPc[w] = "subsequents" /\ waitFor[e] # <<>>
      /\ deps' = [deps EXCEPT ![g] = waitFor[e]]
      /\ counter' = [counter EXCEPT ![g] = @ + Len(waitFor[e])]
      /\ waitFor' = [waitFor EXCEPT ![e] = <<>>] /\ life' = [life EXCEPT ![g] = "setup"]
      /\ workerPc' = [workerPc EXCEPT ![w] = "gather"]
      /\ UNCHANGED <<next, missed, children, closed, queue, job, childrenJobs>>
  BY DEF Jobs!CreateNullJob, Jobs!HasToWait, Jobs!Goto, Jobs!queueVars
<1>2. /\ e \in Tasks /\ ~closed[e] /\ job[w] = e /\ life[g] = "none" /\ life[e] = "finished"
      /\ \A u \in Workers \ {w} : workerPc[u] = "subsequents" => job[u] # e /\ job[u] # g
  BY <1>1, LastOfTheHandle
<1>3. g \in JobsOf /\ g \notin Tasks /\ \A t \in Tasks : GatherOf[t] = g => t = e
  BY <1>2, KindsOfJobs
<1> HIDE DEF e, g
<1>4. /\ waitFor[e] \in Seq(Tasks) /\ waitFor' \in [Tasks -> Seq(Tasks)] /\ waitFor'[e] = <<>>
      /\ \A t \in Tasks : t # e => waitFor'[t] = waitFor[t]
      /\ workerPc' \in [Workers -> Places] /\ workerPc'[w] = "gather"
      /\ \A u \in Workers : u # w => workerPc'[u] = workerPc[u]
  BY <1>1, <1>2 DEF JobsInv, JobShapes, Places
<1>5. /\ life' \in [JobsOf -> Stages] /\ counter' \in [JobsOf -> Int]
      /\ deps' \in [JobsOf -> Seq(Tasks)]
      /\ life'[g] = "setup" /\ \A y \in JobsOf : y # g => life'[y] = life[y]
      /\ DepsInPlace' /\ CountedOff' /\ CountsRight' /\ StagesOfJobs'
  <2>1. \A u \in Workers : workerPc[u] = "children" => workerPc'[u] = "children"
    BY <1>1, <1>4
  <2> QED BY <1>1, <1>2, <1>3, <1>4, <2>1, SetUpBegins
<1>6. JobShapes'
  BY <1>1, <1>4, <1>5 DEF JobsInv, JobShapes
<1>7. OneThreadEach'
  <2>1. \A u \in Workers : \A i \in 1 .. Len(queue'[u]) : life'[queue'[u][i]] = "queued"
    <3>1. \A u \in Workers : \A i \in 1 .. Len(queue[u]) :
            queue[u][i] \in JobsOf /\ life[queue[u][i]] = "queued"
      BY DEF JobsInv, JobShapes, OneThreadEach
    <3> QED BY <1>1, <1>2, <1>5, <3>1
  <2>2. ASSUME NEW u \in Workers
        PROVE  /\ workerPc'[u] \in {"pop", "wait"} <=> job'[u] = NoJob
               /\ workerPc'[u] = "task" => life'[job'[u]] = "running"
               /\ workerPc'[u] \in {"subsequents", "gather", "children"} =>
                    life'[job'[u]] = "finished"
    <3>1. /\ workerPc[u] \in {"pop", "wait"} <=> job[u] = NoJob
          /\ workerPc[u] = "task" => life[job[u]] = "running"
          /\ workerPc[u] \in {"subsequents", "gather", "children"} => life[job[u]] = "finished"
      BY DEF JobsInv, OneThreadEach
    <3>2. job[u] \in JobsOf \cup {NoJob} /\ workerPc[u] \in Places
      BY DEF JobsInv, JobShapes
    <3>3. workerPc[u] \notin {"pop", "wait"} => life'[job[u]] = life[job[u]]
      BY <1>2, <1>5, <3>1, <3>2 DEF Places
    <3> QED BY <1>1, <1>4, <3>1, <3>3
  <2> QED BY <1>1, <2>1, <2>2 DEF JobsInv, OneThreadEach
<1>8. HandlesInv'
  <2>1. \A t \in Tasks : /\ t \in JobsOf /\ GatherOf[t] \in JobsOf /\ t # g
                         /\ GatherOf[t] = g <=> t = e
    BY <1>3, KindsOfJobs DEF g
  <2>2. ASSUME NEW t \in Tasks
        PROVE  /\ closed'[t] => life'[t] \in Done /\ life'[GatherOf[t]] \in {"none"} \cup Done
               /\ life'[GatherOf[t]] # "none" => waitFor'[t] = <<>> /\ life'[t] \in Done
    <3>1. /\ closed[t] => life[t] \in Done /\ life[GatherOf[t]] \in {"none"} \cup Done
          /\ life[GatherOf[t]] # "none" => waitFor[t] = <<>> /\ life[t] \in Done
      BY DEF JobsInv, HandlesInv
    <3>2. CASE t = e
      BY <1>1, <1>2, <1>4, <1>5, <2>1, <3>2 DEF Done
    <3>3. CASE t # e
      BY <1>1, <1>4, <1>5, <2>1, <3>1, <3>3
    <3> QED BY <3>2, <3>3
  <2>3. ASSUME NEW u \in Workers, workerPc'[u] = "subsequents"
        PROVE  /\ job'[u] \in Tasks => ~closed'[job'[u]] /\ life'[GatherOf[job'[u]]] = "none"
               /\ \A t \in Tasks : job'[u] = GatherOf[t] => ~closed'[t]
    <3>1. /\ u # w /\ workerPc[u] = "subsequents" /\ job'[u] = job[u] /\ closed' = closed
      BY <1>1, <1>4, <2>3
    <3>2. /\ job[u] \in Tasks => ~closed[job[u]] /\ life[GatherOf[job[u]]] = "none"
          /\ \A t \in Tasks : job[u] = GatherOf[t] => ~closed[t]
      BY <3>1 DEF JobsInv, HandlesInv
    <3>3. job[u] # e
      BY <1>2, <3>1
    <3> QED BY <1>5, <2>1, <3>1, <3>2, <3>3
  <2> QED BY <2>2, <2>3 DEF HandlesInv
<1> QED BY <1>5, <1>6, <1>7, <1>8 DEF JobsInv

(* The handle is closed and its children change hands at one instant.       *)
LEMMA CloseKeepsJobs ==
  ASSUME JobsInv, NEW w \in Workers, Jobs!GetArrayValueAndClosed(w)
  PROVE  JobsInv'
<1> DEFINE e == Jobs!HandleOf(job[w])
           g == GatherOf[e]
<1>1. /\ workerPc[w] = "subsequents"
      /\ childrenJobs' = [childrenJobs EXCEPT ![w] = children[e]]
      /\ children' = [children EXCEPT ![e] = {}] /\ closed' = [closed EXCEPT ![e] = TRUE]
      /\ workerPc' = [workerPc EXCEPT ![w] = "children"]
      /\ UNCHANGED <<life, counter, deps, next, missed, waitFor, queue, job>>
  BY DEF Jobs!GetArrayValueAndClosed, Jobs!Goto, Jobs!setupVars, Jobs!queueVars
<1>2. /\ e \in Tasks /\ ~closed[e] /\ life[e] \in Done /\ life[g] \in {"none"} \cup Done
      /\ \A u \in Workers \ {w} : workerPc[u] = "subsequents" => job[u] # e /\ job[u] # g
  BY <1>1, LastOfTheHandle
<1>3. \A t \in Tasks : GatherOf[t] = g => t = e
  BY <1>2, KindsOfJobs
<1> HIDE DEF e, g
<1>4. /\ childrenJobs' \in [Workers -> SUBSET (JobsOf \X Nat)]
      /\ children' \in [Tasks -> SUBSET (JobsOf \X Nat)] /\ closed' \in [Tasks -> BOOLEAN]
      /\ workerPc' \in [Workers -> Places]
      /\ childrenJobs'[w] = children[e] /\ children'[e] = {} /\ closed'[e] = TRUE
      /\ workerPc'[w] = "children"
      /\ \A u \in Workers : u # w =>
           childrenJobs'[u] = childrenJobs[u] /\ workerPc'[u] = workerPc[u]
      /\ \A d \in Tasks : d # e => children'[d] = children[d] /\ closed'[d] = closed[d]
  BY <1>1, <1>2 DEF JobsInv, JobShapes, Places
<1>5. JobShapes'
  BY <1>1, <1>4 DEF JobsInv, JobShapes
<1>6. \A x \in JobsOf : \A k \in Nat : <<x, k>> \notin childrenJobs[w]
  BY <1>1 DEF JobsInv, DepsInPlace
<1>7. \A x \in JobsOf : \A k \in 1 .. Len(deps[x]) :
        deps[x][k] \in Tasks /\ k \in Nat /\ (closed[deps[x][k]] => closed'[deps[x][k]])
  <2>1. ASSUME NEW x \in JobsOf, NEW k \in 1 .. Len(deps[x])
        PROVE  deps[x][k] \in Tasks /\ k \in Nat
    <3>1. deps[x] \in Seq(Tasks)
      BY DEF JobsInv, JobShapes
    <3> QED BY <3>1
  <2>2. \A d \in Tasks : closed[d] => closed'[d]
    BY <1>4
  <2> QED BY <2>1, <2>2
<1>8. \A x \in JobsOf : \A k \in Nat : k \in 1 .. next[x] - 1 => k \in 1 .. Len(deps[x])
  <2>1. \A x \in JobsOf : next[x] \in Nat /\ Len(deps[x]) \in Nat /\ next[x] <= Len(deps[x]) + 1
    BY DEF JobsInv, JobShapes, DepsInPlace
  <2> QED BY <2>1
<1>9. \A x \in JobsOf : \A k \in Nat : Told(x, k)' <=> Told(x, k) \/ <<x, k>> \in children[e]
  BY <1>4, <1>6 DEF Told
<1>10. \A x \in JobsOf : \A k \in Nat : \A d \in Tasks :
         <<x, k>> \in children[d] => k \in 1 .. next[x] - 1 /\ deps[x][k] = d /\ ~closed[d]
  BY DEF JobsInv, DepsInPlace
<1>11. \A x \in JobsOf : Outstanding(x)' = Outstanding(x)
  <2>1. ASSUME NEW x \in JobsOf, NEW k \in 1 .. Len(deps[x])
        PROVE  k \in Outstanding(x)' <=> k \in Outstanding(x)
    <3>1. <<x, k>> \in children'[deps[x][k]] \/ Told(x, k)' <=>
            <<x, k>> \in children[deps[x][k]] \/ Told(x, k)
      BY <1>2, <1>4, <1>7, <1>9, <1>10
    <3> QED BY <1>1, <3>1 DEF Outstanding
  <2>2. \A x \in JobsOf : /\ Outstanding(x) \subseteq 1 .. Len(deps[x])
                          /\ Outstanding(x)' \subseteq 1 .. Len(deps[x])
    BY <1>1 DEF Outstanding
  <2> QED BY <2>1, <2>2
<1>12. DepsInPlace'
  <2>1. \A x \in JobsOf :
          /\ next'[x] <= Len(deps'[x]) + 1
          /\ \A k \in missed'[x] : k \in 1 .. next'[x] - 1 /\ closed'[deps'[x][k]]
    <3>1. \A x \in JobsOf :
            /\ next[x] <= Len(deps[x]) + 1
            /\ \A k \in missed[x] : k \in 1 .. next[x] - 1 /\ closed[deps[x][k]]
      BY DEF JobsInv, DepsInPlace
    <3> QED BY <1>1, <1>7, <1>8, <3>1
  <2>2. \A d \in Tasks : \A x \in JobsOf : \A k \in Nat :
          <<x, k>> \in children'[d] =>
            k \in 1 .. next'[x] - 1 /\ deps'[x][k] = d /\ ~closed'[d]
    BY <1>1, <1>4, <1>10
  <2>3. ASSUME NEW u \in Workers, NEW x \in JobsOf, NEW k \in Nat, <<x, k>> \in childrenJobs'[u]
        PROVE  /\ k \in 1 .. next'[x] - 1 /\ closed'[deps'[x][k]]
               /\ k \notin missed'[x] /\ workerPc'[u] = "children"
    <3>1. CASE u = w
      <4>1. k \in 1 .. next[x] - 1 /\ deps[x][k] = e
        BY <1>2, <1>4, <1>10, <2>3, <3>1
      <4>2. k \notin missed[x]
        BY <1>2, <4>1 DEF JobsInv, DepsInPlace
      <4> QED BY <1>1, <1>4, <3>1, <4>1, <4>2
    <3>2. CASE u # w
      <4>1. /\ k \in 1 .. next[x] - 1 /\ closed[deps[x][k]]
            /\ k \notin missed[x] /\ workerPc[u] = "children"
        BY <1>4, <2>3, <3>2 DEF JobsInv, DepsInPlace
      <4> QED BY <1>1, <1>4, <1>7, <1>8, <3>2, <4>1
    <3> QED BY <3>1, <3>2
  <2>4. ASSUME NEW u \in Workers, NEW v \in Workers, u # v
        PROVE  childrenJobs'[u] \cap childrenJobs'[v] = {}
    <3>1. \A u1, v1 \in Workers : u1 # v1 => childrenJobs[u1] \cap childrenJobs[v1] = {}
      BY DEF JobsInv, DepsInPlace
    <3>2. \A u1 \in Workers : childrenJobs[u1] \cap children[e] = {}
      <4>1. ASSUME NEW u1 \in Workers, NEW x \in JobsOf, NEW k \in Nat,
                   <<x, k>> \in childrenJobs[u1], <<x, k>> \in children[e]
            PROVE  FALSE
        <5>1. closed[deps[x][k]]
          BY <4>1 DEF JobsInv, DepsInPlace
        <5> QED BY <1>2, <1>10, <4>1, <5>1
      <4>2. \A u1 \in Workers : childrenJobs[u1] \subseteq JobsOf \X Nat
        BY DEF JobsInv, JobShapes
      <4> QED BY <4>1, <4>2
    <3> QED BY <1>4, <2>4, <3>1, <3>2
  <2> QED BY <2>1, <2>2, <2>3, <2>4 DEF DepsInPlace
<1>13. CountedOff'
  BY <1>1, <1>7, <1>11 DEF JobsInv, CountedOff
<1>14. CountsRight' /\ StagesOfJobs'
  BY <1>1, <1>11 DEF JobsInv, CountsRight, StagesOfJobs
<1>15. OneThreadEach'
  <2>1. \A u \in Workers :
          /\ workerPc'[u] \in {"pop", "wait"} <=> job'[u] = NoJob
          /\ workerPc'[u] = "task" => life'[job'[u]] = "running"
          /\ workerPc'[u] \in {"subsequents", "gather", "children"} =>
               life'[job'[u]] = "finished"
    BY <1>1, <1>4 DEF JobsInv, OneThreadEach
  <2> QED BY <1>1, <2>1 DEF JobsInv, OneThreadEach
<1>16. HandlesInv'
  <2>1. ASSUME NEW t \in Tasks
        PROVE  /\ closed'[t] => life'[t] \in Done /\ life'[GatherOf[t]] \in {"none"} \cup Done
               /\ life'[GatherOf[t]] # "none" => waitFor'[t] = <<>> /\ life'[t] \in Done
    <3>1. /\ closed[t] => life[t] \in Done /\ life[GatherOf[t]] \in {"none"} \cup Done
          /\ life[GatherOf[t]] # "none" => waitFor[t] = <<>> /\ life[t] \in Done
      BY DEF JobsInv, HandlesInv
    <3>2. t = e => life[t] \in Done /\ life[GatherOf[t]] \in {"none"} \cup Done
      BY <1>2 DEF g
    <3> QED BY <1>1, <1>4, <3>1, <3>2
  <2>2. ASSUME NEW u \in Workers, workerPc'[u] = "subsequents"
        PROVE  /\ job'[u] \in Tasks => ~closed'[job'[u]] /\ life'[GatherOf[job'[u]]] = "none"
               /\ \A t \in Tasks : job'[u] = GatherOf[t] => ~closed'[t]
    <3>1. u # w /\ workerPc[u] = "subsequents" /\ job'[u] = job[u] /\ life' = life
      BY <1>1, <1>4, <2>2
    <3>2. /\ job[u] \in Tasks => ~closed[job[u]] /\ life[GatherOf[job[u]]] = "none"
          /\ \A t \in Tasks : job[u] = GatherOf[t] => ~closed[t]
      BY <3>1 DEF JobsInv, HandlesInv
    <3>3. job[u] # e /\ \A t \in Tasks : job[u] = GatherOf[t] => t # e
      BY <1>2, <3>1 DEF g
    <3> QED BY <1>4, <3>1, <3>2, <3>3
  <2> QED BY <2>1, <2>2 DEF HandlesInv
<1> QED BY <1>5, <1>12, <1>13, <1>14, <1>15, <1>16 DEF JobsInv

LEMMA NextKeepsJobs == JobsInv /\ [Jobs!Next]_Jobs!vars => JobsInv'
<1> SUFFICES ASSUME JobsInv, [Jobs!Next]_Jobs!vars PROVE JobsInv'
  OBVIOUS
<1>1. ASSUME NEW t \in Tasks, Jobs!Create(t) PROVE JobsInv'
  BY <1>1, CreateKeepsJobs
<1>2. ASSUME NEW x \in Jobs!Jobs, Jobs!SetUp(x) PROVE JobsInv'
  BY <1>2, KindsOfJobs, AddIfNotClosedKeepsJobs, CreatedKeepsJobs, DispatchKeepsJobs
     DEF Jobs!SetUp
<1>3. ASSUME NEW w \in Workers, Jobs!Run(w) PROVE JobsInv'
  BY <1>3, PopKeepsJobs, MovesKeepJobs, TaskReturnsKeepsJobs, NullJobKeepsJobs,
     CloseKeepsJobs, DispatchChildKeepsJobs, DeleteJobKeepsJobs DEF Jobs!Run
<1>4. ASSUME NEW w \in Workers, Jobs!TimeOut(w) \/ Jobs!DoNotCompleteUnitl(w) PROVE JobsInv'
  BY <1>4, MovesKeepJobs, DoNotCompleteKeepsJobs
<1>5. CASE UNCHANGED Jobs!vars
  <2>1. UNCHANGED <<life, counter, deps, next, missed, children, closed, waitFor, queue,
                    workerPc, job, childrenJobs>>
    BY <1>5 DEF Jobs!vars, Jobs!setupVars, Jobs!handleVars, Jobs!queueVars, Jobs!workerVars
  <2>2. JobShapes'
    BY <2>1 DEF JobsInv, JobShapes
  <2>3. DepsInPlace' /\ CountedOff' /\ CountsRight' /\ StagesOfJobs'
    BY <2>1, CountsKeep
  <2>4. OneThreadEach' /\ HandlesInv'
    BY <2>1, ThreadsKeep, HandlesKeep DEF JobsInv
  <2> QED BY <2>2, <2>3, <2>4 DEF JobsInv
<1> QED BY <1>1, <1>2, <1>3, <1>4, <1>5 DEF Jobs!Next

(* The inductive invariant of the task graph under Test holds throughout.   *)
THEOREM JobsInvariant == Jobs!Spec => []JobsInv
<1> QED BY InitJobs, NextKeepsJobs, PTL DEF Jobs!Spec

-----------------------------------------------------------------------------
(* The task graph under Test implements TaskDag                             *)

JobPhases == [t \in Tasks |-> Jobs!PhaseOf(life[t])]
JobsReleased == {t \in Tasks : life[t] \notin Held}
JobsRequire == [t \in Tasks |-> Jobs!ToSet(deps[t])]
JobsAwait == [t \in Tasks |-> Jobs!Awaited(t)]
HandlesClosed == {t \in Tasks : closed[t]}

(* The steps of TaskDag, in the terms of the mapping.                       *)
LEMMA DagSteps ==
  /\ Jobs!Dag!Init <=> /\ JobPhases = [t \in Tasks |-> "none"] /\ JobsReleased = {}
                       /\ JobsRequire = [t \in Tasks |-> {}]
                       /\ JobsAwait = [t \in Tasks |-> {}] /\ HandlesClosed = {}
  /\ \A t \in Tasks :
       /\ Jobs!Dag!Create(t) <=>
            /\ JobPhases[t] = "none" /\ JobPhases' = [JobPhases EXCEPT ![t] = "created"]
            /\ \E P \in SUBSET Tasks : JobsRequire' = [JobsRequire EXCEPT ![t] = P]
            /\ UNCHANGED <<JobsReleased, JobsAwait, HandlesClosed>>
       /\ Jobs!Dag!Release(t) <=>
            /\ JobPhases[t] = "created" /\ t \notin JobsReleased
            /\ JobsReleased' = JobsReleased \cup {t}
            /\ UNCHANGED <<JobPhases, JobsRequire, JobsAwait, HandlesClosed>>
       /\ Jobs!Dag!Run(t) <=>
            /\ JobPhases[t] = "created" /\ t \in JobsReleased
            /\ JobsRequire[t] \subseteq HandlesClosed
            /\ JobPhases' = [JobPhases EXCEPT ![t] = "running"]
            /\ UNCHANGED <<JobsReleased, JobsRequire, JobsAwait, HandlesClosed>>
       /\ Jobs!Dag!AwaitMore(t) <=>
            /\ JobPhases[t] = "running"
            /\ \E e \in Tasks : JobsAwait' = [JobsAwait EXCEPT ![t] = @ \cup {e}]
            /\ UNCHANGED <<JobPhases, JobsReleased, JobsRequire, HandlesClosed>>
       /\ Jobs!Dag!Finish(t) <=>
            /\ JobPhases[t] = "running" /\ JobPhases' = [JobPhases EXCEPT ![t] = "finished"]
            /\ UNCHANGED <<JobsReleased, JobsRequire, JobsAwait, HandlesClosed>>
       /\ Jobs!Dag!Complete(t) <=>
            /\ JobPhases[t] = "finished" /\ t \in Tasks \ HandlesClosed
            /\ JobsAwait[t] \subseteq HandlesClosed
            /\ HandlesClosed' = HandlesClosed \cup {t}
            /\ UNCHANGED <<JobPhases, JobsReleased, JobsRequire, JobsAwait>>
  /\ UNCHANGED <<JobPhases, JobsReleased, JobsRequire, JobsAwait, HandlesClosed>> =>
       UNCHANGED Jobs!Dag!dagVars
<1> USE DEF JobPhases, JobsReleased, JobsRequire, JobsAwait, HandlesClosed, Held
<1>1. Jobs!Dag!Init <=> /\ JobPhases = [t \in Tasks |-> "none"] /\ JobsReleased = {}
                        /\ JobsRequire = [t \in Tasks |-> {}]
                        /\ JobsAwait = [t \in Tasks |-> {}] /\ HandlesClosed = {}
  BY DEF Jobs!Dag!Init
<1>2. UNCHANGED <<JobPhases, JobsReleased, JobsRequire, JobsAwait, HandlesClosed>> =>
        UNCHANGED Jobs!Dag!dagVars
  BY DEF Jobs!Dag!dagVars
<1> QED BY <1>1, <1>2 DEF Jobs!Dag!Create, Jobs!Dag!Release, Jobs!Dag!Run,
     Jobs!Dag!AwaitMore, Jobs!Dag!Finish, Jobs!Dag!Complete

LEMMA PhasesOfStages ==
  /\ Jobs!PhaseOf("none") = "none" /\ Jobs!PhaseOf("running") = "running"
  /\ \A s \in {"setup", "created", "pending", "queued"} : Jobs!PhaseOf(s) = "created"
  /\ \A s \in Done : Jobs!PhaseOf(s) = "finished"
  BY DEF Jobs!PhaseOf, Done

(* What a step does to the mapped state, from what it does to each job.     *)
LEMMA PhasesStep ==
  ASSUME NEW t \in Tasks, \A u \in Tasks : u # t => life'[u] = life[u]
  PROVE  /\ JobPhases' = [JobPhases EXCEPT ![t] = Jobs!PhaseOf(life'[t])]
         /\ (life'[t] \in Held <=> life[t] \in Held) => JobsReleased' = JobsReleased
  BY DEF JobPhases, JobsReleased

LEMMA SameAwaited ==
  ASSUME NEW t \in Tasks, waitFor'[t] = waitFor[t], deps'[GatherOf[t]] = deps[GatherOf[t]],
         life'[GatherOf[t]] = "none" <=> life[GatherOf[t]] = "none"
  PROVE  Jobs!Awaited(t)' = Jobs!Awaited(t)
  BY DEF Jobs!Awaited

(* A step that changes none of what the program sees.                       *)
LEMMA JobsStutter ==
  ASSUME \A t \in Tasks :
           /\ Jobs!PhaseOf(life'[t]) = Jobs!PhaseOf(life[t])
           /\ life'[t] \in Held <=> life[t] \in Held
           /\ deps'[t] = deps[t] /\ Jobs!Awaited(t)' = Jobs!Awaited(t)
           /\ closed'[t] = closed[t]
  PROVE  UNCHANGED Jobs!Dag!dagVars
<1>1. JobPhases' = JobPhases /\ JobsReleased' = JobsReleased
  BY DEF JobPhases, JobsReleased
<1>2. JobsRequire' = JobsRequire /\ JobsAwait' = JobsAwait /\ HandlesClosed' = HandlesClosed
  BY DEF JobsRequire, JobsAwait, HandlesClosed
<1> QED BY <1>1, <1>2, DagSteps

LEMMA DagInitJobs == Jobs!Init => Jobs!Dag!Init
<1> SUFFICES ASSUME Jobs!Init PROVE Jobs!Dag!Init
  OBVIOUS
<1>1. /\ \A t \in Tasks : /\ life[t] = "none" /\ deps[t] = <<>> /\ waitFor[t] = <<>>
                          /\ ~closed[t] /\ life[GatherOf[t]] = "none"
  BY KindsOfJobs DEF Jobs!Init
<1>2. Jobs!ToSet(<<>>) = {}
  BY DEF Jobs!ToSet
<1>3. JobPhases = [t \in Tasks |-> "none"] /\ JobsReleased = {} /\ HandlesClosed = {}
  BY <1>1, PhasesOfStages DEF JobPhases, JobsReleased, HandlesClosed, Held
<1>4. JobsRequire = [t \in Tasks |-> {}] /\ JobsAwait = [t \in Tasks |-> {}]
  BY <1>1, <1>2 DEF JobsRequire, JobsAwait, Jobs!Awaited
<1> QED BY <1>3, <1>4, DagSteps

(* CreateJob is called.                                                     *)
LEMMA DagCreatesJob ==
  ASSUME JobsInv, NEW t \in Tasks, Jobs!Create(t)
  PROVE  Jobs!Dag!Create(t)
<1>1. PICK n \in 0 .. MaxDeps : \E D \in [1 .. n -> Jobs!Lower(t)] :
        deps' = [deps EXCEPT ![t] = D]
  BY DEF Jobs!Create
<1>2. PICK D \in [1 .. n -> Jobs!Lower(t)] : deps' = [deps EXCEPT ![t] = D]
  BY <1>1
<1>3. life[t] = "none" /\ life' = [life EXCEPT ![t] = "setup"] /\ UNCHANGED <<closed, waitFor>>
  BY DEF Jobs!Create, Jobs!handleVars
<1>4. /\ t \in JobsOf /\ life \in [JobsOf -> Stages] /\ deps \in [JobsOf -> Seq(Tasks)]
      /\ \A u \in Tasks : u \in JobsOf /\ GatherOf[u] \in JobsOf /\ GatherOf[u] # t
  BY KindsOfJobs DEF JobsInv, JobShapes
<1>5. /\ life'[t] = "setup" /\ deps'[t] = D
      /\ \A y \in JobsOf : y # t => life'[y] = life[y] /\ deps'[y] = deps[y]
  BY <1>2, <1>3, <1>4
<1>6. JobPhases[t] = "none" /\ JobPhases' = [JobPhases EXCEPT ![t] = "created"]
  <2>1. JobPhases' = [JobPhases EXCEPT ![t] = Jobs!PhaseOf(life'[t])]
    BY <1>4, <1>5, PhasesStep
  <2>2. JobPhases[t] = "none"
    BY <1>3, PhasesOfStages DEF JobPhases
  <2> QED BY <1>5, <2>1, <2>2, PhasesOfStages
<1>7. JobsReleased' = JobsReleased
  BY <1>3, <1>4, <1>5, PhasesStep DEF Held
<1>8. \E P \in SUBSET Tasks : JobsRequire' = [JobsRequire EXCEPT ![t] = P]
  <2>1. Jobs!ToSet(D) \subseteq Tasks
    BY DEF Jobs!ToSet, Jobs!Lower
  <2>2. JobsRequire' = [JobsRequire EXCEPT ![t] = Jobs!ToSet(D)]
    BY <1>4, <1>5 DEF JobsRequire
  <2> QED BY <2>1, <2>2
<1>9. JobsAwait' = JobsAwait
  <2>1. \A u \in Tasks : Jobs!Awaited(u)' = Jobs!Awaited(u)
    BY <1>3, <1>4, <1>5, SameAwaited
  <2> QED BY <2>1 DEF JobsAwait
<1>10. HandlesClosed' = HandlesClosed
  BY <1>3 DEF HandlesClosed
<1> QED BY <1>6, <1>7, <1>8, <1>9, <1>10, DagSteps

(* DispatchJob is called by the creator: the job may run, or goes on to     *)
(* wait.                                                                    *)
LEMMA DagDispatchesJob ==
  ASSUME JobsInv, NEW x \in JobsOf, Jobs!DispatchJob(x)
  PROVE  [Jobs!Dag!Next]_(Jobs!Dag!dagVars)
<1>1. /\ life[x] = "created" /\ UNCHANGED <<deps, closed, waitFor>>
      /\ \/ life' = [life EXCEPT ![x] = "queued"]
         \/ life' = [life EXCEPT ![x] = "pending"]
  BY DEF Jobs!DispatchJob, Jobs!CountOff, Jobs!setupVars, Jobs!handleVars
<1>2. /\ life \in [JobsOf -> Stages]
      /\ \A u \in Tasks : u \in JobsOf /\ GatherOf[u] \in JobsOf
  BY KindsOfJobs DEF JobsInv, JobShapes
<1>3. /\ life'[x] \in {"queued", "pending"} /\ \A y \in JobsOf : y # x => life'[y] = life[y]
      /\ \A y \in JobsOf : life'[y] = "none" <=> life[y] = "none"
  BY <1>1, <1>2
<1>4. \A u \in Tasks : Jobs!Awaited(u)' = Jobs!Awaited(u)
  BY <1>1, <1>2, <1>3, SameAwaited
<1>5. CASE x \notin Tasks
  BY <1>1, <1>2, <1>3, <1>4, <1>5, JobsStutter
<1>6. CASE x \in Tasks
  <2>1. JobPhases[x] = "created" /\ JobPhases' = JobPhases
    BY <1>1, <1>2, <1>3, <1>6, PhasesOfStages DEF JobPhases
  <2>2. x \notin JobsReleased /\ JobsReleased' = JobsReleased \cup {x}
    BY <1>1, <1>2, <1>3, <1>6 DEF JobsReleased, Held
  <2>3. JobsRequire' = JobsRequire /\ JobsAwait' = JobsAwait /\ HandlesClosed' = HandlesClosed
    BY <1>1, <1>4 DEF JobsRequire, JobsAwait, HandlesClosed
  <2>4. Jobs!Dag!Release(x)
    BY <1>6, <2>1, <2>2, <2>3, DagSteps
  <2> QED BY <1>6, <2>4 DEF Jobs!Dag!Next
<1> QED BY <1>5, <1>6

(* A thread takes a job from its array: all that it requires has completed. *)
LEMMA DagRunsJob ==
  ASSUME JobsInv, NEW w \in Workers, Jobs!Pop(w)
  PROVE  [Jobs!Dag!Next]_(Jobs!Dag!dagVars)
<1>1. UNCHANGED <<deps, closed, waitFor>>
  BY DEF Jobs!Pop, Jobs!setupVars, Jobs!handleVars
<1>2. /\ life \in [JobsOf -> Stages] /\ deps \in [JobsOf -> Seq(Tasks)]
      /\ \A u \in Tasks : u \in JobsOf /\ GatherOf[u] \in JobsOf
  BY KindsOfJobs DEF JobsInv, JobShapes
<1>3. CASE life' = life
  <2>1. \A u \in Tasks : Jobs!Awaited(u)' = Jobs!Awaited(u)
    BY <1>1, <1>3, SameAwaited
  <2> QED BY <1>1, <1>3, <2>1, JobsStutter
<1>4. CASE queue[w] # <<>> /\ life' = [life EXCEPT ![Jobs!Last(queue[w])] = "running"]
  <2> DEFINE x == Jobs!Last(queue[w])
  <2>1. x \in JobsOf /\ life[x] = "queued"
    <3>1. queue[w] \in Seq(JobsOf) /\ queue[w] # <<>>
      BY <1>4 DEF JobsInv, JobShapes
    <3>2. Len(queue[w]) \in 1 .. Len(queue[w]) /\ x = queue[w][Len(queue[w])]
      BY <3>1 DEF Jobs!Last
    <3> QED BY <3>1, <3>2 DEF JobsInv, OneThreadEach
  <2> HIDE DEF x
  <2>2. /\ life'[x] = "running" /\ \A y \in JobsOf : y # x => life'[y] = life[y]
        /\ \A y \in JobsOf : life'[y] = "none" <=> life[y] = "none"
    BY <1>2, <1>4, <2>1 DEF x
  <2>3. \A u \in Tasks : Jobs!Awaited(u)' = Jobs!Awaited(u)
    BY <1>1, <1>2, <2>2, SameAwaited
  <2>4. CASE x \notin Tasks
    BY <1>1, <1>2, <2>2, <2>3, <2>4, JobsStutter
  <2>5. CASE x \in Tasks
    <3>1. JobPhases[x] = "created" /\ JobPhases' = [JobPhases EXCEPT ![x] = "running"]
      <4>1. JobPhases' = [JobPhases EXCEPT ![x] = Jobs!PhaseOf(life'[x])]
        BY <1>2, <2>2, <2>5, PhasesStep
      <4>2. JobPhases[x] = "created"
        BY <2>1, <2>5, PhasesOfStages DEF JobPhases
      <4> QED BY <2>2, <4>1, <4>2, PhasesOfStages
    <3>2. x \in JobsReleased /\ JobsReleased' = JobsReleased
      BY <1>2, <2>1, <2>2, <2>5, PhasesStep DEF JobsReleased, Held
    <3>3. JobsRequire' = JobsRequire /\ JobsAwait' = JobsAwait /\ HandlesClosed' = HandlesClosed
      BY <1>1, <2>3 DEF JobsRequire, JobsAwait, HandlesClosed
    <3>4. JobsRequire[x] \subseteq HandlesClosed
      <4>1. Outstanding(x) = {}
        BY <2>1 DEF JobsInv, StagesOfJobs
      <4>2. deps[x] \in Seq(Tasks)
        BY <1>2, <2>1
      <4>3. \A k \in 1 .. Len(deps[x]) : deps[x][k] \in Tasks /\ closed[deps[x][k]]
        BY <2>1, <4>1, <4>2 DEF JobsInv, CountedOff
      <4>4. Jobs!ToSet(deps[x]) \subseteq {t \in Tasks : closed[t]}
        BY <4>2, <4>3 DEF Jobs!ToSet
      <4> QED BY <2>5, <4>4 DEF JobsRequire, HandlesClosed
    <3>5. Jobs!Dag!Run(x)
      BY <2>5, <3>1, <3>2, <3>3, <3>4, DagSteps
    <3> QED BY <2>5, <3>5 DEF Jobs!Dag!Next
  <2> QED BY <2>4, <2>5
<1> QED BY <1>3, <1>4 DEF Jobs!Pop

(* A running job is made to wait for one more handle.                       *)
LEMMA DagAwaitsMore ==
  ASSUME JobsInv, NEW w \in Workers, Jobs!DoNotCompleteUnitl(w)
  PROVE  Jobs!Dag!Next
<1>0. PICK x \in Tasks : x = job[w]
  BY DEF Jobs!DoNotCompleteUnitl
<1>1. PICK e \in Jobs!Lower(x) : waitFor' = [waitFor EXCEPT ![x] = Append(@, e)]
  BY <1>0 DEF Jobs!DoNotCompleteUnitl
<1>2. /\ workerPc[w] = "task" /\ e \in Tasks /\ UNCHANGED <<life, deps, closed>>
  BY DEF Jobs!DoNotCompleteUnitl, Jobs!Lower, Jobs!setupVars
<1>3. life[x] = "running" /\ life[GatherOf[x]] = "none"
  BY <1>0, <1>2 DEF JobsInv, OneThreadEach, HandlesInv, Done
<1>4. /\ waitFor[x] \in Seq(Tasks) /\ waitFor'[x] = Append(waitFor[x], e)
      /\ \A u \in Tasks : u # x => waitFor'[u] = waitFor[u]
  BY <1>1, <1>2 DEF JobsInv, JobShapes
<1>5. Jobs!Awaited(x)' = Jobs!Awaited(x) \cup {e}
  <2>1. Jobs!ToSet(Append(waitFor[x], e)) = Jobs!ToSet(waitFor[x]) \cup {e}
    <3> DEFINE s == waitFor[x]
               n == Len(s)
    <3>1. /\ n \in Nat /\ Len(Append(s, e)) = n + 1 /\ Append(s, e)[n + 1] = e
          /\ \A i \in 1 .. n : Append(s, e)[i] = s[i]
          /\ DOMAIN s = 1 .. n /\ DOMAIN Append(s, e) = 1 .. n + 1
      BY <1>4
    <3> HIDE DEF s, n
    <3>2. \A i \in 1 .. n + 1 : i \in 1 .. n \/ i = n + 1
      BY <3>1
    <3>3. 1 .. n \subseteq 1 .. n + 1 /\ n + 1 \in 1 .. n + 1
      BY <3>1
    <3> QED BY <3>1, <3>2, <3>3 DEF Jobs!ToSet, s
  <2>2. Jobs!Awaited(x) = Jobs!ToSet(waitFor[x]) /\ Jobs!Awaited(x)' = Jobs!ToSet(waitFor'[x])
    BY <1>2, <1>3 DEF Jobs!Awaited
  <2> QED BY <1>4, <2>1, <2>2
<1>6. JobsAwait' = [JobsAwait EXCEPT ![x] = @ \cup {e}]
  <2>1. \A u \in Tasks : u # x => Jobs!Awaited(u)' = Jobs!Awaited(u)
    BY <1>2, <1>4, SameAwaited
  <2> QED BY <1>2, <1>5, <2>1 DEF JobsAwait
<1>7. /\ JobPhases[x] = "running" /\ JobPhases' = JobPhases /\ JobsReleased' = JobsReleased
      /\ JobsRequire' = JobsRequire /\ HandlesClosed' = HandlesClosed
  BY <1>2, <1>3, PhasesOfStages DEF JobPhases, JobsReleased, JobsRequire, HandlesClosed
<1>8. Jobs!Dag!AwaitMore(x)
  BY <1>2, <1>6, <1>7, DagSteps
<1> QED BY <1>2, <1>8 DEF Jobs!Dag!Next

(* Task returns.                                                            *)
LEMMA DagFinishesJob ==
  ASSUME JobsInv, NEW w \in Workers, Jobs!TaskReturns(w)
  PROVE  [Jobs!Dag!Next]_(Jobs!Dag!dagVars)
<1>1. workerPc[w] = "task" /\ UNCHANGED <<deps, closed, waitFor>>
  BY DEF Jobs!TaskReturns, Jobs!setupVars, Jobs!handleVars
<1>2. PICK x \in JobsOf : x = job[w] /\ life[x] = "running"
  <2>1. job[w] \in JobsOf \cup {NoJob}
    BY DEF JobsInv, JobShapes
  <2>2. job[w] # NoJob /\ life[job[w]] = "running"
    BY <1>1 DEF JobsInv, OneThreadEach
  <2> QED BY <2>1, <2>2
<1>3. /\ life \in [JobsOf -> Stages] /\ \A u \in Tasks : u \in JobsOf /\ GatherOf[u] \in JobsOf
  BY KindsOfJobs DEF JobsInv, JobShapes
<1>4. /\ life'[x] = "finished" /\ \A y \in JobsOf : y # x => life'[y] = life[y]
      /\ \A y \in JobsOf : life'[y] = "none" <=> life[y] = "none"
  BY <1>2, <1>3 DEF Jobs!TaskReturns
<1>5. \A u \in Tasks : Jobs!Awaited(u)' = Jobs!Awaited(u)
  BY <1>1, <1>3, <1>4, SameAwaited
<1>6. CASE x \notin Tasks
  BY <1>1, <1>3, <1>4, <1>5, <1>6, JobsStutter
<1>7. CASE x \in Tasks
  <2>1. JobPhases[x] = "running" /\ JobPhases' = [JobPhases EXCEPT ![x] = "finished"]
    <3>1. JobPhases' = [JobPhases EXCEPT ![x] = Jobs!PhaseOf(life'[x])]
      BY <1>3, <1>4, <1>7, PhasesStep
    <3>2. JobPhases[x] = "running"
      BY <1>2, <1>7, PhasesOfStages DEF JobPhases
    <3> QED BY <1>4, <3>1, <3>2, PhasesOfStages DEF Done
  <2>2. JobsReleased' = JobsReleased
    BY <1>2, <1>3, <1>4, <1>7, PhasesStep DEF Held
  <2>3. JobsRequire' = JobsRequire /\ JobsAwait' = JobsAwait /\ HandlesClosed' = HandlesClosed
    BY <1>1, <1>5 DEF JobsRequire, JobsAwait, HandlesClosed
  <2>4. Jobs!Dag!Finish(x)
    BY <1>7, <2>1, <2>2, <2>3, DagSteps
  <2> QED BY <1>7, <2>4 DEF Jobs!Dag!Next
<1> QED BY <1>6, <1>7

(* The null job depends on what its job was made to wait for: the handle    *)
(* still awaits the same.                                                   *)
LEMMA DagTakesOver ==
  ASSUME JobsInv, NEW w \in Workers, Jobs!CreateNullJob(w)
  PROVE  UNCHANGED Jobs!Dag!dagVars
<1>1. workerPc[w] = "subsequents" /\ UNCHANGED closed
  BY DEF Jobs!CreateNullJob
<1>2. PICK e \in Tasks : e = Jobs!HandleOf(job[w])
  BY <1>1, LastOfTheHandle
<1>3. PICK g \in JobsOf : g = GatherOf[e]
  BY KindsOfJobs
<1>4. /\ waitFor[e] # <<>> /\ deps' = [deps EXCEPT ![g] = waitFor[e]]
      /\ waitFor' = [waitFor EXCEPT ![e] = <<>>] /\ life' = [life EXCEPT ![g] = "setup"]
  BY <1>2, <1>3 DEF Jobs!CreateNullJob, Jobs!HasToWait
<1>5. life[g] = "none"
  BY <1>1, <1>2, <1>3, <1>4, LastOfTheHandle
<1>6. /\ \A u \in Tasks : /\ u \in JobsOf /\ u # g /\ GatherOf[u] \in JobsOf
                          /\ u # e => GatherOf[u] # g
      /\ life \in [JobsOf -> Stages] /\ deps \in [JobsOf -> Seq(Tasks)]
      /\ waitFor \in [Tasks -> Seq(Tasks)]
  BY <1>3, KindsOfJobs DEF JobsInv, JobShapes
<1>7. /\ life'[g] = "setup" /\ deps'[g] = waitFor[e]
      /\ \A y \in JobsOf : y # g => life'[y] = life[y] /\ deps'[y] = deps[y]
      /\ \A u \in Tasks : u # e => waitFor'[u] = waitFor[u]
  BY <1>4, <1>6
<1>8. Jobs!Awaited(e)' = Jobs!Awaited(e)
  BY <1>3, <1>5, <1>7 DEF Jobs!Awaited
<1>9. \A u \in Tasks : u # e => Jobs!Awaited(u)' = Jobs!Awaited(u)
  BY <1>6, <1>7, SameAwaited
<1> QED BY <1>1, <1>6, <1>7, <1>8, <1>9, JobsStutter

(* The last job of a handle closes it: what the handle awaits has completed.*)
LEMMA DagCompletesHandle ==
  ASSUME JobsInv, NEW w \in Workers, Jobs!GetArrayValueAndClosed(w)
  PROVE  Jobs!Dag!Next
<1>1. workerPc[w] = "subsequents" /\ UNCHANGED <<life, deps, waitFor>>
  BY DEF Jobs!GetArrayValueAndClosed, Jobs!setupVars
<1>2. PICK e \in Tasks : e = Jobs!HandleOf(job[w])
  BY <1>1, LastOfTheHandle
<1>3. waitFor[e] = <<>> /\ closed' = [closed EXCEPT ![e] = TRUE]
  BY <1>2 DEF Jobs!GetArrayValueAndClosed, Jobs!HasToWait
<1>4. /\ ~closed[e] /\ life[e] \in Done /\ life[GatherOf[e]] \in {"none"} \cup Done
  BY <1>1, <1>2, LastOfTheHandle
<1>5. Jobs!Awaited(e) \subseteq HandlesClosed
  <2>1. CASE life[GatherOf[e]] = "none"
    <3>1. Jobs!ToSet(<<>>) = {}
      BY DEF Jobs!ToSet
    <3> QED BY <1>3, <2>1, <3>1 DEF Jobs!Awaited
  <2>2. CASE life[GatherOf[e]] \in Done
    <3>1. PICK g \in JobsOf : g = GatherOf[e]
      BY KindsOfJobs
    <3>2. deps[g] \in Seq(Tasks) /\ Outstanding(g) = {}
      BY <2>2, <3>1 DEF JobsInv, JobShapes, StagesOfJobs
    <3>3. \A k \in 1 .. Len(deps[g]) : deps[g][k] \in Tasks /\ closed[deps[g][k]]
      BY <3>2 DEF JobsInv, CountedOff
    <3>4. Jobs!ToSet(deps[g]) \subseteq {t \in Tasks : closed[t]}
      BY <3>2, <3>3 DEF Jobs!ToSet
    <3>5. Jobs!Awaited(e) = Jobs!ToSet(deps[g])
      BY <2>2, <3>1 DEF Jobs!Awaited, Done
    <3> QED BY <3>4, <3>5 DEF HandlesClosed
  <2> QED BY <1>4, <2>1, <2>2
<1>6. HandlesClosed' = HandlesClosed \cup {e}
  BY <1>3 DEF HandlesClosed, JobsInv, JobShapes
<1>7. JobPhases[e] = "finished" /\ JobsAwait[e] = Jobs!Awaited(e) /\ e \notin HandlesClosed
  BY <1>4, PhasesOfStages DEF JobPhases, JobsAwait, HandlesClosed
<1>8. /\ JobPhases' = JobPhases /\ JobsReleased' = JobsReleased
      /\ JobsRequire' = JobsRequire /\ JobsAwait' = JobsAwait
  BY <1>1 DEF JobPhases, JobsReleased, JobsRequire, JobsAwait, Jobs!Awaited
<1>9. Jobs!Dag!Complete(e)
  BY <1>5, <1>6, <1>7, <1>8, DagSteps
<1> QED BY <1>9 DEF Jobs!Dag!Next

(* The child that is told counts the handle among its prerequisites still;  *)
(* only a child that its creator has dispatched can be queued by it.        *)
LEMMA DagTellsChild ==
  ASSUME JobsInv, NEW w \in Workers, Jobs!DispatchChild(w)
  PROVE  UNCHANGED Jobs!Dag!dagVars
<1>1. PICK child \in childrenJobs[w] : Jobs!CountOff(child[1], life[child[1]])
  BY DEF Jobs!DispatchChild
<1>2. UNCHANGED <<deps, closed, waitFor>>
  BY DEF Jobs!DispatchChild, Jobs!setupVars, Jobs!handleVars
<1>3. PICK x \in JobsOf, k \in Nat : child = <<x, k>>
  BY DEF JobsInv, JobShapes
<1>4. Jobs!CountOff(x, life[x]) /\ <<x, k>> \in childrenJobs[w]
  BY <1>1, <1>3
<1>5. k \in 1 .. Len(deps[x])
  BY <1>4 DEF JobsInv, DepsInPlace, JobShapes
<1>6. k \in Outstanding(x)
  BY <1>4, <1>5 DEF Outstanding, Told
<1>7. life[x] \notin Done \cup {"none", "queued", "running"} /\ life[x] \in Stages
  BY <1>5, <1>6 DEF JobsInv, StagesOfJobs, JobShapes
<1>8. counter[x] = 1 => life[x] = "pending"
  <2>1. /\ IsFiniteSet(Outstanding(x)) /\ Cardinality(Outstanding(x)) \in Nat
        /\ Cardinality(Outstanding(x)) # 0
    BY <1>6, OutstandingSize, FS_EmptySet DEF JobsInv
  <2>2. counter[x] = 1 => life[x] \notin Held
    BY <2>1 DEF JobsInv, CountsRight
  <2> QED BY <1>7, <2>2 DEF Stages
<1>9. /\ life \in [JobsOf -> Stages] /\ \A u \in Tasks : u \in JobsOf /\ GatherOf[u] \in JobsOf
  BY KindsOfJobs DEF JobsInv, JobShapes
<1>10. /\ \A y \in JobsOf : y # x => life'[y] = life[y]
       /\ \/ life'[x] = life[x]
          \/ life[x] = "pending" /\ life'[x] = "queued"
  <2>1. life' = [life EXCEPT ![x] = IF counter[x] = 1 THEN "queued" ELSE life[x]]
    BY <1>4 DEF Jobs!CountOff
  <2> QED BY <1>8, <1>9, <2>1
<1>11. \A y \in JobsOf : /\ Jobs!PhaseOf(life'[y]) = Jobs!PhaseOf(life[y])
                         /\ life'[y] \in Held <=> life[y] \in Held
                         /\ life'[y] = "none" <=> life[y] = "none"
  BY <1>10, PhasesOfStages DEF Held
<1>12. \A u \in Tasks : Jobs!Awaited(u)' = Jobs!Awaited(u)
  BY <1>2, <1>9, <1>11, SameAwaited
<1> QED BY <1>2, <1>9, <1>11, <1>12, JobsStutter

(* The other steps show the program nothing.                                *)
LEMMA DagQuietSteps ==
  ASSUME UNCHANGED <<deps, closed, waitFor>>,
         \A y \in JobsOf : \/ life'[y] = life[y]
                           \/ life[y] = "setup" /\ life'[y] = "created"
                           \/ life[y] = "finished" /\ life'[y] = "deleted"
  PROVE  UNCHANGED Jobs!Dag!dagVars
<1>1. \A y \in JobsOf : /\ Jobs!PhaseOf(life'[y]) = Jobs!PhaseOf(life[y])
                        /\ life'[y] \in Held <=> life[y] \in Held
                        /\ life'[y] = "none" <=> life[y] = "none"
  BY PhasesOfStages DEF Held, Done
<1>2. \A u \in Tasks : u \in JobsOf /\ GatherOf[u] \in JobsOf
  BY KindsOfJobs
<1>3. \A u \in Tasks : Jobs!Awaited(u)' = Jobs!Awaited(u)
  BY <1>1, <1>2, SameAwaited
<1> QED BY <1>1, <1>2, <1>3, JobsStutter

LEMMA DagNextJobs ==
  JobsInv /\ [Jobs!Next]_Jobs!vars => [Jobs!Dag!Next]_(Jobs!Dag!dagVars)
<1> SUFFICES ASSUME JobsInv, [Jobs!Next]_Jobs!vars
             PROVE  [Jobs!Dag!Next]_(Jobs!Dag!dagVars)
  OBVIOUS
<1>1. life \in [JobsOf -> Stages]
  BY DEF JobsInv, JobShapes
<1>2. ASSUME NEW t \in Tasks, Jobs!Create(t) PROVE Jobs!Dag!Next
  BY <1>2, DagCreatesJob DEF Jobs!Dag!Next
<1>3. ASSUME NEW x \in JobsOf, Jobs!SetUp(x) PROVE [Jobs!Dag!Next]_(Jobs!Dag!dagVars)
  <2>1. CASE Jobs!AddIfNotClosed(x)
    <3>1. UNCHANGED <<life, deps, closed, waitFor>>
      BY <2>1 DEF Jobs!AddIfNotClosed
    <3> QED BY <3>1, DagQuietSteps
  <2>2. CASE Jobs!Created(x)
    <3>1. /\ life[x] = "setup" /\ life' = [life EXCEPT ![x] = "created"]
          /\ UNCHANGED <<deps, closed, waitFor>>
      BY <2>2 DEF Jobs!Created, Jobs!handleVars
    <3>2. \A y \in JobsOf : \/ life'[y] = life[y]
                            \/ life[y] = "setup" /\ life'[y] = "created"
      BY <1>1, <3>1
    <3> QED BY <3>1, <3>2, DagQuietSteps
  <2>3. CASE Jobs!DispatchJob(x)
    BY <2>3, DagDispatchesJob
  <2> QED BY <1>3, <2>1, <2>2, <2>3 DEF Jobs!SetUp
<1>4. ASSUME NEW w \in Workers, Jobs!WakeUp(w) \/ Jobs!TimeOut(w) \/ Jobs!NullJobDispatched(w)
      PROVE  UNCHANGED Jobs!Dag!dagVars
  <2>1. UNCHANGED <<life, deps, closed, waitFor>>
    BY <1>4 DEF Jobs!WakeUp, Jobs!TimeOut, Jobs!NullJobDispatched, Jobs!setupVars,
       Jobs!handleVars
  <2> QED BY <2>1, DagQuietSteps
<1>5. ASSUME NEW w \in Workers, Jobs!DeleteJob(w) PROVE UNCHANGED Jobs!Dag!dagVars
  <2>1. /\ workerPc[w] = "children" /\ life' = [life EXCEPT ![job[w]] = "deleted"]
        /\ UNCHANGED <<deps, closed, waitFor>>
    BY <1>5 DEF Jobs!DeleteJob, Jobs!setupVars, Jobs!handleVars
  <2>2. life[job[w]] = "finished"
    BY <2>1 DEF JobsInv, OneThreadEach
  <2>3. \A y \in JobsOf : \/ life'[y] = life[y]
                          \/ life[y] = "finished" /\ life'[y] = "deleted"
    BY <1>1, <2>1, <2>2
  <2> QED BY <2>1, <2>3, DagQuietSteps
<1>6. ASSUME NEW w \in Workers, Jobs!Run(w) PROVE [Jobs!Dag!Next]_(Jobs!Dag!dagVars)
  BY <1>4, <1>5, <1>6, DagRunsJob, DagFinishesJob, DagTakesOver, DagCompletesHandle,
     DagTellsChild DEF Jobs!Run
<1>7. ASSUME NEW w \in Workers, Jobs!TimeOut(w) \/ Jobs!DoNotCompleteUnitl(w)
      PROVE  [Jobs!Dag!Next]_(Jobs!Dag!dagVars)
  BY <1>4, <1>7, DagAwaitsMore
<1>8. CASE UNCHANGED Jobs!vars
  <2>1. UNCHANGED <<life, deps, closed, waitFor>>
    BY <1>8 DEF Jobs!vars, Jobs!setupVars, Jobs!handleVars
  <2> QED BY <2>1, DagQuietSteps
<1> QED BY <1>2, <1>3, <1>6, <1>7, <1>8, KindsOfJobs DEF Jobs!Next

(* The second task graph keeps the promise of the first, as far as it is    *)
(* one of safety: a job runs once, after all its prerequisites, and its     *)
(* handle completes once, after the job has run and all that it was made to *)
(* wait for has completed.                                                  *)
THEOREM ImplementsTaskDagSafely == Jobs!Spec => Jobs!Dag!SafeSpec
<1> QED BY JobsInvariant, DagInitJobs, DagNextJobs, PTL DEF Jobs!Spec, Jobs!Dag!SafeSpec
=============================================================================
