--------------------------- MODULE LinkAllocator ---------------------------
(***************************************************************************)
(* Where the links of the lock-free lists come from: the bundles of free   *)
(* links that LockFreeLinkAllocator_TLSCache keeps for each thread, its    *)
(* global list of full bundles, and TLockFreeAllocOnceIndexedAllocator,    *)
(* which makes new links page by page.                                     *)
(*                                                                         *)
(* A bundle is the set of its links; the order of the chain in their       *)
(* Payload is left out.  The thread-local part of a call is one step with  *)
(* the access of shared state before it.  GlobalFreeListBundles is a set   *)
(* with an atomic Pop and Push (LockFreeLIFO shows that), and a thread may *)
(* give back a link another thread has taken.                              *)
(***************************************************************************)
EXTENDS Integers, FiniteSets

CONSTANTS
  Threads,
  NoBlock,        (* a null pointer in Pages                               *)
  PerBundle,      (* NUM_PER_BUNDLE, 64                                    *)
  ItemsPerPage,   (* 2^14                                                  *)
  MaxTotalItems   (* 2^26; the program ends when it needs more             *)

ASSUME LinkAssumption ==
  /\ PerBundle \in Nat \ {0} /\ ItemsPerPage \in Nat \ {0}
  /\ MaxTotalItems \in Nat
  /\ NoBlock \notin Threads

VARIABLES
  partial, full, numPartial,  (* PartialBundle, FullBundle, NumPartial     *)
  bundles,    (* GlobalFreeListBundles                                     *)
  used,       (* links the lists have taken                                *)
  nextIndex,  (* NextIndex: the first link that was never allocated        *)
  pages,      (* Pages, each block named by the thread that allocated it   *)
  first, cursor,  (* FirstItem and CurrentItem of the thread inside Alloc  *)
  pc,
  storage     (* history: the block a link was constructed in              *)

cacheVars == <<partial, full, numPartial>>
allocVars == <<nextIndex, pages, first, cursor, storage>>
vars == <<cacheVars, bundles, used, allocVars, pc>>

Links == 1 .. MaxTotalItems - 1        (* index 0 is the null pointer      *)
PageOf(l) == l \div ItemsPerPage
PageNumbers == 0 .. MaxTotalItems \div ItemsPerPage

Init ==
  /\ partial = [t \in Threads |-> {}] /\ full = [t \in Threads |-> {}]
  /\ numPartial = [t \in Threads |-> 0]
  /\ bundles = {} /\ used = {}
  /\ nextIndex = 1
  /\ pages = [b \in PageNumbers |-> NoBlock]
  /\ first = [t \in Threads |-> 1] /\ cursor = [t \in Threads |-> 1]
  /\ pc = [t \in Threads |-> "idle"]
  /\ storage = [l \in Links |-> NoBlock]

Goto(t, label) == pc' = [pc EXCEPT ![t] = label]

-----------------------------------------------------------------------------
(* Pop                                                                      *)

(* The end of Pop: the partial bundle is P, of n links, and gives one.      *)
Hand(t, P, n) ==
  \E l \in P :
    /\ partial' = [partial EXCEPT ![t] = P \ {l}]
    /\ numPartial' = [numPartial EXCEPT ![t] = n - 1]
    /\ used' = used \cup {l}

PopPartial(t) ==
  /\ pc[t] = "idle" /\ partial[t] # {}
  /\ Hand(t, partial[t], numPartial[t])
  /\ UNCHANGED <<full, bundles, allocVars, pc>>

(* Wrong variant: the full bundle is not taken out of its place.            *)
PopFullTwice(t) ==
  /\ pc[t] = "idle" /\ partial[t] = {} /\ full[t] # {}
  /\ Hand(t, full[t], PerBundle)
  /\ UNCHANGED <<full, bundles, allocVars, pc>>

PopFull(t) ==
  /\ pc[t] = "idle" /\ partial[t] = {} /\ full[t] # {}
  /\ Hand(t, full[t], PerBundle)
  /\ full' = [full EXCEPT ![t] = {}]
  /\ UNCHANGED <<bundles, allocVars, pc>>

PopBundle(t) ==
  /\ pc[t] = "idle" /\ partial[t] = {} /\ full[t] = {}
  /\ \E B \in bundles : bundles' = bundles \ {B} /\ Hand(t, B, PerBundle)
  /\ UNCHANGED <<full, allocVars, pc>>

(* The global list is empty: go on to Alloc(NUM_PER_BUNDLE).                *)
PopNothing(t) ==
  /\ pc[t] = "idle" /\ partial[t] = {} /\ full[t] = {} /\ bundles = {}
  /\ Goto(t, "alloc")
  /\ UNCHANGED <<cacheVars, bundles, used, allocVars>>

(* NextIndex.Add(Count).  The program does not use up the index space:      *)
(* LockFreeLinksExhausted is empty, and Alloc would go on past the pages.   *)
Alloc(t) ==
  /\ pc[t] = "alloc"
  /\ nextIndex + PerBundle <= MaxTotalItems
  /\ nextIndex' = nextIndex + PerBundle
  /\ first' = [first EXCEPT ![t] = nextIndex]
  /\ cursor' = [cursor EXCEPT ![t] = nextIndex]
  /\ Goto(t, "construct")
  /\ UNCHANGED <<cacheVars, bundles, used, pages, storage>>

(* GetRawItem finds no page and allocates a block for it ...                *)
MissPage(t) ==
  /\ pc[t] = "construct" /\ cursor[t] < first[t] + PerBundle
  /\ pages[PageOf(cursor[t])] = NoBlock
  /\ Goto(t, "install")
  /\ UNCHANGED <<cacheVars, bundles, used, allocVars>>

(* Wrong variant: the block is stored without a compare-exchange.           *)
InstalledBlindly(t, b) == [pages EXCEPT ![b] = t]

(* ... which loses against one that was installed in the meantime.          *)
Installed(t, b) == [pages EXCEPT ![b] = IF @ = NoBlock THEN t ELSE @]

InstallPage(t) ==
  /\ pc[t] = "install"
  /\ pages' = Installed(t, PageOf(cursor[t]))
  /\ Goto(t, "construct")
  /\ UNCHANGED <<cacheVars, bundles, used, nextIndex, first, cursor, storage>>

Construct(t) ==
  /\ pc[t] = "construct" /\ cursor[t] < first[t] + PerBundle
  /\ pages[PageOf(cursor[t])] # NoBlock
  /\ storage' = [storage EXCEPT ![cursor[t]] = pages[PageOf(cursor[t])]]
  /\ cursor' = [cursor EXCEPT ![t] = @ + 1]
  /\ UNCHANGED <<cacheVars, bundles, used, nextIndex, pages, first, pc>>

(* The loop is over: the new links become the partial bundle.               *)
PopFresh(t) ==
  /\ pc[t] = "construct" /\ cursor[t] = first[t] + PerBundle
  /\ Hand(t, first[t] .. cursor[t] - 1, PerBundle)
  /\ Goto(t, "idle")
  /\ UNCHANGED <<full, bundles, allocVars>>

Pop(t) == \/ PopPartial(t) \/ PopFull(t) \/ PopBundle(t) \/ PopNothing(t)
          \/ Alloc(t) \/ MissPage(t) \/ InstallPage(t) \/ Construct(t)
          \/ PopFresh(t)

-----------------------------------------------------------------------------
(* Push                                                                     *)

(* Wrong variant: an off-by-one in the test for a full bundle.              *)
BundleIsOverfull(t) == numPartial[t] > PerBundle

BundleIsFull(t) == numPartial[t] >= PerBundle

Push(t, l) ==
  /\ pc[t] = "idle" /\ l \in used
  /\ used' = used \ {l}
  /\ \/ /\ BundleIsFull(t)
        /\ bundles' = bundles \cup ({full[t]} \ {{}})
        /\ full' = [full EXCEPT ![t] = partial[t]]
        /\ partial' = [partial EXCEPT ![t] = {l}]
        /\ numPartial' = [numPartial EXCEPT ![t] = 1]
     \/ /\ ~BundleIsFull(t)
        /\ partial' = [partial EXCEPT ![t] = @ \cup {l}]
        /\ numPartial' = [numPartial EXCEPT ![t] = @ + 1]
        /\ UNCHANGED <<full, bundles>>
  /\ UNCHANGED <<allocVars, pc>>

Next == \E t \in Threads : Pop(t) \/ \E l \in Links : Push(t, l)

Spec == Init /\ [][Next]_vars

-----------------------------------------------------------------------------
(* Properties                                                               *)

(* The assertion of Pop (LockFreeList.cpp:125), which holds because Pop may *)
(* set NumPartial to a full bundle for whatever bundle it takes: every      *)
(* bundle that is passed on, by whichever thread, has NUM_PER_BUNDLE links, *)
(* and NumPartial counts the partial one.                                   *)
BundlesAreFull ==
  /\ \A t \in Threads :
       /\ numPartial[t] = Cardinality(partial[t]) /\ numPartial[t] <= PerBundle
       /\ full[t] # {} => Cardinality(full[t]) = PerBundle
  /\ \A B \in bundles : Cardinality(B) = PerBundle

(* What thread t is making links of.                                        *)
Making(t) == IF pc[t] \in {"construct", "install"}
             THEN first[t] .. first[t] + PerBundle - 1 ELSE {}

(* Nothing is lost and nothing handed out twice: each link that was ever    *)
(* allocated is in one list, one cache, one global bundle, or in the making *)
(* (LockFreeList.cpp:92-157).                                               *)
OneHome ==
  /\ \A t \in Threads :
       /\ partial[t] \cap full[t] = {}
       /\ (partial[t] \cup full[t] \cup Making(t)) \cap used = {}
       /\ (partial[t] \cup full[t]) \cap Making(t) = {}
       /\ \A B \in bundles : B \cap (partial[t] \cup full[t] \cup Making(t)) = {}
       /\ \A u \in Threads \ {t} :
            (partial[t] \cup full[t] \cup Making(t))
              \cap (partial[u] \cup full[u] \cup Making(u)) = {}
  /\ \A B, C \in bundles : B # C => B \cap C = {}
  /\ (UNION bundles) \cap used = {}
  /\ 1 .. nextIndex - 1 =
       used \cup (UNION bundles)
         \cup (UNION {partial[t] \cup full[t] \cup Making(t) : t \in Threads})

(* A link is where it was constructed: the block a thread reads from Pages  *)
(* is never replaced, although two threads may allocate one for the same    *)
(* page (LockFreeList.h:94-115), and GetItem's assertion that a link's page *)
(* exists (LockFreeList.h:89) holds for every link in circulation.          *)
StorageStays ==
  /\ \A l \in 1 .. nextIndex - 1 :
       storage[l] # NoBlock => storage[l] = pages[PageOf(l)]
  /\ \A l \in used \cup (UNION bundles)
               \cup (UNION {partial[t] \cup full[t] : t \in Threads}) :
       storage[l] # NoBlock
=============================================================================
