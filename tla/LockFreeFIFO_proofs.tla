------------------------- MODULE LockFreeFIFO_proofs -------------------------
(***************************************************************************)
(* Machine-checked safety of the lock-free FIFO, for any number of         *)
(* threads, links and payloads: no link is lost or has two owners and no   *)
(* thread follows index 0, a Pop that returns nothing found the queue      *)
(* empty, a thread on its own gets through, and the links implement a      *)
(* queue that changes at one instant.                                      *)
(***************************************************************************)
EXTENDS LockFreeFIFO, TLAPS, SequenceTheorems, FiniteSetTheorems, WellFoundedInduction

-----------------------------------------------------------------------------
(* Chains of links: the recursion of LinksFrom finds the one path that      *)
(* leads from a link to index 0, and a path grows and shrinks at its ends   *)
(* and does not notice what happens to other links.                         *)

(* The least element of a set of natural numbers.                           *)
LEMMA Least ==
  ASSUME NEW T \in SUBSET Nat, T # {}
  PROVE  \E n \in T : \A m \in T : n <= m
<1> DEFINE R == OpToRel(<, Nat)
<1>1. \A x, y \in Nat : <<x, y>> \in R <=> x < y
  BY DEF OpToRel
<1>2. IsWellFoundedOn(R, Nat)
  BY NatLessThanWellFounded
<1> HIDE DEF R
<1>3. PICK n \in T : \A m \in T : <<m, n>> \notin R
  BY <1>2, WFMin
<1>4. ASSUME NEW m \in T PROVE n <= m
  <2>1. m \in Nat /\ n \in Nat
    OBVIOUS
  <2>2. ~(m < n)
    BY <1>1, <1>3, <2>1
  <2>3. QED
    BY <2>1, <2>2
<1>5. QED
  BY <1>4

(* Such walks exist, however many steps.                                   *)
LEMMA WalkExists ==
  ASSUME NEW succ \in [Indices -> Indices], NEW N \in Nat
  PROVE  Walks(N, succ) # {}
<1> DEFINE T == {n \in Nat : Walks(n, succ) = {}}
<1> SUFFICES ASSUME T # {} PROVE FALSE
  OBVIOUS
<1>1. PICK n \in T : \A m \in T : n <= m
  BY Least
<1>2. CASE n = 0
  <2> DEFINE w == [x \in 0 .. 0 |-> [k \in Indices |-> <<>>]]
  <2>1. w \in Walks(0, succ)
    BY DEF Walks
  <2>2. QED
    BY <1>1, <1>2, <2>1
<1>3. CASE n # 0
  <2>1. n - 1 \in Nat /\ n - 1 \notin T
    BY <1>1, <1>3
  <2>2. PICK v : v \in Walks(n - 1, succ)
    BY <2>1
  <2> DEFINE w == [m \in 0 .. n |-> [k \in Indices |->
                     IF m = 0 \/ k = NoLink THEN <<>>
                     ELSE <<k>> \o v[m - 1][succ[k]]]]
  <2>3. \A m \in 0 .. n, k \in Indices :
          /\ w[m][k] \in Seq(Links)
          /\ w[m][k] = IF m = 0 \/ k = NoLink THEN <<>> ELSE <<k>> \o v[m - 1][succ[k]]
    <3> TAKE m \in 0 .. n, k \in Indices
    <3>1. w[m][k] = IF m = 0 \/ k = NoLink THEN <<>> ELSE <<k>> \o v[m - 1][succ[k]]
      OBVIOUS
    <3>2. CASE m = 0 \/ k = NoLink
      BY <3>1, <3>2
    <3>3. CASE m # 0 /\ k # NoLink
      <4>1. m - 1 \in 0 .. n - 1 /\ succ[k] \in Indices /\ k \in Links
        BY <3>3 DEF Indices
      <4>2. v[m - 1][succ[k]] \in Seq(Links)
        BY <2>2, <4>1 DEF Walks
      <4>3. QED
        BY <3>1, <3>3, <4>1, <4>2
    <3>4. QED
      BY <3>2, <3>3
  <2>4. \A m \in 0 .. n - 1, k \in Indices :
          v[m][k] = IF m = 0 \/ k = NoLink THEN <<>> ELSE <<k>> \o v[m - 1][succ[k]]
    BY <2>2 DEF Walks
  <2>5. w \in [0 .. n -> [Indices -> Seq(Links)]]
    BY <2>3
  <2> HIDE DEF w
  <2>6. ASSUME NEW m \in 0 .. n - 1, NEW k \in Indices PROVE w[m][k] = v[m][k]
    <3>1. m \in 0 .. n
      BY <1>1
    <3>2. QED
      BY <2>3, <2>4, <3>1, ZenonT(40)
  <2>7. ASSUME NEW m \in 0 .. n, NEW k \in Indices
        PROVE  w[m][k] = IF m = 0 \/ k = NoLink THEN <<>> ELSE <<k>> \o w[m - 1][succ[k]]
    <3>1. m # 0 => m - 1 \in 0 .. n - 1 /\ succ[k] \in Indices
      BY <1>1
    <3>2. QED
      BY <2>3, <2>6, <3>1
  <2>8. w \in Walks(n, succ)
    BY <2>5, <2>7 DEF Walks
  <2>9. QED
    BY <1>1, <2>8
<1>4. QED
  BY <1>2, <1>3

(* The recursion of LinksFrom has a solution, so its equation holds.        *)
LEMMA LinksFromWalks ==
  ASSUME NEW succ \in [Indices -> Indices]
  PROVE  \E w : /\ \A m \in 0 .. Cardinality(Links), k \in Indices :
                     w[m][k] = IF m = 0 \/ k = NoLink THEN <<>>
                               ELSE <<k>> \o w[m - 1][succ[k]]
               /\ \A l \in Indices : LinksFrom(succ, l) = w[Cardinality(Links)][l]
<1> DEFINE N == Cardinality(Links)
           Grow(w) == [n \in 0 .. N |-> [k \in Indices |->
                         IF n = 0 \/ k = NoLink THEN <<>> ELSE <<k>> \o w[n - 1][succ[k]]]]
           walk == CHOOSE w : w = Grow(w)
<1>1. N \in Nat
  BY LinksAssumption, FS_CardinalityType
<1>2. PICK v : v \in Walks(N, succ)
  BY <1>1, WalkExists
<1> HIDE DEF N
<1>3. v = Grow(v)
  BY <1>2 DEF Walks
<1>4. walk = Grow(walk)
  <2> HIDE DEF Grow
  <2>1. QED
    BY <1>3
<1>5. \A l \in Indices : LinksFrom(succ, l) = walk[N][l]
  BY DEF LinksFrom, N
<1> HIDE DEF walk
<1>6. \A m \in 0 .. N, k \in Indices :
        walk[m][k] = IF m = 0 \/ k = NoLink THEN <<>> ELSE <<k>> \o walk[m - 1][succ[k]]
  <2> TAKE m \in 0 .. N, k \in Indices
  <2>1. walk[m] = Grow(walk)[m]
    BY <1>4
  <2>2. QED
    BY <2>1
<1>7. QED
  BY <1>5, <1>6 DEF N

(* Only the empty path leads from index 0.                                  *)
LEMMA PathEnd ==
  ASSUME NEW succ
  PROVE  /\ Path(<<>>, succ, NoLink)
         /\ \A s : Path(s, succ, NoLink) => s = <<>>
<1>1. Path(<<>>, succ, NoLink)
  BY EmptySeq DEF Path
<1>2. ASSUME NEW s, Path(s, succ, NoLink), s # <<>> PROVE FALSE
  <2>1. s \in Seq(Links) /\ NoLink = s[1]
    BY <1>2 DEF Path
  <2>2. Len(s) \in Nat \ {0}
    BY <1>2, <2>1, EmptySeq
  <2>3. s[1] \in Links
    BY <2>1, <2>2, ElementOfSeq
  <2>4. QED
    BY <2>1, <2>3, LinksAssumption
<1>3. QED
  BY <1>1, <1>2

LEMMA HeadTail ==
  ASSUME NEW S, NEW s \in Seq(S), s # <<>>
  PROVE  /\ Head(s) = s[1] /\ s[1] \in S
         /\ Tail(s) \in Seq(S) /\ Len(Tail(s)) = Len(s) - 1
         /\ Len(s) \in Nat \ {0}
         /\ \A k \in 1 .. Len(s) - 1 : Tail(s)[k] = s[k + 1]
         /\ s = <<s[1]>> \o Tail(s)
<1>1. Len(s) \in Nat \ {0} /\ s[1] \in S
  BY EmptySeq, ElementOfSeq
<1>2. /\ Head(s) = s[1] /\ Tail(s) \in Seq(S) /\ Len(Tail(s)) = Len(s) - 1
      /\ \A k \in 1 .. Len(s) - 1 : Tail(s)[k] = s[k + 1]
  BY <1>1, HeadTailProperties
<1> DEFINE t == <<s[1]>> \o Tail(s)
<1>3. <<s[1]>> \in Seq(S) /\ Len(<<s[1]>>) = 1 /\ <<s[1]>>[1] = s[1]
  BY <1>1
<1>4. /\ t \in Seq(S) /\ Len(t) = 1 + Len(Tail(s))
      /\ \A k \in 1 .. 1 + Len(Tail(s)) :
           t[k] = IF k <= 1 THEN <<s[1]>>[k] ELSE Tail(s)[k - 1]
  BY <1>2, <1>3, ConcatProperties
<1> HIDE DEF t
<1>5. Len(t) = Len(s)
  BY <1>1, <1>2, <1>4
<1>6. ASSUME NEW k \in 1 .. Len(s) PROVE t[k] = s[k]
  <2>1. CASE k = 1
    BY <1>1, <1>2, <1>3, <1>4, <2>1
  <2>2. CASE k # 1
    <3>1. k - 1 \in 1 .. Len(s) - 1 /\ (k - 1) + 1 = k
      BY <1>1, <2>2
    <3>2. t[k] = Tail(s)[k - 1]
      BY <1>1, <1>2, <1>4, <2>2
    <3>3. QED
      BY <1>2, <3>1, <3>2
  <2>3. QED
    BY <2>1, <2>2
<1>7. t = s
  BY <1>4, <1>5, <1>6, SeqEqual
<1>8. QED
  BY <1>1, <1>2, <1>7 DEF t

(* What follows the first link of a path.                                   *)
LEMMA PathTail ==
  ASSUME NEW succ, NEW l, NEW s, Path(s, succ, l), s # <<>>
  PROVE  /\ l \in Links /\ l = s[1] /\ Path(Tail(s), succ, succ[l])
         /\ Range(Tail(s)) = Range(s) \ {l} /\ l \in Range(s)
<1>1. /\ s \in Seq(Links) /\ l = s[1]
      /\ \A j, k \in 1 .. Len(s) : s[j] = s[k] => j = k
  BY DEF Path
<1>z. \A k \in 1 .. Len(s) : succ[s[k]] = IF k = Len(s) THEN NoLink ELSE s[k + 1]
  BY DEF Path
<1>2. /\ s[1] \in Links /\ Tail(s) \in Seq(Links) /\ Len(Tail(s)) = Len(s) - 1
      /\ Len(s) \in Nat \ {0}
      /\ \A k \in 1 .. Len(s) - 1 : Tail(s)[k] = s[k + 1]
  BY <1>1, HeadTail
<1>b. Len(s) \in Nat \ {0} /\ Len(Tail(s)) = Len(s) - 1
  BY <1>2
<1>3. \A j, k \in 1 .. Len(Tail(s)) : Tail(s)[j] = Tail(s)[k] => j = k
  <2> TAKE j, k \in 1 .. Len(Tail(s))
  <2>1. j + 1 \in 1 .. Len(s) /\ k + 1 \in 1 .. Len(s)
    BY <1>2
  <2>2. s[j + 1] = s[k + 1] => j + 1 = k + 1
    BY <2>1 DEF Path
  <2>3. QED
    BY <1>2, <2>2
<1>4. succ[l] = IF Tail(s) = <<>> THEN NoLink ELSE Tail(s)[1]
  <2>1. 1 \in 1 .. Len(s)
    BY <1>2
  <2>a. succ[s[1]] = IF 1 = Len(s) THEN NoLink ELSE s[1 + 1]
    BY <1>z, <2>1
  <2>b. Tail(s) = <<>> => Len(Tail(s)) = 0
    BY EmptySeq
  <2>c. Tail(s) # <<>> => Len(Tail(s)) \in Nat \ {0}
    BY <1>2, EmptySeq
  <2>2. Tail(s) = <<>> <=> Len(s) = 1
    BY <1>b, <2>b, <2>c
  <2>3. QED
    BY <1>1, <1>2, <2>1, <2>2, <2>a
<1>5. \A k \in 1 .. Len(Tail(s)) :
        succ[Tail(s)[k]] = IF k = Len(Tail(s)) THEN NoLink ELSE Tail(s)[k + 1]
  <2> TAKE k \in 1 .. Len(Tail(s))
  <2>1. k + 1 \in 1 .. Len(s) /\ k \in 1 .. Len(s) - 1
    BY <1>2
  <2>2. succ[s[k + 1]] = IF k + 1 = Len(s) THEN NoLink ELSE s[(k + 1) + 1]
    BY <1>z, <2>1
  <2>3. Tail(s)[k] = s[k + 1]
    BY <1>2, <2>1
  <2>4. CASE k = Len(Tail(s))
    BY <1>2, <2>2, <2>3, <2>4
  <2>5. CASE k # Len(Tail(s))
    <3>1. k + 1 \in 1 .. Len(s) - 1
      <4>1. \A n \in Nat : \A i \in 1 .. n : i # n => i + 1 \in 1 .. n
        OBVIOUS
      <4>2. Len(Tail(s)) \in Nat /\ Len(Tail(s)) = Len(s) - 1
        BY <1>b
      <4>3. k + 1 \in 1 .. Len(Tail(s))
        BY <2>5, <4>1, <4>2
      <4>4. QED
        BY <4>2, <4>3
    <3>2. QED
      <4>1. Tail(s)[k + 1] = s[(k + 1) + 1]
        BY <1>2, <3>1
      <4>2. k + 1 # Len(s)
        <5>1. \A n \in Nat : \A i \in 1 .. n - 1 : i # n
          OBVIOUS
        <5>2. QED
          BY <1>b, <3>1, <5>1
      <4>3. QED
        BY <2>2, <2>3, <2>5, <4>1, <4>2
  <2>6. QED
    BY <2>4, <2>5
<1>6. /\ Range(s) = {s[k] : k \in 1 .. Len(s)}
      /\ Range(Tail(s)) = {Tail(s)[k] : k \in 1 .. Len(Tail(s))}
  <2>1. Range(s) = {s[k] : k \in 1 .. Len(s)}
    BY <1>1, RangeEquality
  <2>2. Range(Tail(s)) = {Tail(s)[k] : k \in 1 .. Len(Tail(s))}
    BY <1>2, RangeEquality
  <2>3. QED
    BY <2>1, <2>2
<1>7. ASSUME NEW x PROVE x \in Range(Tail(s)) <=> x \in Range(s) /\ x # l
  <2>1. ASSUME x \in Range(Tail(s)) PROVE x \in Range(s) /\ x # l
    <3>1. PICK k \in 1 .. Len(s) - 1 : x = s[k + 1]
      <4>1. PICK k \in 1 .. Len(Tail(s)) : x = Tail(s)[k]
        BY <1>6, <2>1, Zenon
      <4>2. QED
        BY <1>2, <4>1
    <3>2. k + 1 \in 1 .. Len(s) /\ 1 \in 1 .. Len(s) /\ k + 1 # 1
      BY <1>2
    <3>3. QED
      BY <1>1, <1>6, <3>1, <3>2 DEF Path
  <2>2. ASSUME x \in Range(s), x # l PROVE x \in Range(Tail(s))
    <3>1. PICK k \in 1 .. Len(s) : x = s[k]
      BY <1>6, <2>2
    <3>2. k - 1 \in 1 .. Len(s) - 1 /\ (k - 1) + 1 = k
      BY <1>1, <1>2, <2>2, <3>1
    <3>3. QED
      BY <1>2, <1>6, <3>1, <3>2
  <2>3. QED
    BY <2>1, <2>2
<1>8. Path(Tail(s), succ, succ[l])
  BY <1>2, <1>3, <1>4, <1>5 DEF Path
<1>9. l \in Links /\ l \in Range(s)
  BY <1>1, <1>2, <1>6
<1>10. Range(Tail(s)) = Range(s) \ {l}
  BY <1>7
<1>11. QED
  BY <1>1, <1>8, <1>9, <1>10

(* A link in front of a path that it is not on.                             *)
LEMMA PathCons ==
  ASSUME NEW succ, NEW l, NEW s, Path(s, succ, l),
         NEW x \in Links, x \notin Range(s), succ[x] = l
  PROVE  /\ Path(<<x>> \o s, succ, x)
         /\ Range(<<x>> \o s) = Range(s) \cup {x}
<1> DEFINE t == <<x>> \o s
<1>1. s \in Seq(Links) /\ Len(s) \in Nat /\ <<x>> \in Seq(Links)
      /\ Len(<<x>>) = 1 /\ <<x>>[1] = x
  BY LenProperties DEF Path
<1>2. /\ t \in Seq(Links) /\ Len(t) = 1 + Len(s)
      /\ \A k \in 1 .. 1 + Len(s) : t[k] = IF k <= 1 THEN <<x>>[k] ELSE s[k - 1]
  BY <1>1, ConcatProperties
<1> HIDE DEF t
<1>3. t[1] = x /\ t # <<>> /\ \A k \in 1 .. Len(s) : t[k + 1] = s[k]
  <2>1. t[1] = x /\ t # <<>>
    BY <1>1, <1>2, EmptySeq
  <2>2. ASSUME NEW k \in 1 .. Len(s) PROVE t[k + 1] = s[k]
    <3>1. k + 1 \in 1 .. 1 + Len(s) /\ ~(k + 1 <= 1) /\ (k + 1) - 1 = k
      BY <1>1
    <3>2. QED
      BY <1>2, <3>1
  <2>3. QED
    BY <2>1, <2>2
<1>4. ASSUME NEW k \in 1 .. Len(t)
      PROVE  k = 1 \/ \E j \in 1 .. Len(s) : k = j + 1
  <2>1. k # 1 => k - 1 \in 1 .. Len(s) /\ k = (k - 1) + 1
    BY <1>1, <1>2
  <2>2. QED
    BY <2>1
<1>5. Range(s) = {s[k] : k \in 1 .. Len(s)}
  BY <1>1, RangeEquality
<1>6. Range(t) = {t[k] : k \in 1 .. Len(t)}
  BY <1>2, RangeEquality
<1>7. Range(t) = Range(s) \cup {x}
  <2>1. ASSUME NEW y PROVE y \in Range(t) => y \in Range(s) \cup {x}
    BY <1>3, <1>4, <1>5, <1>6
  <2>2. ASSUME NEW y PROVE y \in Range(s) \cup {x} => y \in Range(t)
    <3>1. 1 \in 1 .. Len(t) /\ \A k \in 1 .. Len(s) : k + 1 \in 1 .. Len(t)
      BY <1>1, <1>2
    <3>2. QED
      BY <1>3, <1>5, <1>6, <3>1
  <2>3. QED
    BY <2>1, <2>2
<1>8. ASSUME NEW j \in 1 .. Len(t), NEW k \in 1 .. Len(t), t[j] = t[k] PROVE j = k
  <2>1. CASE j = 1 /\ k # 1
    BY <1>3, <1>4, <1>5, <1>8, <2>1
  <2>2. CASE k = 1 /\ j # 1
    BY <1>3, <1>4, <1>5, <1>8, <2>2
  <2>3. CASE k # 1 /\ j # 1
    BY <1>3, <1>4, <1>8, <2>3 DEF Path
  <2>4. QED
    BY <2>1, <2>2, <2>3
<1>9. ASSUME NEW k \in 1 .. Len(t)
      PROVE  succ[t[k]] = IF k = Len(t) THEN NoLink ELSE t[k + 1]
  <2>1. CASE k = 1
    <3>1. s = <<>> <=> Len(s) = 0
      BY <1>1, EmptySeq
    <3>2. Len(s) # 0 => 1 \in 1 .. Len(s)
      BY <1>1
    <3>3. succ[t[1]] = IF s = <<>> THEN NoLink ELSE s[1]
      BY <1>3 DEF Path
    <3>4. QED
      BY <1>1, <1>2, <1>3, <2>1, <3>1, <3>2, <3>3
  <2>2. CASE k # 1
    <3>1. PICK j \in 1 .. Len(s) : k = j + 1
      BY <1>4, <2>2
    <3>2. succ[s[j]] = IF j = Len(s) THEN NoLink ELSE s[j + 1]
      BY DEF Path
    <3>3. j = Len(s) <=> k = Len(t)
      BY <1>1, <1>2, <3>1
    <3>4. j # Len(s) => j + 1 \in 1 .. Len(s)
      BY <1>1
    <3>5. QED
      BY <1>3, <3>1, <3>2, <3>3, <3>4
  <2>3. QED
    BY <2>1, <2>2
<1>10. Path(t, succ, x)
  BY <1>2, <1>3, <1>8, <1>9 DEF Path
<1>11. QED
  BY <1>7, <1>10 DEF t

(* A path does not see what happens to links that are not on it.            *)
LEMMA PathFrame ==
  ASSUME NEW succ, NEW other, NEW l, NEW s, Path(s, succ, l),
         \A x \in Range(s) : other[x] = succ[x]
  PROVE  Path(s, other, l)
<1>1. s \in Seq(Links)
  BY DEF Path
<1>2. \A k \in 1 .. Len(s) : s[k] \in Range(s)
  BY <1>1, RangeEquality
<1>3. QED
  BY <1>2 DEF Path

(* Only the last link of a path is followed by none, and none by the first. *)
LEMMA PathNext ==
  ASSUME NEW succ, NEW l, NEW s, Path(s, succ, l), NEW x \in Range(s)
  PROVE  /\ x \in Links /\ s # <<>> /\ Len(s) \in Nat \ {0}
         /\ succ[x] = NoLink => x = s[Len(s)]
         /\ succ[x] # NoLink => succ[x] \in Range(s) /\ succ[x] # l
<1>1. s \in Seq(Links) /\ Len(s) \in Nat /\ Range(s) = {s[k] : k \in 1 .. Len(s)}
  BY LenProperties, RangeEquality DEF Path
<1>2. PICK k \in 1 .. Len(s) : x = s[k]
  BY <1>1
<1>3. x \in Links /\ Len(s) \in Nat \ {0} /\ s # <<>>
  BY <1>1, <1>2, ElementOfSeq, EmptySeq
<1>4. l = s[1] /\ 1 \in 1 .. Len(s)
  BY <1>1, <1>3 DEF Path
<1>5. CASE k = Len(s)
  BY <1>2, <1>3, <1>5 DEF Path
<1>6. CASE k # Len(s)
  <2>1. k + 1 \in 1 .. Len(s) /\ k + 1 # 1
    BY <1>1, <1>6
  <2>2. succ[x] = s[k + 1] /\ s[k + 1] \in Links
    BY <1>1, <1>2, <1>6, <2>1, ElementOfSeq DEF Path
  <2>3. s[k + 1] # s[1]
    BY <1>4, <2>1 DEF Path
  <2>4. QED
    BY <1>1, <1>3, <1>4, <2>1, <2>2, <2>3, LinksAssumption
<1>7. QED
  BY <1>5, <1>6

(* A link behind the last one of a path that it is not on.                  *)
LEMMA PathAppend ==
  ASSUME NEW succ, NEW other, NEW l, NEW s, Path(s, succ, l),
         NEW last \in Range(s), succ[last] = NoLink,
         NEW x \in Links, x \notin Range(s), other[last] = x, other[x] = NoLink,
         \A k \in Range(s) \ {last} : other[k] = succ[k]
  PROVE  /\ Path(Append(s, x), other, l)
         /\ Range(Append(s, x)) = Range(s) \cup {x}
<1> DEFINE t == Append(s, x)
           n == Len(s)
<1>1. s \in Seq(Links) /\ s # <<>> /\ n \in Nat \ {0} /\ last = s[n]
  BY PathNext DEF Path
<1>2. /\ t \in Seq(Links) /\ Len(t) = n + 1 /\ t[n + 1] = x
      /\ \A k \in 1 .. n : t[k] = s[k]
  BY <1>1, AppendProperties
<1>3. Range(s) = {s[k] : k \in 1 .. n} /\ Range(t) = {t[k] : k \in 1 .. n + 1}
  <2>1. Range(s) = {s[k] : k \in 1 .. n}
    BY <1>1, RangeEquality
  <2> HIDE DEF t
  <2>2. Range(t) = {t[k] : k \in 1 .. Len(t)}
    BY <1>2, RangeEquality
  <2>3. QED
    BY <1>2, <2>1, <2>2
<1> HIDE DEF t, n
<1>4. \A k \in 1 .. n + 1 : k \in 1 .. n \/ k = n + 1
  BY <1>1
<1>5. 1 \in 1 .. n /\ n \in 1 .. n /\ n + 1 \in 1 .. n + 1 /\ \A k \in 1 .. n : k \in 1 .. n + 1
  BY <1>1
<1>6. /\ \A j, k \in 1 .. n : s[j] = s[k] => j = k
      /\ l = s[1] /\ \A k \in 1 .. n : succ[s[k]] = IF k = n THEN NoLink ELSE s[k + 1]
  BY <1>1 DEF Path, n
<1>7. Range(t) = Range(s) \cup {x}
  BY <1>2, <1>3, <1>4, <1>5
<1>8. \A k \in 1 .. n : s[k] # x
  BY <1>3
<1>9. \A j, k \in 1 .. n + 1 : t[j] = t[k] => j = k
  BY <1>2, <1>4, <1>6, <1>8
<1>10. ASSUME NEW k \in 1 .. n + 1
       PROVE  other[t[k]] = IF k = n + 1 THEN NoLink ELSE t[k + 1]
  <2>1. CASE k = n + 1
    BY <1>2, <2>1
  <2>2. CASE k = n
    BY <1>1, <1>2, <1>5, <2>2
  <2>3. CASE k # n /\ k \in 1 .. n
    <3>1. k + 1 \in 1 .. n /\ k # n + 1
      BY <1>1, <2>3
    <3>2. s[k] \in Range(s) /\ s[k] # last
      BY <1>1, <1>3, <1>5, <1>6, <2>3
    <3>3. other[s[k]] = s[k + 1]
      BY <1>6, <2>3, <3>2
    <3>4. QED
      BY <1>2, <2>3, <3>1, <3>3
  <2>4. QED
    BY <1>4, <2>1, <2>2, <2>3
<1>11. t # <<>> /\ t[1] = l
  BY <1>2, <1>5, <1>6, EmptySeq
<1>12. QED
  BY <1>2, <1>7, <1>9, <1>10, <1>11 DEF Path, t

(* No path is longer than there are links.                                  *)
LEMMA PathLength ==
  ASSUME NEW succ, NEW l, NEW s, Path(s, succ, l)
  PROVE  Len(s) \in Nat /\ Len(s) <= Cardinality(Links)
<1>1. s \in Seq(Links)
  BY DEF Path
<1>2. Len(s) \in Nat /\ s \in [1 .. Len(s) -> Links]
  BY <1>1, LenProperties
<1>3. s \in Injection(1 .. Len(s), Links)
  BY <1>2 DEF Path, Injection, IsInjective
<1>4. Cardinality(1 .. Len(s)) = Len(s)
  BY <1>2, FS_Interval
<1>5. Cardinality(1 .. Len(s)) <= Cardinality(Links)
  BY <1>3, LinksAssumption, FS_Injection
<1>6. QED
  BY <1>2, <1>4, <1>5

(* The recursion finds the path, if there is one.                           *)
LEMMA LinksFromPath ==
  ASSUME NEW succ \in [Indices -> Indices], NEW l \in Indices,
         NEW s, Path(s, succ, l)
  PROVE  LinksFrom(succ, l) = s
<1> DEFINE N == Cardinality(Links)
<1>1. N \in Nat
  BY LinksAssumption, FS_CardinalityType
<1>2. PICK w :
        /\ \A m \in 0 .. N, k \in Indices :
             w[m][k] = IF m = 0 \/ k = NoLink THEN <<>> ELSE <<k>> \o w[m - 1][succ[k]]
        /\ \A k \in Indices : LinksFrom(succ, k) = w[N][k]
  BY LinksFromWalks
<1> HIDE DEF N
<1> DEFINE Good(m) == \A k \in Indices, t \in Seq(Links) :
                        Path(t, succ, k) /\ Len(t) <= m => w[m][k] = t
           T == {m \in 0 .. N : ~Good(m)}
<1>3. T = {}
  <2> SUFFICES ASSUME T # {} PROVE FALSE
    OBVIOUS
  <2>1. T \in SUBSET Nat
    BY <1>1
  <2>2. PICK m \in T : \A i \in T : m <= i
    <3> HIDE DEF T
    <3>1. QED
      BY <2>1, Least
  <2>3. PICK k \in Indices, t \in Seq(Links) :
          Path(t, succ, k) /\ Len(t) <= m /\ w[m][k] # t
    BY <2>2
  <2>4. Len(t) \in Nat /\ m \in 0 .. N
    BY <2>2, LenProperties
  <2>5. CASE t = <<>>
    <3>1. k = NoLink
      BY <2>3, <2>5 DEF Path
    <3>2. QED
      BY <1>2, <2>3, <2>4, <2>5, <3>1
  <2>6. CASE t # <<>>
    <3>1. /\ k \in Links /\ k = t[1] /\ Path(Tail(t), succ, succ[k])
      BY <2>3, <2>6, PathTail
    <3>2. /\ Tail(t) \in Seq(Links) /\ Len(Tail(t)) = Len(t) - 1 /\ Len(t) # 0
          /\ t = <<t[1]>> \o Tail(t)
      BY <2>6, HeadTail
    <3>3. m - 1 \in 0 .. N /\ ~(m <= m - 1) /\ Len(Tail(t)) <= m - 1 /\ m # 0
      BY <1>1, <2>3, <2>4, <3>2
    <3>4. Good(m - 1)
      BY <2>2, <3>3
    <3>5. succ[k] \in Indices /\ k # NoLink
      BY <3>1, LinksAssumption
    <3>6. w[m - 1][succ[k]] = Tail(t)
      BY <3>1, <3>2, <3>3, <3>4, <3>5
    <3>7. w[m][k] = <<k>> \o w[m - 1][succ[k]]
      BY <1>2, <2>4, <3>3, <3>5
    <3>8. QED
      BY <2>3, <3>1, <3>2, <3>6, <3>7
  <2>7. QED
    BY <2>5, <2>6
<1>4. Good(N)
  BY <1>1, <1>3
<1>5. s \in Seq(Links) /\ Len(s) <= N
  BY PathLength DEF Path, N
<1>6. QED
  BY <1>2, <1>4, <1>5

LEMMA RangeAppend ==
  ASSUME NEW S, NEW s \in Seq(S), NEW x \in S
  PROVE  Range(Append(s, x)) = Range(s) \cup {x}
<1> DEFINE n == Len(s)
           t == Append(s, x)
<1>1. /\ n \in Nat /\ DOMAIN s = 1 .. n /\ DOMAIN t = 1 .. (n + 1) /\ t[n + 1] = x
      /\ \A k \in 1 .. n : t[k] = s[k]
  BY AppendProperties, LenProperties
<1> HIDE DEF n, t
<1>2. \A k \in 1 .. (n + 1) : k \in 1 .. n \/ k = n + 1
  BY <1>1
<1>3. \A k \in 1 .. n : k \in 1 .. (n + 1)
  BY <1>1
<1>4. n + 1 \in 1 .. (n + 1)
  BY <1>1
<1>5. Range(t) = Range(s) \cup {x}
  BY <1>1, <1>2, <1>3, <1>4 DEF Range
<1>6. QED
  BY <1>5 DEF t

-----------------------------------------------------------------------------
(* The inductive invariant                                                  *)

Pointers == [ptr : Indices, counter : Nat]

(* A push that has a link and has not linked it.                            *)
Pushing == {"pushTail", "pushNext", "pushTest", "pushHelp", "pushLink"}
Labels == Pushing \cup {"idle", "pushSwing", "popHead", "popTail", "popNext", "popTest",
                        "popNull", "popHelp", "popPayload", "popSwing", "popFree",
                        "emptyHead", "emptyNext", "saysEmpty", "saysFilled"}

(* The link after each link.                                                *)
After == [l \in Indices |-> doubleNext[l].ptr]

MemoryShapes ==
  /\ head \in Pointers /\ tail \in Pointers /\ doubleNext \in [Indices -> Pointers]
  /\ payload \in [Indices -> Items \cup {NoItem}]
  /\ free \subseteq Links /\ unpushed \subseteq Items /\ popped \in Seq(Items)

LocalShapes ==
  /\ pc \in [Threads -> Labels] /\ item \in [Threads -> Indices]
  /\ localHead \in [Threads -> Pointers] /\ localTail \in [Threads -> Pointers]
  /\ localNext \in [Threads -> Pointers] /\ result \in [Threads -> Items \cup {NoItem}]
  /\ seen \in [Threads -> SUBSET BOOLEAN] /\ retries \in [Threads -> Nat]

(* The queue starts with its stub and ends at index 0.  The tail is its     *)
(* last link, or the last but one while a push is between its exchanges.    *)
ChainInv ==
  /\ Path(Chain, After, head.ptr) /\ head.ptr \in Links
  /\ After[tail.ptr] # NoLink => After[After[tail.ptr]] = NoLink

(* A link that is not in the queue leads nowhere until it is freed.         *)
UnlinkedInv ==
  /\ \A l \in free : After[l] = NoLink
  /\ \A p \in Threads : pc[p] \in Pushing => item[p] \in Links /\ After[item[p]] = NoLink

(* The indices a thread holds are links, and its counters are old.          *)
Refs(p) ==
  /\ pc[p] \in {"pushNext", "pushTest", "pushHelp", "pushLink", "pushSwing"} =>
       localTail[p].ptr \in Links
  /\ pc[p] \in {"popTail", "popNext", "popTest", "popPayload", "popSwing", "popFree",
                "emptyNext"} => localHead[p].ptr \in Links
  /\ pc[p] \in {"pushHelp", "popHelp", "popPayload", "popSwing"} =>
       localNext[p].ptr \in Links
  /\ pc[p] = "pushSwing" => item[p] \in Links
  /\ localTail[p].counter <= tail.counter /\ localHead[p].counter <= head.counter

(* v was DoubleNext of link l, which has not left the queue since.          *)
Held(l, v) ==
  doubleNext[l] = v \/ (v.ptr = NoLink /\ v.counter < doubleNext[l].counter)

(* What a thread has read at the tail is true while the tail is the same;   *)
(* and once the tail has moved, the link it was at has another counter.     *)
TailReads(p) ==
  /\ pc[p] = "pushTest" /\ tail = localTail[p] => Held(tail.ptr, localNext[p])
  /\ pc[p] \in {"pushHelp", "popHelp"} /\ tail = localTail[p] =>
       After[tail.ptr] = localNext[p].ptr
  /\ pc[p] = "pushLink" =>
       /\ localNext[p].ptr = NoLink
       /\ \/ tail = localTail[p] /\ doubleNext[tail.ptr] = localNext[p]
          \/ localNext[p].counter < doubleNext[localTail[p].ptr].counter
  /\ pc[p] = "pushSwing" /\ tail = localTail[p] => After[tail.ptr] = item[p]

(* What a thread has read at the head is true while the head is the same.   *)
HeadReads(p) ==
  head = localHead[p] =>
    /\ pc[p] \in {"popNext", "popTest"} /\ head.ptr # localTail[p].ptr =>
         tail.ptr # head.ptr
    /\ pc[p] = "popTest" =>
         /\ Held(head.ptr, localNext[p])
         /\ head.ptr # localTail[p].ptr => localNext[p].ptr # NoLink
    /\ pc[p] \in {"popPayload", "popSwing"} =>
         tail.ptr # head.ptr /\ After[head.ptr] = localNext[p].ptr
    /\ pc[p] = "popSwing" => result[p] = payload[localNext[p].ptr]

(* Pushes under way and links behind the stub hold different payloads, none *)
(* of them popped yet.                                                      *)
Live == (InUse \ {head.ptr}) \cup {item[p] : p \in {q \in Threads : pc[q] \in Pushing}}
PayloadInv ==
  /\ unpushed \cap Range(popped) = {}
  /\ \A l \in Live : payload[l] \in Items \ (unpushed \cup Range(popped))
  /\ \A l, m \in Live : payload[l] = payload[m] => l = m

(* An operation that finds nothing has seen the queue empty.                *)
Saw(p) ==
  /\ pc[p] = "popTest" /\ head = localHead[p] /\ localNext[p].ptr = NoLink =>
       TRUE \in seen[p]
  /\ pc[p] = "popNull" => TRUE \in seen[p]

(* After one turn on its own a thread's reads are up to date; after two the *)
(* tail is where this operation needs it.                                   *)
Alone(p) ==
  /\ retries[p] <= 2 /\ (pc[p] = "idle" => retries[p] = 0)
  /\ retries[p] >= 1 =>
       /\ pc[p] \in {"pushNext", "pushTest", "pushHelp", "pushLink"} => localTail[p] = tail
       /\ pc[p] \in {"pushTest", "pushHelp", "pushLink"} =>
            localNext[p] = doubleNext[tail.ptr]
       /\ pc[p] = "pushHelp" => localNext[p].ptr # NoLink
       /\ pc[p] \in {"popTail", "popNext", "popTest", "popHelp", "popPayload", "popSwing"} =>
            localHead[p] = head
       /\ pc[p] \in {"popNext", "popTest", "popHelp"} => localTail[p] = tail
       /\ pc[p] = "popHelp" => tail.ptr = head.ptr /\ localNext[p].ptr = After[tail.ptr]
  /\ retries[p] >= 2 =>
       /\ pc[p] \in Pushing => After[tail.ptr] = NoLink
       /\ pc[p] \in {"popHead", "popTail", "popNext", "popTest", "popHelp"} =>
            head.ptr # tail.ptr

FIFOInv ==
  /\ MemoryShapes /\ LocalShapes /\ ChainInv /\ UnlinkedInv
  /\ EveryLinkHasOneOwner /\ PayloadInv
  /\ \A p \in Threads : Refs(p) /\ TailReads(p) /\ HeadReads(p) /\ Saw(p) /\ Alone(p)

-----------------------------------------------------------------------------
(* The steps                                                                *)

LinkExchange(p) ==
  /\ pc[p] = "pushLink" /\ doubleNext[localTail[p].ptr] = localNext[p]
  /\ doubleNext' = [doubleNext EXCEPT ![localTail[p].ptr] = Advance(localNext[p], item[p])]
  /\ Goto(p, "pushSwing")
  /\ UNCHANGED <<head, tail, payload, free, unpushed, popped, locals>>

LinkFails(p) ==
  /\ pc[p] = "pushLink" /\ doubleNext[localTail[p].ptr] # localNext[p]
  /\ Goto(p, "pushTail")
  /\ UNCHANGED <<memory, unpushed, popped, locals>>

HeadExchange(p) ==
  /\ pc[p] = "popSwing" /\ head = localHead[p]
  /\ head' = Advance(localHead[p], localNext[p].ptr)
  /\ popped' = Append(popped, result[p])
  /\ Goto(p, "popFree")
  /\ UNCHANGED <<tail, doubleNext, payload, free, unpushed, locals>>

HeadStays(p) ==
  /\ pc[p] = "popSwing" /\ head # localHead[p]
  /\ Goto(p, "popHead")
  /\ UNCHANGED <<memory, unpushed, popped, locals>>

(* Steps that change a thread's own variables only.                         *)
Looks(p) ==
  \/ PushReadTail(p) \/ PushReadNext(p) \/ PushTestTail(p) \/ LinkFails(p)
  \/ BeginPop(p) \/ PopReadHead(p) \/ PopReadTail(p) \/ PopReadNext(p) \/ PopTestHead(p)
  \/ PopReturnNull(p) \/ PopReadPayload(p) \/ HeadStays(p)
  \/ BeginIsEmpty(p) \/ IsEmptyReadHead(p) \/ IsEmptyReadNext(p) \/ IsEmptyReturn(p)

Swings(p) == PushHelp(p) \/ PushSwing(p) \/ PopHelp(p)

Acts(p) ==
  \/ Looks(p) \/ Swings(p) \/ (\E x \in Items : BeginPush(p, x))
  \/ LinkExchange(p) \/ HeadExchange(p) \/ PopFree(p)

LEMMA Steps ==
  ASSUME Next
  PROVE  \E p \in Threads : Acts(p) /\ Observe(p)
<1>1. \A p \in Threads : PushLink(p) => LinkExchange(p) \/ LinkFails(p)
  BY DEF PushLink, LinkExchange, LinkFails, memory, Goto
<1>2. \A p \in Threads : PopSwing(p) => HeadExchange(p) \/ HeadStays(p)
  BY DEF PopSwing, HeadExchange, HeadStays, memory, Goto
<1>3. QED
  BY <1>1, <1>2 DEF Next, Begin, Step, Acts, Looks, Swings

LEMMA ReturnEffect ==
  ASSUME LocalShapes, NEW p \in Threads, Return(p)
  PROVE  /\ pc' \in [Threads -> Labels] /\ item' \in [Threads -> Indices]
         /\ localHead' \in [Threads -> Pointers] /\ localTail' \in [Threads -> Pointers]
         /\ localNext' \in [Threads -> Pointers]
         /\ result' \in [Threads -> Items \cup {NoItem}]
         /\ pc'[p] = "idle" /\ item'[p] = NoLink
         /\ localHead'[p] = Null /\ localTail'[p] = Null
         /\ \A q \in Threads \ {p} :
              /\ pc'[q] = pc[q] /\ item'[q] = item[q] /\ localHead'[q] = localHead[q]
              /\ localTail'[q] = localTail[q] /\ localNext'[q] = localNext[q]
              /\ result'[q] = result[q]
<1>1. Null \in Pointers /\ "idle" \in Labels /\ NoLink \in Indices
  BY DEF Null, Pointers, Labels, Indices
<1>2. QED
  BY <1>1 DEF Return, Goto, LocalShapes

LEMMA AdvanceEffect ==
  ASSUME NEW from \in Pointers, NEW to \in Indices
  PROVE  /\ Advance(from, to) \in Pointers /\ Advance(from, to).ptr = to
         /\ Advance(from, to).counter = from.counter + 1
<1>1. from.counter \in Nat
  BY DEF Pointers
<1>2. from.counter + 1 \in Nat
  BY <1>1
<1>3. QED
  BY <1>2 DEF Advance, Pointers

(* The steps of a thread are its own.                                       *)
SameLocals(q) ==
  /\ pc'[q] = pc[q] /\ item'[q] = item[q] /\ localHead'[q] = localHead[q]
  /\ localTail'[q] = localTail[q] /\ localNext'[q] = localNext[q] /\ result'[q] = result[q]

LEMMA OthersStay ==
  ASSUME LocalShapes, NEW p \in Threads, NEW q \in Threads \ {p}, Acts(p)
  PROVE  SameLocals(q)
<1> USE DEF locals
<1>1. CASE PopReturnNull(p) \/ IsEmptyReturn(p) \/ PushSwing(p) \/ PopFree(p)
  BY <1>1, ReturnEffect DEF PopReturnNull, IsEmptyReturn, PushSwing, PopFree, SameLocals
<1>2. CASE PushReadTail(p) \/ PopReadTail(p)
  BY <1>2 DEF PushReadTail, PopReadTail, Goto, LocalShapes, SameLocals
<1>3. CASE PushReadNext(p) \/ PopReadNext(p)
  BY <1>3 DEF PushReadNext, PopReadNext, Goto, LocalShapes, SameLocals
<1>4. CASE PopReadHead(p) \/ IsEmptyReadHead(p)
  BY <1>4 DEF PopReadHead, IsEmptyReadHead, Goto, LocalShapes, SameLocals
<1>5. CASE PopReadPayload(p)
  BY <1>5 DEF PopReadPayload, Goto, LocalShapes, SameLocals
<1>6. CASE \/ PushTestTail(p) \/ PopTestHead(p) \/ IsEmptyReadNext(p)
           \/ LinkFails(p) \/ BeginPop(p) \/ HeadStays(p) \/ BeginIsEmpty(p)
           \/ PushHelp(p) \/ PopHelp(p) \/ LinkExchange(p) \/ HeadExchange(p)
  <2>1. UNCHANGED locals /\ \E label : Goto(p, label)
    BY <1>6 DEF PushTestTail, PopTestHead, IsEmptyReadNext, LinkFails, BeginPop, HeadStays,
                BeginIsEmpty, PushHelp, PopHelp, LinkExchange, HeadExchange
  <2>2. QED
    BY <2>1 DEF Goto, LocalShapes, SameLocals
<1>7. ASSUME NEW x \in Items, BeginPush(p, x) PROVE SameLocals(q)
  BY <1>7 DEF BeginPush, Goto, LocalShapes, SameLocals
<1>8. QED
  BY <1>1, <1>2, <1>3, <1>4, <1>5, <1>6, <1>7 DEF Acts, Looks, Swings

-----------------------------------------------------------------------------
(* What the steps do to the memory                                          *)

LEMMA AfterOf ==
  ASSUME NEW l \in Indices
  PROVE  After[l] = doubleNext[l].ptr /\ After'[l] = doubleNext'[l].ptr
  BY DEF After

LEMMA AfterShape == MemoryShapes => After \in [Indices -> Indices]
  BY DEF MemoryShapes, Pointers, After

(* The tail and the head are links of the queue, and lead on to links of it.*)
LEMMA Ends ==
  ASSUME FIFOInv
  PROVE  /\ head.ptr \in InUse /\ head.ptr \in Links /\ tail.ptr \in InUse
         /\ InUse = Range(Chain) /\ InUse \subseteq Links
         /\ \A l \in InUse : After[l] # NoLink => After[l] \in InUse /\ After[l] # head.ptr
         /\ \A l, m \in InUse : After[l] = NoLink /\ After[m] = NoLink => l = m
         /\ tail.ptr # head.ptr => After[head.ptr] # NoLink
<1>1. Path(Chain, After, head.ptr) /\ head.ptr \in Links
  BY DEF FIFOInv, ChainInv
<1>2. InUse = Range(Chain)
  BY DEF InUse, Range
<1>3. tail.ptr \in InUse
  BY DEF FIFOInv, EveryLinkHasOneOwner
<1>4. Chain # <<>>
  BY <1>1, LinksAssumption DEF Path
<1>5. head.ptr \in InUse
  BY <1>1, <1>2, <1>4, PathTail
<1>6. \A l \in InUse : l \in Links
  BY <1>1, <1>2, PathNext
<1>7. \A l \in InUse : After[l] # NoLink => After[l] \in InUse /\ After[l] # head.ptr
  BY <1>1, <1>2, PathNext
<1>8. \A l, m \in InUse : After[l] = NoLink /\ After[m] = NoLink => l = m
  BY <1>1, <1>2, PathNext
<1>9. tail.ptr # head.ptr => After[head.ptr] # NoLink
  <2>1. ASSUME After[head.ptr] = NoLink PROVE InUse = {head.ptr}
    <3>1. /\ Path(Tail(Chain), After, NoLink)
          /\ Range(Tail(Chain)) = InUse \ {head.ptr}
      BY <1>1, <1>2, <1>4, <2>1, PathTail
    <3>2. Tail(Chain) = <<>>
      BY <3>1, PathEnd
    <3>3. Range(Tail(Chain)) = {}
      BY <3>2 DEF Range
    <3>4. QED
      BY <1>5, <3>1, <3>3
  <2>2. QED
    BY <1>3, <2>1
<1>10. QED
  BY <1>1, <1>2, <1>3, <1>5, <1>6, <1>7, <1>8, <1>9

LEMMA LooksEffect ==
  ASSUME NEW p \in Threads, Looks(p)
  PROVE  UNCHANGED <<head, tail, doubleNext, payload, free, unpushed, popped>>
  BY DEF memory, Looks, PushReadTail, PushReadNext, PushTestTail, LinkFails, BeginPop,
         PopReadHead, PopReadTail, PopReadNext, PopTestHead, PopReturnNull, PopReadPayload,
         HeadStays, BeginIsEmpty, IsEmptyReadHead, IsEmptyReadNext, IsEmptyReturn

(* Whoever moves the tail on moves it to the next link.                     *)
LEMMA SwingsEffect ==
  ASSUME FIFOInv, NEW p \in Threads, Swings(p)
  PROVE  /\ UNCHANGED <<head, doubleNext, payload, free, unpushed, popped>>
         /\ tail = localTail[p] => /\ tail' = Advance(tail, After[tail.ptr])
                                   /\ After[tail.ptr] # NoLink
         /\ tail # localTail[p] => tail' = tail
<1>1. /\ UNCHANGED <<head, doubleNext, payload, free, unpushed, popped>>
      /\ tail # localTail[p] => tail' = tail
  BY DEF Swings, PushHelp, PushSwing, PopHelp, SwingTail
<1>2. TailReads(p) /\ Refs(p)
  BY DEF FIFOInv
<1>3. ASSUME tail = localTail[p]
      PROVE  tail' = Advance(tail, After[tail.ptr]) /\ After[tail.ptr] # NoLink
  <2>1. CASE PushHelp(p) \/ PopHelp(p)
    BY <1>2, <1>3, <2>1, LinksAssumption DEF PushHelp, PopHelp, SwingTail, TailReads, Refs
  <2>2. CASE PushSwing(p)
    BY <1>2, <1>3, <2>2, LinksAssumption DEF PushSwing, SwingTail, TailReads, Refs
  <2>3. QED
    BY <2>1, <2>2 DEF Swings
<1>4. QED
  BY <1>1, <1>3

(* A link is linked behind the last one, at which the tail still is.        *)
LEMMA LinkEffect ==
  ASSUME FIFOInv, NEW p \in Threads, LinkExchange(p)
  PROVE  /\ UNCHANGED <<head, tail, payload, free, unpushed, popped>>
         /\ localTail[p] = tail /\ After[tail.ptr] = NoLink
         /\ item[p] \in Links /\ item[p] \notin InUse /\ After[item[p]] = NoLink
         /\ doubleNext'[tail.ptr].ptr = item[p]
         /\ doubleNext'[tail.ptr].counter = doubleNext[tail.ptr].counter + 1
         /\ \A l \in Indices \ {tail.ptr} : doubleNext'[l] = doubleNext[l]
<1>1. /\ UNCHANGED <<head, tail, payload, free, unpushed, popped>> /\ pc[p] = "pushLink"
      /\ doubleNext[localTail[p].ptr] = localNext[p]
      /\ doubleNext' = [doubleNext EXCEPT ![localTail[p].ptr] = Advance(localNext[p], item[p])]
  BY DEF LinkExchange
<1>2. localNext[p].ptr = NoLink /\ localTail[p] = tail
      /\ item[p] \in Links /\ After[item[p]] = NoLink
  <2>1. localNext[p].counter \in Nat
    BY DEF FIFOInv, LocalShapes, Pointers
  <2>2. ~(localNext[p].counter < doubleNext[localTail[p].ptr].counter)
    BY <1>1, <2>1
  <2>3. QED
    BY <1>1, <2>2 DEF FIFOInv, TailReads, UnlinkedInv, Pushing
<1>3. tail.ptr \in Indices /\ doubleNext \in [Indices -> Pointers] /\ localNext[p] \in Pointers
      /\ item[p] \in Indices
  BY DEF FIFOInv, MemoryShapes, LocalShapes, Pointers
<1>4. After[tail.ptr] = NoLink
  BY <1>1, <1>2, <1>3, AfterOf
<1>5. item[p] \notin InUse
  BY <1>1 DEF FIFOInv, EveryLinkHasOneOwner, Owned
<1>6. /\ Advance(localNext[p], item[p]).ptr = item[p]
      /\ Advance(localNext[p], item[p]).counter = localNext[p].counter + 1
  BY <1>3, AdvanceEffect
<1>7. doubleNext'[tail.ptr] = Advance(localNext[p], item[p])
      /\ \A l \in Indices \ {tail.ptr} : doubleNext'[l] = doubleNext[l]
  BY <1>1, <1>2, <1>3
<1>8. QED
  BY <1>1, <1>2, <1>4, <1>5, <1>6, <1>7

(* The head moves to the next link, whose payload is popped.                *)
LEMMA HeadEffect ==
  ASSUME FIFOInv, NEW p \in Threads, HeadExchange(p)
  PROVE  /\ UNCHANGED <<tail, doubleNext, payload, free, unpushed, locals>>
         /\ head = localHead[p] /\ tail.ptr # head.ptr
         /\ head' = Advance(head, After[head.ptr])
         /\ popped' = Append(popped, payload[After[head.ptr]])
         /\ After[head.ptr] \in Links /\ After[head.ptr] \in InUse
         /\ After[head.ptr] # head.ptr
<1>1. /\ UNCHANGED <<tail, doubleNext, payload, free, unpushed, locals>>
      /\ head = localHead[p] /\ pc[p] = "popSwing"
      /\ head' = Advance(localHead[p], localNext[p].ptr) /\ popped' = Append(popped, result[p])
  BY DEF HeadExchange
<1>2. /\ tail.ptr # head.ptr /\ After[head.ptr] = localNext[p].ptr
      /\ result[p] = payload[localNext[p].ptr]
  BY <1>1 DEF FIFOInv, HeadReads
<1>3. After[head.ptr] \in Links /\ After[head.ptr] \in InUse /\ After[head.ptr] # head.ptr
  BY <1>2, Ends
<1>4. QED
  BY <1>1, <1>2, <1>3

LEMMA FreeEffect ==
  ASSUME FIFOInv, NEW p \in Threads, PopFree(p)
  PROVE  /\ UNCHANGED <<head, tail, unpushed, popped>>
         /\ localHead[p].ptr \in Links /\ localHead[p].ptr \notin InUse
         /\ free' = free \cup {localHead[p].ptr}
         /\ doubleNext'[localHead[p].ptr].ptr = NoLink
         /\ doubleNext'[localHead[p].ptr].counter = doubleNext[localHead[p].ptr].counter
         /\ doubleNext'[localHead[p].ptr] \in Pointers
         /\ \A l \in Indices \ {localHead[p].ptr} :
              doubleNext'[l] = doubleNext[l] /\ payload'[l] = payload[l]
<1> DEFINE k == localHead[p].ptr
<1>1. /\ UNCHANGED <<head, tail, unpushed, popped>> /\ pc[p] = "popFree"
      /\ doubleNext' = [doubleNext EXCEPT ![k] = ClearPtr(doubleNext[k])]
      /\ payload' = [payload EXCEPT ![k] = NoItem]
      /\ free' = free \cup {k}
  BY DEF PopFree
<1>2. k \in Links /\ k \notin InUse /\ k \in Indices
  BY <1>1 DEF FIFOInv, Refs, EveryLinkHasOneOwner, Owned, Indices
<1>3. doubleNext \in [Indices -> Pointers] /\ payload \in [Indices -> Items \cup {NoItem}]
  BY DEF FIFOInv, MemoryShapes
<1> HIDE DEF k
<1>4. /\ ClearPtr(doubleNext[k]).ptr = NoLink /\ ClearPtr(doubleNext[k]) \in Pointers
      /\ ClearPtr(doubleNext[k]).counter = doubleNext[k].counter
  BY <1>2, <1>3 DEF ClearPtr, Pointers, Indices
<1>5. /\ doubleNext'[k] = ClearPtr(doubleNext[k])
      /\ \A l \in Indices \ {k} : doubleNext'[l] = doubleNext[l] /\ payload'[l] = payload[l]
  BY <1>1, <1>2, <1>3
<1>6. QED
  BY <1>1, <1>2, <1>4, <1>5 DEF k

LEMMA BeginPushEffect ==
  ASSUME FIFOInv, NEW p \in Threads, NEW x \in Items, BeginPush(p, x)
  PROVE  /\ UNCHANGED <<head, tail, doubleNext, popped>>
         /\ pc[p] = "idle" /\ pc'[p] = "pushTail"
         /\ x \in unpushed /\ unpushed' = unpushed \ {x}
         /\ \E l \in free :
              /\ l \in Links /\ free' = free \ {l} /\ item'[p] = l /\ payload'[l] = x
              /\ \A m \in Indices \ {l} : payload'[m] = payload[m]
<1>1. /\ UNCHANGED <<head, tail, doubleNext, popped>>
      /\ pc[p] = "idle" /\ pc'[p] = "pushTail"
      /\ x \in unpushed /\ unpushed' = unpushed \ {x}
  BY DEF BeginPush, Goto, FIFOInv, LocalShapes
<1>2. PICK l \in free :
        /\ free' = free \ {l} /\ item' = [item EXCEPT ![p] = l]
        /\ payload' = [payload EXCEPT ![l] = x]
  BY DEF BeginPush
<1>3. l \in Links /\ item'[p] = l /\ payload'[l] = x
      /\ \A m \in Indices \ {l} : payload'[m] = payload[m]
  BY <1>2 DEF FIFOInv, MemoryShapes, LocalShapes, Indices
<1>4. QED
  BY <1>1, <1>2, <1>3

-----------------------------------------------------------------------------
(* The initial state                                                        *)

LEMMA ChainIs ==
  /\ Chain = LinksFrom(After, head.ptr) /\ Chain' = LinksFrom(After', head'.ptr)
  /\ InUse = Range(Chain) /\ InUse' = Range(Chain')
  BY DEF Chain, After, InUse, Range

LEMMA InitChain ==
  ASSUME Init
  PROVE  /\ After \in [Indices -> Indices] /\ \A l \in Indices : After[l] = NoLink
         /\ Path(Chain, After, head.ptr) /\ InUse = {head.ptr}
         /\ head.ptr \in Links /\ tail = head /\ free = Links \ {head.ptr}
<1>1. PICK stub \in Links : /\ head = [Null EXCEPT !.ptr = stub]
                            /\ tail = [Null EXCEPT !.ptr = stub] /\ free = Links \ {stub}
  BY DEF Init
<1>2. head.ptr = stub /\ tail = head
  BY <1>1 DEF Null
<1>3. /\ \A l \in Indices : doubleNext[l] = Null
      /\ After \in [Indices -> Indices] /\ \A l \in Indices : After[l] = NoLink
  BY DEF Init, After, Null, Indices
<1>4. PICK none : Path(none, After, NoLink) /\ none = <<>>
  BY PathEnd
<1>5. Range(none) = {} /\ stub \in Indices
  BY <1>4 DEF Range, Indices
<1>6. /\ Path(<<stub>> \o none, After, stub) /\ Range(<<stub>> \o none) = {stub}
  <2>1. /\ stub \in Links /\ stub \notin Range(none) /\ After[stub] = NoLink
        /\ Path(none, After, NoLink)
    BY <1>1, <1>3, <1>4, <1>5
  <2>2. /\ Path(<<stub>> \o none, After, stub)
        /\ Range(<<stub>> \o none) = Range(none) \cup {stub}
    BY <2>1, PathCons
  <2>3. QED
    BY <1>5, <2>2
<1>7. LinksFrom(After, stub) = <<stub>> \o none
  BY <1>3, <1>5, <1>6, LinksFromPath
<1>8. QED
  BY <1>1, <1>2, <1>3, <1>6, <1>7, ChainIs

LEMMA InitInv == Init => FIFOInv
<1> SUFFICES ASSUME Init PROVE FIFOInv
  OBVIOUS
<1>1. Null \in Pointers /\ Null.counter = 0 /\ NoLink \in Indices
  BY DEF Null, Pointers, Indices
<1>2. /\ After \in [Indices -> Indices] /\ \A l \in Indices : After[l] = NoLink
      /\ Path(Chain, After, head.ptr) /\ InUse = {head.ptr}
      /\ head.ptr \in Links /\ tail = head /\ free = Links \ {head.ptr}
  BY InitChain
<1>3. MemoryShapes
  <2>1. \A l \in Links : [Null EXCEPT !.ptr = l] \in Pointers
    BY DEF Null, Pointers, Indices
  <2>2. head \in Pointers /\ tail \in Pointers
    BY <2>1 DEF Init
  <2>3. <<>> \in Seq(Items)
    BY EmptySeq
  <2>4. QED
    BY <1>1, <1>2, <2>2, <2>3 DEF Init, MemoryShapes
<1>4. LocalShapes
  BY <1>1 DEF Init, LocalShapes, Labels
<1>5. ChainInv
  BY <1>2 DEF ChainInv, Indices
<1>6. UnlinkedInv
  BY <1>2 DEF UnlinkedInv, Init, Pushing, Indices
<1>7. EveryLinkHasOneOwner
  <2>1. \A p \in Threads : Owned(p) = {} /\ Dereferenced(p) = {}
    BY DEF Init, Owned, Dereferenced
  <2>2. QED
    BY <1>2, <2>1 DEF EveryLinkHasOneOwner
<1>8. PayloadInv
  <2>1. Live = {}
    BY <1>2 DEF Live, Init, Pushing
  <2>2. Range(popped) = {}
    BY DEF Init, Range
  <2>3. QED
    BY <2>1, <2>2 DEF PayloadInv
<1>9. ASSUME NEW p \in Threads PROVE Refs(p) /\ TailReads(p) /\ HeadReads(p) /\ Saw(p) /\ Alone(p)
  <2>1. pc[p] = "idle" /\ retries[p] = 0 /\ localTail[p] = Null /\ localHead[p] = Null
    BY DEF Init
  <2>2. head.counter \in Nat /\ tail.counter \in Nat
    BY <1>3 DEF MemoryShapes, Pointers
  <2>3. Refs(p) /\ TailReads(p) /\ HeadReads(p) /\ Saw(p) /\ Alone(p)
    BY <1>1, <2>1, <2>2 DEF Refs, TailReads, HeadReads, Saw, Alone, Pushing
  <2>4. QED
    BY <2>3
<1>10. QED
  BY <1>3, <1>4, <1>5, <1>6, <1>7, <1>8, <1>9 DEF FIFOInv

-----------------------------------------------------------------------------
(* Shapes                                                                   *)

LEMMA MemoryShapesStay ==
  ASSUME FIFOInv, NEW p \in Threads, Acts(p)
  PROVE  MemoryShapes'
<1> USE DEF MemoryShapes
<1>1. /\ head \in Pointers /\ tail \in Pointers /\ doubleNext \in [Indices -> Pointers]
      /\ payload \in [Indices -> Items \cup {NoItem}]
      /\ free \subseteq Links /\ unpushed \subseteq Items /\ popped \in Seq(Items)
  BY DEF FIFOInv
<1>2. After \in [Indices -> Indices] /\ head.ptr \in Indices /\ tail.ptr \in Indices
  BY AfterShape DEF FIFOInv, Pointers
<1>3. CASE Looks(p)
  BY <1>1, <1>3, LooksEffect
<1>4. CASE Swings(p)
  <2>1. Advance(tail, After[tail.ptr]) \in Pointers
    BY <1>1, <1>2, AdvanceEffect
  <2>2. QED
    BY <1>1, <1>4, <2>1, SwingsEffect
<1>5. ASSUME NEW x \in Items, BeginPush(p, x) PROVE MemoryShapes'
  BY <1>1, <1>5 DEF BeginPush
<1>6. CASE LinkExchange(p)
  <2>1. localNext[p] \in Pointers /\ item[p] \in Indices
    BY DEF FIFOInv, LocalShapes
  <2>2. Advance(localNext[p], item[p]) \in Pointers
    BY <2>1, AdvanceEffect
  <2>3. QED
    BY <1>1, <1>6, <2>2 DEF LinkExchange
<1>7. CASE HeadExchange(p)
  <2>1. /\ UNCHANGED <<tail, doubleNext, payload, free, unpushed>>
        /\ head' = Advance(head, After[head.ptr])
        /\ popped' = Append(popped, payload[After[head.ptr]])
        /\ After[head.ptr] \in InUse /\ After[head.ptr] # head.ptr
    BY <1>7, HeadEffect
  <2>2. Advance(head, After[head.ptr]) \in Pointers
    BY <1>1, <1>2, AdvanceEffect
  <2>3. payload[After[head.ptr]] \in Items
    BY <2>1 DEF FIFOInv, PayloadInv, Live
  <2>4. popped' \in Seq(Items)
    BY <1>1, <2>1, <2>3, AppendProperties
  <2>5. QED
    BY <1>1, <2>1, <2>2, <2>4
<1>8. CASE PopFree(p)
  <2>1. /\ UNCHANGED <<head, tail, unpushed, popped>> /\ localHead[p].ptr \in Links
        /\ free' = free \cup {localHead[p].ptr}
    BY <1>8, FreeEffect
  <2>2. ClearPtr(doubleNext[localHead[p].ptr]) \in Pointers
    BY <1>1, <2>1 DEF ClearPtr, Pointers, Indices
  <2>3. /\ doubleNext' = [doubleNext EXCEPT ![localHead[p].ptr] = ClearPtr(doubleNext[localHead[p].ptr])]
        /\ payload' = [payload EXCEPT ![localHead[p].ptr] = NoItem]
    BY <1>8 DEF PopFree
  <2>4. doubleNext' \in [Indices -> Pointers]
    BY <1>1, <2>2, <2>3
  <2>5. payload' \in [Indices -> Items \cup {NoItem}]
    BY <1>1, <2>3
  <2>6. QED
    BY <1>1, <2>1, <2>4, <2>5
<1>9. QED
  BY <1>3, <1>4, <1>5, <1>6, <1>7, <1>8 DEF Acts

LEMMA LocalShapesStay ==
  ASSUME FIFOInv, NEW p \in Threads, Acts(p), Observe(p)
  PROVE  LocalShapes'
<1>0. /\ pc \in [Threads -> Labels] /\ item \in [Threads -> Indices]
      /\ localHead \in [Threads -> Pointers] /\ localTail \in [Threads -> Pointers]
      /\ localNext \in [Threads -> Pointers] /\ result \in [Threads -> Items \cup {NoItem}]
      /\ seen \in [Threads -> SUBSET BOOLEAN] /\ retries \in [Threads -> Nat]
      /\ LocalShapes
  BY DEF FIFOInv, LocalShapes
<1>1. /\ head \in Pointers /\ tail \in Pointers /\ doubleNext \in [Indices -> Pointers]
      /\ payload \in [Indices -> Items \cup {NoItem}] /\ free \subseteq Indices
  BY DEF FIFOInv, MemoryShapes, Indices
<1>2. /\ localHead[p].ptr \in Indices /\ localTail[p].ptr \in Indices
      /\ localNext[p].ptr \in Indices
  BY <1>0 DEF Pointers
<1>3. seen' \in [Threads -> SUBSET BOOLEAN]
  BY <1>0 DEF Observe
<1>4. retries' \in [Threads -> Nat]
  BY <1>0 DEF Observe
<1> DEFINE Rest == /\ pc' \in [Threads -> Labels] /\ item' \in [Threads -> Indices]
                   /\ localHead' \in [Threads -> Pointers]
                   /\ localTail' \in [Threads -> Pointers]
                   /\ localNext' \in [Threads -> Pointers]
                   /\ result' \in [Threads -> Items \cup {NoItem}]
<1>5. SUFFICES Rest
  BY <1>3, <1>4 DEF LocalShapes
<1>6. CASE PopReturnNull(p) \/ IsEmptyReturn(p) \/ PushSwing(p) \/ PopFree(p)
  BY <1>0, <1>6, ReturnEffect DEF PopReturnNull, IsEmptyReturn, PushSwing, PopFree
<1>7. CASE PushReadTail(p) \/ PopReadTail(p)
  BY <1>0, <1>1, <1>7 DEF PushReadTail, PopReadTail, Goto, Labels, Pushing
<1>8. CASE PushReadNext(p) \/ PopReadNext(p)
  BY <1>0, <1>1, <1>2, <1>8 DEF PushReadNext, PopReadNext, Goto, Labels, Pushing
<1>9. CASE PopReadHead(p) \/ IsEmptyReadHead(p)
  BY <1>0, <1>1, <1>9 DEF PopReadHead, IsEmptyReadHead, Goto, Labels
<1>10. CASE PopReadPayload(p)
  BY <1>0, <1>1, <1>2, <1>10 DEF PopReadPayload, Goto, Labels
<1>11. CASE \/ PushTestTail(p) \/ PopTestHead(p) \/ IsEmptyReadNext(p)
            \/ LinkFails(p) \/ BeginPop(p) \/ HeadStays(p) \/ BeginIsEmpty(p)
            \/ PushHelp(p) \/ PopHelp(p) \/ LinkExchange(p) \/ HeadExchange(p)
  <2>1. UNCHANGED locals /\ \E label \in Labels : Goto(p, label)
    BY <1>11 DEF PushTestTail, PopTestHead, IsEmptyReadNext, LinkFails, BeginPop, HeadStays,
                 BeginIsEmpty, PushHelp, PopHelp, LinkExchange, HeadExchange, Labels, Pushing
  <2>2. QED
    BY <1>0, <2>1 DEF Goto, locals
<1>12. ASSUME NEW x \in Items, BeginPush(p, x) PROVE Rest
  BY <1>0, <1>1, <1>12 DEF BeginPush, Goto, Labels, Pushing
<1>13. QED
  BY <1>6, <1>7, <1>8, <1>9, <1>10, <1>11, <1>12 DEF Acts, Looks, Swings

-----------------------------------------------------------------------------
(* The queue grows at its end and shrinks at its head                       *)

ChainMoves(p) ==
  \/ /\ ~LinkExchange(p) /\ ~HeadExchange(p)
     /\ Chain' = Chain /\ InUse' = InUse /\ head' = head
     /\ \A l \in InUse : After'[l] = After[l]
  \/ /\ LinkExchange(p) /\ item[p] \in Links /\ item[p] \notin InUse
     /\ Chain' = Append(Chain, item[p]) /\ InUse' = InUse \cup {item[p]}
     /\ head' = head /\ tail' = tail
     /\ After'[tail.ptr] = item[p] /\ After'[item[p]] = NoLink
     /\ \A l \in InUse \ {tail.ptr} : After'[l] = After[l]
  \/ /\ HeadExchange(p) /\ Chain # <<>>
     /\ Chain' = Tail(Chain) /\ InUse' = InUse \ {head.ptr}
     /\ tail' = tail /\ After' = After /\ tail.ptr # head.ptr

LEMMA ChainStep ==
  ASSUME FIFOInv, NEW p \in Threads, Acts(p)
  PROVE  ChainMoves(p) /\ Path(Chain', After', head'.ptr) /\ head'.ptr \in Links
<1>1. /\ head \in Pointers /\ tail \in Pointers /\ doubleNext \in [Indices -> Pointers]
  BY DEF FIFOInv, MemoryShapes
<1>2. MemoryShapes' /\ After' \in [Indices -> Indices] /\ head'.ptr \in Indices
  BY MemoryShapesStay, AfterShape DEF MemoryShapes, Pointers, After
<1>3. /\ Path(Chain, After, head.ptr) /\ head.ptr \in Links /\ InUse = Range(Chain)
      /\ tail.ptr \in InUse /\ InUse \subseteq Links /\ Chain # <<>>
  BY Ends, LinksAssumption DEF FIFOInv, ChainInv, Path
<1>4. ASSUME head' = head, \A l \in InUse : doubleNext'[l] = doubleNext[l],
             ~LinkExchange(p), ~HeadExchange(p)
      PROVE  ChainMoves(p) /\ Path(Chain', After', head'.ptr) /\ head'.ptr \in Links
  <2>1. \A l \in InUse : After'[l] = After[l]
    BY <1>3, <1>4, AfterOf DEF Indices
  <2>2. Path(Chain, After', head.ptr)
    BY <1>3, <2>1, PathFrame
  <2>3. Chain' = Chain
    BY <1>2, <1>4, <2>2, LinksFromPath, ChainIs
  <2>4. InUse' = InUse
    BY <2>3, ChainIs
  <2>5. QED
    BY <1>3, <1>4, <2>1, <2>2, <2>3, <2>4 DEF ChainMoves
<1>5. ASSUME LinkExchange(p)
      PROVE  ChainMoves(p) /\ Path(Chain', After', head'.ptr) /\ head'.ptr \in Links
  <2>1. /\ UNCHANGED <<head, tail>> /\ After[tail.ptr] = NoLink
        /\ item[p] \in Links /\ item[p] \notin InUse /\ After[item[p]] = NoLink
        /\ doubleNext'[tail.ptr].ptr = item[p]
        /\ \A l \in Indices \ {tail.ptr} : doubleNext'[l] = doubleNext[l]
    BY <1>5, LinkEffect
  <2>2. /\ After'[tail.ptr] = item[p] /\ After'[item[p]] = NoLink
        /\ \A l \in InUse \ {tail.ptr} : After'[l] = After[l]
    BY <1>3, <2>1, AfterOf DEF Indices
  <2>3. /\ Path(Append(Chain, item[p]), After', head.ptr)
        /\ Range(Append(Chain, item[p])) = InUse \cup {item[p]}
    BY <1>3, <2>1, <2>2, PathAppend
  <2>4. Chain' = Append(Chain, item[p])
    BY <1>2, <2>1, <2>3, LinksFromPath, ChainIs
  <2>5. QED
    BY <1>3, <1>5, <2>1, <2>2, <2>3, <2>4, ChainIs DEF ChainMoves
<1>6. ASSUME HeadExchange(p)
      PROVE  ChainMoves(p) /\ Path(Chain', After', head'.ptr) /\ head'.ptr \in Links
  <2>1. /\ UNCHANGED <<tail, doubleNext>> /\ tail.ptr # head.ptr
        /\ head' = Advance(head, After[head.ptr]) /\ After[head.ptr] \in Links
    BY <1>6, HeadEffect
  <2>2. After' = After /\ head'.ptr = After[head.ptr]
    BY <1>1, <2>1, AdvanceEffect DEF After, Indices
  <2>3. /\ Path(Tail(Chain), After, After[head.ptr])
        /\ Range(Tail(Chain)) = InUse \ {head.ptr}
    BY <1>3, PathTail
  <2>4. Chain' = Tail(Chain)
    BY <1>2, <2>2, <2>3, LinksFromPath, ChainIs
  <2>5. QED
    BY <1>3, <1>6, <2>1, <2>2, <2>3, <2>4, ChainIs DEF ChainMoves
<1>7. CASE Looks(p) \/ Swings(p) \/ (\E x \in Items : BeginPush(p, x)) \/ PopFree(p)
  <2>1. head' = head /\ \A l \in InUse : doubleNext'[l] = doubleNext[l]
    BY <1>3, <1>7, LooksEffect, SwingsEffect, BeginPushEffect, FreeEffect DEF Indices
  <2>2. QED
    BY <1>4, <1>5, <1>6, <2>1
<1>8. QED
  BY <1>5, <1>6, <1>7 DEF Acts

-----------------------------------------------------------------------------
(* What the other threads see of a step                                     *)

TailMoves ==
  /\ tail'.counter = tail.counter + 1 /\ tail'.ptr = After[tail.ptr]
  /\ After[tail.ptr] # NoLink /\ UNCHANGED <<head, doubleNext, payload>>

HeadMoves ==
  /\ head'.counter = head.counter + 1 /\ head'.ptr = After[head.ptr]
  /\ UNCHANGED <<tail, doubleNext, payload>>

(* Link l gets a successor, or is freed and leads nowhere.                  *)
Extended(l) ==
  /\ l = tail.ptr /\ doubleNext[l].ptr = NoLink /\ doubleNext'[l].ptr # NoLink
  /\ doubleNext'[l].counter = doubleNext[l].counter + 1
  /\ UNCHANGED <<head, tail>>

Cleared(l) ==
  /\ l \notin InUse /\ doubleNext'[l].ptr = NoLink
  /\ doubleNext'[l].counter = doubleNext[l].counter

LEMMA Frame ==
  ASSUME FIFOInv, NEW p \in Threads, Acts(p)
  PROVE  /\ tail' = tail \/ TailMoves
         /\ head' = head \/ HeadMoves
         /\ \A l \in Indices : doubleNext'[l] = doubleNext[l] \/ Extended(l) \/ Cleared(l)
         /\ \A l \in InUse : payload'[l] = payload[l]
<1>1. /\ head \in Pointers /\ tail \in Pointers /\ After \in [Indices -> Indices]
      /\ tail.ptr \in Indices /\ head.ptr \in Indices
  BY AfterShape DEF FIFOInv, MemoryShapes, Pointers
<1>2. InUse \subseteq Links /\ InUse \subseteq Indices /\ tail.ptr \in InUse
  BY Ends DEF Indices
<1>3. CASE Looks(p)
  BY <1>3, LooksEffect
<1>4. CASE Swings(p)
  <2>1. UNCHANGED <<head, doubleNext, payload>>
    BY <1>4, SwingsEffect
  <2>2. CASE tail = localTail[p]
    <3>1. tail' = Advance(tail, After[tail.ptr]) /\ After[tail.ptr] # NoLink
      BY <1>4, <2>2, SwingsEffect
    <3>2. TailMoves
      BY <1>1, <2>1, <3>1, AdvanceEffect DEF TailMoves
    <3>3. QED
      BY <2>1, <3>2
  <2>3. CASE tail # localTail[p]
    BY <1>4, <2>1, <2>3, SwingsEffect
  <2>4. QED
    BY <2>2, <2>3
<1>5. ASSUME NEW x \in Items, BeginPush(p, x)
      PROVE  /\ UNCHANGED <<head, tail, doubleNext>>
             /\ \A l \in InUse : payload'[l] = payload[l]
  <2>1. PICK l \in free : \A m \in Indices \ {l} : payload'[m] = payload[m]
    BY <1>5, BeginPushEffect
  <2>2. l \notin InUse
    BY DEF FIFOInv, EveryLinkHasOneOwner
  <2>3. QED
    BY <1>2, <1>5, <2>1, <2>2, BeginPushEffect
<1>6. CASE LinkExchange(p)
  <2>1. /\ UNCHANGED <<head, tail, payload>> /\ After[tail.ptr] = NoLink /\ item[p] \in Links
        /\ doubleNext'[tail.ptr].ptr = item[p]
        /\ doubleNext'[tail.ptr].counter = doubleNext[tail.ptr].counter + 1
        /\ \A l \in Indices \ {tail.ptr} : doubleNext'[l] = doubleNext[l]
    BY <1>6, LinkEffect
  <2>2. Extended(tail.ptr)
    BY <1>1, <2>1, AfterOf, LinksAssumption DEF Extended
  <2>3. QED
    BY <2>1, <2>2
<1>7. CASE HeadExchange(p)
  <2>1. /\ UNCHANGED <<tail, doubleNext, payload>> /\ head' = Advance(head, After[head.ptr])
    BY <1>7, HeadEffect
  <2>2. HeadMoves
    BY <1>1, <2>1, AdvanceEffect, SMTT(20) DEF HeadMoves
  <2>3. QED
    BY <2>1, <2>2
<1>8. CASE PopFree(p)
  <2>1. /\ UNCHANGED <<head, tail>> /\ localHead[p].ptr \notin InUse
        /\ doubleNext'[localHead[p].ptr].ptr = NoLink
        /\ doubleNext'[localHead[p].ptr].counter = doubleNext[localHead[p].ptr].counter
        /\ \A l \in Indices \ {localHead[p].ptr} :
             doubleNext'[l] = doubleNext[l] /\ payload'[l] = payload[l]
    BY <1>8, FreeEffect
  <2>2. Cleared(localHead[p].ptr)
    BY <2>1 DEF Cleared
  <2>3. QED
    BY <1>2, <2>1, <2>2
<1>9. QED
  BY <1>3, <1>4, <1>5, <1>6, <1>7, <1>8 DEF Acts

(* By which step a thread gets where it is.                                 *)
LEMMA Arrivals ==
  ASSUME FIFOInv, NEW p \in Threads, Acts(p)
  PROVE  /\ pc'[p] = "pushTail" => \/ \E x \in Items : BeginPush(p, x)
                                   \/ PushTestTail(p) \/ PushHelp(p) \/ LinkFails(p)
         /\ pc'[p] = "pushNext" => PushReadTail(p)
         /\ pc'[p] = "pushTest" => PushReadNext(p)
         /\ pc'[p] \in {"pushHelp", "pushLink"} => PushTestTail(p)
         /\ pc'[p] = "pushSwing" => LinkExchange(p)
         /\ pc'[p] = "popHead" => \/ BeginPop(p) \/ PopTestHead(p) \/ PopHelp(p)
                                  \/ HeadStays(p)
         /\ pc'[p] = "popTail" => PopReadHead(p)
         /\ pc'[p] = "popNext" => PopReadTail(p)
         /\ pc'[p] = "popTest" => PopReadNext(p)
         /\ pc'[p] \in {"popNull", "popHelp", "popPayload"} => PopTestHead(p)
         /\ pc'[p] = "popSwing" => PopReadPayload(p)
         /\ pc'[p] = "popFree" => HeadExchange(p)
         /\ pc'[p] = "emptyNext" => IsEmptyReadHead(p)
         /\ pc'[p] = "idle" => /\ UNCHANGED <<head>>
                               /\ localTail'[p] = Null /\ localHead'[p] = Null
<1>1. pc \in [Threads -> Labels] /\ LocalShapes
  BY DEF FIFOInv, LocalShapes
<1>2. CASE PopReturnNull(p) \/ IsEmptyReturn(p) \/ PushSwing(p) \/ PopFree(p)
  <2>1. Return(p) /\ UNCHANGED head
    BY <1>2 DEF PopReturnNull, IsEmptyReturn, PushSwing, PopFree, SwingTail, memory
  <2>2. pc'[p] = "idle" /\ localTail'[p] = Null /\ localHead'[p] = Null
    BY <1>1, <2>1, ReturnEffect
  <2>3. QED
    BY <2>1, <2>2
<1>3. CASE PushReadTail(p) \/ PushReadNext(p) \/ PopReadHead(p) \/ PopReadTail(p)
           \/ PopReadNext(p) \/ PopReadPayload(p) \/ IsEmptyReadHead(p)
  BY <1>1, <1>3 DEF PushReadTail, PushReadNext, PopReadHead, PopReadTail, PopReadNext,
                    PopReadPayload, IsEmptyReadHead, Goto
<1>4. CASE LinkFails(p) \/ BeginPop(p) \/ HeadStays(p) \/ BeginIsEmpty(p)
           \/ PushHelp(p) \/ PopHelp(p) \/ LinkExchange(p) \/ HeadExchange(p)
  BY <1>1, <1>4 DEF LinkFails, BeginPop, HeadStays, BeginIsEmpty, PushHelp, PopHelp,
                    LinkExchange, HeadExchange, Goto
<1>5. CASE PushTestTail(p) \/ PopTestHead(p) \/ IsEmptyReadNext(p)
  BY <1>1, <1>5 DEF PushTestTail, PopTestHead, IsEmptyReadNext, Goto
<1>6. ASSUME NEW x \in Items, BeginPush(p, x) PROVE pc'[p] = "pushTail"
  BY <1>6, BeginPushEffect
<1>7. QED
  BY <1>2, <1>3, <1>4, <1>5, <1>6 DEF Acts, Looks, Swings

-----------------------------------------------------------------------------
(* The queue and who owns the links                                         *)

LEMMA ChainInvStays ==
  ASSUME FIFOInv, NEW p \in Threads, Acts(p)
  PROVE  ChainInv' /\ tail'.ptr \in InUse'
<1>1. ChainMoves(p) /\ Path(Chain', After', head'.ptr) /\ head'.ptr \in Links
  BY ChainStep
<1>2. /\ tail.ptr \in InUse /\ InUse \subseteq Indices /\ InUse \subseteq Links
      /\ \A l \in InUse : After[l] # NoLink => After[l] \in InUse
      /\ After[tail.ptr] # NoLink => After[After[tail.ptr]] = NoLink
  BY Ends DEF Indices, FIFOInv, ChainInv
<1>3. tail' = tail \/ TailMoves
  BY Frame
<1>4. CASE TailMoves
  <2>1. After' = After
    BY <1>4 DEF TailMoves, After
  <2>2. InUse' = InUse
    BY <1>4, <2>1, ChainIs DEF TailMoves
  <2>3. tail'.ptr \in InUse' /\ After'[tail'.ptr] = NoLink
    BY <1>2, <1>4, <2>1, <2>2 DEF TailMoves
  <2>4. QED
    BY <1>1, <2>3 DEF ChainInv
<1>5. CASE tail' = tail
  <2>1. /\ tail.ptr \in InUse'
        /\ After'[tail.ptr] # NoLink => After'[After'[tail.ptr]] = NoLink
    BY <1>1, <1>2 DEF ChainMoves
  <2>2. QED
    BY <1>1, <1>5, <2>1 DEF ChainInv
<1>6. QED
  BY <1>3, <1>4, <1>5

LEMMA UnlinkedInvStays ==
  ASSUME FIFOInv, NEW p \in Threads, Acts(p)
  PROVE  UnlinkedInv'
<1>1. /\ \A l \in free : After[l] = NoLink /\ l \in Links
      /\ \A q \in Threads : pc[q] \in Pushing => item[q] \in Links /\ After[item[q]] = NoLink
      /\ LocalShapes
  BY DEF FIFOInv, UnlinkedInv, MemoryShapes
<1>2. /\ \A l \in free : l \notin InUse
      /\ \A q \in Threads : pc[q] \in Pushing => item[q] \notin InUse
      /\ tail.ptr \in InUse
  BY DEF FIFOInv, EveryLinkHasOneOwner, Owned, Pushing
<1>3. ASSUME NEW l \in Links, l \notin InUse, After[l] = NoLink PROVE After'[l] = NoLink
  <2>1. l # tail.ptr /\ l \in Indices
    BY <1>2, <1>3 DEF Indices
  <2>2. doubleNext'[l] = doubleNext[l] \/ Cleared(l)
    BY <2>1, Frame DEF Extended
  <2>3. QED
    BY <1>3, <2>1, <2>2, AfterOf DEF Cleared
<1>4. \A l \in free' : l \in free \/ (l \in Links /\ After'[l] = NoLink)
  <2>1. CASE PopFree(p)
    BY <2>1, FreeEffect, AfterOf DEF Indices
  <2>2. CASE ~PopFree(p)
    BY <2>2, LooksEffect, SwingsEffect, LinkEffect, HeadEffect, BeginPushEffect DEF Acts
  <2>3. QED
    BY <2>1, <2>2
<1>5. ASSUME NEW q \in Threads, pc'[q] \in Pushing
      PROVE  \/ pc[q] \in Pushing /\ item'[q] = item[q]
             \/ item'[q] \in free
  <2>1. CASE q # p
    BY <1>1, <1>5, <2>1, OthersStay DEF SameLocals
  <2>2. CASE q = p
    <3>1. \/ \E x \in Items : BeginPush(p, x)
          \/ PushTestTail(p) \/ PushHelp(p) \/ LinkFails(p)
          \/ PushReadTail(p) \/ PushReadNext(p)
      BY <1>5, <2>2, Arrivals DEF Pushing
    <3>2. ASSUME NEW x \in Items, BeginPush(p, x) PROVE item'[p] \in free
      BY <3>2, BeginPushEffect
    <3>3. CASE PushTestTail(p) \/ PushHelp(p) \/ LinkFails(p) \/ PushReadTail(p)
               \/ PushReadNext(p)
      BY <2>2, <3>3 DEF PushTestTail, PushHelp, LinkFails, PushReadTail, PushReadNext, locals,
                  Pushing
    <3>4. QED
      BY <2>2, <3>1, <3>2, <3>3
  <2>3. QED
    BY <2>1, <2>2
<1>6. QED
  BY <1>1, <1>2, <1>3, <1>4, <1>5 DEF UnlinkedInv

(* What a step does to the allocator, the queue and the links of its        *)
(* thread.                                                                  *)
Moves(p) ==
  \/ free' = free /\ InUse' = InUse /\ Owned(p)' = Owned(p)
  \/ \E l \in free :
       free' = free \ {l} /\ InUse' = InUse /\ Owned(p)' = Owned(p) \cup {l}
  \/ \E l \in Owned(p) :
       free' = free \cup {l} /\ InUse' = InUse /\ Owned(p)' = Owned(p) \ {l}
  \/ \E l \in Owned(p) :
       free' = free /\ InUse' = InUse \cup {l} /\ Owned(p)' = Owned(p) \ {l}
  \/ \E l \in InUse :
       free' = free /\ InUse' = InUse \ {l} /\ Owned(p)' = Owned(p) \cup {l}

LEMMA StepMoves ==
  ASSUME FIFOInv, NEW p \in Threads, Acts(p)
  PROVE  Moves(p)
<1>1. ChainMoves(p) /\ pc \in [Threads -> Labels] /\ LocalShapes
  BY ChainStep DEF FIFOInv, LocalShapes
<1>2. ASSUME LinkExchange(p) PROVE Moves(p)
  <2>1. pc[p] = "pushLink" /\ pc'[p] = "pushSwing" /\ free' = free
    BY <1>1, <1>2 DEF LinkExchange, Goto
  <2>2. Owned(p) = {item[p]} /\ Owned(p)' = {}
    BY <2>1 DEF Owned
  <2>3. InUse' = InUse \cup {item[p]}
    BY <1>1, <1>2 DEF ChainMoves, LinkExchange, HeadExchange
  <2>4. QED
    BY <2>1, <2>2, <2>3 DEF Moves
<1>3. ASSUME HeadExchange(p) PROVE Moves(p)
  <2>1. /\ pc[p] = "popSwing" /\ pc'[p] = "popFree" /\ free' = free
        /\ localHead'[p] = localHead[p] /\ localHead[p] = head
    BY <1>1, <1>3 DEF HeadExchange, Goto, locals
  <2>2. Owned(p) = {} /\ Owned(p)' = {head.ptr}
    BY <2>1 DEF Owned
  <2>3. InUse' = InUse \ {head.ptr} /\ head.ptr \in InUse
    BY <1>1, <1>3, Ends DEF ChainMoves, LinkExchange, HeadExchange
  <2>4. QED
    BY <2>1, <2>2, <2>3 DEF Moves
<1>4. CASE ~LinkExchange(p) /\ ~HeadExchange(p)
  <2>1. InUse' = InUse
    BY <1>1, <1>4 DEF ChainMoves
  <2>2. ASSUME NEW x \in Items, BeginPush(p, x) PROVE Moves(p)
    <3>1. pc[p] = "idle" /\ pc'[p] = "pushTail" /\ item'[p] \in free
          /\ free' = free \ {item'[p]}
      BY <2>2, BeginPushEffect
    <3>2. Owned(p) = {} /\ Owned(p)' = {item'[p]}
      BY <3>1 DEF Owned
    <3>3. QED
      BY <2>1, <3>1, <3>2 DEF Moves
  <2>3. CASE PopFree(p)
    <3>1. pc[p] = "popFree" /\ pc'[p] = "idle" /\ free' = free \cup {localHead[p].ptr}
      BY <1>1, <2>3, ReturnEffect DEF PopFree
    <3>2. Owned(p) = {localHead[p].ptr} /\ Owned(p)' = {}
      BY <3>1 DEF Owned
    <3>3. QED
      BY <2>1, <3>1, <3>2 DEF Moves
  <2>4. CASE Looks(p) \/ Swings(p)
    <3>1. free' = free
      BY <2>4, LooksEffect, SwingsEffect
    <3>2. CASE PopReturnNull(p) \/ IsEmptyReturn(p) \/ PushSwing(p)
      <4>1. pc'[p] = "idle" /\ pc[p] \in {"popNull", "saysEmpty", "saysFilled", "pushSwing"}
        BY <1>1, <3>2, ReturnEffect DEF PopReturnNull, IsEmptyReturn, PushSwing
      <4>2. Owned(p)' = {} /\ Owned(p) = {}
        BY <4>1 DEF Owned
      <4>3. QED
        BY <2>1, <3>1, <4>2 DEF Moves
    <3>3. CASE PushReadTail(p) \/ PushReadNext(p) \/ PushTestTail(p) \/ LinkFails(p)
               \/ PushHelp(p)
      <4>1. pc[p] \in Pushing /\ pc'[p] \in Pushing /\ item'[p] = item[p]
        BY <1>1, <3>3 DEF PushReadTail, PushReadNext, PushTestTail, LinkFails, PushHelp, Goto,
                          locals, Pushing
      <4>2. Owned(p)' = {item[p]} /\ Owned(p) = {item[p]}
        BY <4>1 DEF Owned, Pushing
      <4>3. QED
        BY <2>1, <3>1, <4>2 DEF Moves
    <3>4. CASE BeginPop(p) \/ PopReadHead(p) \/ PopReadTail(p) \/ PopReadNext(p)
               \/ PopTestHead(p) \/ PopReadPayload(p) \/ HeadStays(p) \/ BeginIsEmpty(p)
               \/ IsEmptyReadHead(p) \/ IsEmptyReadNext(p) \/ PopHelp(p)
      <4>1. /\ pc[p] \in Labels \ (Pushing \cup {"popFree"})
            /\ pc'[p] \in Labels \ (Pushing \cup {"popFree"})
        BY <1>1, <3>4 DEF BeginPop, PopReadHead, PopReadTail, PopReadNext, PopTestHead,
                          PopReadPayload, HeadStays, BeginIsEmpty, IsEmptyReadHead,
                          IsEmptyReadNext, PopHelp, Goto, Labels, Pushing
      <4>2. Owned(p)' = {} /\ Owned(p) = {}
        BY <4>1 DEF Owned, Pushing
      <4>3. QED
        BY <2>1, <3>1, <4>2 DEF Moves
    <3>5. QED
      BY <2>4, <3>2, <3>3, <3>4 DEF Looks, Swings
  <2>5. QED
    BY <1>2, <1>3, <2>2, <2>3, <2>4 DEF Acts
<1>5. QED
  BY <1>2, <1>3, <1>4

LEMMA OwnersStay ==
  ASSUME FIFOInv, NEW p \in Threads, Acts(p), \A q \in Threads : Refs(q)'
  PROVE  EveryLinkHasOneOwner'
<1>1. Moves(p) /\ tail'.ptr \in InUse'
  BY StepMoves, ChainInvStays
<1>2. /\ free \cap InUse = {}
      /\ Links = free \cup InUse \cup UNION {Owned(q) : q \in Threads}
      /\ \A q \in Threads : /\ Owned(q) \cap (free \cup InUse) = {}
                            /\ \A r \in Threads \ {q} : Owned(q) \cap Owned(r) = {}
  BY DEF FIFOInv, EveryLinkHasOneOwner
<1>3. \A q \in Threads \ {p} : Owned(q)' = Owned(q)
  BY OthersStay DEF FIFOInv, SameLocals, Owned
<1>4. /\ free' \cap InUse' = {} /\ Owned(p)' \cap (free' \cup InUse') = {}
      /\ free' \cup InUse' \cup Owned(p)' = free \cup InUse \cup Owned(p)
  BY <1>1, <1>2 DEF Moves
<1>5. /\ UNION {Owned(q)' : q \in Threads}
           = Owned(p)' \cup UNION {Owned(q) : q \in Threads \ {p}}
      /\ UNION {Owned(q) : q \in Threads}
           = Owned(p) \cup UNION {Owned(q) : q \in Threads \ {p}}
  BY <1>3
<1>6. Links = free' \cup InUse' \cup UNION {Owned(q)' : q \in Threads}
  BY <1>2, <1>4, <1>5
<1>7. ASSUME NEW q \in Threads \ {p}
      PROVE  Owned(q)' \cap (free' \cup InUse') = {} /\ Owned(q)' \cap Owned(p)' = {}
  <2>1. Owned(q)' = Owned(q) /\ Owned(q) \cap (free \cup InUse \cup Owned(p)) = {}
    BY <1>2, <1>3
  <2>2. QED
    BY <1>4, <2>1
<1>8. \A q, r \in Threads \ {p} : q # r => Owned(q)' \cap Owned(r)' = {}
  BY <1>2, <1>3
<1>9. \A q \in Threads : Dereferenced(q)' \subseteq Links
  BY DEF Refs, Dereferenced
<1>10. QED
  BY <1>1, <1>4, <1>6, <1>7, <1>8, <1>9 DEF EveryLinkHasOneOwner

-----------------------------------------------------------------------------
(* What the threads have read                                               *)

(* The counters of a thread's copies are as old as they were.               *)
LEMMA Counters ==
  ASSUME FIFOInv, NEW p \in Threads, Acts(p)
  PROVE  /\ head.counter \in Nat /\ tail.counter \in Nat
         /\ head'.counter \in Nat /\ tail'.counter \in Nat
         /\ head.counter <= head'.counter /\ tail.counter <= tail'.counter
         /\ \A l \in Indices : /\ doubleNext[l].counter \in Nat
                               /\ doubleNext'[l].counter \in Nat
                               /\ doubleNext[l].counter <= doubleNext'[l].counter
         /\ \A q \in Threads :
              /\ localHead[q].counter \in Nat /\ localTail[q].counter \in Nat
              /\ localNext[q].counter \in Nat
              /\ localHead[q].counter <= head.counter
              /\ localTail[q].counter <= tail.counter
<1>1. MemoryShapes' /\ MemoryShapes
  BY MemoryShapesStay DEF FIFOInv
<1>2. /\ head.counter \in Nat /\ tail.counter \in Nat
      /\ head'.counter \in Nat /\ tail'.counter \in Nat
      /\ \A l \in Indices : doubleNext[l].counter \in Nat /\ doubleNext'[l].counter \in Nat
  BY <1>1 DEF MemoryShapes, Pointers
<1>3. /\ tail' = tail \/ TailMoves
      /\ head' = head \/ HeadMoves
      /\ \A l \in Indices : doubleNext'[l] = doubleNext[l] \/ Extended(l) \/ Cleared(l)
  BY Frame
<1>4. head.counter <= head'.counter /\ tail.counter <= tail'.counter
  BY <1>2, <1>3 DEF TailMoves, HeadMoves
<1>5. \A l \in Indices : doubleNext[l].counter <= doubleNext'[l].counter
  BY <1>2, <1>3 DEF Extended, Cleared
<1>6. \A q \in Threads : /\ localHead[q].counter \in Nat /\ localTail[q].counter \in Nat
                         /\ localNext[q].counter \in Nat
                         /\ localHead[q].counter <= head.counter
                         /\ localTail[q].counter <= tail.counter
  BY DEF FIFOInv, LocalShapes, Pointers, Refs
<1>7. QED
  BY <1>2, <1>4, <1>5, <1>6

(* What was read of a link of the queue is good while the link is there.    *)
LEMMA HeldStays ==
  ASSUME FIFOInv, NEW p \in Threads, Acts(p), NEW l \in InUse,
         NEW v \in Pointers, Held(l, v)
  PROVE  Held(l, v)'
<1>1. l \in Indices
  BY Ends DEF Indices
<1>2. /\ doubleNext[l].counter \in Nat /\ doubleNext'[l].counter \in Nat /\ v.counter \in Nat
      /\ doubleNext[l].counter <= doubleNext'[l].counter
  BY <1>1, Counters DEF Pointers
<1>3. doubleNext'[l] = doubleNext[l] \/ Extended(l) \/ Cleared(l)
  BY <1>1, Frame
<1>4. doubleNext'[l] = doubleNext[l] \/ (/\ doubleNext[l].ptr = NoLink
                                         /\ doubleNext[l].counter < doubleNext'[l].counter)
  BY <1>2, <1>3 DEF Extended, Cleared
<1>5. QED
  BY <1>2, <1>4 DEF Held

(* A link of the queue that leads on leads on to the same link.             *)
LEMMA AfterStays ==
  ASSUME FIFOInv, NEW p \in Threads, Acts(p), NEW l \in InUse, After[l] # NoLink
  PROVE  After'[l] = After[l]
<1>1. l \in Indices
  BY Ends DEF Indices
<1>2. doubleNext'[l] = doubleNext[l]
  BY <1>1, AfterOf, Frame DEF Extended, Cleared
<1>3. QED
  BY <1>1, <1>2, AfterOf

(* If the head or the tail is what a thread has read, it was already.       *)
LEMMA NotMoved ==
  ASSUME FIFOInv, NEW p \in Threads, Acts(p), NEW q \in Threads
  PROVE  /\ tail' = localTail[q] => tail' = tail
         /\ head' = localHead[q] => head' = head
BY Counters, Frame DEF TailMoves, HeadMoves

LEMMA OthersRefs ==
  ASSUME FIFOInv, NEW p \in Threads, Acts(p), NEW q \in Threads \ {p}
  PROVE  Refs(q)'
<1>1. SameLocals(q) /\ Refs(q)
  BY OthersStay DEF FIFOInv
<1>2. localHead[q].counter <= head'.counter /\ localTail[q].counter <= tail'.counter
  BY Counters
<1>3. QED
  BY <1>1, <1>2 DEF Refs, SameLocals

LEMMA OwnRefs ==
  ASSUME FIFOInv, NEW p \in Threads, Acts(p)
  PROVE  Refs(p)'
<1>1. /\ Refs(p) /\ HeadReads(p) /\ LocalShapes /\ pc[p] \in Labels
      /\ pc \in [Threads -> Labels] /\ localNext[p].ptr \in Indices
  BY DEF FIFOInv, LocalShapes, Pointers
<1>2. head.ptr \in Links /\ tail.ptr \in Links /\ After[head.ptr] \in Indices
  BY Ends, AfterShape DEF FIFOInv, Indices
<1>3. /\ localHead[p].counter <= head'.counter /\ localTail[p].counter <= tail'.counter
      /\ head.counter <= head'.counter /\ tail.counter <= tail'.counter
      /\ head'.counter \in Nat /\ tail'.counter \in Nat
  BY Counters
<1>4. CASE PopReturnNull(p) \/ IsEmptyReturn(p) \/ PushSwing(p) \/ PopFree(p)
  <2>1. /\ pc'[p] = "idle" /\ localTail'[p] = Null /\ localHead'[p] = Null
    BY <1>1, <1>4, ReturnEffect DEF PopReturnNull, IsEmptyReturn, PushSwing, PopFree
  <2>2. localTail'[p].counter = 0 /\ localHead'[p].counter = 0
    BY <2>1 DEF Null
  <2>3. QED
    BY <1>3, <2>1, <2>2 DEF Refs
<1>5. CASE PushReadTail(p) \/ PopReadTail(p)
  BY <1>1, <1>2, <1>3, <1>5 DEF PushReadTail, PopReadTail, Goto, LocalShapes, Refs, memory
<1>6. CASE PushReadNext(p) \/ PopReadNext(p)
  BY <1>1, <1>3, <1>6 DEF PushReadNext, PopReadNext, Goto, LocalShapes, Refs
<1>7. CASE PopReadHead(p) \/ IsEmptyReadHead(p)
  BY <1>1, <1>2, <1>3, <1>7 DEF PopReadHead, IsEmptyReadHead, Goto, LocalShapes, Refs, memory
<1>8. CASE PopReadPayload(p)
  BY <1>1, <1>3, <1>8 DEF PopReadPayload, Goto, LocalShapes, Refs
<1>9. CASE PushTestTail(p)
  BY <1>1, <1>3, <1>9 DEF PushTestTail, Goto, Refs, locals, Indices
<1>10. CASE PopTestHead(p)
  BY <1>1, <1>3, <1>10 DEF PopTestHead, HeadUnchanged, Goto, Refs, HeadReads, locals, Indices
<1>11. CASE \/ IsEmptyReadNext(p) \/ LinkFails(p) \/ BeginPop(p) \/ HeadStays(p)
            \/ BeginIsEmpty(p) \/ PushHelp(p) \/ PopHelp(p) \/ HeadExchange(p)
  BY <1>1, <1>3, <1>11 DEF IsEmptyReadNext, LinkFails, BeginPop, HeadStays, BeginIsEmpty,
                           PushHelp, PopHelp, HeadExchange, Goto, Refs, locals
<1>12. CASE LinkExchange(p)
  <2>1. item[p] \in Links
    BY <1>12, LinkEffect
  <2>2. QED
    BY <1>1, <1>3, <1>12, <2>1 DEF LinkExchange, Goto, Refs, locals
<1>13. ASSUME NEW x \in Items, BeginPush(p, x) PROVE Refs(p)'
  BY <1>1, <1>3, <1>13 DEF BeginPush, Goto, Refs
<1>14. QED
  BY <1>4, <1>5, <1>6, <1>7, <1>8, <1>9, <1>10, <1>11, <1>12, <1>13 DEF Acts, Looks, Swings

LEMMA OthersTailReads ==
  ASSUME FIFOInv, NEW p \in Threads, Acts(p), NEW q \in Threads \ {p}
  PROVE  TailReads(q)'
<1>1. /\ SameLocals(q) /\ TailReads(q) /\ Refs(q) /\ localNext[q] \in Pointers
      /\ localTail[q] \in Pointers
  BY OthersStay DEF FIFOInv, LocalShapes
<1>2. tail.ptr \in InUse /\ tail.ptr \in Indices
  BY Ends DEF Indices
<1>3. tail' = localTail[q] => tail' = tail
  BY NotMoved
<1>4. ASSUME pc[q] = "pushTest", tail' = localTail[q] PROVE Held(tail.ptr, localNext[q])'
  <2>1. Held(tail.ptr, localNext[q])
    BY <1>1, <1>3, <1>4 DEF TailReads
  <2>2. PICK v \in Pointers, l \in InUse : v = localNext[q] /\ l = tail.ptr
    BY <1>1, <1>2
  <2>3. Held(l, v)'
    BY <2>1, <2>2, HeldStays
  <2>4. QED
    BY <1>1, <1>3, <1>4, <2>2, <2>3 DEF Held, SameLocals
<1>5. ASSUME \/ pc[q] \in {"pushHelp", "popHelp"} /\ localNext[q].ptr = After[tail.ptr]
             \/ pc[q] = "pushSwing" /\ item[q] = After[tail.ptr]
      PROVE  After'[tail.ptr] = After[tail.ptr]
  BY <1>1, <1>2, <1>5, AfterStays, LinksAssumption DEF Refs
<1>6. ASSUME pc[q] = "pushLink"
      PROVE  \/ tail' = localTail[q] /\ doubleNext'[tail'.ptr] = localNext[q]
             \/ localNext[q].counter < doubleNext'[localTail[q].ptr].counter
  <2>1. localTail[q].ptr \in Indices
    BY <1>1 DEF Pointers
  <2>2. /\ localNext[q].ptr = NoLink
        /\ \/ tail = localTail[q] /\ doubleNext[tail.ptr] = localNext[q]
           \/ localNext[q].counter < doubleNext[localTail[q].ptr].counter
    BY <1>1, <1>6 DEF TailReads
  <2>3. /\ doubleNext[localTail[q].ptr].counter \in Nat /\ localNext[q].counter \in Nat
        /\ doubleNext'[localTail[q].ptr].counter \in Nat
        /\ doubleNext[localTail[q].ptr].counter <= doubleNext'[localTail[q].ptr].counter
    BY <2>1, Counters
  <2>4. CASE localNext[q].counter < doubleNext[localTail[q].ptr].counter
    BY <2>3, <2>4
  <2>5. CASE tail = localTail[q] /\ doubleNext[tail.ptr] = localNext[q]
    <3>1. tail' = tail
      BY <1>2, <2>2, <2>5, Frame, AfterOf DEF TailMoves
    <3>2. doubleNext'[tail.ptr] = doubleNext[tail.ptr] \/ Extended(tail.ptr)
      BY <1>2, Frame DEF Cleared
    <3>3. QED
      BY <2>3, <2>5, <3>1, <3>2 DEF Extended
  <2>6. QED
    BY <2>2, <2>4, <2>5
<1>7. /\ pc'[q] = pc[q] /\ localTail'[q] = localTail[q] /\ localNext'[q] = localNext[q]
      /\ item'[q] = item[q]
  BY <1>1 DEF SameLocals
<1>8. pc'[q] = "pushTest" /\ tail' = localTail'[q] => Held(tail.ptr, localNext[q])'
  BY <1>4, <1>7
<1>9. /\ pc'[q] \in {"pushHelp", "popHelp"} /\ tail' = localTail'[q] =>
          After'[tail'.ptr] = localNext'[q].ptr
      /\ pc'[q] = "pushSwing" /\ tail' = localTail'[q] => After'[tail'.ptr] = item'[q]
  BY <1>1, <1>3, <1>5, <1>7 DEF TailReads
<1>10. pc'[q] = "pushLink" =>
         /\ localNext'[q].ptr = NoLink
         /\ \/ tail' = localTail'[q] /\ doubleNext'[tail'.ptr] = localNext'[q]
            \/ localNext'[q].counter < doubleNext'[localTail'[q].ptr].counter
  BY <1>1, <1>6, <1>7 DEF TailReads
<1>11. QED
  BY <1>8, <1>9, <1>10 DEF TailReads

LEMMA OwnTailReads ==
  ASSUME FIFOInv, NEW p \in Threads, Acts(p)
  PROVE  TailReads(p)'
<1>1. /\ TailReads(p) /\ HeadReads(p) /\ pc \in [Threads -> Labels]
      /\ localNext \in [Threads -> Pointers] /\ tail.ptr \in Indices
  BY DEF FIFOInv, LocalShapes, MemoryShapes, Pointers
<1>2. ASSUME pc'[p] = "pushTest", tail' = localTail'[p] PROVE Held(tail.ptr, localNext[p])'
  <2>1. PushReadNext(p)
    BY <1>2, Arrivals
  <2>2. /\ localNext'[p] = doubleNext[localTail[p].ptr] /\ doubleNext' = doubleNext
        /\ tail' = tail /\ localTail' = localTail
    BY <1>1, <2>1 DEF PushReadNext, memory
  <2>3. QED
    BY <1>2, <2>2 DEF Held
<1>3. ASSUME pc'[p] \in {"pushHelp", "pushLink"}
      PROVE  /\ PushTestTail(p) /\ UNCHANGED <<tail, doubleNext, locals>> /\ After' = After
             /\ tail = localTail[p] /\ Held(tail.ptr, localNext[p])
             /\ pc'[p] = "pushHelp" <=> localNext[p].ptr # NoLink
  <2>1. PushTestTail(p)
    BY <1>3, Arrivals
  <2>2. /\ pc[p] = "pushTest" /\ UNCHANGED <<tail, doubleNext, locals>>
        /\ pc'[p] = IF tail # localTail[p] THEN "pushTail"
                    ELSE IF localNext[p].ptr # NoLink THEN "pushHelp" ELSE "pushLink"
    BY <1>1, <2>1 DEF PushTestTail, Goto, memory
  <2>3. QED
    BY <1>1, <1>3, <2>1, <2>2 DEF TailReads, After
<1>4. ASSUME pc'[p] = "popHelp", tail' = localTail'[p]
      PROVE  After'[tail'.ptr] = localNext'[p].ptr
  <2>1. PopTestHead(p)
    BY <1>4, Arrivals
  <2>2. /\ pc[p] = "popTest" /\ UNCHANGED <<tail, doubleNext, locals>> /\ After' = After
        /\ head = localHead[p] /\ localHead[p].ptr = localTail[p].ptr
        /\ localNext[p].ptr # NoLink
    BY <1>1, <1>4, <2>1 DEF PopTestHead, HeadUnchanged, Goto, memory, After
  <2>3. doubleNext[head.ptr] = localNext[p]
    BY <1>1, <2>2 DEF HeadReads, Held
  <2>4. /\ tail' = tail /\ localTail'[p] = localTail[p] /\ localNext'[p] = localNext[p]
        /\ tail.ptr = head.ptr /\ After[tail.ptr] = doubleNext[tail.ptr].ptr
    BY <1>1, <1>4, <2>2, AfterOf DEF locals
  <2>5. QED
    BY <2>2, <2>3, <2>4
<1>5. ASSUME pc'[p] = "pushSwing", tail' = localTail'[p] PROVE After'[tail'.ptr] = item'[p]
  <2>1. LinkExchange(p)
    BY <1>5, Arrivals
  <2>2. doubleNext'[tail.ptr].ptr = item[p] /\ tail' = tail /\ item' = item
    BY <2>1, LinkEffect DEF LinkExchange, locals
  <2>3. QED
    BY <1>1, <2>2, AfterOf
<1>6. pc'[p] = "pushHelp" /\ tail' = localTail'[p] => After'[tail'.ptr] = localNext'[p].ptr
  BY <1>1, <1>3, AfterOf DEF Held, locals
<1>7. pc'[p] = "pushLink" =>
        /\ localNext'[p].ptr = NoLink
        /\ \/ tail' = localTail'[p] /\ doubleNext'[tail'.ptr] = localNext'[p]
           \/ localNext'[p].counter < doubleNext'[localTail'[p].ptr].counter
  BY <1>3 DEF Held, locals
<1>8. pc'[p] = "pushTest" /\ tail' = localTail'[p] => (Held(tail.ptr, localNext[p]))'
  BY <1>2
<1>9. QED
  BY <1>4, <1>5, <1>6, <1>7, <1>8 DEF TailReads

LEMMA OthersHeadReads ==
  ASSUME FIFOInv, NEW p \in Threads, Acts(p), NEW q \in Threads \ {p}
  PROVE  HeadReads(q)'
<1> SUFFICES ASSUME head' = localHead'[q] PROVE HeadReads(q)'
  BY DEF HeadReads
<1>1. /\ SameLocals(q) /\ HeadReads(q) /\ Refs(q) /\ localNext[q] \in Pointers
  BY OthersStay DEF FIFOInv, LocalShapes
<1>2. head' = head /\ head = localHead[q]
  BY <1>1, NotMoved DEF SameLocals
<1>3. /\ head.ptr \in InUse /\ head.ptr \in Indices /\ tail.ptr \in InUse
      /\ \A l \in InUse : After[l] # NoLink => After[l] \in InUse /\ After[l] # head.ptr
      /\ tail.ptr # head.ptr => After[head.ptr] # NoLink
  BY Ends DEF Indices
<1>4. tail.ptr # head.ptr => tail'.ptr # head.ptr
  BY <1>3, Frame DEF TailMoves
<1>5. tail.ptr # head.ptr => After'[head.ptr] = After[head.ptr]
  BY <1>3, AfterStays
<1>6. ASSUME pc[q] = "popTest" PROVE Held(head.ptr, localNext[q])'
  <2>1. PICK v \in Pointers, l \in InUse : v = localNext[q] /\ l = head.ptr
    BY <1>1, <1>3
  <2>2. Held(l, v)
    BY <1>1, <1>2, <1>6, <2>1 DEF HeadReads
  <2>3. Held(l, v)'
    BY <2>1, <2>2, HeldStays
  <2>4. QED
    BY <1>1, <1>2, <2>1, <2>3 DEF Held, SameLocals
<1>7. ASSUME pc[q] = "popSwing" PROVE result[q] = payload'[localNext[q].ptr]
  <2>1. localNext[q].ptr = After[head.ptr] /\ tail.ptr # head.ptr
        /\ result[q] = payload[localNext[q].ptr]
    BY <1>1, <1>2, <1>7 DEF HeadReads
  <2>2. After[head.ptr] \in InUse
    BY <1>3, <2>1
  <2>3. QED
    BY <2>1, <2>2, Frame
<1>8. /\ pc'[q] = pc[q] /\ localTail'[q] = localTail[q] /\ localNext'[q] = localNext[q]
      /\ result'[q] = result[q]
  BY <1>1 DEF SameLocals
<1>9. pc'[q] \in {"popNext", "popTest"} /\ head'.ptr # localTail'[q].ptr =>
        tail'.ptr # head'.ptr
  BY <1>1, <1>2, <1>4, <1>8 DEF HeadReads
<1>10. pc'[q] = "popTest" =>
         /\ (Held(head.ptr, localNext[q]))'
         /\ head'.ptr # localTail'[q].ptr => localNext'[q].ptr # NoLink
  BY <1>1, <1>2, <1>6, <1>8 DEF HeadReads
<1>11. pc'[q] \in {"popPayload", "popSwing"} =>
         tail'.ptr # head'.ptr /\ After'[head'.ptr] = localNext'[q].ptr
  BY <1>1, <1>2, <1>4, <1>5, <1>8 DEF HeadReads
<1>12. pc'[q] = "popSwing" => result'[q] = payload'[localNext'[q].ptr]
  BY <1>7, <1>8
<1>13. QED
  BY <1>9, <1>10, <1>11, <1>12 DEF HeadReads

LEMMA OwnHeadReads ==
  ASSUME FIFOInv, NEW p \in Threads, Acts(p)
  PROVE  HeadReads(p)'
<1> SUFFICES ASSUME head' = localHead'[p] PROVE HeadReads(p)'
  BY DEF HeadReads
<1>1. /\ HeadReads(p) /\ LocalShapes /\ head.ptr \in Indices
      /\ tail.ptr # head.ptr => After[head.ptr] # NoLink
  BY Ends DEF FIFOInv, Indices
<1>2. ASSUME pc'[p] = "popNext", head'.ptr # localTail'[p].ptr PROVE tail'.ptr # head'.ptr
  <2>1. PopReadTail(p)
    BY <1>2, Arrivals
  <2>2. localTail'[p] = tail /\ tail' = tail
    BY <1>1, <2>1 DEF PopReadTail, memory, LocalShapes
  <2>3. QED
    BY <1>2, <2>2
<1>3. ASSUME pc'[p] = "popTest"
      PROVE  /\ head'.ptr # localTail'[p].ptr =>
                  tail'.ptr # head'.ptr /\ localNext'[p].ptr # NoLink
             /\ (Held(head.ptr, localNext[p]))'
  <2>1. PopReadNext(p)
    BY <1>3, Arrivals
  <2>2. /\ pc[p] = "popNext" /\ localNext'[p] = doubleNext[localHead[p].ptr]
        /\ UNCHANGED <<head, tail, doubleNext, localTail, localHead>>
    BY <1>1, <2>1 DEF PopReadNext, memory, LocalShapes
  <2>3. localNext'[p] = doubleNext[head.ptr] /\ localNext'[p].ptr = After[head.ptr]
    BY <1>1, <2>2, AfterOf
  <2>4. QED
    BY <1>1, <2>2, <2>3 DEF HeadReads, Held
<1>4. ASSUME pc'[p] = "popPayload"
      PROVE  tail'.ptr # head'.ptr /\ After'[head'.ptr] = localNext'[p].ptr
  <2>1. PopTestHead(p)
    BY <1>4, Arrivals
  <2>2. /\ pc[p] = "popTest" /\ UNCHANGED <<head, tail, doubleNext, locals>> /\ After' = After
        /\ head = localHead[p] /\ localHead[p].ptr # localTail[p].ptr
    BY <1>1, <1>4, <2>1 DEF PopTestHead, HeadUnchanged, Goto, memory, After, LocalShapes
  <2>3. tail.ptr # head.ptr /\ doubleNext[head.ptr] = localNext[p]
    BY <1>1, <2>2 DEF HeadReads, Held
  <2>4. QED
    BY <1>1, <2>2, <2>3, AfterOf DEF locals
<1>5. ASSUME pc'[p] = "popSwing"
      PROVE  /\ tail'.ptr # head'.ptr /\ After'[head'.ptr] = localNext'[p].ptr
             /\ result'[p] = payload'[localNext'[p].ptr]
  <2>1. PopReadPayload(p)
    BY <1>5, Arrivals
  <2>2. /\ pc[p] = "popPayload" /\ UNCHANGED <<memory, localHead, localTail, localNext>>
        /\ result'[p] = payload[localNext[p].ptr] /\ After' = After
    BY <1>1, <2>1 DEF PopReadPayload, memory, After, LocalShapes
  <2>3. QED
    BY <1>1, <2>2 DEF HeadReads, memory
<1>6. QED
  BY <1>2, <1>3, <1>4, <1>5 DEF HeadReads

-----------------------------------------------------------------------------
(* What the threads have seen, and how long they go on alone                *)

LEMMA SawStays ==
  ASSUME FIFOInv, NEW p \in Threads, Acts(p), Observe(p), NEW q \in Threads
  PROVE  Saw(q)'
<1>1. /\ Saw(q) /\ LocalShapes /\ localNext \in [Threads -> Pointers]
  BY DEF FIFOInv, LocalShapes
<1>2. pc'[q] # "idle" =>
        seen'[q] = seen[q] \cup {doubleNext'[head'.ptr].ptr = NoLink}
  BY DEF Observe
<1>3. CASE q # p
  <2>1. SameLocals(q)
    BY <1>1, <1>3, OthersStay
  <2>2. head' = localHead'[q] => head' = head
    BY <2>1, NotMoved DEF SameLocals
  <2>3. pc'[q] # "idle" => seen[q] \subseteq seen'[q]
    BY <1>2
  <2>4. QED
    BY <1>1, <2>1, <2>2, <2>3 DEF Saw, SameLocals
<1>4. CASE q = p
  <2>1. ASSUME pc'[p] = "popTest", head' = localHead'[p], localNext'[p].ptr = NoLink
        PROVE  TRUE \in seen'[p]
    <3>1. PopReadNext(p)
      BY <2>1, Arrivals
    <3>2. /\ localNext'[p] = doubleNext[localHead[p].ptr]
          /\ UNCHANGED <<head, doubleNext, localHead>>
      BY <1>1, <3>1 DEF PopReadNext, memory, LocalShapes
    <3>3. doubleNext'[head'.ptr].ptr = NoLink
      BY <2>1, <3>2
    <3>4. QED
      BY <1>2, <1>4, <2>1, <3>3
  <2>2. ASSUME pc'[p] = "popNull" PROVE TRUE \in seen'[p]
    <3>1. PopTestHead(p)
      BY <2>2, Arrivals
    <3>2. pc[p] = "popTest" /\ head = localHead[p] /\ localNext[p].ptr = NoLink
      BY <1>1, <2>2, <3>1 DEF PopTestHead, HeadUnchanged, Goto, LocalShapes
    <3>3. QED
      BY <1>1, <1>2, <1>4, <2>2, <3>2 DEF Saw
  <2>3. QED
    BY <1>4, <2>1, <2>2 DEF Saw
<1>5. QED
  BY <1>3, <1>4

(* A thread whose reads are up to date goes back only because it has helped *)
(* the tail on, and after that it does not have to.                         *)
Turns(p) == pc[p] # "idle" /\ pc'[p] \in LoopHeads

LEMMA TurnsCount ==
  ASSUME FIFOInv, NEW p \in Threads, Acts(p), Turns(p)
  PROVE  /\ retries[p] <= 1
         /\ retries[p] = 1 =>
              /\ pc'[p] = "pushTail" => After'[tail'.ptr] = NoLink
              /\ pc'[p] = "popHead" => head'.ptr # tail'.ptr
<1>1. /\ Alone(p) /\ LocalShapes /\ retries[p] \in Nat /\ Refs(p)
      /\ tail \in Pointers /\ After \in [Indices -> Indices] /\ tail.ptr \in Indices
      /\ head.ptr \in InUse /\ tail.ptr \in InUse
      /\ \A l \in InUse : After[l] # NoLink => After[l] \in InUse /\ After[l] # head.ptr
      /\ After[tail.ptr] # NoLink => After[After[tail.ptr]] = NoLink
  BY Ends, AfterShape DEF FIFOInv, LocalShapes, MemoryShapes, ChainInv, Pointers
<1>2. \/ PushTestTail(p) \/ PushHelp(p) \/ LinkFails(p)
      \/ PopTestHead(p) \/ PopHelp(p) \/ HeadStays(p)
  <2>1. pc[p] # "idle" /\ pc'[p] \in {"pushTail", "popHead"}
    BY DEF Turns, LoopHeads
  <2>2. /\ \A x \in Items : ~BeginPush(p, x)
        /\ ~BeginPop(p)
    BY <2>1 DEF BeginPush, BeginPop
  <2>3. QED
    BY <2>1, <2>2, Arrivals
<1>3. ASSUME PushTestTail(p) \/ LinkFails(p) \/ PopTestHead(p) \/ HeadStays(p)
      PROVE  retries[p] = 0
  <2>1. CASE PushTestTail(p)
    <3>1. pc[p] = "pushTest" /\ tail # localTail[p]
      BY <1>1, <2>1 DEF PushTestTail, Goto, LocalShapes, Turns, LoopHeads
    <3>2. QED
      BY <1>1, <3>1 DEF Alone
  <2>2. CASE LinkFails(p)
    BY <1>1, <2>2 DEF LinkFails, Alone
  <2>3. CASE PopTestHead(p)
    <3>1. pc[p] = "popTest" /\ head # localHead[p]
      BY <1>1, <2>3 DEF PopTestHead, HeadUnchanged, Goto, LocalShapes, Turns, LoopHeads
    <3>2. QED
      BY <1>1, <3>1 DEF Alone
  <2>4. CASE HeadStays(p)
    BY <1>1, <2>4 DEF HeadStays, Alone
  <2>5. QED
    BY <1>3, <2>1, <2>2, <2>3, <2>4
<1>4. ASSUME PushHelp(p) \/ PopHelp(p), retries[p] >= 1
      PROVE  /\ retries[p] = 1 /\ UNCHANGED <<head, doubleNext>>
             /\ tail' = Advance(tail, After[tail.ptr]) /\ After[tail.ptr] # NoLink
  <2>1. Swings(p) /\ pc[p] \in {"pushHelp", "popHelp"}
    BY <1>4 DEF Swings, PushHelp, PopHelp
  <2>2. tail = localTail[p]
    BY <1>1, <1>4, <2>1 DEF Alone
  <2>3. /\ UNCHANGED <<head, doubleNext>>
        /\ tail' = Advance(tail, After[tail.ptr]) /\ After[tail.ptr] # NoLink
    BY <2>1, <2>2, SwingsEffect
  <2>4. ~(retries[p] >= 2)
    BY <1>1, <2>1, <2>3 DEF Alone, Pushing
  <2>5. QED
    BY <1>1, <1>4, <2>3, <2>4
<1>5. ASSUME PushHelp(p) \/ PopHelp(p), retries[p] = 1
      PROVE  /\ pc'[p] = "pushTail" => After'[tail'.ptr] = NoLink
             /\ pc'[p] = "popHead" => head'.ptr # tail'.ptr
  <2>1. /\ head' = head /\ tail'.ptr = After[tail.ptr] /\ After' = After
        /\ After[tail.ptr] # NoLink
    BY <1>1, <1>4, <1>5, AdvanceEffect DEF After
  <2>2. After'[tail'.ptr] = NoLink
    BY <1>1, <2>1
  <2>3. head'.ptr # tail'.ptr
    BY <1>1, <2>1
  <2>4. QED
    BY <2>2, <2>3
<1>6. QED
  BY <1>1, <1>2, <1>3, <1>4, <1>5

LEMMA AloneStays ==
  ASSUME FIFOInv, NEW p \in Threads, Acts(p), Observe(p), NEW q \in Threads
  PROVE  Alone(q)'
<1>1. /\ Alone(p) /\ HeadReads(p) /\ LocalShapes /\ retries[p] \in Nat
      /\ pc \in [Threads -> Labels] /\ head.ptr \in Indices
  BY Ends DEF FIFOInv, LocalShapes, Indices
<1>2. ASSUME retries'[q] = 0 PROVE Alone(q)'
  BY <1>2 DEF Alone
<1>3. CASE q # p \/ pc'[p] = "idle"
  BY <1>2, <1>3 DEF Observe
<1>4. CASE q = p /\ pc'[p] # "idle" /\ Turns(p)
  <2>1. retries'[p] = retries[p] + 1 /\ pc'[p] \in {"pushTail", "popHead"}
    BY <1>4 DEF Observe, Turns, LoopHeads
  <2>2. /\ retries[p] <= 1
        /\ retries[p] = 1 => /\ pc'[p] = "pushTail" => After'[tail'.ptr] = NoLink
                             /\ pc'[p] = "popHead" => head'.ptr # tail'.ptr
    BY <1>4, TurnsCount
  <2>3. retries'[p] <= 2 /\ (retries'[p] >= 2 => retries[p] = 1)
    BY <1>1, <2>1, <2>2
  <2>4. QED
    BY <1>4, <2>1, <2>2, <2>3 DEF Alone, Pushing
<1>5. CASE q = p /\ pc'[p] # "idle" /\ ~Turns(p)
  <2>1. retries'[p] = retries[p] /\ retries[p] <= 2
    BY <1>1, <1>5 DEF Observe, Turns, Alone
  <2>2. SUFFICES ASSUME retries[p] >= 1 PROVE Alone(p)'
    <3>1. CASE retries[p] >= 1
      BY <1>5, <2>2, <3>1
    <3>2. CASE retries[p] = 0
      BY <1>2, <1>5, <2>1, <3>2
    <3>3. QED
      BY <1>1, <3>1, <3>2
  <2>3. pc[p] # "idle" /\ pc'[p] \notin {"pushTail", "popHead"}
    BY <1>1, <1>5, <2>2 DEF Alone, Turns, LoopHeads
  <2> DEFINE Up == retries[p] >= 2
  <2>4. ASSUME pc'[p] = "pushNext"
        PROVE  localTail'[p] = tail' /\ (Up => After'[tail'.ptr] = NoLink)
    <3>1. PushReadTail(p)
      BY <2>4, Arrivals
    <3>2. localTail'[p] = tail /\ tail' = tail /\ After' = After /\ pc[p] = "pushTail"
      BY <1>1, <3>1 DEF PushReadTail, memory, After, LocalShapes
    <3>3. QED
      BY <1>1, <3>2 DEF Alone, Pushing
  <2>5. ASSUME pc'[p] = "pushTest"
        PROVE  /\ localTail'[p] = tail' /\ (Up => After'[tail'.ptr] = NoLink)
               /\ localNext'[p] = doubleNext'[tail'.ptr]
    <3>1. PushReadNext(p)
      BY <2>5, Arrivals
    <3>2. /\ localNext'[p] = doubleNext[localTail[p].ptr] /\ After' = After
          /\ UNCHANGED <<tail, doubleNext, localTail>> /\ pc[p] = "pushNext"
      BY <1>1, <3>1 DEF PushReadNext, memory, After, LocalShapes
    <3>3. localTail[p] = tail /\ (Up => After[tail.ptr] = NoLink)
      BY <1>1, <2>2, <3>2 DEF Alone, Pushing
    <3>4. QED
      BY <3>2, <3>3
  <2>6. ASSUME pc'[p] \in {"pushHelp", "pushLink"}
        PROVE  /\ localTail'[p] = tail' /\ (Up => After'[tail'.ptr] = NoLink)
               /\ localNext'[p] = doubleNext'[tail'.ptr]
               /\ pc'[p] = "pushHelp" => localNext'[p].ptr # NoLink
    <3>1. PushTestTail(p)
      BY <2>6, Arrivals
    <3>2. /\ UNCHANGED <<tail, doubleNext, localTail, localNext>> /\ After' = After
          /\ pc[p] = "pushTest" /\ (pc'[p] = "pushHelp" => localNext[p].ptr # NoLink)
      BY <1>1, <2>6, <3>1 DEF PushTestTail, Goto, memory, locals, After, LocalShapes
    <3>3. /\ localTail[p] = tail /\ (Up => After[tail.ptr] = NoLink)
          /\ localNext[p] = doubleNext[tail.ptr]
      BY <1>1, <2>2, <3>2 DEF Alone, Pushing
    <3>4. QED
      BY <3>2, <3>3
  <2>7. ASSUME pc'[p] = "popTail"
        PROVE  localHead'[p] = head' /\ (Up => head'.ptr # tail'.ptr)
    <3>1. PopReadHead(p)
      BY <2>7, Arrivals
    <3>2. localHead'[p] = head /\ head' = head /\ tail' = tail /\ pc[p] = "popHead"
      BY <1>1, <3>1 DEF PopReadHead, memory, LocalShapes
    <3>3. QED
      BY <1>1, <3>2 DEF Alone
  <2>8. ASSUME pc'[p] = "popNext"
        PROVE  /\ localHead'[p] = head' /\ (Up => head'.ptr # tail'.ptr)
               /\ localTail'[p] = tail'
    <3>1. PopReadTail(p)
      BY <2>8, Arrivals
    <3>2. /\ localTail'[p] = tail /\ UNCHANGED <<head, tail, localHead>>
          /\ pc[p] = "popTail"
      BY <1>1, <3>1 DEF PopReadTail, memory, LocalShapes
    <3>3. localHead[p] = head /\ (Up => head.ptr # tail.ptr)
      BY <1>1, <2>2, <3>2 DEF Alone
    <3>4. QED
      BY <3>2, <3>3
  <2>9. ASSUME pc'[p] = "popTest"
        PROVE  /\ localHead'[p] = head' /\ (Up => head'.ptr # tail'.ptr)
               /\ localTail'[p] = tail'
    <3>1. PopReadNext(p)
      BY <2>9, Arrivals
    <3>2. UNCHANGED <<head, tail, localHead, localTail>> /\ pc[p] = "popNext"
      BY <1>1, <3>1 DEF PopReadNext, memory, LocalShapes
    <3>3. localHead[p] = head /\ (Up => head.ptr # tail.ptr) /\ localTail[p] = tail
      BY <1>1, <2>2, <3>2 DEF Alone
    <3>4. QED
      BY <3>2, <3>3
  <2>10. ASSUME pc'[p] \in {"popHelp", "popPayload"}
         PROVE  /\ localHead'[p] = head' /\ (Up => head'.ptr # tail'.ptr)
                /\ localTail'[p] = tail'
                /\ pc'[p] = "popHelp" => tail'.ptr = head'.ptr
                                         /\ localNext'[p].ptr = After'[tail'.ptr]
    <3>1. PopTestHead(p)
      BY <2>10, Arrivals
    <3>2. /\ UNCHANGED <<head, tail, doubleNext, locals>> /\ pc[p] = "popTest"
          /\ After' = After
          /\ pc'[p] = "popHelp" => /\ head = localHead[p] /\ localNext[p].ptr # NoLink
                                   /\ localHead[p].ptr = localTail[p].ptr
      BY <1>1, <2>10, <3>1 DEF PopTestHead, HeadUnchanged, Goto, memory, After, LocalShapes
    <3>3. localHead[p] = head /\ (Up => head.ptr # tail.ptr) /\ localTail[p] = tail
      BY <1>1, <2>2, <3>2 DEF Alone
    <3>4. pc'[p] = "popHelp" => localNext[p] = doubleNext[head.ptr] /\ tail.ptr = head.ptr
      BY <1>1, <3>2, <3>3 DEF HeadReads, Held
    <3>5. pc'[p] = "popHelp" => localNext[p].ptr = After[tail.ptr]
      BY <1>1, <3>4, AfterOf
    <3>6. QED
      BY <3>2, <3>3, <3>4, <3>5 DEF locals
  <2>11. ASSUME pc'[p] = "popSwing" PROVE localHead'[p] = head'
    <3>1. PopReadPayload(p)
      BY <2>11, Arrivals
    <3>2. UNCHANGED <<head, localHead>> /\ pc[p] = "popPayload"
      BY <1>1, <3>1 DEF PopReadPayload, memory, LocalShapes
    <3>3. QED
      BY <1>1, <2>2, <3>2 DEF Alone
  <2>12. QED
    BY <1>5, <2>1, <2>3, <2>4, <2>5, <2>6, <2>7, <2>8, <2>9, <2>10, <2>11 DEF Alone, Pushing
<1>6. QED
  BY <1>3, <1>4, <1>5

-----------------------------------------------------------------------------
(* Payloads                                                                 *)

LEMMA LiveLinks ==
  ASSUME FIFOInv
  PROVE  /\ Live \subseteq Links /\ Live \cap free = {}
         /\ \A l \in Live, p \in Threads : pc[p] = "popFree" => l # localHead[p].ptr
<1>1. /\ InUse \subseteq Links /\ \A p \in Threads : pc[p] \in Pushing => item[p] \in Links
  BY Ends DEF FIFOInv, UnlinkedInv
<1>2. \A p \in Threads : /\ pc[p] \in Pushing => Owned(p) = {item[p]}
                         /\ pc[p] = "popFree" => Owned(p) = {localHead[p].ptr}
                         /\ pc[p] \in Pushing => pc[p] # "popFree"
  BY DEF Owned, Pushing
<1>3. free \cap InUse = {} /\ \A p \in Threads :
        /\ Owned(p) \cap (free \cup InUse) = {}
        /\ \A q \in Threads \ {p} : Owned(p) \cap Owned(q) = {}
  BY DEF FIFOInv, EveryLinkHasOneOwner
<1>4. ASSUME NEW l \in Live
      PROVE  /\ l \in Links /\ l \notin free
             /\ \A p \in Threads : pc[p] = "popFree" => l # localHead[p].ptr
  <2>1. CASE l \in InUse
    BY <1>1, <1>2, <1>3, <2>1
  <2>2. CASE \E q \in Threads : pc[q] \in Pushing /\ l = item[q]
    BY <1>1, <1>2, <1>3, <2>2
  <2>3. QED
    BY <1>4, <2>1, <2>2 DEF Live
<1>5. QED
  BY <1>4

(* Only BeginPush makes a link live.                                        *)
LEMMA LiveMoves ==
  ASSUME FIFOInv, NEW p \in Threads, Acts(p)
  PROVE  /\ \A l \in Live' : l \in Live \/ (l = item'[p] /\ \E x \in Items : BeginPush(p, x))
         /\ HeadExchange(p) => After[head.ptr] \notin Live' /\ After[head.ptr] \in Live
<1>1. ChainMoves(p) /\ LocalShapes /\ pc \in [Threads -> Labels]
  BY ChainStep DEF FIFOInv, LocalShapes
<1>2. \A l \in InUse' : l # head'.ptr => l \in Live
  <2>1. CASE LinkExchange(p)
    <3>1. pc[p] \in Pushing /\ InUse' = InUse \cup {item[p]} /\ head' = head
      BY <1>1, <2>1 DEF LinkExchange, HeadExchange, ChainMoves, Pushing
    <3>2. QED
      BY <3>1 DEF Live
  <2>2. CASE HeadExchange(p)
    <3>1. InUse' = InUse \ {head.ptr}
      BY <1>1, <2>2 DEF LinkExchange, HeadExchange, ChainMoves
    <3>2. QED
      BY <3>1 DEF Live
  <2>3. CASE ~LinkExchange(p) /\ ~HeadExchange(p)
    BY <1>1, <2>3 DEF ChainMoves, Live
  <2>4. QED
    BY <2>1, <2>2, <2>3
<1>3. ASSUME NEW q \in Threads, pc'[q] \in Pushing
      PROVE  \/ pc[q] \in Pushing /\ item'[q] = item[q]
             \/ q = p /\ \E x \in Items : BeginPush(p, x)
  <2>1. CASE q # p
    BY <1>1, <1>3, <2>1, OthersStay DEF SameLocals
  <2>2. CASE q = p
    <3>1. \/ \E x \in Items : BeginPush(p, x)
          \/ PushTestTail(p) \/ PushHelp(p) \/ LinkFails(p)
          \/ PushReadTail(p) \/ PushReadNext(p)
      BY <1>3, <2>2, Arrivals DEF Pushing
    <3>2. CASE PushTestTail(p) \/ PushHelp(p) \/ LinkFails(p) \/ PushReadTail(p)
               \/ PushReadNext(p)
      BY <2>2, <3>2 DEF PushTestTail, PushHelp, LinkFails, PushReadTail, PushReadNext, locals,
                        Pushing
    <3>3. QED
      BY <2>2, <3>1, <3>2
  <2>3. QED
    BY <2>1, <2>2
<1>4. \A l \in Live' : l \in Live \/ (l = item'[p] /\ \E x \in Items : BeginPush(p, x))
  BY <1>2, <1>3 DEF Live
<1>5. ASSUME HeadExchange(p) PROVE After[head.ptr] \notin Live' /\ After[head.ptr] \in Live
  <2>1. /\ head' = Advance(head, After[head.ptr]) /\ After[head.ptr] \in InUse
        /\ After[head.ptr] # head.ptr /\ head \in Pointers /\ After[head.ptr] \in Indices
    BY <1>5, HeadEffect DEF FIFOInv, MemoryShapes, Indices
  <2>2. head'.ptr = After[head.ptr]
    BY <2>1, AdvanceEffect
  <2>3. \A q \in Threads : pc'[q] \in Pushing => pc[q] \in Pushing /\ item'[q] = item[q]
    BY <1>3, <1>5 DEF HeadExchange, BeginPush
  <2>4. \A q \in Threads : pc[q] \in Pushing => item[q] \notin InUse
    BY DEF FIFOInv, EveryLinkHasOneOwner, Owned, Pushing
  <2>5. QED
    BY <2>1, <2>2, <2>3, <2>4 DEF Live
<1>6. QED
  BY <1>4, <1>5

LEMMA PayloadInvStays ==
  ASSUME FIFOInv, NEW p \in Threads, Acts(p)
  PROVE  PayloadInv'
<1>1. /\ unpushed \cap Range(popped) = {} /\ popped \in Seq(Items)
      /\ \A l \in Live : payload[l] \in Items \ (unpushed \cup Range(popped))
      /\ \A l, m \in Live : payload[l] = payload[m] => l = m
      /\ unpushed \subseteq Items
  BY DEF FIFOInv, PayloadInv, MemoryShapes
<1>2. /\ \A l \in Live' : l \in Live \/ (l = item'[p] /\ \E x \in Items : BeginPush(p, x))
      /\ HeadExchange(p) => After[head.ptr] \notin Live' /\ After[head.ptr] \in Live
  BY LiveMoves
<1>3. /\ Live \subseteq Indices /\ Live \cap free = {}
      /\ \A l \in Live : pc[p] = "popFree" => l # localHead[p].ptr
  BY LiveLinks DEF Indices
<1>4. ASSUME NEW x \in Items, BeginPush(p, x) PROVE PayloadInv'
  <2>1. PICK l \in free : /\ item'[p] = l /\ payload'[l] = x
                          /\ \A m \in Indices \ {l} : payload'[m] = payload[m]
    BY <1>4, BeginPushEffect
  <2>2. x \in unpushed /\ unpushed' = unpushed \ {x} /\ popped' = popped
    BY <1>4, BeginPushEffect
  <2>3. \A m \in Live' : m = l \/ (m \in Live /\ m # l /\ payload'[m] = payload[m])
    BY <1>2, <1>3, <2>1
  <2>4. unpushed' \cap Range(popped') = {}
    BY <1>1, <2>2
  <2>5. \A m \in Live' : payload'[m] \in Items \ (unpushed' \cup Range(popped'))
    BY <1>1, <2>1, <2>2, <2>3
  <2>6. \A m, k \in Live' : payload'[m] = payload'[k] => m = k
    BY <1>1, <2>1, <2>2, <2>3
  <2>7. QED
    BY <2>4, <2>5, <2>6 DEF PayloadInv
<1>5. ASSUME popped' = popped, unpushed' = unpushed, \A l \in Live : payload'[l] = payload[l],
             \A x \in Items : ~BeginPush(p, x)
      PROVE  PayloadInv'
  BY <1>1, <1>2, <1>5 DEF PayloadInv
<1>6. CASE HeadExchange(p)
  <2>1. /\ payload' = payload /\ unpushed' = unpushed
        /\ popped' = Append(popped, payload[After[head.ptr]])
    BY <1>6, HeadEffect
  <2>2. payload[After[head.ptr]] \in Items \ unpushed
    BY <1>1, <1>2, <1>6
  <2>3. Range(popped') = Range(popped) \cup {payload[After[head.ptr]]}
    BY <1>1, <2>1, <2>2, RangeAppend
  <2>4. \A l \in Live' : l \in Live /\ l # After[head.ptr]
    BY <1>2, <1>6 DEF HeadExchange, BeginPush
  <2>5. unpushed' \cap Range(popped') = {}
    BY <1>1, <2>1, <2>2, <2>3
  <2>6. \A l \in Live' : payload'[l] \in Items \ (unpushed' \cup Range(popped'))
    BY <1>1, <1>2, <1>6, <2>1, <2>3, <2>4
  <2>7. QED
    BY <1>1, <2>1, <2>4, <2>5, <2>6 DEF PayloadInv
<1>7. CASE PopFree(p)
  <2>1. /\ pc[p] = "popFree" /\ UNCHANGED <<unpushed, popped>>
        /\ \A l \in Indices \ {localHead[p].ptr} : payload'[l] = payload[l]
    BY <1>7, FreeEffect DEF PopFree
  <2>2. \A x \in Items : ~BeginPush(p, x)
    BY <2>1 DEF BeginPush
  <2>3. QED
    BY <1>3, <1>5, <2>1, <2>2
<1>8. CASE Looks(p) \/ Swings(p) \/ LinkExchange(p)
  <2>1. UNCHANGED <<unpushed, popped, payload>>
    BY <1>8, LooksEffect, SwingsEffect, LinkEffect
  <2>2. CASE \E x \in Items : BeginPush(p, x)
    BY <1>4, <2>2
  <2>3. QED
    BY <1>5, <2>1, <2>2
<1>9. QED
  BY <1>4, <1>6, <1>7, <1>8 DEF Acts

-----------------------------------------------------------------------------
(* The invariant                                                            *)

LEMMA FIFOInvStuttering == FIFOInv /\ UNCHANGED vars => FIFOInv'
<1> SUFFICES ASSUME FIFOInv, UNCHANGED vars PROVE FIFOInv'
  OBVIOUS
<1> USE DEF vars, memory, locals
<1>1. After' = After /\ Chain' = Chain /\ InUse' = InUse
  BY DEF After, Chain, InUse
<1>2. \A p \in Threads : Owned(p)' = Owned(p) /\ Dereferenced(p)' = Dereferenced(p)
  BY DEF Owned, Dereferenced
<1>3. Live' = Live
  BY <1>1 DEF Live
<1>4. MemoryShapes' /\ LocalShapes' /\ ChainInv' /\ UnlinkedInv' /\ PayloadInv'
  BY <1>1, <1>3 DEF FIFOInv, MemoryShapes, LocalShapes, ChainInv, UnlinkedInv, PayloadInv
<1>5. EveryLinkHasOneOwner'
  BY <1>1, <1>2 DEF FIFOInv, EveryLinkHasOneOwner
<1>6. \A p \in Threads : Refs(p)' /\ TailReads(p)' /\ HeadReads(p)'
  BY <1>1 DEF FIFOInv, Refs, TailReads, HeadReads, Held
<1>7. \A p \in Threads : Saw(p)' /\ Alone(p)'
  BY <1>1 DEF FIFOInv, Saw, Alone
<1>8. QED
  BY <1>4, <1>5, <1>6, <1>7 DEF FIFOInv

LEMMA NextInv == FIFOInv /\ Next => FIFOInv'
<1> SUFFICES ASSUME FIFOInv, Next PROVE FIFOInv'
  OBVIOUS
<1>1. PICK p \in Threads : Acts(p) /\ Observe(p)
  BY Steps
<1>2. MemoryShapes' /\ LocalShapes' /\ ChainInv' /\ UnlinkedInv' /\ PayloadInv'
  BY <1>1, MemoryShapesStay, LocalShapesStay, ChainInvStays, UnlinkedInvStays, PayloadInvStays
<1>3. \A q \in Threads : Refs(q)'
  BY <1>1, OthersRefs, OwnRefs
<1>4. EveryLinkHasOneOwner'
  BY <1>1, <1>3, OwnersStay
<1>5. \A q \in Threads : TailReads(q)' /\ HeadReads(q)'
  BY <1>1, OthersTailReads, OwnTailReads, OthersHeadReads, OwnHeadReads
<1>6. \A q \in Threads : Saw(q)' /\ Alone(q)'
  BY <1>1, SawStays, AloneStays
<1>7. QED
  BY <1>2, <1>3, <1>4, <1>5, <1>6 DEF FIFOInv

(* The inductive invariant holds in every reachable state.                  *)
THEOREM FIFOInvariant == Spec => []FIFOInv
<1>1. FIFOInv /\ [Next]_vars => FIFOInv'
  BY NextInv, FIFOInvStuttering
<1>2. QED
  BY InitInv, <1>1, PTL DEF Spec

(* Every link has one owner: the allocator, the queue or one thread; the    *)
(* tail never leaves the queue, though a recycled link may come back to it  *)
(* under another thread's feet; and no thread follows index 0               *)
(* (LockFreeList.h:532-635).                                                *)
THEOREM LinksHaveOneOwner == Spec => []EveryLinkHasOneOwner
<1>1. FIFOInv => EveryLinkHasOneOwner
  BY DEF FIFOInv
<1>2. QED
  BY <1>1, FIFOInvariant, PTL

(* A Pop returns nothing only if the queue was empty at some instant of the *)
(* call, which it learns from three reads and a test of the first           *)
(* (LockFreeList.h:571-596).                                                *)
THEOREM NothingMeansEmpty == Spec => []NullMeansEmpty
<1>1. FIFOInv => NullMeansEmpty
  BY DEF FIFOInv, Saw, NullMeansEmpty
<1>2. QED
  BY <1>1, FIFOInvariant, PTL

(* A thread that runs alone goes back to the head of its loop twice at      *)
(* most, wherever the others have stopped: lock freedom.                    *)
THEOREM OneThreadSuffices == Spec => []AloneItGetsThrough
<1>1. FIFOInv => AloneItGetsThrough
  BY DEF FIFOInv, Alone, AloneItGetsThrough
<1>2. QED
  BY <1>1, FIFOInvariant, PTL

-----------------------------------------------------------------------------
(* The links implement a queue that changes at one instant                  *)

LEMMA ContentsIsASeq ==
  ASSUME FIFOInv
  PROVE  /\ Chain \in Seq(Links) /\ Len(Chain) \in Nat \ {0} /\ Chain[1] = head.ptr
         /\ DOMAIN Chain = 1 .. Len(Chain)
         /\ \A k \in 1 .. Len(Chain) : Chain[k] \in InUse
         /\ \A k \in 1 .. Len(Chain) - 1 : Chain[k + 1] \in Live
         /\ Contents \in Seq(Items) /\ Len(Contents) = Len(Chain) - 1
         /\ DOMAIN Contents = 1 .. Len(Chain) - 1
         /\ \A k \in 1 .. Len(Chain) - 1 : Contents[k] = payload[Chain[k + 1]]
<1>1. /\ Path(Chain, After, head.ptr) /\ Chain # <<>> /\ InUse = Range(Chain)
  BY Ends, LinksAssumption DEF FIFOInv, ChainInv, Path
<1>2. /\ Chain \in Seq(Links) /\ Chain[1] = head.ptr
      /\ \A j, k \in 1 .. Len(Chain) : Chain[j] = Chain[k] => j = k
  BY <1>1 DEF Path
<1>3. Len(Chain) \in Nat \ {0} /\ DOMAIN Chain = 1 .. Len(Chain)
  BY <1>1, <1>2, EmptySeq, LenProperties
<1>4. \A k \in 1 .. Len(Chain) : Chain[k] \in InUse
  BY <1>1, <1>3 DEF Range
<1>5. ASSUME NEW k \in 1 .. Len(Chain) - 1
      PROVE  Chain[k + 1] \in Live /\ payload[Chain[k + 1]] \in Items
  <2>1. k + 1 \in 1 .. Len(Chain) /\ 1 \in 1 .. Len(Chain) /\ k + 1 # 1
    BY <1>3
  <2>2. Chain[k + 1] \in InUse /\ Chain[k + 1] # head.ptr
    BY <1>2, <1>4, <2>1
  <2>3. QED
    BY <2>2 DEF Live, FIFOInv, PayloadInv
<1> DEFINE n == Len(Chain) - 1
<1>6. n \in Nat
  BY <1>3
<1>7. Contents \in [1 .. n -> Items] /\ \A k \in 1 .. n : Contents[k] = payload[Chain[k + 1]]
  BY <1>5 DEF Contents
<1> HIDE DEF n
<1>8. Contents \in Seq(Items) /\ DOMAIN Contents = 1 .. n
  BY <1>6, <1>7
<1>9. Len(Contents) = n
  BY <1>6, <1>8, LenProperties
<1>10. QED
  BY <1>2, <1>3, <1>4, <1>5, <1>7, <1>8, <1>9 DEF n

ContentsShape ==
  /\ Contents \in Seq(Items) /\ Len(Contents) = Len(Chain) - 1
  /\ \A k \in 1 .. Len(Chain) - 1 : Contents[k] = payload[Chain[k + 1]]

LEMMA ContentsShapeHolds == FIFOInv => ContentsShape
  BY ContentsIsASeq DEF ContentsShape

(* PushLink's exchange is the Push.                                         *)
LEMMA QueuePushes ==
  ASSUME FIFOInv, FIFOInv', NEW p \in Threads, LinkExchange(p)
  PROVE  \E x \in Items : Queue!Push(x)
<1> DEFINE x == payload[item[p]]
           n == Len(Chain)
<1>1. /\ n \in Nat \ {0} /\ Chain \in Seq(Links)
      /\ \A k \in 1 .. n : Chain[k] \in InUse
      /\ \A k \in 1 .. n - 1 : Chain[k + 1] \in Live
      /\ Contents \in Seq(Items) /\ Len(Contents) = n - 1 /\ DOMAIN Contents = 1 .. n - 1
      /\ \A k \in 1 .. n - 1 : Contents[k] = payload[Chain[k + 1]]
  BY ContentsIsASeq
<1>2. /\ item[p] \in Links /\ item[p] \notin InUse /\ payload' = payload /\ popped' = popped
  BY LinkEffect
<1>3. Chain' = Append(Chain, item[p])
  BY ChainStep DEF ChainMoves, LinkExchange, HeadExchange, Acts
<1>4. /\ Len(Chain') = n + 1 /\ Chain'[n + 1] = item[p]
      /\ \A k \in 1 .. n : Chain'[k] = Chain[k]
  BY <1>1, <1>2, <1>3, AppendProperties
<1>5. /\ Contents' \in Seq(Items) /\ Len(Contents') = Len(Chain') - 1
      /\ \A k \in 1 .. Len(Chain') - 1 : Contents'[k] = payload'[Chain'[k + 1]]
  <2>1. FIFOInv' => ContentsShape'
    BY ContentsShapeHolds, PTL
  <2>2. QED
    BY <2>1 DEF ContentsShape
<1>6. item[p] \in Live
  BY DEF Live, LinkExchange, Pushing
<1>7. x \in Items /\ x \notin Range(popped)
  BY <1>6 DEF FIFOInv, PayloadInv
<1>8. ASSUME NEW k \in 1 .. n - 1 PROVE Contents[k] # x
  <2>1. k + 1 \in 1 .. n
    BY <1>1
  <2>2. Chain[k + 1] \in Live /\ Chain[k + 1] # item[p]
    BY <1>1, <1>2, <2>1
  <2>3. QED
    BY <1>1, <1>6, <2>2 DEF FIFOInv, PayloadInv
<1> HIDE DEF x, n
<1>9. Contents' = Append(Contents, x)
  <2>1. /\ Append(Contents, x) \in Seq(Items) /\ Len(Append(Contents, x)) = n
        /\ Append(Contents, x)[n] = x
        /\ \A k \in 1 .. n - 1 : Append(Contents, x)[k] = Contents[k]
    BY <1>1, <1>7, AppendProperties
  <2>2. Len(Contents') = n /\ \A k \in 1 .. n : Contents'[k] = payload[Chain'[k + 1]]
    BY <1>1, <1>2, <1>4, <1>5
  <2>3. ASSUME NEW k \in 1 .. n PROVE Contents'[k] = Append(Contents, x)[k]
    <3>1. CASE k = n
      BY <1>4, <2>1, <2>2, <3>1 DEF x
    <3>2. CASE k # n
      <4>1. k \in 1 .. n - 1 /\ k + 1 \in 1 .. n
        BY <1>1, <3>2
      <4>2. QED
        BY <1>1, <1>4, <2>1, <2>2, <4>1
    <3>3. QED
      BY <3>1, <3>2
  <2>4. QED
    BY <1>5, <2>1, <2>2, <2>3, SeqEqual
<1>10. x \notin {Contents[k] : k \in DOMAIN Contents} \cup {popped[k] : k \in DOMAIN popped}
  BY <1>1, <1>7, <1>8 DEF Range
<1>11. Queue!Push(x)
  BY <1>2, <1>9, <1>10 DEF Queue!Push, Queue!ToSet
<1>12. QED
  BY <1>7, <1>11

(* PopSwing's exchange is the Pop.                                          *)
LEMMA QueuePops ==
  ASSUME FIFOInv, FIFOInv', NEW p \in Threads, HeadExchange(p)
  PROVE  Queue!Pop
<1> DEFINE n == Len(Chain)
<1>1. /\ n \in Nat \ {0} /\ Chain \in Seq(Links) /\ Chain[1] = head.ptr
      /\ DOMAIN Chain = 1 .. n
      /\ Contents \in Seq(Items) /\ Len(Contents) = n - 1
      /\ \A k \in 1 .. n - 1 : Contents[k] = payload[Chain[k + 1]]
  BY ContentsIsASeq
<1>2. /\ payload' = payload /\ popped' = Append(popped, payload[After[head.ptr]])
      /\ After[head.ptr] # NoLink
  BY HeadEffect, LinksAssumption
<1>3. Chain' = Tail(Chain) /\ Chain # <<>>
  BY ChainStep DEF ChainMoves, LinkExchange, HeadExchange, Acts
<1>4. /\ Len(Chain') = n - 1 /\ \A k \in 1 .. n - 1 : Chain'[k] = Chain[k + 1]
  BY <1>1, <1>3, HeadTail
<1>5. /\ Contents' \in Seq(Items) /\ Len(Contents') = Len(Chain') - 1
      /\ \A k \in 1 .. Len(Chain') - 1 : Contents'[k] = payload'[Chain'[k + 1]]
  <2>1. FIFOInv' => ContentsShape'
    BY ContentsShapeHolds, PTL
  <2>2. QED
    BY <2>1 DEF ContentsShape
<1> HIDE DEF n
<1>6. n >= 2 /\ Chain[2] = After[head.ptr]
  <2>1. \A k \in 1 .. n : After[Chain[k]] = IF k = n THEN NoLink ELSE Chain[k + 1]
    BY DEF FIFOInv, ChainInv, Path, n
  <2>2. 1 \in 1 .. n
    BY <1>1
  <2>3. After[Chain[1]] = IF 1 = n THEN NoLink ELSE Chain[2]
    BY <2>1, <2>2
  <2>4. QED
    BY <1>1, <1>2, <2>3
<1>7. /\ Contents # <<>> /\ Head(Contents) = payload[After[head.ptr]]
      /\ Tail(Contents) \in Seq(Items) /\ Len(Tail(Contents)) = n - 2
      /\ \A k \in 1 .. n - 2 : Tail(Contents)[k] = Contents[k + 1]
  <2>1. Contents # <<>> /\ 1 \in 1 .. n - 1
    BY <1>1, <1>6, EmptySeq
  <2>2. PICK c \in Seq(Items) : c = Contents
    BY <1>1
  <2>3. /\ Head(c) = c[1] /\ Tail(c) \in Seq(Items) /\ Len(Tail(c)) = Len(c) - 1
        /\ \A k \in 1 .. Len(c) - 1 : Tail(c)[k] = c[k + 1]
    BY <2>1, <2>2, HeadTail
  <2>4. QED
    BY <1>1, <1>6, <2>1, <2>2, <2>3
<1>8. Contents' = Tail(Contents)
  <2>1. /\ Len(Contents') = n - 2
        /\ \A k \in 1 .. n - 2 : Contents'[k] = payload[Chain'[k + 1]]
    <3>1. Len(Chain') - 1 = n - 2
      BY <1>1, <1>4
    <3>2. QED
      BY <1>2, <1>5, <3>1
  <2>2. ASSUME NEW k \in 1 .. n - 2 PROVE Contents'[k] = Tail(Contents)[k]
    <3>1. k + 1 \in 1 .. n - 1
      BY <1>1
    <3>2. QED
      BY <1>1, <1>4, <1>7, <2>1, <3>1
  <2>3. QED
    BY <1>5, <1>7, <2>1, <2>2, SeqEqual
<1>9. QED
  BY <1>2, <1>7, <1>8 DEF Queue!Pop

LEMMA QueueStutters ==
  ASSUME FIFOInv, FIFOInv', NEW p \in Threads, Acts(p), ~LinkExchange(p), ~HeadExchange(p)
  PROVE  UNCHANGED <<Contents, popped>>
<1>1. Chain' = Chain
  BY ChainStep DEF ChainMoves
<1>2. popped' = popped
  BY LooksEffect, SwingsEffect, BeginPushEffect, FreeEffect DEF Acts
<1>3. \A k \in 1 .. Len(Chain) - 1 : payload'[Chain[k + 1]] = payload[Chain[k + 1]]
  <2>1. \A k \in 1 .. Len(Chain) - 1 : k + 1 \in 1 .. Len(Chain)
    BY ContentsIsASeq
  <2>2. \A k \in 1 .. Len(Chain) - 1 : Chain[k + 1] \in InUse
    BY <2>1, ContentsIsASeq
  <2>3. QED
    BY <2>2, Frame
<1>4. Contents' = Contents
  BY <1>1, <1>3 DEF Contents
<1>5. QED
  BY <1>2, <1>4

(* Linearizability: the links behind the stub are a queue that changes by   *)
(* one Push or Pop at a time, first in first out, although the exchanges of *)
(* both go on beside each other and links come back under the same index    *)
(* (LockFreeList.h:530-626).                                                *)
THEOREM ImplementsTheQueue == Spec => ImplementsAtomicQueue
<1>1. Init => Queue!Init
  <2> SUFFICES ASSUME Init PROVE Queue!Init
    OBVIOUS
  <2>1. FIFOInv
    BY InitInv
  <2>2. InUse = {head.ptr} /\ popped = <<>>
    BY InitChain DEF Init
  <2>3. Len(Chain) = 1
    <3>1. CASE Len(Chain) - 1 >= 1
      <4>1. 1 \in 1 .. Len(Chain) - 1 /\ 2 \in 1 .. Len(Chain) /\ 1 \in 1 .. Len(Chain)
        BY <2>1, <3>1, ContentsIsASeq
      <4>2. Chain[2] = Chain[1]
        BY <2>1, <2>2, <4>1, ContentsIsASeq
      <4>3. QED
        BY <2>1, <4>1, <4>2 DEF FIFOInv, ChainInv, Path
    <3>2. QED
      BY <2>1, <3>1, ContentsIsASeq
  <2>4. Contents = <<>>
    BY <2>1, <2>3, ContentsIsASeq, EmptySeq
  <2>5. QED
    BY <2>2, <2>4 DEF Queue!Init
<1>2. FIFOInv /\ FIFOInv' /\ [Next]_vars => [Queue!Next]_<<Contents, popped>>
  <2>1. ASSUME UNCHANGED vars PROVE UNCHANGED <<Contents, popped>>
    BY <2>1 DEF vars, memory, Contents, Chain
  <2> SUFFICES ASSUME FIFOInv, FIFOInv', NEW p \in Threads, Acts(p)
               PROVE  [Queue!Next]_<<Contents, popped>>
    BY <2>1, Steps
  <2>2. CASE LinkExchange(p)
    BY <2>2, QueuePushes DEF Queue!Next
  <2>3. CASE HeadExchange(p)
    BY <2>3, QueuePops DEF Queue!Next
  <2>4. CASE ~LinkExchange(p) /\ ~HeadExchange(p)
    BY <2>4, QueueStutters
  <2>5. QED
    BY <2>2, <2>3, <2>4
<1>3. QED
  BY <1>1, <1>2, FIFOInvariant, PTL DEF Spec, ImplementsAtomicQueue, Queue!Spec
=============================================================================
