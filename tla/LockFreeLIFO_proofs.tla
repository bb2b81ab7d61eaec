------------------------- MODULE LockFreeLIFO_proofs -------------------------
(***************************************************************************)
(* Machine-checked safety of the lock-free LIFO, for any number of         *)
(* threads, links and payloads: no link is lost or has two owners although *)
(* links are recycled while others hold their index, each payload is in    *)
(* one place, and the list implements a stack that changes at one instant. *)
(***************************************************************************)
EXTENDS LockFreeLIFO, TLAPS, SequenceTheorems, FiniteSetTheorems, WellFoundedInduction

-----------------------------------------------------------------------------
(* Chains of links: the recursion of LinksFrom finds the one path that      *)
(* leads from a link to index 0, and a path grows and shrinks at its ends   *)
(* and does not notice what happens to other links.                         *)

(* The least element of a set of natural numbers.                           *)
LEMMA Least ==
  ASSUME NEW T \in SUBSET Nat, T # {}
  PROVE  \E n \in T : \A m \in T : n <= m
<1> DEFINE R == OpToRel(<, Nat)
<1>1. \A x, y \in Nat : <<x, y>> \in R <=> x < y
  BY DEF OpToRel
<1>2. IsWellFoundedOn(R, Nat)
  BY NatLessThanWellFounded
<1> HIDE DEF R
<1>3. PICK n \in T : \A m \in T : <<m, n>> \notin R
  BY <1>2, WFMin
<1>4. ASSUME NEW m \in T PROVE n <= m
  <2>1. m \in Nat /\ n \in Nat
    OBVIOUS
  <2>2. ~(m < n)
    BY <1>1, <1>3, <2>1
  <2>3. QED
    BY <2>1, <2>2
<1>5. QED
  BY <1>4

(* Such walks exist, however many steps.                                   *)
LEMMA WalkExists ==
  ASSUME NEW succ \in [Indices -> Indices], NEW N \in Nat
  PROVE  Walks(N, succ) # {}
<1> DEFINE T == {n \in Nat : Walks(n, succ) = {}}
<1> SUFFICES ASSUME T # {} PROVE FALSE
  OBVIOUS
<1>1. PICK n \in T : \A m \in T : n <= m
  BY Least
<1>2. CASE n = 0
  <2> DEFINE w == [x \in 0 .. 0 |-> [k \in Indices |-> <<>>]]
  <2>1. w \in Walks(0, succ)
    BY DEF Walks
  <2>2. QED
    BY <1>1, <1>2, <2>1
<1>3. CASE n # 0
  <2>1. n - 1 \in Nat /\ n - 1 \notin T
    BY <1>1, <1>3
  <2>2. PICK v : v \in Walks(n - 1, succ)
    BY <2>1
  <2> DEFINE w == [m \in 0 .. n |-> [k \in Indices |->
                     IF m = 0 \/ k = NoLink THEN <<>>
                     ELSE <<k>> \o v[m - 1][succ[k]]]]
  <2>3. \A m \in 0 .. n, k \in Indices :
          /\ w[m][k] \in Seq(Links)
          /\ w[m][k] = IF m = 0 \/ k = NoLink THEN <<>> ELSE <<k>> \o v[m - 1][succ[k]]
    <3> TAKE m \in 0 .. n, k \in Indices
    <3>1. w[m][k] = IF m = 0 \/ k = NoLink THEN <<>> ELSE <<k>> \o v[m - 1][succ[k]]
      OBVIOUS
    <3>2. CASE m = 0 \/ k = NoLink
      BY <3>1, <3>2
    <3>3. CASE m # 0 /\ k # NoLink
      <4>1. m - 1 \in 0 .. n - 1 /\ succ[k] \in Indices /\ k \in Links
        BY <3>3 DEF Indices
      <4>2. v[m - 1][succ[k]] \in Seq(Links)
        BY <2>2, <4>1 DEF Walks
      <4>3. QED
        BY <3>1, <3>3, <4>1, <4>2
    <3>4. QED
      BY <3>2, <3>3
  <2>4. \A m \in 0 .. n - 1, k \in Indices :
          v[m][k] = IF m = 0 \/ k = NoLink THEN <<>> ELSE <<k>> \o v[m - 1][succ[k]]
    BY <2>2 DEF Walks
  <2>5. w \in [0 .. n -> [Indices -> Seq(Links)]]
    BY <2>3
  <2> HIDE DEF w
  <2>6. ASSUME NEW m \in 0 .. n - 1, NEW k \in Indices PROVE w[m][k] = v[m][k]
    <3>1. m \in 0 .. n
      BY <1>1
    <3>2. QED
      BY <2>3, <2>4, <3>1, ZenonT(40)
  <2>7. ASSUME NEW m \in 0 .. n, NEW k \in Indices
        PROVE  w[m][k] = IF m = 0 \/ k = NoLink THEN <<>> ELSE <<k>> \o w[m - 1][succ[k]]
    <3>1. m # 0 => m - 1 \in 0 .. n - 1 /\ succ[k] \in Indices
      BY <1>1
    <3>2. QED
      BY <2>3, <2>6, <3>1
  <2>8. w \in Walks(n, succ)
    BY <2>5, <2>7 DEF Walks
  <2>9. QED
    BY <1>1, <2>8
<1>4. QED
  BY <1>2, <1>3

(* The recursion of LinksFrom has a solution, so its equation holds.        *)
LEMMA LinksFromWalks ==
  ASSUME NEW succ \in [Indices -> Indices]
  PROVE  \E w : /\ \A m \in 0 .. Cardinality(Links), k \in Indices :
                     w[m][k] = IF m = 0 \/ k = NoLink THEN <<>>
                               ELSE <<k>> \o w[m - 1][succ[k]]
               /\ \A l \in Indices : LinksFrom(succ, l) = w[Cardinality(Links)][l]
<1> DEFINE N == Cardinality(Links)
           Grow(w) == [n \in 0 .. N |-> [k \in Indices |->
                         IF n = 0 \/ k = NoLink THEN <<>> ELSE <<k>> \o w[n - 1][succ[k]]]]
           walk == CHOOSE w : w = Grow(w)
<1>1. N \in Nat
  BY LinksAssumption, FS_CardinalityType
<1>2. PICK v : v \in Walks(N, succ)
  BY <1>1, WalkExists
<1> HIDE DEF N
<1>3. v = Grow(v)
  BY <1>2 DEF Walks
<1>4. walk = Grow(walk)
  <2> HIDE DEF Grow
  <2>1. QED
    BY <1>3
<1>5. \A l \in Indices : LinksFrom(succ, l) = walk[N][l]
  BY DEF LinksFrom, N
<1> HIDE DEF walk
<1>6. \A m \in 0 .. N, k \in Indices :
        walk[m][k] = IF m = 0 \/ k = NoLink THEN <<>> ELSE <<k>> \o walk[m - 1][succ[k]]
  <2> TAKE m \in 0 .. N, k \in Indices
  <2>1. walk[m] = Grow(walk)[m]
    BY <1>4
  <2>2. QED
    BY <2>1
<1>7. QED
  BY <1>5, <1>6 DEF N

(* Only the empty path leads from index 0.                                  *)
LEMMA PathEnd ==
  ASSUME NEW succ
  PROVE  /\ Path(<<>>, succ, NoLink)
         /\ \A s : Path(s, succ, NoLink) => s = <<>>
<1>1. Path(<<>>, succ, NoLink)
  BY EmptySeq DEF Path
<1>2. ASSUME NEW s, Path(s, succ, NoLink), s # <<>> PROVE FALSE
  <2>1. s \in Seq(Links) /\ NoLink = s[1]
    BY <1>2 DEF Path
  <2>2. Len(s) \in Nat \ {0}
    BY <1>2, <2>1, EmptySeq
  <2>3. s[1] \in Links
    BY <2>1, <2>2, ElementOfSeq
  <2>4. QED
    BY <2>1, <2>3, LinksAssumption
<1>3. QED
  BY <1>1, <1>2

LEMMA HeadTail ==
  ASSUME NEW S, NEW s \in Seq(S), s # <<>>
  PROVE  /\ Head(s) = s[1] /\ s[1] \in S
         /\ Tail(s) \in Seq(S) /\ Len(Tail(s)) = Len(s) - 1
         /\ Len(s) \in Nat \ {0}
         /\ \A k \in 1 .. Len(s) - 1 : Tail(s)[k] = s[k + 1]
         /\ s = <<s[1]>> \o Tail(s)
<1>1. Len(s) \in Nat \ {0} /\ s[1] \in S
  BY EmptySeq, ElementOfSeq
<1>2. /\ Head(s) = s[1] /\ Tail(s) \in Seq(S) /\ Len(Tail(s)) = Len(s) - 1
      /\ \A k \in 1 .. Len(s) - 1 : Tail(s)[k] = s[k + 1]
  BY <1>1, HeadTailProperties
<1> DEFINE t == <<s[1]>> \o Tail(s)
<1>3. <<s[1]>> \in Seq(S) /\ Len(<<s[1]>>) = 1 /\ <<s[1]>>[1] = s[1]
  BY <1>1
<1>4. /\ t \in Seq(S) /\ Len(t) = 1 + Len(Tail(s))
      /\ \A k \in 1 .. 1 + Len(Tail(s)) :
           t[k] = IF k <= 1 THEN <<s[1]>>[k] ELSE Tail(s)[k - 1]
  BY <1>2, <1>3, ConcatProperties
<1> HIDE DEF t
<1>5. Len(t) = Len(s)
  BY <1>1, <1>2, <1>4
<1>6. ASSUME NEW k \in 1 .. Len(s) PROVE t[k] = s[k]
  <2>1. CASE k = 1
    BY <1>1, <1>2, <1>3, <1>4, <2>1
  <2>2. CASE k # 1
    <3>1. k - 1 \in 1 .. Len(s) - 1 /\ (k - 1) + 1 = k
      BY <1>1, <2>2
    <3>2. t[k] = Tail(s)[k - 1]
      BY <1>1, <1>2, <1>4, <2>2
    <3>3. QED
      BY <1>2, <3>1, <3>2
  <2>3. QED
    BY <2>1, <2>2
<1>7. t = s
  BY <1>4, <1>5, <1>6, SeqEqual
<1>8. QED
  BY <1>1, <1>2, <1>7 DEF t

(* What follows the first link of a path.                                   *)
LEMMA PathTail ==
  ASSUME NEW succ, NEW l, NEW s, Path(s, succ, l), s # <<>>
  PROVE  /\ l \in Links /\ l = s[1] /\ Path(Tail(s), succ, succ[l])
         /\ Range(Tail(s)) = Range(s) \ {l} /\ l \in Range(s)
<1>1. /\ s \in Seq(Links) /\ l = s[1]
      /\ \A j, k \in 1 .. Len(s) : s[j] = s[k] => j = k
  BY DEF Path
<1>z. \A k \in 1 .. Len(s) : succ[s[k]] = IF k = Len(s) THEN NoLink ELSE s[k + 1]
  BY DEF Path
<1>2. /\ s[1] \in Links /\ Tail(s) \in Seq(Links) /\ Len(Tail(s)) = Len(s) - 1
      /\ Len(s) \in Nat \ {0}
      /\ \A k \in 1 .. Len(s) - 1 : Tail(s)[k] = s[k + 1]
  BY <1>1, HeadTail
<1>b. Len(s) \in Nat \ {0} /\ Len(Tail(s)) = Len(s) - 1
  BY <1>2
<1>3. \A j, k \in 1 .. Len(Tail(s)) : Tail(s)[j] = Tail(s)[k] => j = k
  <2> TAKE j, k \in 1 .. Len(Tail(s))
  <2>1. j + 1 \in 1 .. Len(s) /\ k + 1 \in 1 .. Len(s)
    BY <1>2
  <2>2. s[j + 1] = s[k + 1] => j + 1 = k + 1
    BY <2>1 DEF Path
  <2>3. QED
    BY <1>2, <2>2
<1>4. succ[l] = IF Tail(s) = <<>> THEN NoLink ELSE Tail(s)[1]
  <2>1. 1 \in 1 .. Len(s)
    BY <1>2
  <2>a. succ[s[1]] = IF 1 = Len(s) THEN NoLink ELSE s[1 + 1]
    BY <1>z, <2>1
  <2>b. Tail(s) = <<>> => Len(Tail(s)) = 0
    BY EmptySeq
  <2>c. Tail(s) # <<>> => Len(Tail(s)) \in Nat \ {0}
    BY <1>2, EmptySeq
  <2>2. Tail(s) = <<>> <=> Len(s) = 1
    BY <1>b, <2>b, <2>c
  <2>3. QED
    BY <1>1, <1>2, <2>1, <2>2, <2>a
<1>5. \A k \in 1 .. Len(Tail(s)) :
        succ[Tail(s)[k]] = IF k = Len(Tail(s)) THEN NoLink ELSE Tail(s)[k + 1]
  <2> TAKE k \in 1 .. Len(Tail(s))
  <2>1. k + 1 \in 1 .. Len(s) /\ k \in 1 .. Len(s) - 1
    BY <1>2
  <2>2. succ[s[k + 1]] = IF k + 1 = Len(s) THEN NoLink ELSE s[(k + 1) + 1]
    BY <1>z, <2>1
  <2>3. Tail(s)[k] = s[k + 1]
    BY <1>2, <2>1
  <2>4. CASE k = Len(Tail(s))
    BY <1>2, <2>2, <2>3, <2>4
  <2>5. CASE k # Len(Tail(s))
    <3>1. k + 1 \in 1 .. Len(s) - 1
      <4>1. \A n \in Nat : \A i \in 1 .. n : i # n => i + 1 \in 1 .. n
        OBVIOUS
      <4>2. Len(Tail(s)) \in Nat /\ Len(Tail(s)) = Len(s) - 1
        BY <1>b
      <4>3. k + 1 \in 1 .. Len(Tail(s))
        BY <2>5, <4>1, <4>2
      <4>4. QED
        BY <4>2, <4>3
    <3>2. QED
      <4>1. Tail(s)[k + 1] = s[(k + 1) + 1]
        BY <1>2, <3>1
      <4>2. k + 1 # Len(s)
        <5>1. \A n \in Nat : \A i \in 1 .. n - 1 : i # n
          OBVIOUS
        <5>2. QED
          BY <1>b, <3>1, <5>1
      <4>3. QED
        BY <2>2, <2>3, <2>5, <4>1, <4>2
  <2>6. QED
    BY <2>4, <2>5
<1>6. /\ Range(s) = {s[k] : k \in 1 .. Len(s)}
      /\ Range(Tail(s)) = {Tail(s)[k] : k \in 1 .. Len(Tail(s))}
  <2>1. Range(s) = {s[k] : k \in 1 .. Len(s)}
    BY <1>1, RangeEquality
  <2>2. Range(Tail(s)) = {Tail(s)[k] : k \in 1 .. Len(Tail(s))}
    BY <1>2, RangeEquality
  <2>3. QED
    BY <2>1, <2>2
<1>7. ASSUME NEW x PROVE x \in Range(Tail(s)) <=> x \in Range(s) /\ x # l
  <2>1. ASSUME x \in Range(Tail(s)) PROVE x \in Range(s) /\ x # l
    <3>1. PICK k \in 1 .. Len(s) - 1 : x = s[k + 1]
      <4>1. PICK k \in 1 .. Len(Tail(s)) : x = Tail(s)[k]
        BY <1>6, <2>1, Zenon
      <4>2. QED
        BY <1>2, <4>1
    <3>2. k + 1 \in 1 .. Len(s) /\ 1 \in 1 .. Len(s) /\ k + 1 # 1
      BY <1>2
    <3>3. QED
      BY <1>1, <1>6, <3>1, <3>2 DEF Path
  <2>2. ASSUME x \in Range(s), x # l PROVE x \in Range(Tail(s))
    <3>1. PICK k \in 1 .. Len(s) : x = s[k]
      BY <1>6, <2>2
    <3>2. k - 1 \in 1 .. Len(s) - 1 /\ (k - 1) + 1 = k
      BY <1>1, <1>2, <2>2, <3>1
    <3>3. QED
      BY <1>2, <1>6, <3>1, <3>2
  <2>3. QED
    BY <2>1, <2>2
<1>8. Path(Tail(s), succ, succ[l])
  BY <1>2, <1>3, <1>4, <1>5 DEF Path
<1>9. l \in Links /\ l \in Range(s)
  BY <1>1, <1>2, <1>6
<1>10. Range(Tail(s)) = Range(s) \ {l}
  BY <1>7
<1>11. QED
  BY <1>1, <1>8, <1>9, <1>10

(* A link in front of a path that it is not on.                             *)
LEMMA PathCons ==
  ASSUME NEW succ, NEW l, NEW s, Path(s, succ, l),
         NEW x \in Links, x \notin Range(s), succ[x] = l
  PROVE  /\ Path(<<x>> \o s, succ, x)
         /\ Range(<<x>> \o s) = Range(s) \cup {x}
<1> DEFINE t == <<x>> \o s
<1>1. s \in Seq(Links) /\ Len(s) \in Nat /\ <<x>> \in Seq(Links)
      /\ Len(<<x>>) = 1 /\ <<x>>[1] = x
  BY LenProperties DEF Path
<1>2. /\ t \in Seq(Links) /\ Len(t) = 1 + Len(s)
      /\ \A k \in 1 .. 1 + Len(s) : t[k] = IF k <= 1 THEN <<x>>[k] ELSE s[k - 1]
  BY <1>1, ConcatProperties
<1> HIDE DEF t
<1>3. t[1] = x /\ t # <<>> /\ \A k \in 1 .. Len(s) : t[k + 1] = s[k]
  <2>1. t[1] = x /\ t # <<>>
    BY <1>1, <1>2, EmptySeq
  <2>2. ASSUME NEW k \in 1 .. Len(s) PROVE t[k + 1] = s[k]
    <3>1. k + 1 \in 1 .. 1 + Len(s) /\ ~(k + 1 <= 1) /\ (k + 1) - 1 = k
      BY <1>1
    <3>2. QED
      BY <1>2, <3>1
  <2>3. QED
    BY <2>1, <2>2
<1>4. ASSUME NEW k \in 1 .. Len(t)
      PROVE  k = 1 \/ \E j \in 1 .. Len(s) : k = j + 1
  <2>1. k # 1 => k - 1 \in 1 .. Len(s) /\ k = (k - 1) + 1
    BY <1>1, <1>2
  <2>2. QED
    BY <2>1
<1>5. Range(s) = {s[k] : k \in 1 .. Len(s)}
  BY <1>1, RangeEquality
<1>6. Range(t) = {t[k] : k \in 1 .. Len(t)}
  BY <1>2, RangeEquality
<1>7. Range(t) = Range(s) \cup {x}
  <2>1. ASSUME NEW y PROVE y \in Range(t) => y \in Range(s) \cup {x}
    BY <1>3, <1>4, <1>5, <1>6
  <2>2. ASSUME NEW y PROVE y \in Range(s) \cup {x} => y \in Range(t)
    <3>1. 1 \in 1 .. Len(t) /\ \A k \in 1 .. Len(s) : k + 1 \in 1 .. Len(t)
      BY <1>1, <1>2
    <3>2. QED
      BY <1>3, <1>5, <1>6, <3>1
  <2>3. QED
    BY <2>1, <2>2
<1>8. ASSUME NEW j \in 1 .. Len(t), NEW k \in 1 .. Len(t), t[j] = t[k] PROVE j = k
  <2>1. CASE j = 1 /\ k # 1
    BY <1>3, <1>4, <1>5, <1>8, <2>1
  <2>2. CASE k = 1 /\ j # 1
    BY <1>3, <1>4, <1>5, <1>8, <2>2
  <2>3. CASE k # 1 /\ j # 1
    BY <1>3, <1>4, <1>8, <2>3 DEF Path
  <2>4. QED
    BY <2>1, <2>2, <2>3
<1>9. ASSUME NEW k \in 1 .. Len(t)
      PROVE  succ[t[k]] = IF k = Len(t) THEN NoLink ELSE t[k + 1]
  <2>1. CASE k = 1
    <3>1. s = <<>> <=> Len(s) = 0
      BY <1>1, EmptySeq
    <3>2. Len(s) # 0 => 1 \in 1 .. Len(s)
      BY <1>1
    <3>3. succ[t[1]] = IF s = <<>> THEN NoLink ELSE s[1]
      BY <1>3 DEF Path
    <3>4. QED
      BY <1>1, <1>2, <1>3, <2>1, <3>1, <3>2, <3>3
  <2>2. CASE k # 1
    <3>1. PICK j \in 1 .. Len(s) : k = j + 1
      BY <1>4, <2>2
    <3>2. succ[s[j]] = IF j = Len(s) THEN NoLink ELSE s[j + 1]
      BY DEF Path
    <3>3. j = Len(s) <=> k = Len(t)
      BY <1>1, <1>2, <3>1
    <3>4. j # Len(s) => j + 1 \in 1 .. Len(s)
      BY <1>1
    <3>5. QED
      BY <1>3, <3>1, <3>2, <3>3, <3>4
  <2>3. QED
    BY <2>1, <2>2
<1>10. Path(t, succ, x)
  BY <1>2, <1>3, <1>8, <1>9 DEF Path
<1>11. QED
  BY <1>7, <1>10 DEF t

(* A path does not see what happens to links that are not on it.            *)
LEMMA PathFrame ==
  ASSUME NEW succ, NEW other, NEW l, NEW s, Path(s, succ, l),
         \A x \in Range(s) : other[x] = succ[x]
  PROVE  Path(s, other, l)
<1>1. s \in Seq(Links)
  BY DEF Path
<1>2. \A k \in 1 .. Len(s) : s[k] \in Range(s)
  BY <1>1, RangeEquality
<1>3. QED
  BY <1>2 DEF Path

(* No path is longer than there are links.                                  *)
LEMMA PathLength ==
  ASSUME NEW succ, NEW l, NEW s, Path(s, succ, l)
  PROVE  Len(s) \in Nat /\ Len(s) <= Cardinality(Links)
<1>1. s \in Seq(Links)
  BY DEF Path
<1>2. Len(s) \in Nat /\ s \in [1 .. Len(s) -> Links]
  BY <1>1, LenProperties
<1>3. s \in Injection(1 .. Len(s), Links)
  BY <1>2 DEF Path, Injection, IsInjective
<1>4. Cardinality(1 .. Len(s)) = Len(s)
  BY <1>2, FS_Interval
<1>5. Cardinality(1 .. Len(s)) <= Cardinality(Links)
  BY <1>3, LinksAssumption, FS_Injection
<1>6. QED
  BY <1>2, <1>4, <1>5

(* The recursion finds the path, if there is one.                           *)
LEMMA LinksFromPath ==
  ASSUME NEW succ \in [Indices -> Indices], NEW l \in Indices,
         NEW s, Path(s, succ, l)
  PROVE  LinksFrom(succ, l) = s
<1> DEFINE N == Cardinality(Links)
<1>1. N \in Nat
  BY LinksAssumption, FS_CardinalityType
<1>2. PICK w :
        /\ \A m \in 0 .. N, k \in Indices :
             w[m][k] = IF m = 0 \/ k = NoLink THEN <<>> ELSE <<k>> \o w[m - 1][succ[k]]
        /\ \A k \in Indices : LinksFrom(succ, k) = w[N][k]
  BY LinksFromWalks
<1> HIDE DEF N
<1> DEFINE Good(m) == \A k \in Indices, t \in Seq(Links) :
                        Path(t, succ, k) /\ Len(t) <= m => w[m][k] = t
           T == {m \in 0 .. N : ~Good(m)}
<1>3. T = {}
  <2> SUFFICES ASSUME T # {} PROVE FALSE
    OBVIOUS
  <2>1. T \in SUBSET Nat
    BY <1>1
  <2>2. PICK m \in T : \A i \in T : m <= i
    <3> HIDE DEF T
    <3>1. QED
      BY <2>1, Least
  <2>3. PICK k \in Indices, t \in Seq(Links) :
          Path(t, succ, k) /\ Len(t) <= m /\ w[m][k] # t
    BY <2>2
  <2>4. Len(t) \in Nat /\ m \in 0 .. N
    BY <2>2, LenProperties
  <2>5. CASE t = <<>>
    <3>1. k = NoLink
      BY <2>3, <2>5 DEF Path
    <3>2. QED
      BY <1>2, <2>3, <2>4, <2>5, <3>1
  <2>6. CASE t # <<>>
    <3>1. /\ k \in Links /\ k = t[1] /\ Path(Tail(t), succ, succ[k])
      BY <2>3, <2>6, PathTail
    <3>2. /\ Tail(t) \in Seq(Links) /\ Len(Tail(t)) = Len(t) - 1 /\ Len(t) # 0
          /\ t = <<t[1]>> \o Tail(t)
      BY <2>6, HeadTail
    <3>3. m - 1 \in 0 .. N /\ ~(m <= m - 1) /\ Len(Tail(t)) <= m - 1 /\ m # 0
      BY <1>1, <2>3, <2>4, <3>2
    <3>4. Good(m - 1)
      BY <2>2, <3>3
    <3>5. succ[k] \in Indices /\ k # NoLink
      BY <3>1, LinksAssumption
    <3>6. w[m - 1][succ[k]] = Tail(t)
      BY <3>1, <3>2, <3>3, <3>4, <3>5
    <3>7. w[m][k] = <<k>> \o w[m - 1][succ[k]]
      BY <1>2, <2>4, <3>3, <3>5
    <3>8. QED
      BY <2>3, <3>1, <3>2, <3>6, <3>7
  <2>7. QED
    BY <2>5, <2>6
<1>4. Good(N)
  BY <1>1, <1>3
<1>5. s \in Seq(Links) /\ Len(s) <= N
  BY PathLength DEF Path, N
<1>6. QED
  BY <1>2, <1>4, <1>5

-----------------------------------------------------------------------------
(* The inductive invariant                                                  *)

Heads == [ptr : Indices, closed : BOOLEAN, counter : Nat]
Pushes == {"pushHead", "pushLink", "pushSwing"}
Labels == Pushes \cup {"idle", "popHead", "popNext", "popSwing", "popFree", "allHead",
                       "allSwing", "closeHead", "closeSwing", "walk"}

Shapes ==
  /\ closable \in BOOLEAN /\ closing \in BOOLEAN
  /\ head \in Heads
  /\ singleNext \in [Indices -> Indices]
  /\ payload \in [Indices -> Items \cup {NoItem}]
  /\ free \subseteq Links /\ unpushed \subseteq Items /\ refused \subseteq Items
  /\ delivered \in Seq(Items)
  /\ pc \in [Threads -> Labels]
  /\ job \in [Threads -> Items \cup {NoItem}]
  /\ item \in [Threads -> Indices] /\ next \in [Threads -> Indices]
  /\ localHead \in [Threads -> Heads]

(* The list and what was taken from it end at index 0.                      *)
PathsInv ==
  /\ Path(ChainFrom(head.ptr), singleNext, head.ptr)
  /\ \A p \in Threads : pc[p] = "walk" =>
       Path(ChainFrom(item[p]), singleNext, item[p])

(* Where a thread holds a link and a payload.                               *)
HoldsInv ==
  \A p \in Threads :
    /\ item[p] # NoLink => pc[p] \in {"pushHead", "pushLink", "pushSwing", "popFree", "walk"}
    /\ pc[p] \in {"pushSwing", "popFree"} => item[p] # NoLink
    /\ job[p] # NoItem <=> pc[p] \in Pushes
    /\ job[p] # NoItem /\ item[p] # NoLink => payload[item[p]] = job[p]

(* What a thread has read is true as long as the counter is what it was:    *)
(* this is where the counter keeps a recycled link from being mistaken.     *)
ReadsInv ==
  \A p \in Threads :
    /\ localHead[p].counter <= head.counter
    /\ localHead[p].closed => head.closed
    /\ pc[p] = "pushSwing" =>
         singleNext[item[p]] = localHead[p].ptr /\ ~localHead[p].closed
    /\ pc[p] = "popSwing" =>
         localHead[p].ptr # NoLink /\ (Exchanged(p) => next[p] = singleNext[head.ptr])

(* A payload whose push has begun and that was not handed out is the job of *)
(* one thread, or in one link, or in a link that its thread is pushing.     *)
Ended == refused \cup Range(delivered)
PayloadInv ==
  /\ unpushed \cap Ended = {} /\ refused \cap Range(delivered) = {}
  /\ \A j, k \in DOMAIN delivered : delivered[j] = delivered[k] => j = k
  /\ \A l \in Links \ free : payload[l] \in Items \ (unpushed \cup Ended)
  /\ \A l, m \in Links \ free : payload[l] = payload[m] => l = m
  /\ \A p \in Threads : job[p] # NoItem =>
       /\ job[p] \notin unpushed \cup Ended
       /\ \A q \in Threads \ {p} : job[q] # job[p]
       /\ \A l \in Links \ free : payload[l] = job[p] => l = item[p]
  /\ \A x \in Items \ (unpushed \cup Ended) :
       (\E p \in Threads : job[p] = x) \/ (\E l \in Links \ free : payload[l] = x)

LIFOInv ==
  Shapes /\ PathsInv /\ HoldsInv /\ ReadsInv /\ EveryLinkHasOneOwner /\ PayloadInv

-----------------------------------------------------------------------------
(* The steps                                                                *)

(* Steps that leave the list and the links alone.                           *)
Looks(p) ==
  \/ PushReadHead(p) \/ PushRetry(p)
  \/ BeginPop(p) \/ PopReadHead(p) \/ PopReturnNull(p) \/ PopReadNext(p) \/ PopRetry(p)
  \/ BeginPopAll(p) \/ AllReadHead(p) \/ AllReturnNone(p) \/ AllRetry(p)
  \/ BeginClose(p) \/ CloseReadHead(p) \/ CloseRetry(p) \/ WalkEnds(p)

(* A link goes back to the allocator, if there is one.                      *)
GivesBack(p) == PushRefused(p) \/ PopFree(p) \/ Walk(p)

Takes(p) == AllSwing(p) \/ CloseSwing(p)

Acts(p) ==
  \/ Looks(p) \/ (\E x \in Items : BeginPush(p, x)) \/ PushAllocate(p) \/ PushSetNext(p)
  \/ PushSwing(p) \/ PopSwing(p) \/ GivesBack(p) \/ Takes(p)

LEMMA Steps ==
  ASSUME Next
  PROVE  \/ (\E p \in Threads : Acts(p)) /\ UNCHANGED closable
         \/ UNCHANGED vars
  BY DEF Next, Begin, Step, Finished, Acts, Looks, GivesBack, Takes

LEMMA ReturnEffect ==
  ASSUME Shapes, NEW p \in Threads, Return(p)
  PROVE  /\ pc' \in [Threads -> Labels] /\ job' \in [Threads -> Items \cup {NoItem}]
         /\ item' \in [Threads -> Indices] /\ next' \in [Threads -> Indices]
         /\ localHead' \in [Threads -> Heads]
         /\ pc'[p] = "idle" /\ job'[p] = NoItem /\ item'[p] = NoLink
         /\ localHead'[p] = Null /\ next'[p] = NoLink
         /\ \A q \in Threads \ {p} :
              /\ pc'[q] = pc[q] /\ job'[q] = job[q] /\ item'[q] = item[q]
              /\ localHead'[q] = localHead[q] /\ next'[q] = next[q]
  BY DEF Return, Goto, Shapes, Labels, Heads, Null, Indices

LEMMA FreeEffect ==
  ASSUME Shapes, NEW l \in Links, Free(l)
  PROVE  /\ free' = free \cup {l} /\ free' \subseteq Links
         /\ payload' \in [Indices -> Items \cup {NoItem}]
         /\ singleNext' \in [Indices -> Indices]
         /\ payload'[l] = NoItem /\ singleNext'[l] = NoLink
         /\ \A m \in Indices \ {l} : payload'[m] = payload[m] /\ singleNext'[m] = singleNext[m]
  BY DEF Free, Shapes, Indices

LEMMA AdvanceEffect ==
  ASSUME NEW from \in Heads, NEW to \in Indices
  PROVE  LET new == Advance(from, to) IN
         /\ new \in Heads /\ new.ptr = to /\ new.closed = from.closed
         /\ new.counter = from.counter + 1
         /\ [new EXCEPT !.closed = TRUE] \in Heads
         /\ [new EXCEPT !.closed = TRUE].ptr = to
         /\ [new EXCEPT !.closed = TRUE].closed
         /\ [new EXCEPT !.closed = TRUE].counter = from.counter + 1
<1> DEFINE new == Advance(from, to)
<1>1. /\ new \in Heads /\ new.ptr = to /\ new.closed = from.closed
      /\ new.counter = from.counter + 1
  <2>1. from.counter \in Nat /\ from.closed \in BOOLEAN
    BY DEF Heads
  <2>2. \A n \in Nat : [from EXCEPT !.ptr = to, !.counter = n] \in Heads
    BY DEF Heads
  <2>3. new = [from EXCEPT !.ptr = to, !.counter = from.counter + 1]
    BY DEF Advance
  <2>4. new \in Heads
    <3> HIDE DEF new
    <3>1. from.counter + 1 \in Nat
      BY <2>1
    <3>2. QED
      BY <2>2, <2>3, <3>1, Zenon
  <2>5. new.ptr = to /\ new.closed = from.closed /\ new.counter = from.counter + 1
    BY DEF Advance, Heads
  <2>6. QED
    BY <2>4, <2>5
<1> HIDE DEF new
<1>2. /\ [new EXCEPT !.closed = TRUE] \in Heads
      /\ [new EXCEPT !.closed = TRUE].ptr = to
      /\ [new EXCEPT !.closed = TRUE].closed
      /\ [new EXCEPT !.closed = TRUE].counter = from.counter + 1
  BY <1>1 DEF Heads
<1>3. QED
  BY <1>1, <1>2 DEF new

-----------------------------------------------------------------------------
(* What a thread owns                                                       *)

LEMMA OwnedNothing ==
  ASSUME PathsInv, NEW p \in Threads, item[p] = NoLink
  PROVE  Owned(p) = {}
<1>1. CASE pc[p] = "walk"
  <2>1. ChainFrom(item[p]) = <<>>
    BY <1>1, PathEnd DEF PathsInv
  <2>2. QED
    BY <1>1, <2>1 DEF Owned, Range
<1>2. QED
  BY <1>1 DEF Owned

LEMMA OwnItem ==
  ASSUME LIFOInv, NEW p \in Threads, item[p] # NoLink
  PROVE  /\ item[p] \in Links /\ item[p] \in Owned(p)
         /\ item[p] \notin free /\ item[p] \notin InList
         /\ payload[item[p]] \in Items \ (unpushed \cup Ended)
<1>1. item[p] \in Links
  BY DEF LIFOInv, Shapes, Indices
<1>2. CASE pc[p] = "walk"
  <2>1. Path(ChainFrom(item[p]), singleNext, item[p])
    BY <1>2 DEF LIFOInv, PathsInv
  <2>2. ChainFrom(item[p]) # <<>>
    BY <2>1 DEF Path
  <2>3. QED
    BY <1>1, <1>2, <2>1, <2>2, PathTail
       DEF Owned, LIFOInv, EveryLinkHasOneOwner, PayloadInv
<1>3. CASE pc[p] # "walk"
  BY <1>1, <1>3 DEF Owned, LIFOInv, EveryLinkHasOneOwner, PayloadInv
<1>4. QED
  BY <1>2, <1>3

LEMMA HeadInList ==
  ASSUME LIFOInv, head.ptr # NoLink
  PROVE  /\ ChainFrom(head.ptr) # <<>> /\ head.ptr \in InList /\ head.ptr \in Links
         /\ head.ptr = ChainFrom(head.ptr)[1]
         /\ Path(Tail(ChainFrom(head.ptr)), singleNext, singleNext[head.ptr])
         /\ Range(Tail(ChainFrom(head.ptr))) = InList \ {head.ptr}
<1>1. Path(ChainFrom(head.ptr), singleNext, head.ptr)
  BY DEF LIFOInv, PathsInv
<1>2. ChainFrom(head.ptr) # <<>>
  BY <1>1 DEF Path
<1>3. QED
  BY <1>1, <1>2, PathTail DEF InList

-----------------------------------------------------------------------------
(* Types                                                                    *)

LEMMA InitShapes == Init => Shapes
<1> SUFFICES ASSUME Init PROVE Shapes
  OBVIOUS
<1>1. Null \in Heads
  BY DEF Null, Heads, Indices
<1>2. <<>> \in Seq(Items)
  BY EmptySeq
<1>3. QED
  BY <1>1, <1>2 DEF Init, Shapes, Labels, Indices

LEMMA NextShapes ==
  ASSUME LIFOInv, Next
  PROVE  Shapes'
<1> USE DEF memory, history, locals
<1>0. Shapes
  BY DEF LIFOInv
<1>1. CASE UNCHANGED vars
  BY <1>1 DEF vars, LIFOInv, Shapes
<1> SUFFICES ASSUME NEW p \in Threads, Acts(p), UNCHANGED closable PROVE Shapes'
  BY <1>1, Steps
<1>2. CASE Looks(p)
  <2>1. CASE PopReturnNull(p) \/ AllReturnNone(p) \/ WalkEnds(p)
    BY <2>1, <1>0, ReturnEffect DEF PopReturnNull, AllReturnNone, WalkEnds, Shapes
  <2>2. CASE PopReadNext(p)
    BY <2>2, <1>0 DEF PopReadNext, Goto, Shapes, Labels, Heads
  <2>3. CASE PushReadHead(p) \/ PopReadHead(p) \/ AllReadHead(p) \/ CloseReadHead(p)
    BY <2>3, <1>0 DEF PushReadHead, PopReadHead, AllReadHead, CloseReadHead, ReadHead,
                      Goto, Shapes, Labels, Pushes
  <2>4. CASE PushRetry(p) \/ PopRetry(p) \/ AllRetry(p) \/ CloseRetry(p)
    BY <2>4, <1>0 DEF PushRetry, PopRetry, AllRetry, CloseRetry, RetryUnlessExchanged,
                      Goto, Shapes, Labels, Pushes
  <2>5. CASE BeginPop(p) \/ BeginPopAll(p) \/ BeginClose(p)
    BY <2>5, <1>0 DEF BeginPop, BeginPopAll, BeginClose, Goto, Shapes, Labels
  <2>6. QED
    BY <1>2, <2>1, <2>2, <2>3, <2>4, <2>5 DEF Looks
<1>3. ASSUME NEW x \in Items, BeginPush(p, x) PROVE Shapes'
  BY <1>3, <1>0 DEF BeginPush, Goto, Shapes, Labels, Pushes
<1>4. CASE PushAllocate(p)
  BY <1>4, <1>0 DEF PushAllocate, Shapes, Indices
<1>5. CASE PushSetNext(p)
  BY <1>5, <1>0 DEF PushSetNext, Goto, Shapes, Labels, Pushes, Heads
<1>6. CASE PushSwing(p)
  BY <1>6, <1>0, ReturnEffect, AdvanceEffect DEF PushSwing, Shapes
<1>7. CASE PopSwing(p)
  <2>1. localHead[p].ptr \in Indices
    BY <1>0 DEF Shapes, Heads
  <2>2. QED
    BY <1>7, <1>0, <2>1, AdvanceEffect DEF PopSwing, Goto, Shapes, Labels
<1>8. CASE GivesBack(p)
  <2>1. CASE PushRefused(p)
    <3>1. job[p] \in Items
      BY <2>1 DEF PushRefused, LIFOInv, HoldsInv, Pushes, Shapes
    <3>2. item[p] # NoLink => item[p] \in Links
      BY <1>0 DEF Shapes, Indices
    <3>3. QED
      BY <2>1, <3>1, <3>2, <1>0, ReturnEffect, FreeEffect DEF PushRefused, Shapes
  <2>2. PopFree(p) \/ Walk(p) => item[p] \in Links /\ payload[item[p]] \in Items
    BY OwnItem DEF PopFree, Walk, LIFOInv, HoldsInv
  <2>3. CASE PopFree(p)
    BY <2>2, <2>3, <1>0, ReturnEffect, FreeEffect, AppendProperties DEF PopFree, Shapes
  <2>4. CASE Walk(p)
    BY <2>2, <2>4, <1>0, FreeEffect, AppendProperties DEF Walk, NextInWalk, Shapes, Indices
  <2>5. QED
    BY <1>8, <2>1, <2>3, <2>4 DEF GivesBack
<1>9. CASE Takes(p)
  <2>1. localHead[p].ptr \in Indices /\ NoLink \in Indices
    BY <1>0 DEF Shapes, Heads, Indices
  <2>2. QED
    <3>1. CASE AllSwing(p)
      BY <3>1, <1>0, <2>1, AdvanceEffect DEF AllSwing, Goto, Shapes, Labels
    <3>2. CASE CloseSwing(p)
      BY <3>2, <1>0, <2>1, AdvanceEffect DEF CloseSwing, Goto, Shapes, Labels
    <3>3. QED
      BY <1>9, <3>1, <3>2 DEF Takes
<1>10. QED
  BY <1>2, <1>3, <1>4, <1>5, <1>6, <1>7, <1>8, <1>9 DEF Acts

-----------------------------------------------------------------------------
(* Who owns which link                                                      *)

(* A thread writes to its own links only.                                   *)
Touches(p) ==
  /\ \A l \in Indices \ Owned(p) : singleNext'[l] = singleNext[l]
  /\ \A q \in Threads \ {p} : pc'[q] = pc[q] /\ item'[q] = item[q]

LEMMA TouchesItsOwn ==
  ASSUME LIFOInv, Shapes', NEW p \in Threads, Touches(p)
  PROVE  /\ Path(ChainFrom(head.ptr), singleNext', head.ptr)
         /\ head'.ptr = head.ptr =>
              ChainFrom(head.ptr)' = ChainFrom(head.ptr) /\ InList' = InList
         /\ \A q \in Threads \ {p} :
              /\ Owned(q)' = Owned(q)
              /\ pc[q] = "walk" => Path(ChainFrom(item[q]), singleNext, item[q])'
<1>0. singleNext' \in [Indices -> Indices] /\ head.ptr \in Indices
  BY DEF LIFOInv, Shapes, Heads
<1>1. ASSUME NEW s, NEW l, Path(s, singleNext, l), Range(s) \cap Owned(p) = {}
      PROVE  Path(s, singleNext', l)
  <2>1. Range(s) \subseteq Indices
    <3>1. s \in Seq(Links)
      BY <1>1 DEF Path
    <3>2. Range(s) \in SUBSET Links
      BY <3>1, RangeOfSeq
    <3>3. QED
      BY <3>2 DEF Indices
  <2>2. \A x \in Range(s) : singleNext'[x] = singleNext[x]
    BY <1>1, <2>1 DEF Touches
  <2>3. QED
    BY <1>1, <2>2, PathFrame
<1>2. Path(ChainFrom(head.ptr), singleNext', head.ptr)
  BY <1>1 DEF LIFOInv, PathsInv, EveryLinkHasOneOwner, InList
<1>3. ASSUME head'.ptr = head.ptr
      PROVE  ChainFrom(head.ptr)' = ChainFrom(head.ptr) /\ InList' = InList
  <2>1. LinksFrom(singleNext', head.ptr) = ChainFrom(head.ptr)
    BY <1>0, <1>2, LinksFromPath
  <2>2. ChainFrom(head.ptr)' = ChainFrom(head.ptr)
    BY <1>3, <2>1 DEF ChainFrom
  <2>3. QED
    BY <2>2 DEF InList
<1>4. ASSUME NEW q \in Threads \ {p}
      PROVE  /\ Owned(q)' = Owned(q)
             /\ pc[q] = "walk" => Path(ChainFrom(item[q]), singleNext, item[q])'
  <2>1. pc'[q] = pc[q] /\ item'[q] = item[q] /\ item[q] \in Indices
    BY DEF Touches, LIFOInv, Shapes
  <2>2. CASE pc[q] = "walk"
    <3>1. Path(ChainFrom(item[q]), singleNext, item[q]) /\ Owned(q) = Range(ChainFrom(item[q]))
      BY <2>2 DEF LIFOInv, PathsInv, Owned
    <3>2. Owned(q) \cap Owned(p) = {}
      BY DEF LIFOInv, EveryLinkHasOneOwner
    <3>3. Path(ChainFrom(item[q]), singleNext', item[q])
      BY <1>1, <3>1, <3>2
    <3>4. LinksFrom(singleNext', item[q]) = ChainFrom(item[q])
      BY <1>0, <2>1, <3>3, LinksFromPath
    <3>5. ChainFrom(item[q])' = ChainFrom(item[q])
      BY <2>1, <3>4 DEF ChainFrom
    <3>6. QED
      BY <2>1, <2>2, <3>1, <3>3, <3>5 DEF Owned
  <2>3. CASE pc[q] # "walk"
    BY <2>1, <2>3 DEF Owned
  <2>4. QED
    BY <2>2, <2>3
<1>5. QED
  BY <1>2, <1>3, <1>4

(* What a step does to the allocator, the list and the links of its thread. *)
Moves(p) ==
  \/ free' = free /\ InList' = InList /\ Owned(p)' = Owned(p)
  \/ \E l \in free :
       free' = free \ {l} /\ InList' = InList /\ Owned(p)' = Owned(p) \cup {l}
  \/ \E l \in Owned(p) :
       free' = free \cup {l} /\ InList' = InList /\ Owned(p)' = Owned(p) \ {l}
  \/ \E S \in SUBSET Owned(p) :
       free' = free /\ InList' = InList \cup S /\ Owned(p)' = Owned(p) \ S
  \/ \E S \in SUBSET InList :
       free' = free /\ InList' = InList \ S /\ Owned(p)' = Owned(p) \cup S

LEMMA MovesKeepOneOwner ==
  ASSUME EveryLinkHasOneOwner, NEW p \in Threads, Moves(p), free \subseteq Links,
         \A q \in Threads \ {p} : Owned(q)' = Owned(q)
  PROVE  EveryLinkHasOneOwner'
<1>1. /\ free' \cap InList' = {} /\ Owned(p)' \cap (free' \cup InList') = {}
      /\ free' \cup InList' \cup Owned(p)' = free \cup InList \cup Owned(p)
  BY DEF Moves, EveryLinkHasOneOwner
<1>2. UNION {Owned(q)' : q \in Threads} = Owned(p)' \cup UNION {Owned(q) : q \in Threads \ {p}}
  OBVIOUS
<1>3. UNION {Owned(q) : q \in Threads} = Owned(p) \cup UNION {Owned(q) : q \in Threads \ {p}}
  OBVIOUS
<1>4. Links = free' \cup InList' \cup UNION {Owned(q)' : q \in Threads}
  BY <1>1, <1>2, <1>3 DEF EveryLinkHasOneOwner
<1>5. ASSUME NEW q \in Threads \ {p}
      PROVE  Owned(q)' \cap (free' \cup InList') = {} /\ Owned(q)' \cap Owned(p)' = {}
  <2>1. Owned(q)' = Owned(q) /\ Owned(q) \cap (free \cup InList \cup Owned(p)) = {}
    BY DEF EveryLinkHasOneOwner
  <2>2. QED
    BY <1>1, <2>1
<1>6. \A q, r \in Threads \ {p} : q # r => Owned(q)' \cap Owned(r)' = {}
  BY DEF EveryLinkHasOneOwner
<1>7. QED
  BY <1>1, <1>4, <1>5, <1>6 DEF EveryLinkHasOneOwner

(* A step touches only its own links, and moves links as Moves says.        *)
Accounts(p) ==
  /\ Touches(p) /\ Moves(p)
  /\ Path(ChainFrom(head.ptr), singleNext, head.ptr)'
  /\ pc'[p] = "walk" => Path(ChainFrom(item[p]), singleNext, item[p])'

LEMMA LooksEffect ==
  ASSUME LIFOInv, NEW p \in Threads, Looks(p) \/ \E x \in Items : BeginPush(p, x)
  PROVE  /\ UNCHANGED <<memory, refused, delivered>>
         /\ item'[p] = item[p] /\ pc[p] # "popFree" /\ pc'[p] \notin {"walk", "popFree"}
         /\ pc[p] = "walk" => item[p] = NoLink
         /\ \A q \in Threads \ {p} :
              /\ pc'[q] = pc[q] /\ item'[q] = item[q] /\ job'[q] = job[q]
              /\ localHead'[q] = localHead[q] /\ next'[q] = next[q]
<1> USE DEF memory, history, locals
<1>0. Shapes
  BY DEF LIFOInv
<1>1. CASE PopReturnNull(p) \/ AllReturnNone(p) \/ WalkEnds(p)
  <2>1. item[p] = NoLink /\ pc[p] # "popFree"
    BY <1>1 DEF PopReturnNull, AllReturnNone, WalkEnds, LIFOInv, HoldsInv
  <2>2. Return(p) /\ UNCHANGED <<memory, history>>
    BY <1>1 DEF PopReturnNull, AllReturnNone, WalkEnds
  <2>3. QED
    BY <1>0, <2>1, <2>2, ReturnEffect
<1>2. CASE PopReadNext(p)
  BY <1>2, <1>0 DEF PopReadNext, Goto, Shapes
<1>3. CASE PushReadHead(p) \/ PopReadHead(p) \/ AllReadHead(p) \/ CloseReadHead(p)
  BY <1>3, <1>0 DEF PushReadHead, PopReadHead, AllReadHead, CloseReadHead, ReadHead,
                    Goto, Shapes
<1>4. CASE PushRetry(p) \/ PopRetry(p) \/ AllRetry(p) \/ CloseRetry(p)
  BY <1>4, <1>0 DEF PushRetry, PopRetry, AllRetry, CloseRetry, RetryUnlessExchanged,
                    Goto, Shapes
<1>5. CASE BeginPop(p) \/ BeginPopAll(p) \/ BeginClose(p)
  BY <1>5, <1>0 DEF BeginPop, BeginPopAll, BeginClose, Goto, Shapes
<1>6. ASSUME NEW x \in Items, BeginPush(p, x)
      PROVE  /\ UNCHANGED <<memory, refused, delivered>>
             /\ item'[p] = item[p] /\ pc[p] = "idle" /\ pc'[p] = "pushHead"
             /\ \A q \in Threads \ {p} :
                  /\ pc'[q] = pc[q] /\ item'[q] = item[q] /\ job'[q] = job[q]
                  /\ localHead'[q] = localHead[q] /\ next'[q] = next[q]
  BY <1>6, <1>0 DEF BeginPush, Goto, Shapes
<1>7. QED
  BY <1>1, <1>2, <1>3, <1>4, <1>5, <1>6 DEF Looks

LEMMA LooksAccounts ==
  ASSUME LIFOInv, Shapes', NEW p \in Threads, Looks(p) \/ \E x \in Items : BeginPush(p, x)
  PROVE  Accounts(p)
<1>1. Touches(p) /\ head' = head /\ free' = free /\ singleNext' = singleNext
  BY LooksEffect DEF Touches, memory
<1>2. Owned(p)' = {item[p]} \ {NoLink} /\ pc'[p] # "walk"
  BY LooksEffect DEF Owned
<1>3. Owned(p) = {item[p]} \ {NoLink}
  BY LooksEffect, OwnedNothing DEF Owned, LIFOInv
<1>4. ChainFrom(head.ptr)' = ChainFrom(head.ptr) /\ InList' = InList
  BY <1>1, TouchesItsOwn
<1>5. QED
  BY <1>1, <1>2, <1>3, <1>4 DEF Accounts, Moves, LIFOInv, PathsInv

LEMMA PushAllocateAccounts ==
  ASSUME LIFOInv, Shapes', NEW p \in Threads, PushAllocate(p)
  PROVE  Accounts(p)
<1>1. PICK l \in free : free' = free \ {l} /\ item' = [item EXCEPT ![p] = l]
  BY DEF PushAllocate
<1>2. /\ head' = head /\ singleNext' = singleNext /\ pc' = pc /\ pc[p] # "walk"
      /\ item[p] = NoLink
  BY DEF PushAllocate
<1>3. item'[p] = l /\ l # NoLink /\ \A q \in Threads \ {p} : item'[q] = item[q]
  BY <1>1, LinksAssumption DEF LIFOInv, Shapes
<1>4. Touches(p)
  BY <1>2, <1>3 DEF Touches
<1>5. ChainFrom(head.ptr)' = ChainFrom(head.ptr) /\ InList' = InList
  BY <1>2, <1>4, TouchesItsOwn
<1>6. Owned(p) = {} /\ Owned(p)' = {l}
  BY <1>2, <1>3 DEF Owned
<1>7. QED
  BY <1>1, <1>2, <1>4, <1>5, <1>6 DEF Accounts, Moves, LIFOInv, PathsInv

LEMMA PushSetNextAccounts ==
  ASSUME LIFOInv, Shapes', NEW p \in Threads, PushSetNext(p)
  PROVE  Accounts(p)
<1>1. /\ singleNext' = [singleNext EXCEPT ![item[p]] = localHead[p].ptr]
      /\ pc' = [pc EXCEPT ![p] = "pushSwing"] /\ pc[p] = "pushLink" /\ item[p] # NoLink
      /\ head' = head /\ free' = free /\ item' = item
  BY DEF PushSetNext, Goto, locals
<1>2. pc'[p] = "pushSwing" /\ \A q \in Threads \ {p} : pc'[q] = pc[q]
  BY <1>1 DEF LIFOInv, Shapes
<1>3. \A l \in Indices \ {item[p]} : singleNext'[l] = singleNext[l]
  BY <1>1 DEF LIFOInv, Shapes
<1>4. Owned(p) = {item[p]} /\ Owned(p)' = {item[p]}
  BY <1>1, <1>2 DEF Owned
<1>5. Touches(p)
  BY <1>1, <1>2, <1>3, <1>4 DEF Touches
<1>6. ChainFrom(head.ptr)' = ChainFrom(head.ptr) /\ InList' = InList
      /\ Path(ChainFrom(head.ptr), singleNext', head.ptr)
  BY <1>1, <1>5, TouchesItsOwn
<1>7. QED
  BY <1>1, <1>2, <1>4, <1>5, <1>6 DEF Accounts, Moves

(* The exchange puts the link in front of what the head led to.             *)
LEMMA PushSwingAccounts ==
  ASSUME LIFOInv, Shapes', NEW p \in Threads, PushSwing(p)
  PROVE  /\ Accounts(p) /\ Owned(p) = {item[p]}
         /\ ChainFrom(head.ptr)' = <<item[p]>> \o ChainFrom(head.ptr)
         /\ InList' = InList \cup {item[p]}
<1>0. Shapes /\ item[p] \in Links /\ item[p] \notin InList
  BY OwnItem DEF PushSwing, LIFOInv, HoldsInv
<1>1. /\ pc[p] = "pushSwing" /\ head = localHead[p] /\ head'.ptr = item[p]
      /\ free' = free /\ singleNext' = singleNext
      /\ singleNext[item[p]] = localHead[p].ptr /\ item[p] # NoLink
  <2>1. /\ pc[p] = "pushSwing" /\ head = localHead[p]
        /\ head' = Advance(localHead[p], item[p])
        /\ free' = free /\ singleNext' = singleNext
    BY DEF PushSwing, Exchanged
  <2>2. singleNext[item[p]] = localHead[p].ptr /\ item[p] # NoLink
    BY <2>1 DEF LIFOInv, HoldsInv, ReadsInv
  <2>3. localHead[p] \in Heads /\ item[p] \in Indices
    BY <1>0 DEF Shapes
  <2>4. head'.ptr = item[p]
    BY <2>1, <2>3, AdvanceEffect
  <2>5. QED
    BY <2>1, <2>2, <2>4
<1>2. pc'[p] = "idle" /\ item'[p] = NoLink
      /\ \A q \in Threads \ {p} : pc'[q] = pc[q] /\ item'[q] = item[q]
  BY <1>0, ReturnEffect DEF PushSwing
<1>3. Owned(p) = {item[p]} /\ Owned(p)' = {}
  BY <1>1, <1>2 DEF Owned
<1>4. Touches(p)
  BY <1>1, <1>2 DEF Touches
<1> DEFINE s == <<item[p]>> \o ChainFrom(head.ptr)
<1>5. Path(s, singleNext, item[p]) /\ Range(s) = InList \cup {item[p]}
  BY <1>0, <1>1, PathCons DEF LIFOInv, PathsInv, InList
<1> HIDE DEF s
<1>6. ChainFrom(head.ptr)' = s
  <2>1. LinksFrom(singleNext, item[p]) = s
    BY <1>0, <1>5, LinksFromPath DEF Shapes
  <2>2. QED
    BY <1>1, <2>1 DEF ChainFrom
<1>7. InList' = InList \cup {item[p]}
  BY <1>5, <1>6 DEF InList
<1>8. Path(ChainFrom(head.ptr), singleNext, head.ptr)'
  BY <1>1, <1>5, <1>6
<1>9. QED
  BY <1>1, <1>2, <1>3, <1>4, <1>6, <1>7, <1>8 DEF Accounts, Moves, s

(* The exchange takes the first link off: what the thread has read as its   *)
(* successor still is, or else the head would have another counter.         *)
LEMMA PopSwingAccounts ==
  ASSUME LIFOInv, Shapes', NEW p \in Threads, PopSwing(p)
  PROVE  /\ Accounts(p) /\ head.ptr # NoLink /\ Owned(p) = {} /\ Owned(p)' = {head.ptr}
         /\ ChainFrom(head.ptr)' = Tail(ChainFrom(head.ptr))
         /\ InList' = InList \ {head.ptr}
<1>0. Shapes
  BY DEF LIFOInv
<1>1. /\ pc[p] = "popSwing" /\ head = localHead[p] /\ head'.ptr = singleNext[head.ptr]
      /\ free' = free /\ singleNext' = singleNext /\ head.ptr # NoLink
      /\ item' = [item EXCEPT ![p] = head.ptr] /\ pc' = [pc EXCEPT ![p] = "popFree"]
  <2>1. /\ pc[p] = "popSwing" /\ head = localHead[p]
        /\ head' = Advance(localHead[p], next[p])
        /\ free' = free /\ singleNext' = singleNext
        /\ item' = [item EXCEPT ![p] = head.ptr] /\ pc' = [pc EXCEPT ![p] = "popFree"]
    BY DEF PopSwing, Exchanged, Goto
  <2>2. next[p] = singleNext[head.ptr] /\ head.ptr # NoLink
    BY <2>1 DEF LIFOInv, ReadsInv, Exchanged
  <2>3. localHead[p] \in Heads /\ next[p] \in Indices
    BY <1>0 DEF Shapes
  <2>4. head'.ptr = next[p]
    BY <2>1, <2>3, AdvanceEffect
  <2>5. QED
    BY <2>1, <2>2, <2>4
<1>2. pc'[p] = "popFree" /\ item'[p] = head.ptr
      /\ \A q \in Threads \ {p} : pc'[q] = pc[q] /\ item'[q] = item[q]
  BY <1>0, <1>1 DEF Shapes
<1>3. item[p] = NoLink
  BY <1>1 DEF LIFOInv, HoldsInv
<1>4. Owned(p) = {} /\ Owned(p)' = {head.ptr}
  BY <1>1, <1>2, <1>3 DEF Owned
<1>5. Touches(p)
  BY <1>1, <1>2 DEF Touches
<1> DEFINE s == Tail(ChainFrom(head.ptr))
<1>6. /\ Path(s, singleNext, singleNext[head.ptr]) /\ Range(s) = InList \ {head.ptr}
      /\ head.ptr \in InList /\ head.ptr \in Links
  BY <1>1, HeadInList
<1> HIDE DEF s
<1>7. ChainFrom(head.ptr)' = s
  <2>1. singleNext[head.ptr] \in Indices /\ singleNext \in [Indices -> Indices]
    BY <1>0, <1>6 DEF Shapes, Indices
  <2>2. LinksFrom(singleNext, singleNext[head.ptr]) = s
    BY <1>6, <2>1, LinksFromPath
  <2>3. QED
    BY <1>1, <2>2 DEF ChainFrom
<1>8. InList' = InList \ {head.ptr}
  BY <1>6, <1>7 DEF InList
<1>9. Path(ChainFrom(head.ptr), singleNext, head.ptr)'
  BY <1>1, <1>6, <1>7
<1>10. \E S \in SUBSET InList : InList' = InList \ S /\ Owned(p)' = Owned(p) \cup S
  BY <1>4, <1>6, <1>8
<1>11. QED
  BY <1>1, <1>2, <1>4, <1>5, <1>7, <1>8, <1>9, <1>10 DEF Accounts, Moves, s

(* A push that was refused and a Pop give their link back; so does a push   *)
(* that was refused before it had one.                                      *)
LEMMA FreeAccounts ==
  ASSUME LIFOInv, Shapes', NEW p \in Threads, PushRefused(p) \/ PopFree(p)
  PROVE  /\ Accounts(p) /\ ChainFrom(head.ptr)' = ChainFrom(head.ptr) /\ head' = head
         /\ Owned(p) = {item[p]} \ {NoLink} /\ Owned(p)' = {}
<1>0. Shapes
  BY DEF LIFOInv
<1>1. /\ pc[p] # "walk" /\ Return(p) /\ head' = head
      /\ item[p] = NoLink => UNCHANGED <<free, payload, singleNext>>
      /\ item[p] # NoLink => Free(item[p])
  BY DEF PushRefused, PopFree, LIFOInv, HoldsInv
<1>2. pc'[p] = "idle" /\ item'[p] = NoLink
      /\ \A q \in Threads \ {p} : pc'[q] = pc[q] /\ item'[q] = item[q]
  BY <1>0, <1>1, ReturnEffect
<1>3. Owned(p) = {item[p]} \ {NoLink} /\ Owned(p)' = {}
  BY <1>1, <1>2 DEF Owned
<1>4. item[p] # NoLink =>
        /\ item[p] \in Links /\ free' = free \cup {item[p]}
        /\ \A m \in Indices \ {item[p]} : singleNext'[m] = singleNext[m]
  BY <1>0, <1>1, OwnItem, FreeEffect
<1>5. Touches(p)
  BY <1>1, <1>2, <1>3, <1>4 DEF Touches
<1>6. /\ ChainFrom(head.ptr)' = ChainFrom(head.ptr) /\ InList' = InList
      /\ Path(ChainFrom(head.ptr), singleNext', head.ptr)
  BY <1>1, <1>5, TouchesItsOwn
<1>7. Moves(p)
  <2>1. CASE item[p] = NoLink
    BY <1>1, <1>3, <1>6, <2>1 DEF Moves
  <2>2. CASE item[p] # NoLink
    BY <1>3, <1>4, <1>6, <2>2 DEF Moves
  <2>3. QED
    BY <2>1, <2>2
<1>8. QED
  BY <1>1, <1>2, <1>3, <1>5, <1>6, <1>7 DEF Accounts

(* The walk goes on from the successor it has read before the free.         *)
LEMMA WalkAccounts ==
  ASSUME LIFOInv, Shapes', NEW p \in Threads, Walk(p)
  PROVE  /\ Accounts(p) /\ ChainFrom(head.ptr)' = ChainFrom(head.ptr) /\ head' = head
         /\ Owned(p)' = Owned(p) \ {item[p]}
<1>0. Shapes
  BY DEF LIFOInv
<1>1. /\ pc[p] = "walk" /\ item[p] # NoLink /\ pc' = pc /\ head' = head
      /\ item' = [item EXCEPT ![p] = singleNext[item[p]]] /\ Free(item[p])
  BY DEF Walk, NextInWalk
<1>2. /\ item[p] \in Links /\ item[p] \in Owned(p) /\ item[p] \notin free
  BY <1>1, OwnItem
<1>3. /\ item'[p] = singleNext[item[p]]
      /\ \A q \in Threads \ {p} : item'[q] = item[q]
  BY <1>0, <1>1 DEF Shapes
<1>4. /\ free' = free \cup {item[p]}
      /\ \A m \in Indices \ {item[p]} : singleNext'[m] = singleNext[m]
  BY <1>0, <1>1, <1>2, FreeEffect
<1>5. Touches(p)
  BY <1>1, <1>2, <1>3, <1>4 DEF Touches
<1>6. /\ ChainFrom(head.ptr)' = ChainFrom(head.ptr) /\ InList' = InList
      /\ Path(ChainFrom(head.ptr), singleNext', head.ptr)
  BY <1>1, <1>5, TouchesItsOwn
<1> DEFINE s == ChainFrom(item[p])
<1>7. Path(s, singleNext, item[p]) /\ Owned(p) = Range(s)
  BY <1>1 DEF LIFOInv, PathsInv, Owned
<1>8. s # <<>>
  BY <1>1, <1>7 DEF Path
<1> HIDE DEF s
<1>9. /\ Path(Tail(s), singleNext, singleNext[item[p]])
      /\ Range(Tail(s)) = Range(s) \ {item[p]}
  BY <1>7, <1>8, PathTail
<1>10. Range(Tail(s)) \subseteq Indices
  <2>1. Tail(s) \in Seq(Links)
    BY <1>9 DEF Path
  <2>2. Range(Tail(s)) \in SUBSET Links
    BY <2>1, RangeOfSeq
  <2>3. QED
    BY <2>2 DEF Indices
<1>11. Path(Tail(s), singleNext', singleNext[item[p]])
  BY <1>4, <1>9, <1>10, PathFrame
<1>12. /\ singleNext' \in [Indices -> Indices] /\ singleNext[item[p]] \in Indices
  BY <1>0, <1>2 DEF Shapes, Indices
<1>13. LinksFrom(singleNext', singleNext[item[p]]) = Tail(s)
  BY <1>11, <1>12, LinksFromPath
<1>14. ChainFrom(item[p])' = Tail(s)
  BY <1>3, <1>13 DEF ChainFrom
<1>15. Owned(p)' = Owned(p) \ {item[p]}
  BY <1>1, <1>7, <1>9, <1>14 DEF Owned
<1>16. Path(ChainFrom(item[p]), singleNext, item[p])'
  BY <1>3, <1>11, <1>14
<1>17. Moves(p)
  BY <1>2, <1>4, <1>6, <1>15 DEF Moves
<1>18. QED
  BY <1>1, <1>5, <1>6, <1>15, <1>16, <1>17 DEF Accounts

(* The exchange takes the whole list, and the thread walks down what the    *)
(* head led to.                                                             *)
LEMMA TakesAccounts ==
  ASSUME LIFOInv, Shapes', NEW p \in Threads, Takes(p)
  PROVE  /\ Accounts(p) /\ ChainFrom(head.ptr)' = <<>> /\ Owned(p) = {}
         /\ InList' = {} /\ Owned(p)' = InList
<1>0. Shapes
  BY DEF LIFOInv
<1>1. /\ pc[p] \in {"allSwing", "closeSwing"} /\ head = localHead[p]
      /\ free' = free /\ singleNext' = singleNext
      /\ item' = [item EXCEPT ![p] = head.ptr] /\ pc' = [pc EXCEPT ![p] = "walk"]
      /\ \/ head' = Advance(localHead[p], NoLink)
         \/ head' = [Advance(localHead[p], NoLink) EXCEPT !.closed = TRUE]
  BY DEF Takes, AllSwing, CloseSwing, Exchanged, Goto
<1>2. head'.ptr = NoLink
  <2>1. localHead[p] \in Heads /\ NoLink \in Indices
    BY <1>0 DEF Shapes, Indices
  <2>2. /\ Advance(localHead[p], NoLink).ptr = NoLink
        /\ [Advance(localHead[p], NoLink) EXCEPT !.closed = TRUE].ptr = NoLink
    BY <2>1, AdvanceEffect
  <2>3. QED
    BY <1>1, <2>2
<1>3. /\ pc'[p] = "walk" /\ item'[p] = head.ptr
      /\ \A q \in Threads \ {p} : pc'[q] = pc[q] /\ item'[q] = item[q]
  BY <1>0, <1>1 DEF Shapes
<1>4. item[p] = NoLink /\ pc[p] # "walk"
  BY <1>1 DEF LIFOInv, HoldsInv
<1>5. Touches(p)
  BY <1>1, <1>3 DEF Touches
<1>6. Owned(p) = {}
  BY <1>4 DEF Owned
<1>7. ChainFrom(item[p])' = ChainFrom(head.ptr)
  BY <1>1, <1>3 DEF ChainFrom
<1>8. Owned(p)' = InList /\ Path(ChainFrom(item[p]), singleNext, item[p])'
  BY <1>1, <1>3, <1>7 DEF Owned, InList, LIFOInv, PathsInv
<1>9. Path(<<>>, singleNext', NoLink)
  BY PathEnd
<1>10. ChainFrom(head.ptr)' = <<>>
  <2>1. LinksFrom(singleNext', NoLink) = <<>>
    BY <1>9, LinksFromPath DEF Shapes, Indices
  <2>2. QED
    BY <1>2, <2>1 DEF ChainFrom
<1>11. InList' = {}
  BY <1>10 DEF InList, Range
<1>12. Moves(p)
  BY <1>1, <1>6, <1>8, <1>11 DEF Moves
<1>13. QED
  BY <1>2, <1>5, <1>6, <1>8, <1>9, <1>10, <1>11, <1>12 DEF Accounts

LEMMA InitOwners == Init => PathsInv /\ EveryLinkHasOneOwner
<1> SUFFICES ASSUME Init PROVE PathsInv /\ EveryLinkHasOneOwner
  OBVIOUS
<1>1. Shapes
  BY InitShapes
<1>2. head.ptr = NoLink /\ free = Links /\ \A p \in Threads : pc[p] = "idle" /\ item[p] = NoLink
  BY DEF Init, Null
<1>3. Path(<<>>, singleNext, NoLink)
  BY PathEnd
<1>4. ChainFrom(head.ptr) = <<>>
  BY <1>1, <1>2, <1>3, LinksFromPath DEF ChainFrom, Shapes, Indices
<1>5. InList = {}
  BY <1>4 DEF InList, Range
<1>6. \A p \in Threads : Owned(p) = {}
  BY <1>2 DEF Owned
<1>7. QED
  BY <1>2, <1>3, <1>4, <1>5, <1>6 DEF PathsInv, EveryLinkHasOneOwner

LEMMA ActsAccount ==
  ASSUME LIFOInv, Shapes', NEW p \in Threads, Acts(p)
  PROVE  Accounts(p)
BY LooksAccounts, PushAllocateAccounts, PushSetNextAccounts, PushSwingAccounts,
   PopSwingAccounts, FreeAccounts, WalkAccounts, TakesAccounts DEF Acts, GivesBack

LEMMA NextOwners ==
  ASSUME LIFOInv, Shapes', NEW p \in Threads, Acts(p)
  PROVE  PathsInv' /\ EveryLinkHasOneOwner'
<1>1. Accounts(p)
  BY ActsAccount
<1>2. EveryLinkHasOneOwner'
  BY <1>1, TouchesItsOwn, MovesKeepOneOwner DEF Accounts, LIFOInv, Shapes
<1>3. ASSUME NEW q \in Threads, pc'[q] = "walk"
      PROVE  Path(ChainFrom(item[q]), singleNext, item[q])'
  <2>1. CASE q = p
    BY <1>1, <1>3, <2>1 DEF Accounts
  <2>2. CASE q # p
    BY <1>1, <1>3, <2>2, TouchesItsOwn DEF Accounts, Touches
  <2>3. QED
    BY <2>1, <2>2
<1>4. QED
  BY <1>1, <1>2, <1>3 DEF Accounts, PathsInv

-----------------------------------------------------------------------------
(* What the threads hold, and what they have read                           *)

LEMMA InitHolds == Init => HoldsInv /\ ReadsInv
  BY DEF Init, HoldsInv, ReadsInv, Pushes, Null

(* The other threads see their items and payloads unchanged.                *)
LEMMA OthersHold ==
  ASSUME LIFOInv, NEW p \in Threads, NEW q \in Threads \ {p}, Acts(p)
  PROVE  /\ pc'[q] = pc[q] /\ job'[q] = job[q] /\ item'[q] = item[q]
         /\ localHead'[q] = localHead[q] /\ next'[q] = next[q]
         /\ item[q] # NoLink => payload'[item[q]] = payload[item[q]]
<1>0. Shapes
  BY DEF LIFOInv
<1>1. item[q] # NoLink => item[q] \in Links /\ item[q] \notin free /\ item[q] \in Owned(q)
  BY OwnItem
<1>2. item[q] # NoLink => item[q] \notin Owned(p)
  BY <1>1 DEF LIFOInv, EveryLinkHasOneOwner
<1>3. item[p] # NoLink => item[p] \in Owned(p) /\ item[p] \in Links
  BY OwnItem
<1>4. CASE Looks(p) \/ \E x \in Items : BeginPush(p, x)
  BY <1>4, LooksEffect DEF memory
<1>5. CASE PushAllocate(p)
  BY <1>0, <1>1, <1>5 DEF PushAllocate, Shapes, Indices
<1>6. CASE PushSetNext(p)
  BY <1>0, <1>6 DEF PushSetNext, Goto, Shapes, locals
<1>7. CASE PushSwing(p)
  BY <1>0, <1>7, ReturnEffect DEF PushSwing
<1>8. CASE PopSwing(p)
  BY <1>0, <1>8 DEF PopSwing, Goto, Shapes
<1>9. CASE PushRefused(p) \/ PopFree(p)
  <2>1. /\ Return(p)
        /\ item[p] = NoLink => UNCHANGED payload
        /\ item[p] # NoLink => Free(item[p])
    BY <1>9 DEF PushRefused, PopFree, LIFOInv, HoldsInv
  <2>2. item[p] # NoLink => \A m \in Indices \ {item[p]} : payload'[m] = payload[m]
    BY <1>0, <1>3, <2>1, FreeEffect
  <2>3. QED
    BY <1>0, <1>1, <1>2, <1>3, <2>1, <2>2, ReturnEffect DEF Indices
<1>10. CASE Walk(p)
  <2>1. /\ UNCHANGED <<pc, job, localHead, next>> /\ Free(item[p]) /\ item[p] # NoLink
        /\ item'[q] = item[q]
    BY <1>0, <1>10 DEF Walk, Shapes
  <2>2. \A m \in Indices \ {item[p]} : payload'[m] = payload[m]
    BY <1>0, <1>3, <2>1, FreeEffect
  <2>3. QED
    BY <1>1, <1>2, <1>3, <2>1, <2>2 DEF Indices
<1>11. CASE Takes(p)
  BY <1>0, <1>11 DEF Takes, AllSwing, CloseSwing, Goto, Shapes
<1>12. QED
  BY <1>4, <1>5, <1>6, <1>7, <1>8, <1>9, <1>10, <1>11 DEF Acts, GivesBack

LEMMA NextHolds ==
  ASSUME LIFOInv, NEW p \in Threads, Acts(p)
  PROVE  HoldsInv'
<1> USE DEF memory, history, locals, Pushes
<1>0. Shapes
  BY DEF LIFOInv
<1> DEFINE Holds(q) ==
      /\ item[q] # NoLink => pc[q] \in {"pushHead", "pushLink", "pushSwing", "popFree", "walk"}
      /\ pc[q] \in {"pushSwing", "popFree"} => item[q] # NoLink
      /\ job[q] # NoItem <=> pc[q] \in Pushes
      /\ job[q] # NoItem /\ item[q] # NoLink => payload[item[q]] = job[q]
<1>1. Holds(p)
  BY DEF LIFOInv, HoldsInv
<1>2. ASSUME NEW q \in Threads \ {p} PROVE Holds(q)'
  <2>1. Holds(q)
    BY DEF LIFOInv, HoldsInv
  <2>2. QED
    BY <2>1, OthersHold
<1> SUFFICES Holds(p)'
  BY <1>2 DEF HoldsInv, Holds
<1>3. CASE Looks(p)
  <2>1. CASE PopReturnNull(p) \/ AllReturnNone(p) \/ WalkEnds(p)
    BY <2>1, <1>0, ReturnEffect DEF PopReturnNull, AllReturnNone, WalkEnds
  <2>2. CASE PopReadNext(p)
    BY <2>2, <1>0, <1>1 DEF PopReadNext, Goto, Shapes
  <2>3. CASE PushReadHead(p) \/ PopReadHead(p) \/ AllReadHead(p) \/ CloseReadHead(p)
    BY <2>3, <1>0, <1>1 DEF PushReadHead, PopReadHead, AllReadHead, CloseReadHead, ReadHead,
                      Goto, Shapes
  <2>4. CASE PushRetry(p) \/ PopRetry(p) \/ AllRetry(p) \/ CloseRetry(p)
    BY <2>4, <1>0, <1>1 DEF PushRetry, PopRetry, AllRetry, CloseRetry, RetryUnlessExchanged,
                      Goto, Shapes
  <2>5. CASE BeginPop(p) \/ BeginPopAll(p) \/ BeginClose(p)
    BY <2>5, <1>0, <1>1 DEF BeginPop, BeginPopAll, BeginClose, Goto, Shapes
  <2>6. QED
    BY <1>3, <2>1, <2>2, <2>3, <2>4, <2>5 DEF Looks
<1>4. ASSUME NEW x \in Items, BeginPush(p, x) PROVE Holds(p)'
  BY <1>4, <1>0, <1>1, LIFOAssumption DEF BeginPush, Goto, Shapes
<1>5. CASE PushAllocate(p)
  <2>1. PICK l \in free :
          item' = [item EXCEPT ![p] = l] /\ payload' = [payload EXCEPT ![l] = job[p]]
    BY <1>5 DEF PushAllocate
  <2>2. pc' = pc /\ job' = job /\ pc[p] \in {"pushHead", "pushLink"}
    BY <1>5 DEF PushAllocate
  <2>3. item'[p] = l /\ l \in Links /\ payload'[l] = job[p]
    BY <1>0, <2>1 DEF Shapes, Indices
  <2>4. QED
    BY <1>1, <2>2, <2>3, LinksAssumption
<1>6. CASE PushSetNext(p)
  BY <1>6, <1>0, <1>1 DEF PushSetNext, Goto, Shapes
<1>7. CASE PushSwing(p)
  BY <1>7, <1>0, ReturnEffect DEF PushSwing
<1>8. CASE PopSwing(p)
  <2>1. localHead[p].ptr # NoLink
    BY <1>8 DEF PopSwing, LIFOInv, ReadsInv
  <2>2. QED
    BY <1>8, <1>0, <1>1, <2>1 DEF PopSwing, Goto, Shapes
<1>9. CASE GivesBack(p)
  <2>1. CASE PushRefused(p) \/ PopFree(p)
    BY <2>1, <1>0, ReturnEffect DEF PushRefused, PopFree
  <2>2. CASE Walk(p)
    BY <2>2, <1>0, <1>1 DEF Walk
  <2>3. QED
    BY <1>9, <2>1, <2>2 DEF GivesBack
<1>10. CASE Takes(p)
  BY <1>10, <1>0, <1>1 DEF Takes, AllSwing, CloseSwing, Goto, Shapes
<1>11. QED
  BY <1>3, <1>4, <1>5, <1>6, <1>7, <1>8, <1>9, <1>10 DEF Acts

(* The head changes by an exchange only, which advances its counter.        *)
LEMMA HeadAdvances ==
  ASSUME LIFOInv, NEW p \in Threads, Acts(p)
  PROVE  /\ head' = head \/ head'.counter = head.counter + 1
         /\ head.closed => head'.closed
<1>1. CASE PushSwing(p) \/ PopSwing(p) \/ Takes(p)
  <2>1. localHead[p] = head /\ localHead[p] \in Heads
    BY <1>1 DEF PushSwing, PopSwing, Takes, AllSwing, CloseSwing, Exchanged, LIFOInv, Shapes
  <2>2. PICK to \in Indices :
          \/ head' = Advance(localHead[p], to)
          \/ head' = [Advance(localHead[p], to) EXCEPT !.closed = TRUE]
    BY <1>1 DEF PushSwing, PopSwing, Takes, AllSwing, CloseSwing, LIFOInv, Shapes, Indices
  <2> DEFINE new == Advance(localHead[p], to)
  <2>3. /\ new.counter = localHead[p].counter + 1 /\ new.closed = localHead[p].closed
        /\ [new EXCEPT !.closed = TRUE].counter = localHead[p].counter + 1
        /\ [new EXCEPT !.closed = TRUE].closed
    BY <2>1, AdvanceEffect
  <2> HIDE DEF new
  <2>4. head' = new \/ head' = [new EXCEPT !.closed = TRUE]
    BY <2>2 DEF new
  <2>5. head'.counter = localHead[p].counter + 1 /\ (localHead[p].closed => head'.closed)
    BY <2>3, <2>4
  <2>6. QED
    BY <2>1, <2>5
<1>2. CASE ~(PushSwing(p) \/ PopSwing(p) \/ Takes(p))
  <2>1. head' = head
    BY <1>2, LooksEffect
       DEF Acts, GivesBack, PushAllocate, PushSetNext, PushRefused, PopFree, Walk, memory
  <2>2. QED
    BY <2>1
<1>3. QED
  BY <1>1, <1>2

LEMMA OwnReads ==
  ASSUME LIFOInv, NEW p \in Threads, Acts(p)
  PROVE  /\ \/ localHead'[p] = localHead[p] \/ localHead'[p] = Null
            \/ localHead'[p] = head /\ head' = head
         /\ pc'[p] = "pushSwing" => PushSetNext(p)
         /\ pc'[p] = "popSwing" => PopReadNext(p)
<1> USE DEF memory, history, locals
<1>0. Shapes
  BY DEF LIFOInv
<1>1. CASE Looks(p)
  <2>1. CASE PopReturnNull(p) \/ AllReturnNone(p) \/ WalkEnds(p)
    BY <2>1, <1>0, ReturnEffect DEF PopReturnNull, AllReturnNone, WalkEnds
  <2>2. CASE PopReadNext(p)
    BY <2>2, <1>0 DEF PopReadNext, Goto, Shapes
  <2>3. CASE PushReadHead(p) \/ PopReadHead(p) \/ AllReadHead(p) \/ CloseReadHead(p)
    BY <2>3, <1>0 DEF PushReadHead, PopReadHead, AllReadHead, CloseReadHead, ReadHead,
                      Goto, Shapes
  <2>4. CASE PushRetry(p) \/ PopRetry(p) \/ AllRetry(p) \/ CloseRetry(p)
    BY <2>4, <1>0 DEF PushRetry, PopRetry, AllRetry, CloseRetry, RetryUnlessExchanged,
                      Goto, Shapes
  <2>5. CASE BeginPop(p) \/ BeginPopAll(p) \/ BeginClose(p)
    BY <2>5, <1>0 DEF BeginPop, BeginPopAll, BeginClose, Goto, Shapes
  <2>6. QED
    BY <1>1, <2>1, <2>2, <2>3, <2>4, <2>5 DEF Looks
<1>2. ASSUME NEW x \in Items, BeginPush(p, x)
      PROVE  localHead'[p] = localHead[p] /\ pc'[p] = "pushHead"
  BY <1>2, <1>0 DEF BeginPush, Goto, Shapes
<1>3. CASE PushAllocate(p) \/ PushSetNext(p)
  BY <1>3, <1>0 DEF PushAllocate, PushSetNext, Goto, Shapes
<1>4. CASE PushSwing(p) \/ PushRefused(p) \/ PopFree(p)
  BY <1>4, <1>0, ReturnEffect DEF PushSwing, PushRefused, PopFree
<1>5. CASE PopSwing(p) \/ Takes(p) \/ Walk(p)
  BY <1>5, <1>0 DEF PopSwing, Takes, AllSwing, CloseSwing, Walk, Goto, Shapes
<1>6. QED
  BY <1>1, <1>2, <1>3, <1>4, <1>5 DEF Acts, GivesBack

LEMMA NextReads ==
  ASSUME LIFOInv, Shapes', NEW p \in Threads, Acts(p)
  PROVE  ReadsInv'
<1>0. /\ Shapes /\ Touches(p)
      /\ head.counter \in Nat /\ head'.counter \in Nat
      /\ \A q \in Threads : localHead[q].counter \in Nat
  BY ActsAccount DEF LIFOInv, Accounts, Shapes, Heads
<1>1. \A q \in Threads :
        localHead[q].counter <= head.counter /\ (localHead[q].closed => head.closed)
  BY DEF LIFOInv, ReadsInv
<1>2. /\ head.counter <= head'.counter /\ (head.closed => head'.closed)
      /\ head' # head => head.counter < head'.counter
  BY <1>0, HeadAdvances
<1>3. ASSUME NEW q \in Threads
      PROVE  localHead'[q].counter <= head'.counter /\ (localHead'[q].closed => head'.closed)
  <2>1. CASE localHead'[q] = localHead[q]
    BY <1>0, <1>1, <1>2, <2>1
  <2>2. CASE localHead'[q] = Null
    BY <1>0, <2>2 DEF Null
  <2>3. CASE localHead'[q] = head
    BY <1>2, <2>3
  <2>4. QED
    BY <2>1, <2>2, <2>3, OwnReads, OthersHold
<1>4. ASSUME NEW q \in Threads, pc'[q] = "pushSwing"
      PROVE  singleNext'[item'[q]] = localHead'[q].ptr /\ ~localHead'[q].closed
  <2>1. CASE q = p
    <3>1. PushSetNext(p)
      BY <1>4, <2>1, OwnReads
    <3>2. /\ singleNext' = [singleNext EXCEPT ![item[p]] = localHead[p].ptr]
          /\ item' = item /\ localHead' = localHead /\ ~localHead[p].closed
      BY <3>1 DEF PushSetNext, Refuses, locals
    <3>3. QED
      BY <1>0, <2>1, <3>2 DEF Shapes
  <2>2. CASE q # p
    <3>1. /\ pc[q] = "pushSwing" /\ item'[q] = item[q] /\ localHead'[q] = localHead[q]
      BY <1>4, <2>2, OthersHold
    <3>2. item[q] # NoLink /\ singleNext[item[q]] = localHead[q].ptr /\ ~localHead[q].closed
      BY <3>1 DEF LIFOInv, HoldsInv, ReadsInv
    <3>3. item[q] \in Links /\ item[q] \notin Owned(p)
      BY <2>2, <3>2, OwnItem DEF LIFOInv, EveryLinkHasOneOwner
    <3>4. QED
      BY <1>0, <3>1, <3>2, <3>3 DEF Touches, Indices
  <2>3. QED
    BY <2>1, <2>2
<1>5. ASSUME NEW q \in Threads, pc'[q] = "popSwing"
      PROVE  /\ localHead'[q].ptr # NoLink
             /\ head' = localHead'[q] => next'[q] = singleNext'[head'.ptr]
  <2>1. CASE q = p
    <3>1. PopReadNext(p)
      BY <1>5, <2>1, OwnReads
    <3>2. /\ next' = [next EXCEPT ![p] = singleNext[localHead[p].ptr]]
          /\ singleNext' = singleNext /\ localHead' = localHead /\ localHead[p].ptr # NoLink
      BY <3>1 DEF PopReadNext, memory
    <3>3. QED
      BY <1>0, <2>1, <3>2 DEF Shapes
  <2>2. CASE q # p
    <3>1. pc[q] = "popSwing" /\ localHead'[q] = localHead[q] /\ next'[q] = next[q]
      BY <1>5, <2>2, OthersHold
    <3>2. /\ localHead[q].ptr # NoLink
          /\ head = localHead[q] => next[q] = singleNext[head.ptr]
      BY <3>1 DEF LIFOInv, ReadsInv, Exchanged
    <3>3. ASSUME head' = localHead[q] PROVE next[q] = singleNext'[head'.ptr]
      <4>1. head' = head
        BY <1>0, <1>1, <1>2, <3>3
      <4>2. head.ptr \in InList /\ head.ptr \in Links
        BY <3>2, <3>3, <4>1, HeadInList
      <4>3. head.ptr \notin Owned(p)
        BY <4>2 DEF LIFOInv, EveryLinkHasOneOwner
      <4>4. singleNext'[head.ptr] = singleNext[head.ptr]
        BY <1>0, <4>2, <4>3 DEF Touches, Indices
      <4>5. QED
        BY <3>2, <3>3, <4>1, <4>4
    <3>4. QED
      BY <3>1, <3>2, <3>3
  <2>3. QED
    BY <2>1, <2>2
<1>6. QED
  BY <1>3, <1>4, <1>5 DEF ReadsInv, Exchanged

-----------------------------------------------------------------------------
(* Where the payloads are                                                   *)

LEMMA InitPayloads == Init => PayloadInv
<1> SUFFICES ASSUME Init PROVE PayloadInv
  OBVIOUS
<1>1. Range(delivered) = {} /\ DOMAIN delivered = {} /\ refused = {}
  BY DEF Init, Range
<1>2. unpushed = Items /\ free = Links /\ \A p \in Threads : job[p] = NoItem
  BY DEF Init
<1>3. QED
  BY <1>1, <1>2 DEF PayloadInv, Ended

LEMMA Delivers ==
  ASSUME NEW x \in Items, Shapes, delivered' = Append(delivered, x)
  PROVE  /\ Range(delivered)' = Range(delivered) \cup {x}
         /\ PayloadInv /\ x \notin Range(delivered) =>
              \A j, k \in DOMAIN delivered' : delivered'[j] = delivered'[k] => j = k
<1> DEFINE n == Len(delivered)
<1>1. /\ delivered \in Seq(Items) /\ n \in Nat /\ DOMAIN delivered = 1 .. n
      /\ DOMAIN delivered' = 1 .. (n + 1) /\ delivered'[n + 1] = x
      /\ \A k \in 1 .. n : delivered'[k] = delivered[k]
  BY AppendProperties, LenProperties DEF Shapes
<1> HIDE DEF n
<1>2. \A k \in 1 .. (n + 1) : k \in 1 .. n \/ k = n + 1
  BY <1>1
<1>3. \A k \in 1 .. n : k \in 1 .. (n + 1)
  BY <1>1
<1>4. n + 1 \in 1 .. (n + 1)
  BY <1>1
<1>5. Range(delivered)' = Range(delivered) \cup {x}
  BY <1>1, <1>2, <1>3, <1>4 DEF Range
<1>6. ASSUME PayloadInv, x \notin Range(delivered),
             NEW j \in DOMAIN delivered', NEW k \in DOMAIN delivered',
             delivered'[j] = delivered'[k]
      PROVE  j = k
  BY <1>1, <1>2, <1>6 DEF PayloadInv, Range
<1>7. QED
  BY <1>5, <1>6

(* A link and a payload that a thread gives up were its own.                *)
LEMMA OwnPayload ==
  ASSUME LIFOInv, NEW p \in Threads
  PROVE  /\ item[p] # NoLink => \A q \in Threads \ {p} :
              item[q] # item[p] /\ (job[q] # NoItem => payload[item[p]] # job[q])
         /\ item[p] # NoLink => item[p] \in Links \ free
<1>1. item[p] # NoLink => item[p] \in Owned(p) /\ item[p] \in Links \ free
  BY OwnItem
<1>2. ASSUME item[p] # NoLink, NEW q \in Threads \ {p} PROVE item[q] # item[p]
  <2>1. item[q] # NoLink => item[q] \in Owned(q)
    BY OwnItem
  <2>2. Owned(p) \cap Owned(q) = {}
    BY DEF LIFOInv, EveryLinkHasOneOwner
  <2>3. QED
    BY <1>1, <1>2, <2>1, <2>2
<1>3. ASSUME item[p] # NoLink, NEW q \in Threads \ {p}, job[q] # NoItem
      PROVE  payload[item[p]] # job[q]
  BY <1>1, <1>2, <1>3 DEF LIFOInv, PayloadInv
<1>4. QED
  BY <1>1, <1>2, <1>3

LEMMA BeginPushPayloads ==
  ASSUME LIFOInv, NEW p \in Threads, NEW x \in Items, BeginPush(p, x)
  PROVE  PayloadInv'
<1>1. /\ x \in unpushed /\ unpushed' = unpushed \ {x}
      /\ job' = [job EXCEPT ![p] = x] /\ pc[p] = "idle"
      /\ UNCHANGED <<payload, free, refused, delivered, item>>
  BY DEF BeginPush, memory
<1>2. /\ job[p] = NoItem /\ job'[p] = x
      /\ \A q \in Threads \ {p} : job'[q] = job[q]
  BY <1>1 DEF LIFOInv, HoldsInv, Pushes, Shapes
<1>3. PayloadInv /\ x \in Items /\ x # NoItem
  BY LIFOAssumption DEF LIFOInv
<1>4. Ended' = Ended
  BY <1>1 DEF Ended
<1>5. \A q \in Threads : job'[q] # NoItem =>
       /\ job'[q] \notin unpushed' \cup Ended'
       /\ \A r \in Threads \ {q} : job'[r] # job'[q]
       /\ \A l \in Links \ free' : payload'[l] = job'[q] => l = item'[q]
  BY <1>1, <1>2, <1>3, <1>4 DEF PayloadInv
<1>6. \A y \in Items \ (unpushed' \cup Ended') :
       (\E q \in Threads : job'[q] = y) \/ (\E l \in Links \ free' : payload'[l] = y)
  <2> SUFFICES ASSUME NEW y \in Items \ (unpushed' \cup Ended')
               PROVE  (\E q \in Threads : job'[q] = y) \/ (\E l \in Links \ free' : payload'[l] = y)
    OBVIOUS
  <2>1. CASE y = x
    BY <1>2, <2>1
  <2>2. CASE y # x
    <3>1. y \in Items \ (unpushed \cup Ended) /\ y # NoItem
      BY <1>1, <1>4, <2>2, LIFOAssumption
    <3>2. (\E q \in Threads : job[q] = y) \/ (\E l \in Links \ free : payload[l] = y)
      BY <1>3, <3>1 DEF PayloadInv
    <3>3. QED
      BY <1>1, <1>2, <3>1, <3>2
  <2>3. QED
    BY <2>1, <2>2
<1>7. QED
  BY <1>1, <1>3, <1>4, <1>5, <1>6 DEF PayloadInv

LEMMA PushAllocatePayloads ==
  ASSUME LIFOInv, NEW p \in Threads, PushAllocate(p)
  PROVE  PayloadInv'
<1>1. PICK l \in free : /\ free' = free \ {l} /\ item' = [item EXCEPT ![p] = l]
                        /\ payload' = [payload EXCEPT ![l] = job[p]]
  BY DEF PushAllocate
<1>2. /\ item[p] = NoLink /\ pc[p] \in {"pushHead", "pushLink"} /\ job' = job
      /\ UNCHANGED <<unpushed, refused, delivered>>
  BY DEF PushAllocate, history
<1>3. /\ l \in Links /\ payload'[l] = job[p] /\ item'[p] = l
      /\ \A m \in Indices \ {l} : payload'[m] = payload[m]
      /\ \A q \in Threads \ {p} : item'[q] = item[q]
  BY <1>1 DEF LIFOInv, Shapes, Indices
<1>4. job[p] # NoItem /\ job[p] \in Items
  BY <1>2 DEF LIFOInv, HoldsInv, Pushes, Shapes
<1>5. PayloadInv /\ Ended' = Ended
  BY <1>2 DEF LIFOInv, Ended
<1>6. \A m \in Links \ free : m # l /\ payload[m] # job[p] /\ payload'[m] = payload[m]
  BY <1>2, <1>3, <1>4, <1>5, LinksAssumption DEF PayloadInv, Indices
<1>7. \A m \in Links \ free' : m = l \/ m \in Links \ free
  BY <1>1
<1>8. \A m \in Links \ free' : payload'[m] \in Items \ (unpushed' \cup Ended')
  BY <1>2, <1>3, <1>4, <1>5, <1>6, <1>7 DEF PayloadInv
<1>9. \A m, k \in Links \ free' : payload'[m] = payload'[k] => m = k
  BY <1>3, <1>5, <1>6, <1>7 DEF PayloadInv
<1>10. \A q \in Threads : job'[q] # NoItem =>
        /\ job'[q] \notin unpushed' \cup Ended'
        /\ \A r \in Threads \ {q} : job'[r] # job'[q]
        /\ \A m \in Links \ free' : payload'[m] = job'[q] => m = item'[q]
  BY <1>2, <1>3, <1>4, <1>5, <1>6, <1>7 DEF PayloadInv
<1>11. \A m \in Links \ free : m \in Links \ free'
  BY <1>1
<1>12. \A y \in Items \ (unpushed' \cup Ended') :
        (\E q \in Threads : job'[q] = y) \/ (\E m \in Links \ free' : payload'[m] = y)
  BY <1>2, <1>5, <1>6, <1>11 DEF PayloadInv
<1>13. QED
  BY <1>2, <1>5, <1>8, <1>9, <1>10, <1>12 DEF PayloadInv

LEMMA PushSwingPayloads ==
  ASSUME LIFOInv, NEW p \in Threads, PushSwing(p)
  PROVE  PayloadInv'
<1>1. /\ UNCHANGED <<payload, free, unpushed, refused, delivered>>
      /\ pc[p] = "pushSwing"
  BY DEF PushSwing, history
<1>2. /\ job'[p] = NoItem
      /\ \A q \in Threads \ {p} : job'[q] = job[q] /\ item'[q] = item[q]
  BY ReturnEffect DEF PushSwing, LIFOInv
<1>3. item[p] \in Links \ free /\ payload[item[p]] = job[p]
  BY <1>1, OwnPayload DEF LIFOInv, HoldsInv, Pushes
<1>4. PayloadInv /\ Ended' = Ended
  BY <1>1 DEF LIFOInv, Ended
<1>5. \A q \in Threads : job'[q] # NoItem =>
       /\ job'[q] \notin unpushed' \cup Ended'
       /\ \A r \in Threads \ {q} : job'[r] # job'[q]
       /\ \A l \in Links \ free' : payload'[l] = job'[q] => l = item'[q]
  BY <1>1, <1>2, <1>4 DEF PayloadInv
<1>6. \A y \in Items \ (unpushed' \cup Ended') :
       (\E q \in Threads : job'[q] = y) \/ (\E l \in Links \ free' : payload'[l] = y)
  BY <1>1, <1>2, <1>3, <1>4 DEF PayloadInv
<1>7. QED
  BY <1>1, <1>4, <1>5, <1>6 DEF PayloadInv

LEMMA PushRefusedPayloads ==
  ASSUME LIFOInv, NEW p \in Threads, PushRefused(p)
  PROVE  PayloadInv'
<1>0. Shapes /\ PayloadInv
  BY DEF LIFOInv
<1>1. /\ UNCHANGED <<unpushed, delivered>> /\ refused' = refused \cup {job[p]}
      /\ pc[p] = "pushLink" /\ Return(p)
      /\ item[p] = NoLink => UNCHANGED <<free, payload>>
      /\ item[p] # NoLink => Free(item[p])
  BY DEF PushRefused
<1>2. /\ job'[p] = NoItem
      /\ \A q \in Threads \ {p} : job'[q] = job[q] /\ item'[q] = item[q]
  BY <1>0, <1>1, ReturnEffect
<1>3. /\ job[p] # NoItem /\ job[p] \in Items
      /\ item[p] # NoLink => item[p] \in Links \ free /\ payload[item[p]] = job[p]
  BY <1>1, OwnPayload DEF LIFOInv, HoldsInv, Pushes, Shapes
<1>4. /\ item[p] # NoLink => free' = free \cup {item[p]}
      /\ \A l \in Links \ free' : l \in Links \ free /\ l # item[p] /\ payload'[l] = payload[l]
  BY <1>0, <1>1, <1>3, FreeEffect, LinksAssumption DEF Indices
<1>5. \A l \in Links \ free' : payload'[l] # job[p]
  BY <1>0, <1>3, <1>4 DEF PayloadInv
<1>6. Ended' = Ended \cup {job[p]}
  BY <1>1 DEF Ended
<1>7. job[p] \notin unpushed \cup Ended /\ \A q \in Threads \ {p} : job[q] # job[p]
  BY <1>0, <1>3 DEF PayloadInv
<1>8. \A l \in Links \ free' : payload'[l] \in Items \ (unpushed' \cup Ended')
  BY <1>0, <1>1, <1>4, <1>5, <1>6 DEF PayloadInv
<1>9. \A q \in Threads : job'[q] # NoItem =>
       /\ job'[q] \notin unpushed' \cup Ended'
       /\ \A r \in Threads \ {q} : job'[r] # job'[q]
       /\ \A l \in Links \ free' : payload'[l] = job'[q] => l = item'[q]
  BY <1>0, <1>1, <1>2, <1>4, <1>6, <1>7 DEF PayloadInv
<1>10. \A y \in Items \ (unpushed' \cup Ended') :
        (\E q \in Threads : job'[q] = y) \/ (\E l \in Links \ free' : payload'[l] = y)
  <2> SUFFICES ASSUME NEW y \in Items \ (unpushed' \cup Ended')
               PROVE  (\E q \in Threads : job'[q] = y) \/ (\E l \in Links \ free' : payload'[l] = y)
    OBVIOUS
  <2>1. y # job[p] /\ y \in Items \ (unpushed \cup Ended)
    BY <1>1, <1>6
  <2>2. CASE \E q \in Threads : job[q] = y
    BY <1>2, <2>1, <2>2
  <2>3. CASE \E l \in Links \ free : payload[l] = y
    <3>1. PICK l \in Links \ free : payload[l] = y
      BY <2>3
    <3>2. l # item[p]
      BY <1>3, <2>1, <3>1, LinksAssumption
    <3>3. l \in Links \ free' /\ payload'[l] = payload[l]
      BY <1>1, <1>3, <1>4, <3>1, <3>2
    <3>4. QED
      BY <3>1, <3>3
  <2>4. QED
    BY <1>0, <2>1, <2>2, <2>3 DEF PayloadInv
<1>11. unpushed' \cap Ended' = {} /\ refused' \cap Range(delivered)' = {}
  BY <1>0, <1>1, <1>6, <1>7 DEF PayloadInv, Ended
<1>12. QED
  BY <1>0, <1>1, <1>4, <1>8, <1>9, <1>10, <1>11 DEF PayloadInv

(* Pop and the walk over a taken list hand a payload out and free its link. *)
LEMMA DeliverPayloads ==
  ASSUME LIFOInv, NEW p \in Threads, PopFree(p) \/ Walk(p)
  PROVE  PayloadInv' /\ Range(delivered)' = Range(delivered) \cup {payload[item[p]]}
<1>0. Shapes /\ PayloadInv
  BY DEF LIFOInv
<1> DEFINE x == payload[item[p]]
<1>1. /\ UNCHANGED <<unpushed, refused>> /\ delivered' = Append(delivered, x)
      /\ pc[p] \in {"popFree", "walk"} /\ item[p] # NoLink /\ Free(item[p])
  BY DEF PopFree, Walk, LIFOInv, HoldsInv
<1>2. job[p] = NoItem /\ job'[p] = NoItem
  <2>1. job[p] = NoItem
    BY <1>1 DEF LIFOInv, HoldsInv, Pushes
  <2>2. QED
    BY <1>0, <2>1, ReturnEffect DEF PopFree, Walk
<1>3. \A q \in Threads \ {p} : job'[q] = job[q] /\ item'[q] = item[q]
  BY OthersHold DEF Acts, GivesBack
<1>4. /\ item[p] \in Links \ free /\ x \in Items \ (unpushed \cup Ended)
      /\ \A q \in Threads \ {p} : job[q] # NoItem => x # job[q]
  BY <1>1, OwnItem, OwnPayload
<1>5. /\ free' = free \cup {item[p]}
      /\ \A l \in Links \ free' : l \in Links \ free /\ l # item[p] /\ payload'[l] = payload[l]
  BY <1>0, <1>1, <1>4, FreeEffect DEF Indices
<1> HIDE DEF x
<1>6. /\ Range(delivered)' = Range(delivered) \cup {x}
      /\ \A j, k \in DOMAIN delivered' : delivered'[j] = delivered'[k] => j = k
  BY <1>0, <1>1, <1>4, Delivers DEF Ended
<1>7. Ended' = Ended \cup {x}
  BY <1>1, <1>6 DEF Ended
<1>8. \A l \in Links \ free' : payload'[l] # x
  BY <1>0, <1>4, <1>5 DEF PayloadInv, x
<1>9. \A l \in Links \ free' : payload'[l] \in Items \ (unpushed' \cup Ended')
  BY <1>0, <1>1, <1>5, <1>7, <1>8 DEF PayloadInv
<1>10. \A q \in Threads : job'[q] # NoItem =>
        /\ job'[q] \notin unpushed' \cup Ended'
        /\ \A r \in Threads \ {q} : job'[r] # job'[q]
        /\ \A l \in Links \ free' : payload'[l] = job'[q] => l = item'[q]
  BY <1>0, <1>1, <1>2, <1>3, <1>4, <1>5, <1>7 DEF PayloadInv
<1>11. \A y \in Items \ (unpushed' \cup Ended') :
        (\E q \in Threads : job'[q] = y) \/ (\E l \in Links \ free' : payload'[l] = y)
  <2> SUFFICES ASSUME NEW y \in Items \ (unpushed' \cup Ended')
               PROVE  (\E q \in Threads : job'[q] = y) \/ (\E l \in Links \ free' : payload'[l] = y)
    OBVIOUS
  <2>1. y # x /\ y \in Items \ (unpushed \cup Ended) /\ y # NoItem
    BY <1>1, <1>7, LIFOAssumption
  <2>2. CASE \E q \in Threads : job[q] = y
    BY <1>2, <1>3, <2>1, <2>2
  <2>3. CASE \E l \in Links \ free : payload[l] = y
    <3>1. PICK l \in Links \ free : payload[l] = y
      BY <2>3
    <3>2. l # item[p]
      BY <2>1, <3>1 DEF x
    <3>3. l \in Links \ free' /\ payload'[l] = payload[l]
      BY <1>5, <3>1, <3>2
    <3>4. QED
      BY <3>1, <3>3
  <2>4. QED
    BY <1>0, <2>1, <2>2, <2>3 DEF PayloadInv
<1>12. unpushed' \cap Ended' = {} /\ refused' \cap Range(delivered)' = {}
  BY <1>0, <1>1, <1>4, <1>6, <1>7 DEF PayloadInv, Ended
<1>13. \A l, m \in Links \ free' : payload'[l] = payload'[m] => l = m
  BY <1>0, <1>5 DEF PayloadInv
<1>14. QED
  BY <1>6, <1>9, <1>10, <1>11, <1>12, <1>13 DEF PayloadInv, x

(* All other steps leave the payloads where they are.                       *)
LEMMA StillPayloads ==
  ASSUME LIFOInv, NEW p \in Threads,
         Looks(p) \/ PushSetNext(p) \/ PopSwing(p) \/ Takes(p)
  PROVE  PayloadInv' /\ UNCHANGED <<unpushed, refused, delivered, payload, free, job>>
<1> USE DEF memory, history, locals
<1>1. UNCHANGED <<unpushed, refused, delivered, payload, free>>
  BY DEF Looks, PopReturnNull, AllReturnNone, WalkEnds, PopReadNext, PushReadHead,
         PopReadHead, AllReadHead, CloseReadHead, ReadHead, PushRetry, PopRetry, AllRetry,
         CloseRetry, RetryUnlessExchanged, BeginPop, BeginPopAll, BeginClose, PushSetNext,
         PopSwing, Takes, AllSwing, CloseSwing
<1>2. job' = job /\ (item'[p] = item[p] \/ job[p] = NoItem)
  <2>1. CASE PopReturnNull(p) \/ AllReturnNone(p) \/ WalkEnds(p)
    <3>1. job[p] = NoItem /\ job' = [job EXCEPT ![p] = NoItem]
      BY <2>1 DEF PopReturnNull, AllReturnNone, WalkEnds, Return, LIFOInv, HoldsInv, Pushes
    <3>2. QED
      BY <3>1 DEF LIFOInv, Shapes
  <2>2. CASE PopSwing(p) \/ Takes(p)
    BY <2>2 DEF PopSwing, Takes, AllSwing, CloseSwing, LIFOInv, HoldsInv, Pushes
  <2>3. CASE PushSetNext(p)
    BY <2>3 DEF PushSetNext
  <2>4. CASE /\ Looks(p) /\ ~PopReturnNull(p) /\ ~AllReturnNone(p) /\ ~WalkEnds(p)
    BY <2>4 DEF Looks, PopReadNext, PushReadHead, PopReadHead, AllReadHead, CloseReadHead,
                ReadHead, PushRetry, PopRetry, AllRetry, CloseRetry, RetryUnlessExchanged,
                BeginPop, BeginPopAll, BeginClose
  <2>5. QED
    BY <2>1, <2>2, <2>3, <2>4
<1>3. \A q \in Threads : job[q] # NoItem => item'[q] = item[q]
  BY <1>2, OthersHold DEF Acts
<1>4. PayloadInv /\ Ended' = Ended
  BY <1>1 DEF LIFOInv, Ended
<1>5. \A q \in Threads : job'[q] # NoItem =>
       /\ job'[q] \notin unpushed' \cup Ended'
       /\ \A r \in Threads \ {q} : job'[r] # job'[q]
       /\ \A l \in Links \ free' : payload'[l] = job'[q] => l = item'[q]
  BY <1>1, <1>2, <1>3, <1>4 DEF PayloadInv
<1>6. QED
  BY <1>1, <1>2, <1>4, <1>5 DEF PayloadInv

LEMMA NextPayloads ==
  ASSUME LIFOInv, NEW p \in Threads, Acts(p)
  PROVE  PayloadInv'
BY BeginPushPayloads, PushAllocatePayloads, PushSwingPayloads, PushRefusedPayloads,
   DeliverPayloads, StillPayloads DEF Acts, GivesBack

-----------------------------------------------------------------------------
(* The theorems                                                             *)

LEMMA LIFOInvStuttering == LIFOInv /\ UNCHANGED vars => LIFOInv'
<1> SUFFICES ASSUME LIFOInv, UNCHANGED vars PROVE LIFOInv'
  OBVIOUS
<1> USE DEF vars, memory, history, locals
<1>1. Shapes' /\ HoldsInv' /\ ReadsInv'
  BY DEF LIFOInv, Shapes, HoldsInv, ReadsInv, Exchanged
<1>3. ChainFrom(head.ptr)' = ChainFrom(head.ptr) /\ InList' = InList
  BY DEF ChainFrom, InList
<1>4. \A p \in Threads : ChainFrom(item[p])' = ChainFrom(item[p]) /\ Owned(p)' = Owned(p)
  BY DEF ChainFrom, Owned
<1>5. PathsInv'
  BY <1>3, <1>4 DEF LIFOInv, PathsInv
<1>6. UNION {Owned(p)' : p \in Threads} = UNION {Owned(p) : p \in Threads}
  BY <1>4
<1>7. EveryLinkHasOneOwner'
  BY <1>3, <1>4, <1>6 DEF LIFOInv, EveryLinkHasOneOwner
<1>8. PayloadInv'
  BY DEF LIFOInv, PayloadInv, Ended
<1>9. QED
  BY <1>1, <1>5, <1>7, <1>8 DEF LIFOInv

(* What every proof below rests on: links and payloads have one place, and  *)
(* what a thread has read of the head is true while its counter stands.     *)
THEOREM LIFOInvariant == Spec => []LIFOInv
<1>1. Init => LIFOInv
  BY InitShapes, InitOwners, InitHolds, InitPayloads DEF LIFOInv
<1>2. LIFOInv /\ [Next]_vars => LIFOInv'
  <2> SUFFICES ASSUME LIFOInv, Next PROVE LIFOInv'
    BY LIFOInvStuttering
  <2>1. Shapes'
    BY NextShapes
  <2>2. ASSUME NEW p \in Threads, Acts(p) PROVE LIFOInv'
    BY <2>1, <2>2, NextOwners, NextHolds, NextReads, NextPayloads DEF LIFOInv
  <2>3. QED
    BY <2>2, Steps, LIFOInvStuttering
<1>3. QED
  BY <1>1, <1>2, PTL DEF Spec

(* No link is lost and none has two owners, although links are recycled     *)
(* while other threads still hold their index.                              *)
THEOREM LinksHaveOneOwner == Spec => []EveryLinkHasOneOwner
<1>1. LIFOInv => EveryLinkHasOneOwner
  BY DEF LIFOInv
<1>2. QED
  BY <1>1, LIFOInvariant, PTL

LEMMA OwnedLinks ==
  ASSUME LIFOInv
  PROVE  /\ \A l \in InList : l \in Links \ free
         /\ \A p \in Threads : \A l \in Owned(p) : l \in Links \ free /\ l \notin InList
         /\ \A l \in Links \ free : l \in InList \/ \E p \in Threads : l \in Owned(p)
BY DEF LIFOInv, EveryLinkHasOneOwner

(* A payload is in at most one place, and in one place at least.            *)
LEMMA OnePlace ==
  ASSUME LIFOInv, NEW x \in Items
  PROVE  /\ \/ x \in unpushed \/ x \in BeingPushed \/ x \in Listed
            \/ x \in InHand \/ x \in Range(delivered) \/ x \in refused
         /\ x \in unpushed =>
              /\ x \notin BeingPushed /\ x \notin Listed /\ x \notin InHand
              /\ x \notin Range(delivered) /\ x \notin refused
         /\ x \in BeingPushed =>
              /\ x \notin Listed /\ x \notin InHand
              /\ x \notin Range(delivered) /\ x \notin refused
         /\ x \in Listed =>
              x \notin InHand /\ x \notin Range(delivered) /\ x \notin refused
         /\ x \in InHand => x \notin Range(delivered) /\ x \notin refused
         /\ x \in Range(delivered) => x \notin refused
<1>0. x # NoItem /\ PayloadInv
  BY LIFOAssumption DEF LIFOInv
<1>1. x \in BeingPushed <=> \E p \in Threads : job[p] = x
  BY <1>0 DEF BeingPushed
<1>2. x \in Listed => \E l \in InList : payload[l] = x
  BY DEF Listed
<1>3. x \in InHand <=>
        \E p \in Threads : pc[p] \in {"walk", "popFree"} /\ \E l \in Owned(p) : payload[l] = x
  BY DEF InHand
<1>4. x \in BeingPushed => x \notin unpushed \cup Ended
  BY <1>0, <1>1 DEF PayloadInv
<1>5. x \in Listed \/ x \in InHand => x \notin unpushed \cup Ended
  BY <1>0, <1>2, <1>3, OwnedLinks DEF PayloadInv
<1>6. x \in Listed => x \notin InHand
  BY <1>0, <1>2, <1>3, OwnedLinks DEF PayloadInv
<1>7. ASSUME x \in BeingPushed PROVE x \notin Listed /\ x \notin InHand
  <2>1. PICK p \in Threads : job[p] = x
    BY <1>1, <1>7
  <2>2. \A l \in Links \ free : payload[l] = x => l = item[p]
    BY <1>0, <2>1 DEF PayloadInv
  <2>3. item[p] # NoLink => item[p] \in Owned(p) /\ item[p] \notin InList
    BY OwnItem
  <2>4. pc[p] \notin {"walk", "popFree"}
    BY <1>0, <2>1 DEF LIFOInv, HoldsInv, Pushes
  <2>5. x \notin Listed
    BY <1>2, <2>2, <2>3, OwnedLinks, LinksAssumption
  <2>6. ASSUME NEW q \in Threads, pc[q] \in {"walk", "popFree"}, NEW l \in Owned(q), payload[l] = x
        PROVE  FALSE
    <3>1. l = item[p] /\ l \in Links /\ q # p
      BY <2>2, <2>4, <2>6, OwnedLinks
    <3>2. l \in Owned(p)
      BY <2>3, <3>1, LinksAssumption
    <3>3. QED
      BY <2>6, <3>1, <3>2 DEF LIFOInv, EveryLinkHasOneOwner
  <2>7. QED
    BY <1>3, <2>5, <2>6
<1>8. ASSUME x \notin unpushed \cup Ended, x \notin BeingPushed
      PROVE  x \in Listed \/ x \in InHand
  <2>1. PICK l \in Links \ free : payload[l] = x
    BY <1>0, <1>1, <1>8 DEF PayloadInv
  <2>2. CASE l \in InList
    BY <2>1, <2>2 DEF Listed
  <2>3. ASSUME NEW p \in Threads, l \in Owned(p) PROVE x \in InHand
    <3>1. CASE pc[p] = "walk"
      BY <1>3, <2>1, <2>3, <3>1
    <3>2. CASE pc[p] # "walk"
      <4>1. l = item[p] /\ item[p] # NoLink
        BY <2>3, <3>2 DEF Owned
      <4>2. job[p] = NoItem
        BY <1>0, <1>1, <1>8, <2>1, <4>1 DEF LIFOInv, HoldsInv
      <4>3. pc[p] = "popFree"
        BY <3>2, <4>1, <4>2 DEF LIFOInv, HoldsInv, Pushes
      <4>4. QED
        BY <1>3, <2>1, <2>3, <4>3
    <3>3. QED
      BY <3>1, <3>2
  <2>4. QED
    BY <2>2, <2>3, OwnedLinks
<1>9. /\ unpushed \cap Ended = {} /\ refused \cap Range(delivered) = {}
      /\ Ended = refused \cup Range(delivered)
  BY <1>0 DEF PayloadInv, Ended
<1>10. QED
  BY <1>4, <1>5, <1>6, <1>7, <1>8, <1>9

(* Every payload is in exactly one place: none is lost, none is handed out  *)
(* twice, and none is both handed out and refused.                          *)
THEOREM PayloadsHaveOnePlace == Spec => []NoneLostNoneTwice
<1>1. ASSUME LIFOInv PROVE NoneLostNoneTwice
  <2> DEFINE places == <<unpushed, BeingPushed, Listed, InHand, Range(delivered), refused>>
  <2>1. /\ DOMAIN places = 1 .. 6
        /\ places[1] = unpushed /\ places[2] = BeingPushed /\ places[3] = Listed
        /\ places[4] = InHand /\ places[5] = Range(delivered) /\ places[6] = refused
    OBVIOUS
  <2> HIDE DEF places
  <2>2. \A k \in 1 .. 6 : k = 1 \/ k = 2 \/ k = 3 \/ k = 4 \/ k = 5 \/ k = 6
    OBVIOUS
  <2>3. ASSUME NEW x \in Items
        PROVE  \E k \in DOMAIN places :
                 x \in places[k] /\ \A j \in DOMAIN places \ {k} : x \notin places[j]
    <3> DEFINE Only(k) == x \in places[k] /\ \A j \in 1 .. 6 : j # k => x \notin places[j]
    <3>1. Only(1) \/ Only(2) \/ Only(3) \/ Only(4) \/ Only(5) \/ Only(6)
      <4>1. CASE x \in unpushed
        BY <1>1, <2>1, <2>2, <4>1, OnePlace
      <4>2. CASE x \in BeingPushed
        BY <1>1, <2>1, <2>2, <4>2, OnePlace
      <4>3. CASE x \in Listed
        BY <1>1, <2>1, <2>2, <4>3, OnePlace
      <4>4. CASE x \in InHand
        BY <1>1, <2>1, <2>2, <4>4, OnePlace
      <4>5. CASE x \in Range(delivered)
        BY <1>1, <2>1, <2>2, <4>5, OnePlace
      <4>6. CASE x \in refused
        BY <1>1, <2>1, <2>2, <4>6, OnePlace
      <4>7. QED
        BY <1>1, <4>1, <4>2, <4>3, <4>4, <4>5, <4>6, OnePlace
    <3>2. \A j \in DOMAIN places : j \in 1 .. 6
      BY <2>1
    <3>3. ASSUME NEW k \in 1 .. 6, Only(k)
          PROVE  k \in DOMAIN places /\ x \in places[k]
                 /\ \A j \in DOMAIN places \ {k} : x \notin places[j]
      BY <2>1, <3>3
    <3>4. 1 \in 1 .. 6 /\ 2 \in 1 .. 6 /\ 3 \in 1 .. 6 /\ 4 \in 1 .. 6 /\ 5 \in 1 .. 6 /\ 6 \in 1 .. 6
      OBVIOUS
    <3>5. QED
      BY <3>1, <3>3, <3>4
  <2>4. \A j, k \in DOMAIN delivered : delivered[j] = delivered[k] => j = k
    BY <1>1 DEF LIFOInv, PayloadInv
  <2>5. QED
    BY <2>3, <2>4 DEF NoneLostNoneTwice, places
<1>2. QED
  BY <1>1, LIFOInvariant, PTL

-----------------------------------------------------------------------------
(* The list as a stack of payloads                                          *)

LoadOf(load, s) == [k \in DOMAIN s |-> load[s[k]]]

LEMMA LoadSeq ==
  ASSUME NEW S, NEW load \in [Indices -> S], NEW s \in Seq(Links)
  PROVE  /\ LoadOf(load, s) \in Seq(S) /\ Len(LoadOf(load, s)) = Len(s) /\ Len(s) \in Nat
         /\ \A k \in 1 .. Len(s) : LoadOf(load, s)[k] = load[s[k]]
<1>1. Len(s) \in Nat /\ DOMAIN s = 1 .. Len(s)
  BY LenProperties
<1>2. \A k \in 1 .. Len(s) : load[s[k]] \in S
  BY ElementOfSeq DEF Indices
<1>3. LoadOf(load, s) \in [1 .. Len(s) -> S]
  BY <1>1, <1>2 DEF LoadOf
<1>4. LoadOf(load, s) \in Seq(S)
  BY <1>1, <1>3
<1>5. Len(LoadOf(load, s)) = Len(s)
  BY <1>1, <1>3, <1>4, LenProperties DEF LoadOf
<1>6. QED
  BY <1>1, <1>4, <1>5 DEF LoadOf

LEMMA LoadCons ==
  ASSUME NEW S, NEW load \in [Indices -> S], NEW s \in Seq(Links), NEW l \in Links
  PROVE  LoadOf(load, <<l>> \o s) = <<load[l]>> \o LoadOf(load, s)
<1> DEFINE t == <<l>> \o s
           u == <<load[l]>> \o LoadOf(load, s)
<1>1. <<l>> \in Seq(Links) /\ Len(<<l>>) = 1 /\ <<l>>[1] = l /\ load[l] \in S
  BY DEF Indices
<1>2. <<load[l]>> \in Seq(S) /\ Len(<<load[l]>>) = 1 /\ <<load[l]>>[1] = load[l]
  BY <1>1
<1>3. /\ t \in Seq(Links) /\ Len(t) = 1 + Len(s) /\ Len(s) \in Nat
      /\ \A k \in 1 .. 1 + Len(s) : t[k] = IF k <= 1 THEN <<l>>[k] ELSE s[k - 1]
  BY <1>1, ConcatProperties, LenProperties
<1>4. /\ LoadOf(load, s) \in Seq(S) /\ Len(LoadOf(load, s)) = Len(s)
      /\ \A k \in 1 .. Len(s) : LoadOf(load, s)[k] = load[s[k]]
  BY LoadSeq
<1>5. /\ u \in Seq(S) /\ Len(u) = 1 + Len(s)
      /\ \A k \in 1 .. 1 + Len(s) :
           u[k] = IF k <= 1 THEN <<load[l]>>[k] ELSE LoadOf(load, s)[k - 1]
  BY <1>2, <1>4, ConcatProperties
<1> HIDE DEF t, u
<1>6. /\ LoadOf(load, t) \in Seq(S) /\ Len(LoadOf(load, t)) = 1 + Len(s)
      /\ \A k \in 1 .. 1 + Len(s) : LoadOf(load, t)[k] = load[t[k]]
  BY <1>3, LoadSeq
<1>7. ASSUME NEW k \in 1 .. 1 + Len(s) PROVE LoadOf(load, t)[k] = u[k]
  <2>1. CASE k <= 1
    <3>1. k = 1
      BY <1>3, <2>1
    <3>2. QED
      BY <1>1, <1>2, <1>3, <1>5, <1>6, <3>1
  <2>2. CASE ~(k <= 1)
    <3>1. k - 1 \in 1 .. Len(s)
      BY <1>3, <2>2
    <3>2. t[k] = s[k - 1]
      BY <1>3, <2>2
    <3>3. LoadOf(load, t)[k] = load[s[k - 1]]
      BY <1>6, <3>2
    <3>4. u[k] = LoadOf(load, s)[k - 1]
      BY <1>5, <2>2
    <3>5. LoadOf(load, s)[k - 1] = load[s[k - 1]]
      BY <1>4, <3>1
    <3>6. QED
      BY <3>3, <3>4, <3>5
  <2>3. QED
    BY <2>1, <2>2
<1>8. QED
  BY <1>3, <1>5, <1>6, <1>7, SeqEqual DEF t, u

LEMMA LoadTail ==
  ASSUME NEW S, NEW load \in [Indices -> S], NEW s \in Seq(Links), s # <<>>
  PROVE  /\ LoadOf(load, s) # <<>> /\ Head(LoadOf(load, s)) = load[s[1]]
         /\ LoadOf(load, Tail(s)) = Tail(LoadOf(load, s))
<1>1. /\ LoadOf(load, s) \in Seq(S) /\ Len(LoadOf(load, s)) = Len(s)
      /\ \A k \in 1 .. Len(s) : LoadOf(load, s)[k] = load[s[k]]
  BY LoadSeq
<1>2. /\ s[1] \in Links /\ Tail(s) \in Seq(Links) /\ Len(Tail(s)) = Len(s) - 1
      /\ Len(s) \in Nat \ {0} /\ \A k \in 1 .. Len(s) - 1 : Tail(s)[k] = s[k + 1]
  BY HeadTail
<1>3. LoadOf(load, s) # <<>>
  BY <1>1, <1>2, EmptySeq
<1> DEFINE u == LoadOf(load, s)
<1> HIDE DEF u
<1>4. /\ Tail(u) \in Seq(S) /\ Len(Tail(u)) = Len(u) - 1 /\ Head(u) = u[1]
      /\ \A k \in 1 .. Len(u) - 1 : Tail(u)[k] = u[k + 1]
  BY <1>1, <1>3, HeadTail DEF u
<1>5. /\ LoadOf(load, Tail(s)) \in Seq(S) /\ Len(LoadOf(load, Tail(s))) = Len(s) - 1
      /\ \A k \in 1 .. Len(s) - 1 : LoadOf(load, Tail(s))[k] = load[Tail(s)[k]]
  <2>1. /\ LoadOf(load, Tail(s)) \in Seq(S) /\ Len(LoadOf(load, Tail(s))) = Len(Tail(s))
        /\ \A k \in 1 .. Len(Tail(s)) : LoadOf(load, Tail(s))[k] = load[Tail(s)[k]]
    BY <1>2, LoadSeq, ZenonT(40)
  <2>2. Len(Tail(s)) = Len(s) - 1
    BY <1>2
  <2>3. QED
    BY <2>1, <2>2
<1>6. ASSUME NEW k \in 1 .. Len(s) - 1 PROVE LoadOf(load, Tail(s))[k] = Tail(u)[k]
  <2>1. k + 1 \in 1 .. Len(s)
    BY <1>2
  <2>2. QED
    BY <1>1, <1>2, <1>4, <1>5, <2>1 DEF u
<1>7. LoadOf(load, Tail(s)) = Tail(u)
  BY <1>1, <1>4, <1>5, <1>6, SeqEqual DEF u
<1>8. 1 \in 1 .. Len(s)
  BY <1>2
<1>9. QED
  BY <1>1, <1>3, <1>4, <1>7, <1>8 DEF u

LEMMA LoadFrame ==
  ASSUME NEW load, NEW other, NEW s, \A l \in Range(s) : other[l] = load[l]
  PROVE  LoadOf(other, s) = LoadOf(load, s)
<1>1. \A k \in DOMAIN s : s[k] \in Range(s)
  BY DEF Range
<1>2. \A k \in DOMAIN s : other[s[k]] = load[s[k]]
  BY <1>1
<1>3. QED
  BY <1>2 DEF LoadOf

-----------------------------------------------------------------------------
(* The list implements a stack that changes at one instant                  *)

Stack == LoadOf(payload, ChainFrom(head.ptr))
Taken == InHand \cup Range(delivered)

(* What thread p has taken and not handed out yet.                          *)
HandOf(p) ==
  {x \in Items : pc[p] \in {"walk", "popFree"} /\ \E l \in Owned(p) : payload[l] = x}

(* A step changes the payload of no link but its own.                       *)
LEMMA PayloadsStay ==
  ASSUME LIFOInv, NEW p \in Threads, Acts(p), NEW l \in Links \ free, l # item[p]
  PROVE  payload'[l] = payload[l]
<1>0. Shapes
  BY DEF LIFOInv
<1>1. CASE Looks(p) \/ PushSetNext(p) \/ PopSwing(p) \/ Takes(p)
  BY <1>1, StillPayloads
<1>2. CASE (\E x \in Items : BeginPush(p, x)) \/ PushSwing(p)
  BY <1>2 DEF BeginPush, PushSwing, memory
<1>3. CASE PushAllocate(p)
  BY <1>0, <1>3 DEF PushAllocate, Shapes, Indices
<1>4. CASE GivesBack(p)
  <2>1. item[p] # NoLink => item[p] \in Links /\ (UNCHANGED payload \/ Free(item[p]))
    BY <1>4, OwnItem DEF GivesBack, PushRefused, PopFree, Walk
  <2>2. item[p] = NoLink => UNCHANGED payload
    BY <1>4 DEF GivesBack, PushRefused, PopFree, Walk, LIFOInv, HoldsInv
  <2>3. QED
    BY <1>0, <2>1, <2>2, FreeEffect DEF Indices
<1>5. QED
  BY <1>1, <1>2, <1>3, <1>4 DEF Acts

LEMMA ListedStay ==
  ASSUME LIFOInv, NEW p \in Threads, Acts(p)
  PROVE  /\ \A l \in InList : payload'[l] = payload[l]
         /\ \A s : Range(s) \subseteq InList => LoadOf(payload', s) = LoadOf(payload, s)
<1>1. \A l \in InList : payload'[l] = payload[l]
  BY OwnedLinks, OwnItem, PayloadsStay, LinksAssumption
<1>2. QED
  BY <1>1, LoadFrame

LEMMA HandsEffect ==
  ASSUME LIFOInv, Shapes', NEW p \in Threads, Acts(p)
  PROVE  /\ HandOf(p)' = HandOf(p) => InHand' = InHand
         /\ HandOf(p) = {} => InHand' = InHand \cup HandOf(p)'
         /\ \A x : HandOf(p) = HandOf(p)' \cup {x} => InHand' \cup {x} = InHand
<1>1. ASSUME NEW q \in Threads \ {p} PROVE HandOf(q)' = HandOf(q)
  <2>1. Owned(q)' = Owned(q) /\ pc'[q] = pc[q]
    BY ActsAccount, TouchesItsOwn, OthersHold DEF Accounts
  <2>2. ASSUME NEW l \in Owned(q) PROVE payload'[l] = payload[l]
    <3>1. l # item[p] /\ l \in Links \ free
      BY OwnItem, OwnedLinks, LinksAssumption DEF LIFOInv, EveryLinkHasOneOwner
    <3>2. QED
      BY <3>1, PayloadsStay
  <2>3. QED
    BY <2>1, <2>2 DEF HandOf
<1> DEFINE Others == {x \in Items : \E q \in Threads \ {p} : x \in HandOf(q)}
<1>2. InHand = {x \in Items : \E q \in Threads : x \in HandOf(q)}
  BY DEF InHand, HandOf
<1>3. InHand' = {x \in Items : \E q \in Threads : x \in HandOf(q)'}
  BY DEF InHand, HandOf
<1>4. HandOf(p) \subseteq Items /\ HandOf(p)' \subseteq Items
  BY DEF HandOf
<1>5. InHand = Others \cup HandOf(p)
  BY <1>2, <1>4
<1>6. InHand' = Others \cup HandOf(p)'
  BY <1>1, <1>3, <1>4
<1> HIDE DEF Others
<1>7. QED
  BY <1>5, <1>6

LEMMA StackIsASeq ==
  ASSUME LIFOInv
  PROVE  /\ ChainFrom(head.ptr) \in Seq(Links)
         /\ \A k \in DOMAIN Stack : Stack[k] \in {payload[l] : l \in InList}
         /\ {Stack[k] : k \in DOMAIN Stack} = {payload[l] : l \in InList}
<1>1. ChainFrom(head.ptr) \in Seq(Links)
  BY DEF LIFOInv, PathsInv, Path
<1>2. DOMAIN Stack = DOMAIN ChainFrom(head.ptr)
  BY DEF Stack, LoadOf
<1>3. \A k \in DOMAIN Stack : Stack[k] = payload[ChainFrom(head.ptr)[k]]
  BY DEF Stack, LoadOf
<1>4. InList = {ChainFrom(head.ptr)[k] : k \in DOMAIN ChainFrom(head.ptr)}
  BY DEF InList, Range
<1>5. QED
  BY <1>1, <1>2, <1>3, <1>4

LEMMA StackStutters ==
  ASSUME LIFOInv, Shapes', NEW p \in Threads,
         \/ Looks(p) \/ (\E x \in Items : BeginPush(p, x))
         \/ PushAllocate(p) \/ PushSetNext(p)
  PROVE  UNCHANGED <<Stack, head, Taken, refused>>
<1>0. Acts(p)
  BY DEF Acts
<1>1. UNCHANGED <<head, refused, delivered>>
  BY LooksEffect DEF PushAllocate, PushSetNext, memory, history
<1>2. ChainFrom(head.ptr)' = ChainFrom(head.ptr)
  BY <1>0, <1>1, ActsAccount, TouchesItsOwn DEF Accounts
<1>3. Stack' = Stack
  BY <1>0, <1>2, ListedStay DEF Stack, InList
<1>4. HandOf(p) = {} /\ HandOf(p)' = {}
  <2>1. CASE Looks(p) \/ \E x \in Items : BeginPush(p, x)
    <3>1. pc[p] = "walk" => Owned(p) = {}
      BY <2>1, LooksEffect, OwnedNothing DEF LIFOInv
    <3>2. pc[p] # "popFree" /\ pc'[p] \notin {"walk", "popFree"}
      BY <2>1, LooksEffect
    <3>3. QED
      BY <3>1, <3>2 DEF HandOf
  <2>2. CASE PushAllocate(p) \/ PushSetNext(p)
    <3>1. pc[p] \in {"pushHead", "pushLink"} /\ pc'[p] \notin {"walk", "popFree"}
      BY <2>2 DEF PushAllocate, PushSetNext, Goto, LIFOInv, Shapes
    <3>2. QED
      BY <3>1 DEF HandOf
  <2>3. QED
    BY <2>1, <2>2
<1>5. InHand' = InHand
  BY <1>0, <1>4, HandsEffect
<1>6. QED
  BY <1>1, <1>3, <1>5 DEF Taken

LEMMA StackPushes ==
  ASSUME LIFOInv, Shapes', NEW p \in Threads, PushSwing(p)
  PROVE  /\ job[p] \in Items /\ ~head.closed /\ head'.closed = head.closed
         /\ \A k \in DOMAIN Stack : Stack[k] # job[p]
         /\ job[p] \notin Taken /\ Stack' = <<job[p]>> \o Stack
         /\ UNCHANGED <<Taken, refused>>
<1>0. Acts(p)
  BY DEF Acts
<1>1. /\ pc[p] = "pushSwing" /\ head = localHead[p]
      /\ head' = Advance(localHead[p], item[p]) /\ Return(p)
      /\ UNCHANGED <<payload, delivered, refused>>
  BY DEF PushSwing, Exchanged, history
<1>2. job[p] # NoItem /\ job[p] \in Items /\ item[p] # NoLink /\ payload[item[p]] = job[p]
      /\ ~head.closed
  BY <1>1 DEF LIFOInv, HoldsInv, ReadsInv, Pushes, Shapes
<1>3. head'.closed = head.closed
  <2>1. localHead[p] \in Heads /\ item[p] \in Indices
    BY DEF LIFOInv, Shapes
  <2>2. Advance(localHead[p], item[p]).closed = localHead[p].closed
    BY <2>1, AdvanceEffect
  <2>3. QED
    BY <1>1, <2>2
<1>4. job[p] \in BeingPushed
  BY <1>2 DEF BeingPushed
<1>5. job[p] \notin Listed /\ job[p] \notin Taken
  BY <1>2, <1>4, OnePlace DEF Taken
<1>6. \A k \in DOMAIN Stack : Stack[k] # job[p]
  BY <1>5, StackIsASeq DEF Listed
<1>7. Stack' = <<job[p]>> \o Stack
  <2>1. ChainFrom(head.ptr)' = <<item[p]>> \o ChainFrom(head.ptr)
    BY PushSwingAccounts
  <2>2. item[p] \in Links /\ payload \in [Indices -> Items \cup {NoItem}]
    BY <1>2, OwnItem DEF LIFOInv, Shapes
  <2>3. LoadOf(payload, <<item[p]>> \o ChainFrom(head.ptr)) = <<job[p]>> \o Stack
    BY <1>2, <2>2, StackIsASeq, LoadCons DEF Stack
  <2>4. QED
    BY <1>1, <2>1, <2>3 DEF Stack
<1>8. HandOf(p) = {} /\ HandOf(p)' = {}
  <2>1. pc'[p] = "idle"
    BY <1>1, ReturnEffect DEF LIFOInv
  <2>2. QED
    BY <1>1, <2>1 DEF HandOf
<1>9. InHand' = InHand
  BY <1>0, <1>8, HandsEffect
<1>10. QED
  BY <1>1, <1>2, <1>3, <1>5, <1>6, <1>7, <1>9 DEF Taken

LEMMA StackPops ==
  ASSUME LIFOInv, Shapes', NEW p \in Threads, PopSwing(p)
  PROVE  /\ Stack # <<>> /\ Stack' = Tail(Stack) /\ Taken' = Taken \cup {Head(Stack)}
         /\ head'.closed = head.closed /\ refused' = refused
<1>0. Acts(p)
  BY DEF Acts
<1>1. /\ pc[p] = "popSwing" /\ head = localHead[p]
      /\ head' = Advance(localHead[p], next[p]) /\ pc' = [pc EXCEPT ![p] = "popFree"]
      /\ UNCHANGED <<payload, delivered, refused>>
  BY DEF PopSwing, Exchanged, history, Goto
<1>2. head'.closed = head.closed
  <2>1. localHead[p] \in Heads /\ next[p] \in Indices
    BY DEF LIFOInv, Shapes
  <2>2. Advance(localHead[p], next[p]).closed = localHead[p].closed
    BY <2>1, AdvanceEffect
  <2>3. QED
    BY <1>1, <2>2
<1>3. /\ head.ptr # NoLink /\ Owned(p)' = {head.ptr}
      /\ ChainFrom(head.ptr)' = Tail(ChainFrom(head.ptr))
  BY PopSwingAccounts
<1>4. /\ ChainFrom(head.ptr) # <<>> /\ head.ptr = ChainFrom(head.ptr)[1]
      /\ head.ptr \in InList
  BY <1>3, HeadInList
<1>5. /\ Stack # <<>> /\ Head(Stack) = payload[head.ptr]
      /\ LoadOf(payload, Tail(ChainFrom(head.ptr))) = Tail(Stack)
  <2>1. payload \in [Indices -> Items \cup {NoItem}]
    BY DEF LIFOInv, Shapes
  <2>2. QED
    BY <1>4, <2>1, StackIsASeq, LoadTail DEF Stack
<1>6. Stack' = Tail(Stack)
  BY <1>1, <1>3, <1>5 DEF Stack
<1>7. HandOf(p) = {} /\ HandOf(p)' = {payload[head.ptr]}
  <2>1. pc'[p] = "popFree"
    BY <1>1 DEF LIFOInv, Shapes
  <2>2. payload[head.ptr] \in Items
    BY <1>4, OwnedLinks DEF LIFOInv, PayloadInv
  <2>3. QED
    BY <1>1, <1>3, <2>1, <2>2 DEF HandOf
<1>8. InHand' = InHand \cup {payload[head.ptr]}
  BY <1>0, <1>7, HandsEffect
<1>9. QED
  BY <1>1, <1>2, <1>5, <1>6, <1>8 DEF Taken

LEMMA StackTaken ==
  ASSUME LIFOInv, Shapes', NEW p \in Threads, Takes(p)
  PROVE  /\ Stack' = <<>> /\ Taken' = Taken \cup {Stack[k] : k \in DOMAIN Stack}
         /\ head'.closed \in {head.closed, TRUE} /\ refused' = refused
<1>0. Acts(p)
  BY DEF Acts
<1>1. /\ pc[p] \in {"allSwing", "closeSwing"} /\ head = localHead[p]
      /\ pc' = [pc EXCEPT ![p] = "walk"]
      /\ UNCHANGED <<payload, delivered, refused>>
      /\ \/ head' = Advance(localHead[p], NoLink)
         \/ head' = [Advance(localHead[p], NoLink) EXCEPT !.closed = TRUE]
  BY DEF Takes, AllSwing, CloseSwing, Exchanged, history, Goto
<1>2. head'.closed \in {head.closed, TRUE}
  <2>1. localHead[p] \in Heads /\ NoLink \in Indices
    BY DEF LIFOInv, Shapes, Indices
  <2> DEFINE new == Advance(localHead[p], NoLink)
  <2>2. new.closed = localHead[p].closed /\ [new EXCEPT !.closed = TRUE].closed
    BY <2>1, AdvanceEffect
  <2>3. new.closed = localHead[p].closed /\ [new EXCEPT !.closed = TRUE].closed = TRUE
    BY <2>1, <2>2, AdvanceEffect DEF Heads
  <2> HIDE DEF new
  <2>4. head' = new \/ head' = [new EXCEPT !.closed = TRUE]
    BY <1>1 DEF new
  <2>5. QED
    BY <1>1, <2>3, <2>4
<1>3. ChainFrom(head.ptr)' = <<>> /\ Owned(p)' = InList
  BY TakesAccounts
<1>4. Stack' = <<>>
  BY <1>3 DEF Stack, LoadOf
<1>5. HandOf(p) = {} /\ HandOf(p)' = {payload[l] : l \in InList}
  <2>1. pc'[p] = "walk"
    BY <1>1 DEF LIFOInv, Shapes
  <2>2. \A l \in InList : payload[l] \in Items
    BY OwnedLinks DEF LIFOInv, PayloadInv
  <2>3. QED
    BY <1>1, <1>3, <2>1, <2>2 DEF HandOf
<1>6. InHand' = InHand \cup {Stack[k] : k \in DOMAIN Stack}
  BY <1>0, <1>5, HandsEffect, StackIsASeq
<1>7. QED
  BY <1>1, <1>2, <1>4, <1>6 DEF Taken

LEMMA StackRefuses ==
  ASSUME LIFOInv, Shapes', NEW p \in Threads, PushRefused(p)
  PROVE  /\ job[p] \in Items /\ head.closed /\ refused' = refused \cup {job[p]}
         /\ UNCHANGED <<Stack, head, Taken>>
<1>0. Acts(p)
  BY DEF Acts, GivesBack
<1>1. /\ pc[p] = "pushLink" /\ localHead[p].closed /\ Return(p)
      /\ refused' = refused \cup {job[p]} /\ UNCHANGED <<head, delivered>>
  BY DEF PushRefused, Refuses
<1>2. job[p] \in Items /\ head.closed
  BY <1>1 DEF LIFOInv, HoldsInv, ReadsInv, Pushes, Shapes
<1>3. ChainFrom(head.ptr)' = ChainFrom(head.ptr)
  BY FreeAccounts
<1>4. Stack' = Stack
  BY <1>0, <1>3, ListedStay DEF Stack, InList
<1>5. HandOf(p) = {} /\ HandOf(p)' = {}
  <2>1. pc'[p] = "idle"
    BY <1>1, ReturnEffect DEF LIFOInv
  <2>2. QED
    BY <1>1, <2>1 DEF HandOf
<1>6. InHand' = InHand
  BY <1>0, <1>5, HandsEffect
<1>7. QED
  BY <1>1, <1>2, <1>4, <1>6 DEF Taken

(* To hand out what one has taken is no step of the stack.                  *)
LEMMA StackDelivers ==
  ASSUME LIFOInv, Shapes', NEW p \in Threads, PopFree(p) \/ Walk(p)
  PROVE  UNCHANGED <<Stack, head, Taken, refused>>
<1>0. Acts(p)
  BY DEF Acts, GivesBack
<1>1. /\ UNCHANGED <<head, refused>> /\ ChainFrom(head.ptr)' = ChainFrom(head.ptr)
      /\ item[p] # NoLink /\ pc[p] \in {"walk", "popFree"}
  BY FreeAccounts, WalkAccounts DEF PopFree, Walk, LIFOInv, HoldsInv
<1>2. Stack' = Stack
  BY <1>0, <1>1, ListedStay DEF Stack, InList
<1> DEFINE x == payload[item[p]]
<1>3. item[p] \in Owned(p) /\ x \in Items
  BY <1>1, OwnItem
<1>4. Owned(p)' = Owned(p) \ {item[p]} /\ pc'[p] \in {"walk", "idle"}
      /\ (pc'[p] = "walk" \/ Owned(p) = {item[p]})
  <2>1. CASE Walk(p)
    BY <2>1, WalkAccounts DEF Walk
  <2>2. CASE PopFree(p)
    <3>1. Owned(p) = {item[p]} \ {NoLink} /\ Owned(p)' = {}
      BY <2>2, FreeAccounts
    <3>2. pc'[p] = "idle"
      BY <2>2, ReturnEffect DEF PopFree, LIFOInv
    <3>3. QED
      BY <1>1, <3>1, <3>2
  <2>3. QED
    BY <2>1, <2>2
<1>5. \A l \in Owned(p) \ {item[p]} : payload'[l] = payload[l]
  BY <1>0, OwnedLinks, PayloadsStay
<1>6. HandOf(p) = HandOf(p)' \cup {x}
  BY <1>1, <1>3, <1>4, <1>5 DEF HandOf
<1> HIDE DEF x
<1>7. InHand' \cup {x} = InHand
  BY <1>0, <1>6, HandsEffect
<1>8. Range(delivered)' = Range(delivered) \cup {x}
  BY DeliverPayloads DEF x
<1>9. QED
  BY <1>1, <1>2, <1>7, <1>8 DEF Taken

(* Linearizability: every Push, Pop, PopAll and PopAllAndClose takes effect *)
(* on the stack of payloads at one step, its exchange, and only a closed    *)
(* list refuses a push (LockFreeList.h:420-493, 904-922).                   *)
THEOREM ImplementsTheList == Spec => ImplementsClosableList
<1>1. Init => List!Init
  <2> SUFFICES ASSUME Init PROVE List!Init
    OBVIOUS
  <2>1. LIFOInv
    BY InitShapes, InitOwners, InitHolds, InitPayloads DEF LIFOInv
  <2>2. head.ptr = NoLink /\ head.closed = FALSE /\ refused = {} /\ Range(delivered) = {}
    BY DEF Init, Null, Range
  <2>3. ChainFrom(head.ptr) = <<>>
    BY <2>1, <2>2, PathEnd DEF LIFOInv, PathsInv
  <2>4. LoadOf(payload, ChainFrom(head.ptr)) = <<>>
    BY <2>3 DEF LoadOf
  <2>5. InHand = {}
    BY DEF Init, InHand
  <2>6. QED
    BY <2>2, <2>4, <2>5 DEF List!Init, LoadOf
<1>2. LIFOInv /\ LIFOInv' /\ [Next]_vars => [List!Next]_List!vars
  <2>1. ASSUME UNCHANGED vars PROVE UNCHANGED List!vars
    BY <2>1 DEF vars, memory, history, locals, List!vars, ChainFrom, InHand, Owned
  <2> SUFFICES ASSUME LIFOInv, Shapes', NEW p \in Threads, Acts(p)
               PROVE  [List!Next]_List!vars
    BY <2>1, Steps DEF LIFOInv
  <2> USE DEF Stack, Taken, LoadOf
  <2>2. CASE \/ Looks(p) \/ (\E x \in Items : BeginPush(p, x))
             \/ PushAllocate(p) \/ PushSetNext(p) \/ PopFree(p) \/ Walk(p)
    <3>1. UNCHANGED <<Stack, head, Taken, refused>>
      BY <2>2, StackStutters, StackDelivers
    <3>2. QED
      BY <3>1 DEF List!vars
  <2>3. CASE PushSwing(p)
    <3>1. \E x \in Items : List!Push(x)
      BY <2>3, StackPushes DEF List!Push
    <3>2. QED
      BY <3>1 DEF List!Next
  <2>4. CASE PopSwing(p)
    <3>1. List!Pop
      BY <2>4, StackPops DEF List!Pop
    <3>2. QED
      BY <3>1 DEF List!Next
  <2>5. CASE Takes(p)
    <3>1. List!TakeAll
      BY <2>5, StackTaken DEF List!TakeAll
    <3>2. QED
      BY <3>1 DEF List!Next
  <2>6. CASE PushRefused(p)
    <3>1. \E x \in Items : List!Refuse(x)
      BY <2>6, StackRefuses DEF List!Refuse
    <3>2. QED
      BY <3>1 DEF List!Next
  <2>7. QED
    BY <2>2, <2>3, <2>4, <2>5, <2>6 DEF Acts, GivesBack
<1>3. QED
  BY <1>1, <1>2, LIFOInvariant, PTL DEF Spec, ImplementsClosableList, List!Spec
=============================================================================
