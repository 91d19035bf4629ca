---------------------------- MODULE Listing_proofs ----------------------------
(***************************************************************************)
(* Proofs about Listing: an enumeration lists every member once and in order, *)
(* whatever the set, the order and the sequences.                            *)
(***************************************************************************)
EXTENDS Listing, SequencesExt, FiniteSetTheorems, SequenceTheorems, TLAPS

-----------------------------------------------------------------------------
(* Enumerating a set in order                                              *)

\* R orders S.
Orders(R, S) ==
  /\ \A x \in S : <<x, x>> \in R
  /\ \A x, y \in S : <<x, y>> \in R \/ <<y, x>> \in R
  /\ \A x, y \in S : <<x, y>> \in R /\ <<y, x>> \in R => x = y
  /\ \A x, y, z \in S : <<x, y>> \in R /\ <<y, z>> \in R => <<x, z>> \in R
UpTo(x, S, R) == {y \in S : <<y, x>> \in R}
Place(x, S, R) == Cardinality(UpTo(x, S, R))

(* A member has a place, and a later member a later one.                     *)
LEMMA PlaceOf ==
  ASSUME NEW S, IsFiniteSet(S), NEW R, Orders(R, S)
  PROVE  /\ \A x \in S : Place(x, S, R) \in 1 .. Cardinality(S)
         /\ \A x, y \in S : <<x, y>> \in R /\ x # y => Place(x, S, R) < Place(y, S, R)
<1>1. ASSUME NEW x \in S PROVE Place(x, S, R) \in 1 .. Cardinality(S) /\ IsFiniteSet(UpTo(x, S, R))
  <2> DEFINE U == UpTo(x, S, R)
  <2>1. U \in SUBSET S /\ x \in U
    BY DEF UpTo, Orders
  <2> HIDE DEF U
  <2>2. IsFiniteSet(U) /\ Cardinality(U) <= Cardinality(S)
    BY <2>1, FS_Subset
  <2>3. Cardinality(U) \in Nat /\ Cardinality(S) \in Nat /\ Cardinality(U) # 0
    BY <2>1, <2>2, FS_CardinalityType, FS_EmptySet
  <2> QED
    BY <2>2, <2>3 DEF Place, U
<1>2. ASSUME NEW x \in S, NEW y \in S, <<x, y>> \in R, x # y PROVE Place(x, S, R) < Place(y, S, R)
  <2> DEFINE U == UpTo(x, S, R)
             V == UpTo(y, S, R)
  <2>1. U \in SUBSET V /\ y \in V /\ y \notin U
    BY <1>2 DEF UpTo, Orders
  <2>2. IsFiniteSet(U) /\ IsFiniteSet(V)
    BY <1>1
  <2> HIDE DEF U, V
  <2>3. Cardinality(U) <= Cardinality(V) /\ Cardinality(V) # Cardinality(U)
    BY <2>1, <2>2, FS_Subset
  <2>4. Cardinality(U) \in Nat /\ Cardinality(V) \in Nat
    BY <2>2, FS_CardinalityType
  <2> QED
    BY <2>3, <2>4 DEF Place, U, V
<1> QED
  BY <1>1, <1>2

(* The enumeration lists each member once, at its place.                     *)
LEMMA InOrderLists ==
  ASSUME NEW S, IsFiniteSet(S), NEW R, Orders(R, S)
  PROVE  LET s == InOrder(S, R)
             n == Cardinality(S)
         IN /\ n \in Nat /\ s \in [1 .. n -> S]
            /\ \A k \in 1 .. n : Place(s[k], S, R) = k
            /\ \A x \in S : s[Place(x, S, R)] = x
            /\ \A j, k \in 1 .. n : j < k => <<s[j], s[k]>> \in R /\ s[j] # s[k]
<1> DEFINE s == InOrder(S, R)
           n == Cardinality(S)
           F == [x \in S |-> Place(x, S, R)]
<1>1. n \in Nat
  BY FS_CardinalityType
<1>2. F \in [S -> 1 .. n] /\ \A x, y \in S : F[x] = F[y] => x = y
  <2>1. \A x \in S : Place(x, S, R) \in 1 .. n
    BY PlaceOf
  <2>2. \A x, y \in S : Place(x, S, R) = Place(y, S, R) => x = y
    <3>1. ASSUME NEW x \in S, NEW y \in S, Place(x, S, R) = Place(y, S, R), x # y PROVE FALSE
      <4>1. Place(x, S, R) \in Int /\ ~(Place(x, S, R) < Place(y, S, R)) /\ ~(Place(y, S, R) < Place(x, S, R))
        BY <2>1, <3>1
      <4> QED
        BY <3>1, <4>1, PlaceOf DEF Orders
    <3> QED
      BY <3>1
  <2> QED
    BY <2>1, <2>2
<1>3. F \in Injection(S, 1 .. n) /\ IsFiniteSet(1 .. n) /\ Cardinality(1 .. n) = n
  <2>1. IsFiniteSet(1 .. n) /\ Cardinality(1 .. n) = n
    BY <1>1, FS_Interval
  <2> HIDE DEF F, n
  <2> QED
    BY <1>2, <2>1 DEF Injection, IsInjective
<1>4. \A k \in 1 .. n : \E x \in S : F[x] = k
  <2>1. F \in Surjection(S, 1 .. n)
    <3> HIDE DEF F
    <3> QED
      BY <1>3, FS_Injection
  <2> HIDE DEF F, n
  <2> QED
    BY <2>1 DEF Surjection
<1>5. s = [k \in 1 .. n |-> CHOOSE x \in S : Place(x, S, R) = k]
  BY DEF InOrder, Place, UpTo
<1>6. \A k \in 1 .. n : s[k] \in S /\ Place(s[k], S, R) = k
  BY <1>4, <1>5
<1>7. s \in [1 .. n -> S]
  BY <1>5, <1>6
<1>8. ASSUME NEW x \in S PROVE s[Place(x, S, R)] = x
  <2>1. F[x] \in 1 .. n /\ F[x] = Place(x, S, R)
    BY <1>2
  <2>2. s[F[x]] \in S /\ F[s[F[x]]] = F[x]
    BY <1>6, <2>1
  <2> HIDE DEF F, s
  <2> QED
    BY <1>2, <2>1, <2>2
<1>9. ASSUME NEW j \in 1 .. n, NEW k \in 1 .. n, j < k PROVE <<s[j], s[k]>> \in R /\ s[j] # s[k]
  <2>1. s[j] \in S /\ s[k] \in S /\ Place(s[j], S, R) = j /\ Place(s[k], S, R) = k /\ ~(k < j) /\ j # k
    BY <1>1, <1>6, <1>9
  <2>2. ASSUME NEW x \in S, NEW y \in S, <<y, x>> \in R, y # x PROVE Place(y, S, R) < Place(x, S, R)
    BY <2>2, PlaceOf
  <2>3. <<s[j], s[k]>> \in R \/ <<s[k], s[j]>> \in R
    BY <2>1 DEF Orders
  <2> HIDE DEF s
  <2>4. s[j] # s[k]
    BY <2>1
  <2>5. CASE <<s[k], s[j]>> \in R
    <3>1. Place(s[k], S, R) < Place(s[j], S, R)
      BY <2>1, <2>2, <2>4, <2>5
    <3> QED
      BY <2>1, <3>1
  <2> QED
    BY <2>3, <2>4, <2>5
<1> HIDE DEF s, n
<1> QED
  BY <1>1, <1>6, <1>7, <1>8, <1>9 DEF s, n

\* How many of the positions I come up to i.
Before(i, I) == Cardinality({j \in I : j <= i})

(* What is picked from a sequence: the elements at the positions, in order.   *)
LEMMA PickedLists ==
  ASSUME NEW T, NEW s \in Seq(T), NEW I \in SUBSET DOMAIN s
  PROVE  LET p == Picked(s, I)
         IN /\ IsFiniteSet(I) /\ p \in Seq(T) /\ Len(p) = Cardinality(I)
            /\ ToSet(p) = {s[i] : i \in I}
            /\ \A i \in I : Before(i, I) \in DOMAIN p /\ p[Before(i, I)] = s[i]
            /\ (\A i, j \in I : s[i] = s[j] => i = j) => \A j, k \in DOMAIN p : p[j] = p[k] => j = k
<1> DEFINE at == InOrder(I, Upward(I))
           n == Cardinality(I)
           p == Picked(s, I)
<1>1. Len(s) \in Nat /\ DOMAIN s = 1 .. Len(s) /\ \A i \in DOMAIN s : s[i] \in T
  BY LenProperties, ElementOfSeq
<1>2. IsFiniteSet(I) /\ I \subseteq Nat
  <2>1. IsFiniteSet(DOMAIN s) /\ I \subseteq Nat
    BY <1>1, FS_Interval
  <2> QED
    BY <2>1, FS_Subset
<1>3. Orders(Upward(I), I)
  BY <1>2 DEF Orders, Upward
<1>4. /\ n \in Nat /\ at \in [1 .. n -> I]
      /\ \A i \in I : at[Place(i, I, Upward(I))] = i
      /\ \A j, k \in 1 .. n : j < k => at[j] # at[k]
  BY <1>2, <1>3, InOrderLists
<1>5. \A i \in I : Place(i, I, Upward(I)) \in 1 .. n /\ Place(i, I, Upward(I)) = Before(i, I)
  <2>1. \A i \in I : Place(i, I, Upward(I)) \in 1 .. n
    BY <1>2, <1>3, PlaceOf
  <2>2. ASSUME NEW i \in I PROVE {y \in I : <<y, i>> \in Upward(I)} = {j \in I : j <= i}
    BY <1>2 DEF Upward
  <2> QED
    BY <2>1, <2>2 DEF Place, UpTo, Before
<1>6. p = [k \in 1 .. n |-> s[at[k]]]
  <2>1. DOMAIN at = 1 .. n
    BY <1>4
  <2> QED
    BY <2>1 DEF Picked, Upward
<1> HIDE DEF at, n, p
<1>7. p \in [1 .. n -> T]
  BY <1>1, <1>4, <1>6
<1>8. p \in Seq(T) /\ Len(p) = n
  <2>1. p \in Seq(T)
    BY <1>4, <1>7, SeqDef
  <2> QED
    BY <1>4, <1>7, <2>1, LenProperties
<1>9. \A i \in I : Before(i, I) \in 1 .. n /\ p[Before(i, I)] = s[i]
  BY <1>4, <1>5, <1>6
<1>10. ToSet(p) = {s[i] : i \in I}
  <2>1. ToSet(p) = {p[k] : k \in 1 .. n}
    BY <1>7 DEF ToSet
  <2>2. \A k \in 1 .. n : at[k] \in I /\ p[k] = s[at[k]]
    BY <1>4, <1>6
  <2> QED
    BY <1>9, <2>1, <2>2
<1>11. ASSUME \A i, j \in I : s[i] = s[j] => i = j, NEW j \in 1 .. n, NEW k \in 1 .. n, p[j] = p[k]
       PROVE  j = k
  <2>1. at[j] \in I /\ at[k] \in I /\ p[j] = s[at[j]] /\ p[k] = s[at[k]]
    BY <1>4, <1>6
  <2>2. at[j] = at[k]
    BY <1>11, <2>1
  <2> QED
    BY <1>4, <2>2
<1>12. DOMAIN p = 1 .. n
  BY <1>7
<1> QED
  BY <1>2, <1>8, <1>9, <1>10, <1>11, <1>12 DEF p, n

(* The image of a finite set under a function is finite.                     *)
LEMMA FiniteImage == ASSUME NEW f, IsFiniteSet(DOMAIN f) PROVE IsFiniteSet({f[x] : x \in DOMAIN f})
<1> DEFINE T == {f[x] : x \in DOMAIN f}
           g == [x \in DOMAIN f |-> f[x]]
<1>1. g \in Surjection(DOMAIN f, T)
  BY DEF Surjection
<1> HIDE DEF T, g
<1>2. IsFiniteSet(T)
  BY <1>1, FS_Surjection
<1> QED
  BY <1>2 DEF T

(* Sequences one after the other have the elements of all of them.            *)
LEMMA FlattenedLists ==
  ASSUME NEW T, NEW ss \in Seq(Seq(T))
  PROVE  Flattened(ss) \in Seq(T) /\ ToSet(Flattened(ss)) = UNION {ToSet(ss[m]) : m \in DOMAIN ss}
<1> DEFINE P == Positions(ss)
           at == InOrder(P, Onward(P))
           n == Cardinality(P)
           f == Flattened(ss)
<1>1. /\ Len(ss) \in Nat /\ DOMAIN ss = 1 .. Len(ss)
      /\ \A m \in DOMAIN ss : ss[m] \in Seq(T) /\ Len(ss[m]) \in Nat /\ DOMAIN ss[m] = 1 .. Len(ss[m])
  BY LenProperties, ElementOfSeq
<1>2. \A p \in P : p = <<p[1], p[2]>> /\ p[1] \in Nat /\ p[2] \in Nat /\ p[1] \in DOMAIN ss /\ p[2] \in DOMAIN ss[p[1]]
  BY <1>1 DEF Positions
<1>3. IsFiniteSet(P)
  <2> DEFINE g == [m \in DOMAIN ss |-> {m} \X DOMAIN ss[m]]
  <2>1. DOMAIN g = DOMAIN ss /\ IsFiniteSet(DOMAIN ss)
    BY <1>1, FS_Interval
  <2>2. P = UNION {g[m] : m \in DOMAIN g}
    BY <2>1 DEF Positions
  <2>3. ASSUME NEW m \in DOMAIN ss PROVE IsFiniteSet(g[m])
    <3>1. Len(ss[m]) \in Int /\ DOMAIN ss[m] = 1 .. Len(ss[m])
      BY <1>1
    <3>2. IsFiniteSet({m}) /\ IsFiniteSet(1 .. Len(ss[m]))
      <4>1. 1 \in Int
        OBVIOUS
      <4>2. IsFiniteSet(1 .. Len(ss[m]))
        BY <3>1, <4>1, FS_Interval, Zenon
      <4> QED
        BY <4>2, FS_Singleton
    <3>3. IsFiniteSet({m} \X DOMAIN ss[m])
      BY <3>1, <3>2, FS_Product
    <3> QED
      BY <3>3
  <2> HIDE DEF g
  <2>4. IsFiniteSet({g[m] : m \in DOMAIN g})
    BY <2>1, FiniteImage
  <2> QED
    BY <2>1, <2>2, <2>3, <2>4, FS_UNION
<1>4. Orders(Onward(P), P)
  <2> HIDE DEF P
  <2>1. \A x, y \in P : <<x, y>> \in Onward(P) <=> x[1] < y[1] \/ (x[1] = y[1] /\ x[2] <= y[2])
    BY DEF Onward
  <2>2. \A x, y \in P : x[1] = y[1] /\ x[2] = y[2] => x = y
    BY <1>2
  <2>3. ASSUME NEW x \in P, NEW y \in P
        PROVE  /\ <<x, x>> \in Onward(P) /\ (<<x, y>> \in Onward(P) \/ <<y, x>> \in Onward(P))
               /\ <<x, y>> \in Onward(P) /\ <<y, x>> \in Onward(P) => x = y
    <3>1. x[1] \in Nat /\ x[2] \in Nat /\ y[1] \in Nat /\ y[2] \in Nat
      BY <1>2
    <3>2. /\ <<x, x>> \in Onward(P) <=> x[1] < x[1] \/ (x[1] = x[1] /\ x[2] <= x[2])
          /\ <<x, y>> \in Onward(P) <=> x[1] < y[1] \/ (x[1] = y[1] /\ x[2] <= y[2])
          /\ <<y, x>> \in Onward(P) <=> y[1] < x[1] \/ (y[1] = x[1] /\ y[2] <= x[2])
          /\ x[1] = y[1] /\ x[2] = y[2] => x = y
      BY <2>1, <2>2
    <3> QED
      BY <3>1, <3>2
  <2>4. ASSUME NEW x \in P, NEW y \in P, NEW z \in P, <<x, y>> \in Onward(P), <<y, z>> \in Onward(P)
        PROVE  <<x, z>> \in Onward(P)
    <3>1. x[1] \in Nat /\ x[2] \in Nat /\ y[1] \in Nat /\ y[2] \in Nat /\ z[1] \in Nat /\ z[2] \in Nat
      BY <1>2
    <3>2. /\ x[1] < y[1] \/ (x[1] = y[1] /\ x[2] <= y[2])
          /\ y[1] < z[1] \/ (y[1] = z[1] /\ y[2] <= z[2])
          /\ <<x, z>> \in Onward(P) <=> x[1] < z[1] \/ (x[1] = z[1] /\ x[2] <= z[2])
      BY <2>1, <2>4
    <3> QED
      BY <3>1, <3>2
  <2> QED
    BY <2>3, <2>4 DEF Orders
<1>5. /\ n \in Nat /\ at \in [1 .. n -> P]
      /\ \A p \in P : Place(p, P, Onward(P)) \in 1 .. n /\ at[Place(p, P, Onward(P))] = p
  <2> HIDE DEF P
  <2> QED
    BY <1>3, <1>4, InOrderLists, PlaceOf
<1>6. f = [k \in 1 .. n |-> ss[at[k][1]][at[k][2]]]
  <2>1. DOMAIN at = 1 .. n
    BY <1>5
  <2> QED
    BY <2>1 DEF Flattened
<1> HIDE DEF at, n, f, P
<1>7. \A k \in 1 .. n : at[k][1] \in DOMAIN ss /\ at[k][2] \in DOMAIN ss[at[k][1]] /\ f[k] = ss[at[k][1]][at[k][2]]
  BY <1>2, <1>5, <1>6
<1>8. \A m \in DOMAIN ss : \A i \in DOMAIN ss[m] : ss[m][i] \in T
  BY <1>1, ElementOfSeq
<1>9. f \in [1 .. n -> T]
  BY <1>6, <1>7, <1>8
<1>10. f \in Seq(T)
  BY <1>5, <1>9, SeqDef
<1>11. ToSet(f) = {f[k] : k \in 1 .. n}
  BY <1>9 DEF ToSet
<1>12. ASSUME NEW m \in DOMAIN ss, NEW i \in DOMAIN ss[m] PROVE \E k \in 1 .. n : f[k] = ss[m][i]
  <2>1. <<m, i>> \in P
    BY DEF P, Positions
  <2>2. PICK k \in 1 .. n : at[k] = <<m, i>>
    BY <1>5, <2>1
  <2> QED
    BY <1>6, <2>2
<1>13. ToSet(f) = UNION {ToSet(ss[m]) : m \in DOMAIN ss}
  <2>1. \A m \in DOMAIN ss : ToSet(ss[m]) = {ss[m][i] : i \in DOMAIN ss[m]}
    BY DEF ToSet
  <2>2. ASSUME NEW k \in 1 .. n PROVE f[k] \in UNION {ToSet(ss[m]) : m \in DOMAIN ss}
    <3>1. at[k][1] \in DOMAIN ss /\ f[k] \in ToSet(ss[at[k][1]])
      BY <1>7, <2>1
    <3> QED
      BY <3>1
  <2>3. ASSUME NEW m \in DOMAIN ss, NEW x \in ToSet(ss[m]) PROVE x \in {f[k] : k \in 1 .. n}
    BY <1>12, <2>1, <2>3
  <2> QED
    BY <1>11, <2>2, <2>3
<1> QED
  BY <1>10, <1>13 DEF f
=============================================================================
