---------------------------- MODULE Diagnosis_proofs ----------------------------
(***************************************************************************)
(* Proofs about Diagnosis: what survives of an agent's evidence, what a       *)
(* verdict is worth and what a ranking puts first, for every catalog, every   *)
(* topology and all finite telemetry.                                       *)
(***************************************************************************)
EXTENDS Diagnosis, FiniteSetTheorems, WellFoundedInduction, TLAPS

-----------------------------------------------------------------------------
(* Finite sets and orders                                                  *)

\* A strict order on a set, as its pairs.
Orders(R, S) ==
  /\ \A x \in S : <<x, x>> \notin R
  /\ \A x, y, z \in S : <<x, y>> \in R /\ <<y, z>> \in R => <<x, z>> \in R

(* A finite set has a member that nothing precedes: one with the fewest      *)
(* members before it.                                                       *)
LEMMA Minimal ==
  ASSUME NEW S, IsFiniteSet(S), NEW R, Orders(R, S), NEW T \in SUBSET S, T # {}
  PROVE  \E x \in T : \A y \in T : <<y, x>> \notin R
<1> DEFINE below(x) == {y \in T : <<y, x>> \in R}
           counts == {Cardinality(below(x)) : x \in T}
<1>1. \A x \in T : IsFiniteSet(below(x)) /\ Cardinality(below(x)) \in Nat
  <2> TAKE x \in T
  <2>1. below(x) \in SUBSET S
    OBVIOUS
  <2> QED
    BY <2>1, FS_Subset, FS_CardinalityType
<1>2. counts \subseteq Nat /\ counts # {}
  BY <1>1
<1>3. PICK n \in counts : \A m \in counts : <<m, n>> \notin OpToRel(<, Nat)
  <2> HIDE DEF counts
  <2> QED
    BY <1>2, WFMin, NatLessThanWellFounded
<1>4. PICK x \in T : n = Cardinality(below(x))
  OBVIOUS
<1>5. \A y \in T : ~(Cardinality(below(y)) < Cardinality(below(x)))
  BY <1>2, <1>3, <1>4 DEF OpToRel
<1>6. ASSUME NEW y \in T, <<y, x>> \in R PROVE FALSE
  <2>1. below(y) \in SUBSET below(x) /\ y \in below(x) /\ y \notin below(y)
    BY <1>6 DEF Orders
  <2>2. Cardinality(below(y)) <= Cardinality(below(x)) /\ Cardinality(below(y)) # Cardinality(below(x))
    <3> HIDE DEF below
    <3> QED
      BY <2>1, <1>1, FS_Subset
  <2>3. Cardinality(below(y)) \in Nat /\ Cardinality(below(x)) \in Nat /\ ~(Cardinality(below(y)) < Cardinality(below(x)))
    BY <1>1, <1>5
  <2> HIDE DEF below
  <2> QED
    BY <2>2, <2>3
<1> QED
  BY <1>6

(* A finite set of integers has the least and the greatest member that the   *)
(* code's min() and max() take.                                             *)
LEMMA MinOf ==
  ASSUME NEW S \in SUBSET Int, IsFiniteSet(S), S # {}
  PROVE  Min(S) \in S /\ \A x \in S : Min(S) <= x
<1> DEFINE R == {p \in S \X S : p[1] < p[2]}
<1>1. \A x, y \in S : x \in Int /\ y \in Int /\ (<<x, y>> \in R <=> x < y)
  OBVIOUS
<1>2. Orders(R, S)
  BY <1>1 DEF Orders
<1> HIDE DEF R
<1>3. PICK x \in S : \A y \in S : <<y, x>> \notin R
  BY <1>2, Minimal
<1>4. ASSUME NEW y \in S PROVE x <= y
  <2>1. x \in Int /\ y \in Int
    OBVIOUS
  <2>2. ~(y < x)
    BY <1>1, <1>3
  <2> QED
    BY <2>1, <2>2
<1> QED
  BY <1>4 DEF Min

LEMMA MaxOf ==
  ASSUME NEW S \in SUBSET Int, IsFiniteSet(S), S # {}
  PROVE  Max(S) \in S /\ \A x \in S : x <= Max(S)
<1> DEFINE R == {p \in S \X S : p[1] > p[2]}
<1>1. \A x, y \in S : x \in Int /\ y \in Int /\ (<<x, y>> \in R <=> x > y)
  OBVIOUS
<1>2. Orders(R, S)
  BY <1>1 DEF Orders
<1> HIDE DEF R
<1>3. PICK x \in S : \A y \in S : <<y, x>> \notin R
  BY <1>2, Minimal
<1>4. ASSUME NEW y \in S PROVE y <= x
  <2>1. x \in Int /\ y \in Int
    OBVIOUS
  <2>2. ~(y > x)
    BY <1>1, <1>3
  <2> QED
    BY <2>1, <2>2
<1> QED
  BY <1>4 DEF Max

LEMMA IntervalOK ==
  ASSUME NEW a \in Int, NEW b \in Int, NEW T \in SUBSET (a .. b)
  PROVE  T \in SUBSET Int /\ IsFiniteSet(T)
<1> DEFINE I == a .. b
<1>1. IsFiniteSet(I) /\ T \in SUBSET I /\ I \subseteq Int
  BY FS_Interval
<1> HIDE DEF I
<1> QED
  BY <1>1, FS_Subset

(* The cut of a sorted list exists, has the length asked for, and leaves out *)
(* nothing that comes before what it keeps: a cut one shorter is extended by *)
(* what nothing left precedes.                                              *)
Cut(K, S, n, R) == K \subseteq S /\ Cardinality(K) = n /\ \A k \in K, r \in S \ K : <<r, k>> \notin R
LEMMA LongerCut ==
  ASSUME NEW S, IsFiniteSet(S), NEW R, Orders(R, S), NEW n \in Nat, n < Cardinality(S), NEW K, Cut(K, S, n, R)
  PROVE  \E L : Cut(L, S, n + 1, R)
<1>1. IsFiniteSet(K) /\ Cardinality(K) = n /\ S \ K # {}
  BY FS_Subset, FS_CardinalityType DEF Cut
<1>2. PICK m \in S \ K : \A y \in S \ K : <<y, m>> \notin R
  BY <1>1, Minimal
<1>3. Cardinality(K \cup {m}) = n + 1
  BY <1>1, FS_AddElement
<1> QED
  BY <1>2, <1>3 DEF Cut

LEMMA CutExists ==
  ASSUME NEW S, IsFiniteSet(S), NEW R, Orders(R, S), NEW n \in Nat, n <= Cardinality(S)
  PROVE  \E K : Cut(K, S, n, R)
<1> DEFINE none == {k \in 0 .. n : ~\E K : Cut(K, S, k, R)}
<1>1. SUFFICES ASSUME none # {} PROVE FALSE
  OBVIOUS
<1>2. PICK k \in none : \A j \in none : <<j, k>> \notin OpToRel(<, Nat)
  <2>1. none \subseteq Nat
    OBVIOUS
  <2> HIDE DEF none
  <2> QED
    BY <1>1, <2>1, WFMin, NatLessThanWellFounded
<1>3. k # 0
  BY FS_EmptySet DEF Cut
<1>4. \E K : Cut(K, S, k - 1, R)
  <2>1. k - 1 \in Nat /\ k - 1 \in 0 .. n /\ k \in Nat
    BY <1>3
  <2>2. <<k - 1, k>> \in OpToRel(<, Nat)
    BY <2>1 DEF OpToRel
  <2>3. k - 1 \notin none
    <3> HIDE DEF none
    <3> QED
      BY <1>2, <2>2
  <2> QED
    BY <2>1, <2>3
<1>5. k - 1 \in Nat /\ k - 1 < Cardinality(S) /\ (k - 1) + 1 = k
  BY <1>3, FS_CardinalityType
<1>6. \E L : Cut(L, S, k, R)
  BY <1>4, <1>5, LongerCut
<1> QED
  BY <1>6

LEMMA ForemostCut ==
  ASSUME NEW S, IsFiniteSet(S), NEW R, Orders(R, S), NEW n \in Nat
  PROVE  /\ Foremost(S, n, R) \subseteq S
         /\ Cardinality(S) <= n => Foremost(S, n, R) = S
         /\ Cardinality(S) > n => Cut(Foremost(S, n, R), S, n, R)
<1>1. CASE Cardinality(S) <= n
  BY <1>1, FS_CardinalityType DEF Foremost
<1>2. CASE Cardinality(S) > n
  <2>1. PICK K : Cut(K, S, n, R)
    BY <1>2, CutExists, FS_CardinalityType
  <2> DEFINE cut(L) == Cardinality(L) = n /\ \A k \in L, r \in S \ L : <<r, k>> \notin R
  <2>6. ~(Cardinality(S) <= n)
    BY <1>2, FS_CardinalityType
  <2>2. Foremost(S, n, R) = CHOOSE L \in SUBSET S : cut(L)
    BY <2>6, Zenon DEF Foremost
  <2>3. K \in SUBSET S /\ cut(K)
    BY <2>1 DEF Cut
  <2>4. Foremost(S, n, R) \in SUBSET S /\ cut(Foremost(S, n, R))
    <3> HIDE DEF cut
    <3> QED
      BY <2>2, <2>3
  <2>5. Cut(Foremost(S, n, R), S, n, R)
    BY <2>4 DEF Cut
  <2> QED
    BY <2>5, <1>2, FS_CardinalityType DEF Cut
<1> QED
  BY <1>1, <1>2, FS_CardinalityType

(* The values of a function on a finite set are finite.                      *)
LEMMA ImageFinite ==
  ASSUME NEW S, IsFiniteSet(S), NEW f, DOMAIN f = S
  PROVE  IsFiniteSet({f[x] : x \in S})
<1> DEFINE T == {f[x] : x \in S}
           g == [x \in S |-> f[x]]
<1>1. g \in Surjection(S, T)
  BY DEF Surjection
<1> QED
  BY <1>1, FS_Surjection

-----------------------------------------------------------------------------
(* Evidence                                                                *)

SampleOK(s) == s.time \in Int /\ s.severity \in 1 .. 5 /\ IsFiniteSet(s.names)
SamplesOK(S) == IsFiniteSet(S) /\ \A s \in S : SampleOK(s)
Roles == {"cause", "symptom", NoRole}
RowOK(r) ==
  /\ r.severity \in 1 .. 5 /\ r.first \in Int /\ r.onset \in Int /\ r.role \in Roles
  /\ IsFiniteSet(r.signals) /\ r.signals # {} /\ IsFiniteSet(r.names)
RowsOK(rows) == IsFiniteSet(rows) /\ \A r \in rows : RowOK(r)

LEMMA SubsetOK == ASSUME NEW S, SamplesOK(S), NEW T \in SUBSET S PROVE SamplesOK(T)
BY FS_Subset DEF SamplesOK

(* The times and severities of some samples.                                 *)
LEMMA Measures ==
  ASSUME NEW S, SamplesOK(S)
  PROVE  /\ IsFiniteSet({s.time : s \in S}) /\ {s.time : s \in S} \in SUBSET Int
         /\ IsFiniteSet({s.severity : s \in S}) /\ {s.severity : s \in S} \in SUBSET (1 .. 5)
         /\ IsFiniteSet({s.signal : s \in S})
         /\ IsFiniteSet(UNION {s.names : s \in S})
<1> DEFINE times == [s \in S |-> s.time]
           severities == [s \in S |-> s.severity]
           signals == [s \in S |-> s.signal]
           names == [s \in S |-> s.names]
<1>1. IsFiniteSet({times[s] : s \in S}) /\ IsFiniteSet({severities[s] : s \in S})
      /\ IsFiniteSet({signals[s] : s \in S}) /\ IsFiniteSet({names[s] : s \in S})
  <2>1. IsFiniteSet(S) /\ DOMAIN times = S /\ DOMAIN severities = S /\ DOMAIN signals = S /\ DOMAIN names = S
    BY DEF SamplesOK
  <2> HIDE DEF times, severities, signals, names
  <2> QED
    BY <2>1, ImageFinite
<1>2. IsFiniteSet({s.time : s \in S}) /\ IsFiniteSet({s.severity : s \in S})
      /\ IsFiniteSet({s.signal : s \in S}) /\ IsFiniteSet({s.names : s \in S})
  BY <1>1
<1>3. IsFiniteSet(UNION {s.names : s \in S})
  BY <1>2, FS_UNION DEF SamplesOK, SampleOK
<1> QED
  BY <1>2, <1>3 DEF SamplesOK, SampleOK

LEMMA FirstAndWorst ==
  ASSUME NEW S, SamplesOK(S), S # {}
  PROVE  /\ Min({s.time : s \in S}) \in Int /\ \A s \in S : Min({t.time : t \in S}) <= s.time
         /\ Max({s.severity : s \in S}) \in 1 .. 5
<1> DEFINE times == {s.time : s \in S}
           severities == {s.severity : s \in S}
<1>1. times \in SUBSET Int /\ IsFiniteSet(times) /\ times # {}
  BY Measures
<1>2. severities \in SUBSET Int /\ severities \subseteq 1 .. 5 /\ IsFiniteSet(severities) /\ severities # {}
  <2>1. severities \in SUBSET (1 .. 5) /\ IsFiniteSet(severities)
    BY Measures
  <2>2. severities # {}
    OBVIOUS
  <2> HIDE DEF severities
  <2> QED
    BY <2>1, <2>2
<1>3. \A s \in S : s.time \in times
  OBVIOUS
<1> HIDE DEF times, severities
<1>4. Min(times) \in Int /\ \A t \in times : Min(times) <= t
  BY <1>1, MinOf
<1>5. Max(severities) \in 1 .. 5
  BY <1>2, MaxOf
<1> QED
  BY <1>3, <1>4, <1>5 DEF times, severities

(* The starts of the episodes of an entity's series.                         *)
LEMMA StartsOK ==
  ASSUME NEW entity, NEW signals, IsFiniteSet(signals), NEW ctx, SamplesOK(ctx.series),
         NEW after, SamplesOK(after), NEW hits
  PROVE  LET starts == UNION {{p.time : p \in Episodes(SeriesOf(entity, n, ctx, after, hits))} :
                                 n \in {m \in signals : Stateful(m)}}
         IN starts \in SUBSET Int /\ IsFiniteSet(starts)
<1> DEFINE times(n) == {p.time : p \in Episodes(SeriesOf(entity, n, ctx, after, hits))}
           stateful == {m \in signals : Stateful(m)}
           T == ctx.series \cup after
<1>1. SamplesOK(T)
  BY FS_Union DEF SamplesOK
<1>2. ASSUME NEW n PROVE times(n) \subseteq {s.time : s \in T}
  <2>1. \A p \in SeriesOf(entity, n, ctx, after, hits) : \E s \in T : p.time = s.time
    BY DEF SeriesOf
  <2>2. Episodes(SeriesOf(entity, n, ctx, after, hits)) \subseteq SeriesOf(entity, n, ctx, after, hits)
    BY DEF Episodes
  <2> QED
    BY <2>1, <2>2
<1>3. \A n : times(n) \in SUBSET Int /\ IsFiniteSet(times(n))
  BY <1>1, <1>2, Measures, FS_Subset
<1>4. IsFiniteSet({times(n) : n \in stateful})
  <2> DEFINE f == [n \in stateful |-> times(n)]
  <2>1. IsFiniteSet(stateful)
    BY FS_Subset
  <2>2. IsFiniteSet({f[n] : n \in stateful})
    <3>1. DOMAIN f = stateful
      OBVIOUS
    <3> HIDE DEF f, stateful
    <3> QED
      BY <2>1, <3>1, ImageFinite
  <2> HIDE DEF times, stateful
  <2> QED
    BY <2>2
<1>5. IsFiniteSet(UNION {times(n) : n \in stateful})
  <2> HIDE DEF times, stateful
  <2> QED
    BY <1>3, <1>4, FS_UNION
<1> QED
  BY <1>3, <1>5

(* The row of some hits.                                                     *)
LEMMA RowOfOK ==
  ASSUME NEW entity, NEW signals, IsFiniteSet(signals), signals # {}, NEW ctx, SamplesOK(ctx.series),
         NEW after, SamplesOK(after), NEW hits, SamplesOK(hits), NEW observations, (UNION observations) \cap hits # {}
  PROVE  RowOK(RowOf(entity, signals, observations, ctx, after, hits))
<1> DEFINE S == (UNION observations) \cap hits
           starts == UNION {{p.time : p \in Episodes(SeriesOf(entity, n, ctx, after, hits))} :
                              n \in {m \in signals : Stateful(m)}}
           r == RowOf(entity, signals, observations, ctx, after, hits)
<1>1. SamplesOK(S) /\ S # {}
  <2>1. S \in SUBSET hits
    OBVIOUS
  <2> HIDE DEF S
  <2>2. SamplesOK(S)
    BY <2>1, SubsetOK
  <2> QED
    BY <2>2 DEF S
<1>2. Min({s.time : s \in S}) \in Int /\ Max({s.severity : s \in S}) \in 1 .. 5
  <2> HIDE DEF S
  <2> QED
    BY <1>1, FirstAndWorst
<1>3. IsFiniteSet(UNION {s.names : s \in S})
  <2> HIDE DEF S
  <2> QED
    BY <1>1, Measures
<1>4. starts \in SUBSET Int /\ IsFiniteSet(starts)
  BY StartsOK
<1>5. starts # {} => Max(starts) \in Int
  <2> HIDE DEF starts
  <2> QED
    BY <1>4, MaxOf
<1>6. /\ r.severity = Max({s.severity : s \in S}) /\ r.first = Min({s.time : s \in S})
      /\ r.onset = IF starts = {} THEN Min({s.time : s \in S}) ELSE Max(starts)
      /\ r.signals = signals /\ r.role = RoleOf(signals) /\ r.names = UNION {s.names : s \in S}
  <2>1. r = [entity |-> entity, signals |-> signals, role |-> RoleOf(signals),
             severity |-> Max({s.severity : s \in S}), first |-> Min({s.time : s \in S}),
             onset |-> IF starts = {} THEN Min({s.time : s \in S}) ELSE Max(starts),
             refs |-> {s.ref : s \in S}, names |-> UNION {s.names : s \in S}, via |-> "rule"]
    BY Zenon DEF RowOf
  <2> HIDE DEF r, S, starts
  <2> QED
    BY <2>1
<1>7. RoleOf(signals) \in Roles
  BY DEF RoleOf, Roles
<1> HIDE DEF S, starts, r
<1>8. RowOK(r)
  BY <1>2, <1>3, <1>5, <1>6, <1>7 DEF RowOK
<1> QED
  BY <1>8 DEF r

(* The order of an agent's evidence.                                         *)
LEMMA BeforeIs ==
  ASSUME NEW r, RowOK(r), NEW t, RowOK(t)
  PROVE  Before(r, t) <=> \/ RoleRank(r.role) < RoleRank(t.role)
                          \/ /\ RoleRank(r.role) = RoleRank(t.role)
                             /\ r.severity > t.severity \/ (r.severity = t.severity /\ r.first < t.first)
<1> DEFINE a == <<RoleRank(r.role), -r.severity, r.first>>
           b == <<RoleRank(t.role), -t.severity, t.first>>
<1>1. Before(r, t) <=> \/ a[1] < b[1]
                       \/ a[2] < b[2] /\ a[1] = b[1]
                       \/ a[3] < b[3] /\ a[1] = b[1] /\ a[2] = b[2]
  <2>1. 1 .. 3 = {1, 2, 3} /\ 1 .. 1 - 1 = {} /\ 1 .. 2 - 1 = {1} /\ 1 .. 3 - 1 = {1, 2}
    OBVIOUS
  <2>2. Before(r, t) <=> \E i \in 1 .. 3 : a[i] < b[i] /\ \A j \in 1 .. i - 1 : a[j] = b[j]
    BY DEF Before
  <2> HIDE DEF a, b
  <2> QED
    BY <2>1, <2>2
<1>2. r.severity \in Int /\ t.severity \in Int /\ r.first \in Int /\ t.first \in Int
  BY DEF RowOK
<1> QED
  BY <1>1, <1>2

LEMMA RankOf ==
  ASSUME NEW r, RowOK(r)
  PROVE  /\ RoleRank(r.role) \in 0 .. 2
         /\ RoleRank(r.role) = 0 <=> r.role = "cause"
BY DetectionAssumption DEF RowOK, Roles, RoleRank

LEMMA BeforeOrders ==
  ASSUME NEW rows, \A r \in rows : RowOK(r)
  PROVE  Orders({p \in rows \X rows : Before(p[1], p[2])}, rows)
<1> DEFINE R == {p \in rows \X rows : Before(p[1], p[2])}
<1>1. \A r, t \in rows : <<r, t>> \in R <=> Before(r, t)
  OBVIOUS
<1>2. ASSUME NEW r \in rows PROVE ~Before(r, r)
  BY BeforeIs, RankOf DEF RowOK
<1>3. ASSUME NEW r \in rows, NEW t \in rows, NEW u \in rows, Before(r, t), Before(t, u) PROVE Before(r, u)
  <2>1. \A x \in {r, t, u} : RowOK(x) /\ RoleRank(x.role) \in Int /\ x.severity \in Int /\ x.first \in Int
    BY RankOf DEF RowOK
  <2> QED
    BY <1>3, <2>1, BeforeIs
<1> HIDE DEF R
<1>4. Orders(R, rows)
  BY <1>1, <1>2, <1>3 DEF Orders
<1> QED
  BY <1>4 DEF R

(* A sample is among the observations it is judged with.                     *)
LEMMA ObservedSelf ==
  ASSUME NEW d, NEW ctx, NEW s \in ctx.series
  PROVE  s \in Observed(d, s, ctx)
BY DEF Observed

(* The row a hit ends in.                                                    *)
RowFor(d, s, ctx, after, hits) ==
  LET k == KeyOf(d, s, ctx, hits)
  IN RowOf(k[1], k[2], {Observed(d, t, ctx) : t \in {u \in hits : KeyOf(d, u, ctx, hits) = k}}, ctx, after, hits)

LEMMA RowForOK ==
  ASSUME NEW d, NEW ctx, SamplesOK(ctx.series), NEW after, SamplesOK(after), NEW hits \in SUBSET ctx.series, NEW s \in hits
  PROVE  LET r == RowFor(d, s, ctx, after, hits)
         IN /\ RowOK(r)
            /\ r.entity = s.entity /\ s.ref \in r.refs
            /\ r.role = RoleOf({t.signal : t \in Observed(d, s, ctx) \cap hits})
<1> DEFINE k == KeyOf(d, s, ctx, hits)
           signals == {t.signal : t \in Observed(d, s, ctx) \cap hits}
           observations == {Observed(d, t, ctx) : t \in {u \in hits : KeyOf(d, u, ctx, hits) = k}}
           r == RowOf(s.entity, signals, observations, ctx, after, hits)
<1>1. k[1] = s.entity /\ k[2] = signals
  BY DEF KeyOf
<1>2. s \in Observed(d, s, ctx) \cap hits
  BY ObservedSelf
<1>3. s \in (UNION observations) \cap hits
  <2>1. Observed(d, s, ctx) \in observations
    OBVIOUS
  <2> QED
    BY <1>2, <2>1
<1>4. SamplesOK(hits) /\ SamplesOK(Observed(d, s, ctx) \cap hits)
  BY SubsetOK
<1>5. IsFiniteSet(signals) /\ signals # {}
  <2>1. IsFiniteSet({t.signal : t \in Observed(d, s, ctx) \cap hits})
    BY <1>4, Measures
  <2> QED
    BY <1>2, <2>1
<1>6. RowFor(d, s, ctx, after, hits) = r
  BY <1>1 DEF RowFor
<1>7. RowOK(r)
  <2> HIDE DEF signals, observations
  <2> QED
    BY <1>3, <1>4, <1>5, RowOfOK
<1>8. r.entity = s.entity /\ r.refs = {t.ref : t \in (UNION observations) \cap hits} /\ r.role = RoleOf(signals)
  <2> HIDE DEF signals, observations
  <2> QED
    BY DEF RowOf
<1>9. s.ref \in r.refs
  <2> HIDE DEF observations, r
  <2> QED
    BY <1>3, <1>8
<1> HIDE DEF r
<1> QED
  BY <1>6, <1>7, <1>8, <1>9

LEMMA AllRowsOK ==
  ASSUME NEW d, NEW ctx, SamplesOK(ctx.series), NEW after, SamplesOK(after), NEW hits \in SUBSET ctx.series
  PROVE  /\ AllRows(d, ctx, after, hits) = {RowFor(d, s, ctx, after, hits) : s \in hits}
         /\ RowsOK(AllRows(d, ctx, after, hits))
<1> DEFINE f == [s \in hits |-> RowFor(d, s, ctx, after, hits)]
<1>1. AllRows(d, ctx, after, hits) = {RowFor(d, s, ctx, after, hits) : s \in hits}
  BY DEF AllRows, RowFor
<1>2. AllRows(d, ctx, after, hits) = {f[s] : s \in hits}
  BY <1>1
<1>3. IsFiniteSet({f[s] : s \in hits})
  <2>1. IsFiniteSet(hits) /\ DOMAIN f = hits
    BY SubsetOK DEF SamplesOK
  <2> HIDE DEF f
  <2> QED
    BY <2>1, ImageFinite
<1>4. \A s \in hits : RowOK(RowFor(d, s, ctx, after, hits))
  BY RowForOK
<1> HIDE DEF f
<1> QED
  BY <1>1, <1>2, <1>3, <1>4 DEF RowsOK

(* What analyze_domain keeps of its evidence: something of anything, and of  *)
(* the causes all, unless it keeps nothing else.                            *)
LEMMA RowsOfOK ==
  ASSUME NEW d, NEW ctx, SamplesOK(ctx.series), NEW after, SamplesOK(after), NEW hits \in SUBSET ctx.series
  PROVE  LET kept == RowsOf(d, ctx, after, hits)
         IN /\ RowsOK(kept)
            /\ hits # {} => kept # {}
            /\ \A r \in AllRows(d, ctx, after, hits) :
                 r.role = "cause" => r \in kept \/ (Cardinality(kept) = MaxEvidence /\ \A t \in kept : t.role = "cause")
<1> DEFINE rows == AllRows(d, ctx, after, hits)
           R == {p \in rows \X rows : Before(p[1], p[2])}
           kept == Foremost(rows, MaxEvidence, R)
<1>1. RowsOK(rows) /\ (hits # {} => rows # {})
  <2>1. RowsOK(rows) /\ rows = {RowFor(d, s, ctx, after, hits) : s \in hits}
    BY AllRowsOK
  <2> HIDE DEF rows
  <2> QED
    BY <2>1
<1>2. RowsOf(d, ctx, after, hits) = kept
  BY DEF RowsOf
<1>3. Orders(R, rows)
  BY <1>1, BeforeOrders DEF RowsOK
<1>4. IsFiniteSet(rows) /\ Cardinality(rows) \in Nat /\ MaxEvidence \in Nat \ {0}
  BY <1>1, DetectionAssumption, FS_CardinalityType DEF RowsOK
<1>5. /\ kept \subseteq rows
      /\ Cardinality(rows) <= MaxEvidence => kept = rows
      /\ Cardinality(rows) > MaxEvidence => Cut(kept, rows, MaxEvidence, R)
  <2> HIDE DEF rows, R
  <2> QED
    BY <1>3, <1>4, ForemostCut
<1>6. RowsOK(kept)
  BY <1>1, <1>5, FS_Subset DEF RowsOK
<1>7. CASE Cardinality(rows) <= MaxEvidence
  BY <1>1, <1>2, <1>5, <1>6, <1>7
<1>8. CASE Cardinality(rows) > MaxEvidence
  <2>1. Cardinality(kept) = MaxEvidence /\ \A t \in kept, r \in rows \ kept : ~Before(r, t)
    <3>1. \A t, r \in rows : Before(r, t) => <<r, t>> \in R
      OBVIOUS
    <3> HIDE DEF rows, R, kept
    <3> QED
      BY <1>5, <1>8, <3>1 DEF Cut
  <2>2. kept # {}
    <3> HIDE DEF kept
    <3> QED
      BY <1>4, <2>1, FS_EmptySet
  <2>3. ASSUME NEW r \in rows, r.role = "cause", r \notin kept, NEW t \in kept PROVE t.role = "cause"
    <3>1. RowOK(r) /\ RowOK(t) /\ ~Before(r, t)
      BY <1>1, <1>5, <2>1, <2>3 DEF RowsOK
    <3> QED
      BY <3>1, <2>3, RankOf, BeforeIs
  <2> HIDE DEF rows, R, kept
  <2>4. hits # {} => kept # {}
    BY <2>2
  <2>5. \A r \in rows : r.role = "cause" => r \in kept \/ (Cardinality(kept) = MaxEvidence /\ \A t \in kept : t.role = "cause")
    BY <2>1, <2>3
  <2> QED
    BY <1>2, <1>6, <2>4, <2>5 DEF rows
<1> QED
  BY <1>4, <1>7, <1>8

(* The unclassified rows that are kept are samples that were read.            *)
LEMMA UnclassifiedOK ==
  ASSUME NEW samples, SamplesOK(samples)
  PROVE  Unclassified(samples) \subseteq samples
<1> DEFINE unknown == {s \in samples : ~Known(s)}
           alike(s) == {t \in unknown : t.entity = s.entity /\ t.signal = s.signal}
           worst(a) == Max({s.severity : s \in a})
           first(a) == Min({s.time : s \in a})
           severer(a, b) == worst(a) > worst(b) \/ (worst(a) = worst(b) /\ first(a) < first(b))
           series == {alike(s) : s \in unknown}
           R == {p \in series \X series : severer(p[1], p[2])}
<1>1. \A a \in series : a \in SUBSET samples /\ a # {}
  OBVIOUS
<1>2. \A a \in series : worst(a) \in Int /\ first(a) \in Int
  <2> TAKE a \in series
  <2>1. SamplesOK(a) /\ a # {}
    BY <1>1, SubsetOK
  <2> HIDE DEF series
  <2> QED
    BY <2>1, FirstAndWorst
<1>3. \A a, b \in series : <<a, b>> \in R <=> severer(a, b)
  <2> HIDE DEF series, severer
  <2> QED
    OBVIOUS
<1>4. Orders(R, series)
  <2> HIDE DEF series, R, worst, first
  <2> QED
    BY <1>2, <1>3 DEF Orders
<1>5. IsFiniteSet(series)
  <2>1. series \in SUBSET SUBSET samples /\ IsFiniteSet(SUBSET samples)
    BY <1>1, FS_SUBSET DEF SamplesOK
  <2> HIDE DEF series
  <2> QED
    BY <2>1, FS_Subset
<1>6. Foremost(series, MaxUnclassified, R) \subseteq series
  <2> HIDE DEF series, R
  <2> QED
    BY <1>4, <1>5, ForemostCut, DetectionAssumption
<1>7. Unclassified(samples) = UNION Foremost(series, MaxUnclassified, R)
  BY Zenon DEF Unclassified
<1> HIDE DEF series, R
<1> QED
  BY <1>1, <1>6, <1>7

\* A finding about the samples S.
FindingFields == {"anomaly", "rows", "status", "degraded", "unclassified"}
FindingOK(f, S) == DOMAIN f = FindingFields /\ RowsOK(f.rows) /\ f.unclassified \subseteq S

LEMMA ContextSamples ==
  ASSUME NEW d, NEW read, SamplesOK(read.samples), NEW scoped
  PROVE  LET ctx == ContextOf(d, read)
         IN SamplesOK(ctx.series) /\ HitsIn(ctx, scoped) \in SUBSET ctx.series
<1>1. ContextOf(d, read).series \in SUBSET read.samples
  BY DEF ContextOf, OfDomain
<1>2. SamplesOK(ContextOf(d, read).series)
  BY <1>1, SubsetOK
<1> QED
  BY <1>2 DEF HitsIn

LEMMA FindingOfOK ==
  ASSUME NEW d, NEW read, SamplesOK(read.samples), NEW after, SamplesOK(after), NEW scoped
  PROVE  LET f == FindingOf(d, read, after, scoped)
             ctx == ContextOf(d, read)
             hits == HitsIn(ctx, scoped)
         IN /\ FindingOK(f, read.samples)
            /\ f.rows = RowsOf(d, ctx, OfDomain(d, after), hits) /\ SamplesOK(OfDomain(d, after))
            /\ f.anomaly = (hits # {}) /\ f.degraded = read.degraded
            /\ hits # {} => f.rows # {}
<1> DEFINE f == FindingOf(d, read, after, scoped)
           ctx == ContextOf(d, read)
           hits == HitsIn(ctx, scoped)
           mine == OfDomain(d, after)
           states == {StatusOf(s.entity, ctx, mine, hits) : s \in hits}
<1>1. f = [anomaly |-> hits # {}, rows |-> RowsOf(d, ctx, mine, hits), status |-> states,
           degraded |-> read.degraded, unclassified |-> Unclassified(read.samples)]
  BY Zenon DEF FindingOf
<1>2. SamplesOK(mine)
  BY SubsetOK DEF OfDomain
<1>3. SamplesOK(ctx.series) /\ hits \in SUBSET ctx.series
  BY ContextSamples
<1>4. RowsOK(RowsOf(d, ctx, mine, hits)) /\ (hits # {} => RowsOf(d, ctx, mine, hits) # {})
  <2> HIDE DEF ctx, hits, mine
  <2> QED
    BY <1>2, <1>3, RowsOfOK
<1>5. Unclassified(read.samples) \subseteq read.samples
  BY UnclassifiedOK
<1>6. /\ FindingOK(f, read.samples)
      /\ f.rows = RowsOf(d, ctx, mine, hits) /\ SamplesOK(mine)
      /\ f.anomaly = (hits # {}) /\ f.degraded = read.degraded
      /\ hits # {} => f.rows # {}
  <2> HIDE DEF f, ctx, hits, mine, states
  <2>1. DOMAIN f = FindingFields
    BY <1>1 DEF FindingFields
  <2>2. f.rows = RowsOf(d, ctx, mine, hits) /\ f.degraded = read.degraded /\ f.unclassified = Unclassified(read.samples)
    BY <1>1
  <2>3. f.anomaly = (hits # {})
    BY <1>1
  <2> QED
    BY <1>2, <1>4, <1>5, <2>1, <2>2, <2>3 DEF FindingOK
<1> HIDE DEF f
<1> QED
  BY <1>6 DEF f

-----------------------------------------------------------------------------
(* Questions                                                               *)

GraphOK(g) == g.nodes \in Seq(DOMAIN TypeOf)

LEMMA NodesOK ==
  ASSUME NEW g, GraphOK(g)
  PROVE  IsFiniteSet(NodesOf(g)) /\ NodesOf(g) \subseteq DOMAIN TypeOf /\ Unresolved \notin NodesOf(g)
<1> DEFINE nodes == g.nodes
<1>1. DOMAIN nodes = 1 .. Len(nodes) /\ Len(nodes) \in Nat /\ \A i \in DOMAIN nodes : nodes[i] \in DOMAIN TypeOf
  BY DEF GraphOK
<1>2. IsFiniteSet(DOMAIN nodes)
  BY <1>1, FS_Interval
<1>3. IsFiniteSet({nodes[i] : i \in DOMAIN nodes})
  <2> HIDE DEF nodes
  <2> QED
    BY <1>2, ImageFinite
<1> QED
  BY <1>1, <1>3, NamesAssumption DEF NodesOf, ToSet

(* The node an entity's name leads to goes by that name.                     *)
LEMMA ResolveOK ==
  ASSUME NEW g, GraphOK(g), NEW name, Resolve(g, name) # Unresolved
  PROVE  LET n == Resolve(g, name)
         IN n \in NodesOf(g) /\ TypeOf[name] = Named(g, n).type /\ IdIn[name] \in Named(g, n).ids
<1> DEFINE known == {i \in DOMAIN g.nodes : TypeOf[g.nodes[i]] = TypeOf[name] /\ IdIn[name] \in g.labels[g.nodes[i]]}
<1>1. CASE name \in NodesOf(g)
  BY <1>1 DEF Resolve, Named
<1>2. CASE name \notin NodesOf(g)
  <2>1. known # {} /\ Resolve(g, name) = g.nodes[Min(known)]
    BY <1>2 DEF Resolve
  <2>2. known \in SUBSET Int /\ IsFiniteSet(known)
    <3>1. DOMAIN g.nodes = 1 .. Len(g.nodes) /\ 1 \in Int /\ Len(g.nodes) \in Int
      BY DEF GraphOK
    <3>2. known \in SUBSET (1 .. Len(g.nodes))
      BY <3>1
    <3> HIDE DEF known
    <3> QED
      BY <3>1, <3>2, IntervalOK, Zenon
  <2>3. Min(known) \in known
    <3> HIDE DEF known
    <3> QED
      BY <2>1, <2>2, MinOf
  <2> QED
    BY <2>1, <2>3 DEF Named, NodesOf, ToSet
<1> QED
  BY <1>1, <1>2

LeadsOK(L) == IsFiniteSet(L) /\ \A l \in L : l.seen \in Int
QuestionFields == {"asker", "target", "node", "names", "anchor", "hops", "start", "end"}
QuestionOK(g, q) ==
  /\ DOMAIN q = QuestionFields
  /\ q.asker \in Domains /\ q.target \in Domains /\ q.node \in NodesOf(g) /\ q.names = Named(g, q.node)
  /\ q.hops \in Nat /\ q.start \in Int /\ q.end \in Int

(* A node that a walk reaches is so many hops away.                          *)
LEMMA HopsOK ==
  ASSUME NEW g, NEW start, NEW n \in Walk(g, start)
  PROVE  HopsTo(g, start, n) \in Nat
<1> DEFINE near(k) == n \in Within(g, start, k)
           T == {k \in 0 .. MaxHops : near(k)}
<1>1. T \in SUBSET Int /\ IsFiniteSet(T) /\ T # {}
  <2>1. T \in SUBSET (0 .. MaxHops) /\ MaxHops \in T /\ 0 \in Int /\ MaxHops \in Int
    BY HopsAssumption DEF Walk
  <2> HIDE DEF T
  <2> QED
    BY <2>1, IntervalOK, Zenon
<1>2. Min(T) \in T /\ \A k \in T : Min(T) <= k
  <2> HIDE DEF T
  <2> QED
    BY <1>1, MinOf
<1>3. Min(T) \in 0 .. MaxHops /\ near(Min(T)) /\ (Min(T) > 0 => ~near(Min(T) - 1))
  <2>1. Min(T) \in 0 .. MaxHops /\ near(Min(T))
    BY <1>2
  <2>2. ASSUME Min(T) > 0, near(Min(T) - 1) PROVE FALSE
    <3>1. Min(T) - 1 \in 0 .. MaxHops
      BY <2>1, <2>2, HopsAssumption
    <3>2. Min(T) - 1 \in T
      BY <3>1, <2>2
    <3> HIDE DEF T
    <3> QED
      BY <1>2, <2>1, <3>2, HopsAssumption
  <2> QED
    BY <2>1, <2>2
<1> HIDE DEF near, T
<1>4. HopsTo(g, start, n) = CHOOSE k \in 0 .. MaxHops : near(k) /\ (k > 0 => ~near(k - 1))
  BY Zenon DEF HopsTo, near
<1> QED
  BY <1>3, <1>4, HopsAssumption

(* Anchors are nodes of the graph, and finitely many.                        *)
LEMMA AnchorsOK ==
  ASSUME NEW g, GraphOK(g), NEW d, NEW finding, RowsOK(finding.rows), NEW leadsOf, LeadsOK(leadsOf),
         NEW alarm, IsFiniteSet(alarm), NEW end \in Int
  PROVE  LET A == Anchors(d, finding, leadsOf, alarm, end, g)
         IN IsFiniteSet(A) /\ \A a \in A : a.node \in NodesOf(g) /\ a.seen \in Int
<1> DEFINE place(name, seen) == [node |-> Resolve(g, name), seen |-> seen]
           A == Anchors(d, finding, leadsOf, alarm, end, g)
           fromRows == [r \in finding.rows |-> place(r.entity, r.first)]
           fromLeads == [l \in leadsOf |-> place(l.name, l.seen)]
           fromAlarm == [name \in alarm |-> place(name, end)]
           places == {fromRows[r] : r \in finding.rows} \cup {fromLeads[l] : l \in leadsOf} \cup {fromAlarm[n] : n \in alarm}
<1>1. \A a \in A : a \in places /\ a.node # Unresolved
  BY DEF Anchors
<1>2. \A a \in places : a.seen \in Int /\ (a.node # Unresolved => a.node \in NodesOf(g))
  <2>1. \A name, seen : place(name, seen).seen = seen
                          /\ (place(name, seen).node # Unresolved => place(name, seen).node \in NodesOf(g))
    BY ResolveOK
  <2>2. /\ \A r \in finding.rows : fromRows[r] = place(r.entity, r.first) /\ r.first \in Int
        /\ \A l \in leadsOf : fromLeads[l] = place(l.name, l.seen) /\ l.seen \in Int
        /\ \A n \in alarm : fromAlarm[n] = place(n, end)
    BY DEF RowsOK, RowOK, LeadsOK
  <2> HIDE DEF place, fromRows, fromLeads, fromAlarm
  <2> QED
    BY <2>1, <2>2
<1>3. IsFiniteSet(places)
  <2>1. IsFiniteSet(finding.rows) /\ IsFiniteSet(leadsOf)
    BY DEF RowsOK, LeadsOK
  <2>2. DOMAIN fromRows = finding.rows /\ DOMAIN fromLeads = leadsOf /\ DOMAIN fromAlarm = alarm
    OBVIOUS
  <2> HIDE DEF fromRows, fromLeads, fromAlarm
  <2>3. IsFiniteSet({fromRows[r] : r \in finding.rows}) /\ IsFiniteSet({fromLeads[l] : l \in leadsOf})
        /\ IsFiniteSet({fromAlarm[n] : n \in alarm})
    BY <2>1, <2>2, ImageFinite
  <2> QED
    BY <2>3, FS_Union
<1> HIDE DEF places
<1>4. A \in SUBSET places
  BY <1>1
<1>5. IsFiniteSet(A)
  BY <1>3, <1>4, FS_Subset
<1> HIDE DEF A
<1>6. \A a \in A : a.node \in NodesOf(g) /\ a.seen \in Int
  BY <1>1, <1>2
<1> QED
  BY <1>5, <1>6 DEF A

LEMMA DependsInGraph == ASSUME NEW g, NEW a, NEW n, DependsOn(g, a, n) PROVE n \in NodesOf(g)
<1>1. \E m : n \in Depends(g, m)
  BY DEF DependsOn
<1> QED
  BY <1>1 DEF Depends

(* What an agent may ask is finite and well formed.                          *)
LEMMA CandidatesOK ==
  ASSUME NEW g, GraphOK(g), NEW d \in Domains, NEW finding, RowsOK(finding.rows), NEW leadsOf, LeadsOK(leadsOf),
         NEW alarm, IsFiniteSet(alarm), NEW peers, NEW window, window.start \in Int, window.end \in Int, NEW before
  PROVE  LET C == Candidates(d, finding, leadsOf, alarm, peers, g, window, before)
         IN IsFiniteSet(C) /\ \A q \in C : QuestionOK(g, q)
<1> DEFINE A == Anchors(d, finding, leadsOf, alarm, window.end, g)
           C == Candidates(d, finding, leadsOf, alarm, peers, g, window, before)
           ask(a, n, t) == [asker |-> d, target |-> t, node |-> n, names |-> Named(g, n), anchor |-> a.node,
                            hops |-> HopsTo(g, a.node, n), start |-> Reach(a.seen, window), end |-> window.end]
           X == (A \X NodesOf(g)) \X Domains
           f == [x \in X |-> ask(x[1][1], x[1][2], x[2])]
<1>1. IsFiniteSet(A) /\ \A a \in A : a.node \in NodesOf(g) /\ a.seen \in Int
  BY AnchorsOK
<1>2. ASSUME NEW q \in C
      PROVE  \E a \in A, n \in NodesOf(g), t \in Domains : n \in Walk(g, a.node) /\ q = ask(a, n, t)
  <2>1. PICK a \in A : \E n \in Walk(g, a.node) : Explains(g, a.node, n) /\ \E t \in Probes[TypeOf[n]] \ {d} : q = ask(a, n, t)
    BY DEF Candidates
  <2>2. PICK n \in Walk(g, a.node) : Explains(g, a.node, n) /\ \E t \in Probes[TypeOf[n]] \ {d} : q = ask(a, n, t)
    BY <2>1
  <2>3. n \in NodesOf(g)
    BY <1>1, <2>2, DependsInGraph DEF Explains
  <2>4. Probes[TypeOf[n]] \subseteq Domains
    BY <2>3, NodesOK, InvestigationAssumption, CatalogAssumption DEF ValidCatalog
  <2> HIDE DEF ask
  <2> QED
    BY <2>2, <2>3, <2>4
<1>3. C \in SUBSET {f[x] : x \in X}
  <2>1. \A a \in A, n \in NodesOf(g), t \in Domains : <<<<a, n>>, t>> \in X /\ f[<<<<a, n>>, t>>] = ask(a, n, t)
    OBVIOUS
  <2> HIDE DEF C, A, X, f, ask
  <2>2. ASSUME NEW q \in C PROVE \E x \in X : q = f[x]
    <3>1. PICK a \in A : \E n \in NodesOf(g) : \E t \in Domains : q = ask(a, n, t)
      BY <1>2
    <3>2. PICK n \in NodesOf(g) : \E t \in Domains : q = ask(a, n, t)
      BY <3>1
    <3>3. PICK t \in Domains : q = ask(a, n, t)
      BY <3>2
    <3>4. <<<<a, n>>, t>> \in X /\ f[<<<<a, n>>, t>>] = ask(a, n, t)
      BY <2>1
    <3> QED
      BY <3>3, <3>4
  <2> QED
    BY <2>2
<1>4. IsFiniteSet({f[x] : x \in X})
  <2>1. IsFiniteSet(NodesOf(g)) /\ IsFiniteSet(Domains)
    BY NodesOK, InvestigationAssumption DEF Domains
  <2>2. IsFiniteSet(X)
    <3> HIDE DEF A
    <3> QED
      BY <1>1, <2>1, FS_Product
  <2>3. DOMAIN f = X
    OBVIOUS
  <2> HIDE DEF X, f
  <2> QED
    BY <2>2, <2>3, ImageFinite
<1>5. IsFiniteSet(C)
  <2> HIDE DEF C, X, f
  <2> QED
    BY <1>3, <1>4, FS_Subset
<1>6. ASSUME NEW a \in A, NEW n \in NodesOf(g), NEW t \in Domains, n \in Walk(g, a.node) PROVE QuestionOK(g, ask(a, n, t))
  <2>1. HopsTo(g, a.node, n) \in Nat
    BY <1>6, HopsOK
  <2>2. Reach(a.seen, window) \in Int
    <3>1. {a.seen, window.start} \in SUBSET Int /\ IsFiniteSet({a.seen, window.start}) /\ {a.seen, window.start} # {}
      <4>1. {a.seen, window.start} = {a.seen} \cup {window.start}
        OBVIOUS
      <4>2. IsFiniteSet({a.seen} \cup {window.start})
        BY FS_Singleton, FS_Union
      <4>3. a.seen \in Int
        BY <1>1
      <4> QED
        BY <4>1, <4>2, <4>3
    <3>2. Min({a.seen, window.start}) \in Int
      BY <3>1, MinOf
    <3> QED
      BY <3>2, InvestigationAssumption DEF Reach
  <2> HIDE DEF A
  <2> QED
    BY <2>1, <2>2 DEF QuestionOK, QuestionFields
<1> HIDE DEF C, A, ask
<1>7. \A q \in C : QuestionOK(g, q)
  BY <1>2, <1>6
<1> QED
  BY <1>5, <1>7 DEF C

\* What the orchestrator picks from: the nearest of what has a distance.
HopsKnown(Q) == IsFiniteSet(Q) /\ \A q \in Q : q.hops \in Nat
LEMMA NearestOK == ASSUME NEW Q, HopsKnown(Q)
  PROVE  /\ NearestOf(Q) \in SUBSET Q /\ IsFiniteSet(NearestOf(Q))
         /\ NearestOf(Q) = Q \/ Cardinality(NearestOf(Q)) = MaxQuestions
<1> DEFINE R == {p \in Q \X Q : p[1].hops < p[2].hops}
<1>1. \A x, y \in Q : x.hops \in Nat /\ y.hops \in Nat /\ (<<x, y>> \in R <=> x.hops < y.hops)
  BY DEF HopsKnown
<1>2. NearestOf(Q) = Foremost(Q, MaxQuestions, R)
  BY DEF NearestOf
<1> HIDE DEF R
<1>3. Orders(R, Q)
  BY <1>1 DEF Orders
<1>4. NearestOf(Q) \in SUBSET Q
  BY <1>2, <1>3, ForemostCut, InvestigationAssumption DEF HopsKnown
<1>5. NearestOf(Q) = Q \/ Cardinality(NearestOf(Q)) = MaxQuestions
  <2>1. Cardinality(Q) \in Nat /\ MaxQuestions \in Nat
    BY FS_CardinalityType, InvestigationAssumption DEF HopsKnown
  <2>2. /\ Cardinality(Q) <= MaxQuestions => Foremost(Q, MaxQuestions, R) = Q
        /\ Cardinality(Q) > MaxQuestions => Cut(Foremost(Q, MaxQuestions, R), Q, MaxQuestions, R)
    BY <1>3, <2>1, ForemostCut DEF HopsKnown
  <2> QED
    BY <1>2, <2>1, <2>2 DEF Cut
<1> QED
  BY <1>4, <1>5, FS_Subset DEF HopsKnown

(* A plan is of questions an agent may ask, one for each target and entity, and *)
(* of all of these unless it is as long as a plan may be.                     *)
LEMMA PlanIs ==
  ASSUME NEW g, GraphOK(g), NEW d \in Domains, NEW finding, RowsOK(finding.rows), NEW leadsOf, LeadsOK(leadsOf),
         NEW alarm, IsFiniteSet(alarm), NEW peers, NEW window, window.start \in Int, window.end \in Int, NEW before
  PROVE  LET P == PlanRequests(d, finding, leadsOf, alarm, peers, g, window, before)
             C == Candidates(d, finding, leadsOf, alarm, peers, g, window, before)
         IN /\ P \in SUBSET C /\ IsFiniteSet(P) /\ \A q \in P : QuestionOK(g, q)
            /\ \A q, r \in P : q.target = r.target /\ q.node = r.node => q = r
            /\ \/ Cardinality(P) = MaxQuestions
               \/ \A q \in C : \E r \in P : r.target = q.target /\ r.node = q.node
<1> DEFINE C == Candidates(d, finding, leadsOf, alarm, peers, g, window, before)
           same(q) == {r \in C : r.target = q.target /\ r.node = q.node}
           first(q) == CHOOSE r \in same(q) : \A t \in same(q) : r.hops <= t.hops
           best == {first(q) : q \in C}
<1>1. IsFiniteSet(C) /\ \A q \in C : QuestionOK(g, q)
  BY CandidatesOK
<1>2. PlanRequests(d, finding, leadsOf, alarm, peers, g, window, before) = NearestOf(best)
  BY DEF PlanRequests
<1> HIDE DEF C
<1>3. ASSUME NEW q \in C PROVE first(q) \in C /\ first(q).target = q.target /\ first(q).node = q.node
  <2> DEFINE hops == {r.hops : r \in same(q)}
  <2>1. hops \subseteq Nat /\ hops # {}
    BY <1>1, <1>3 DEF QuestionOK
  <2>2. PICK m \in hops : \A k \in hops : <<k, m>> \notin OpToRel(<, Nat)
    <3> HIDE DEF hops
    <3> QED
      BY <2>1, WFMin, NatLessThanWellFounded
  <2>3. ASSUME NEW k \in hops PROVE m <= k
    <3> HIDE DEF hops
    <3>1. k \in Nat /\ m \in Nat /\ <<k, m>> \notin OpToRel(<, Nat)
      BY <2>1, <2>2
    <3> QED
      BY <3>1 DEF OpToRel
  <2>4. PICK r \in same(q) : r.hops = m
    OBVIOUS
  <2>5. \A t \in same(q) : r.hops <= t.hops
    BY <2>3, <2>4
  <2>6. first(q) \in same(q)
    <3> HIDE DEF same
    <3> QED
      BY <2>4, <2>5
  <2> QED
    BY <2>6
<1>4. best \in SUBSET C
  <2> HIDE DEF first
  <2> QED
    BY <1>3
<1>5. ASSUME NEW q \in best, NEW r \in best, q.target = r.target, q.node = r.node PROVE q = r
  <2>1. PICK x \in C : q = first(x)
    OBVIOUS
  <2>2. PICK y \in C : r = first(y)
    OBVIOUS
  <2>3. x.target = y.target /\ x.node = y.node
    <3> HIDE DEF first
    <3> QED
      BY <1>3, <1>5, <2>1, <2>2
  <2>4. same(x) = same(y)
    BY <2>3
  <2>5. first(x) = first(y)
    <3> HIDE DEF same
    <3> QED
      BY <2>4
  <2> QED
    BY <2>1, <2>2, <2>5
<1>6. \A q \in C : \E r \in best : r.target = q.target /\ r.node = q.node
  <2> HIDE DEF first
  <2> QED
    BY <1>3
<1> HIDE DEF best
<1>7. HopsKnown(best)
  BY <1>1, <1>4, FS_Subset DEF HopsKnown, QuestionOK
<1>8. /\ NearestOf(best) \in SUBSET best /\ IsFiniteSet(NearestOf(best))
      /\ NearestOf(best) = best \/ Cardinality(NearestOf(best)) = MaxQuestions
  BY <1>7, NearestOK
<1> DEFINE P == NearestOf(best)
<1> HIDE DEF P
<1>9. /\ P \in SUBSET best /\ IsFiniteSet(P) /\ (P = best \/ Cardinality(P) = MaxQuestions)
  BY <1>8 DEF P
<1>10. /\ P \in SUBSET C /\ IsFiniteSet(P) /\ \A q \in P : QuestionOK(g, q)
       /\ \A q, r \in P : q.target = r.target /\ q.node = r.node => q = r
       /\ \/ Cardinality(P) = MaxQuestions
          \/ \A q \in C : \E r \in P : r.target = q.target /\ r.node = q.node
  BY <1>1, <1>4, <1>5, <1>6, <1>9
<1> QED
  BY <1>2, <1>10 DEF P, C

LEMMA PlanOK ==
  ASSUME NEW g, GraphOK(g), NEW d \in Domains, NEW finding, RowsOK(finding.rows), NEW leadsOf, LeadsOK(leadsOf),
         NEW alarm, IsFiniteSet(alarm), NEW peers, NEW window, window.start \in Int, window.end \in Int, NEW before
  PROVE  LET P == PlanRequests(d, finding, leadsOf, alarm, peers, g, window, before)
         IN IsFiniteSet(P) /\ \A q \in P : QuestionOK(g, q)
BY PlanIs

-----------------------------------------------------------------------------
(* Reads and answers                                                       *)

WorldOK == GraphOK(world.graph) /\ SamplesOK(world.samples) /\ IsFiniteSet(world.alarm)

LEMMA ReadOK ==
  ASSUME WorldOK, NEW d, NEW kind, NEW names, NEW start, NEW end, NEW span
  PROVE  LET read == Read(d, kind, names, start, end, span)
         IN read.samples \in SUBSET world.samples /\ SamplesOK(read.samples)
<1>1. Read(d, kind, names, start, end, span).samples \in SUBSET world.samples
  BY DEF Read
<1> QED
  BY <1>1, SubsetOK DEF WorldOK

LEMMA LaterOK == ASSUME WorldOK, NEW d PROVE SamplesOK(Later(d))
<1>1. CASE world.now - Window.end < MinLater
  BY <1>1, FS_EmptySet DEF Later, SamplesOK
<1>2. CASE ~(world.now - Window.end < MinLater)
  BY <1>2, ReadOK DEF Later
<1> QED
  BY <1>1, <1>2

LEMMA LeadsFound ==
  ASSUME NEW finding, RowsOK(finding.rows), NEW known
  PROVE  LeadsOK(FindLeads(finding, known))
<1> DEFINE of(r) == {[name |-> n, seen |-> r.first] : n \in r.names \cup {r.entity}}
           all == UNION {of(r) : r \in finding.rows}
<1>1. ASSUME NEW r \in finding.rows PROVE IsFiniteSet(of(r)) /\ \A l \in of(r) : l.seen \in Int
  <2> DEFINE N == r.names \cup {r.entity}
             f == [n \in N |-> [name |-> n, seen |-> r.first]]
  <2>1. IsFiniteSet(N)
    BY FS_Union, FS_Singleton DEF RowsOK, RowOK
  <2>2. IsFiniteSet({f[n] : n \in N})
    <3>1. DOMAIN f = N
      OBVIOUS
    <3> HIDE DEF f, N
    <3> QED
      BY <2>1, <3>1, ImageFinite
  <2>3. of(r) = {f[n] : n \in N}
    OBVIOUS
  <2>4. \A l \in of(r) : l.seen \in Int
    BY DEF RowsOK, RowOK
  <2> HIDE DEF of, f, N
  <2> QED
    BY <2>2, <2>3, <2>4
<1>2. IsFiniteSet({of(r) : r \in finding.rows})
  <2> DEFINE f == [r \in finding.rows |-> of(r)]
  <2>1. IsFiniteSet({f[r] : r \in finding.rows})
    <3>1. DOMAIN f = finding.rows
      OBVIOUS
    <3> HIDE DEF f
    <3> QED
      BY <3>1, ImageFinite DEF RowsOK
  <2> HIDE DEF of
  <2> QED
    BY <2>1
<1>3. IsFiniteSet(all)
  <2> HIDE DEF of
  <2> QED
    BY <1>1, <1>2, FS_UNION
<1>4. FindLeads(finding, known) \in SUBSET all
  BY DEF FindLeads
<1>5. \A l \in all : l.seen \in Int
  <2> HIDE DEF of
  <2> QED
    BY <1>1
<1> HIDE DEF all
<1> QED
  BY <1>3, <1>4, <1>5, FS_Subset DEF LeadsOK

(* What answers bring is added to what is known, and changes none of it.     *)
LEMMA AbsorbOK ==
  ASSUME NEW f, NEW S, FindingOK(f, S), NEW answered, IsFiniteSet(answered), \A a \in answered : RowsOK(a.rows)
  PROVE  FindingOK(Absorb(f, answered), S) /\ f.rows \subseteq Absorb(f, answered).rows
<1> DEFINE all == UNION {a.rows : a \in answered}
           new == {r \in all : RowKey(r) \notin {RowKey(t) : t \in f.rows}}
           kept == {CHOOSE r \in new : RowKey(r) = k : k \in {RowKey(t) : t \in new}}
           via(r) == IF r.via = "rule" THEN [r EXCEPT !.via = "validation"] ELSE r
           added == {via(r) : r \in kept}
           g == Absorb(f, answered)
<1>1. RowsOK(all)
  <2> DEFINE h == [a \in answered |-> a.rows]
  <2>1. IsFiniteSet({h[a] : a \in answered})
    <3>1. DOMAIN h = answered
      OBVIOUS
    <3> HIDE DEF h
    <3> QED
      BY <3>1, ImageFinite
  <2>2. IsFiniteSet({a.rows : a \in answered})
    BY <2>1
  <2>3. IsFiniteSet(UNION {a.rows : a \in answered})
    BY <2>2, FS_UNION DEF RowsOK
  <2> QED
    BY <2>3 DEF RowsOK
<1>2. kept \in SUBSET all
  <2> HIDE DEF all
  <2>1. ASSUME NEW t \in new PROVE (CHOOSE r \in new : RowKey(r) = RowKey(t)) \in new
    <3> HIDE DEF new
    <3> QED
      OBVIOUS
  <2> HIDE DEF new
  <2>2. kept \in SUBSET new
    BY <2>1
  <2> QED
    BY <2>2 DEF new
<1>3. RowsOK(added)
  <2> DEFINE h == [r \in kept |-> via(r)]
  <2>1. IsFiniteSet(kept) /\ \A r \in kept : RowOK(r)
    <3> HIDE DEF kept, all
    <3> QED
      BY <1>1, <1>2, FS_Subset DEF RowsOK
  <2> HIDE DEF kept
  <2>2. IsFiniteSet({h[r] : r \in kept})
    <3>1. DOMAIN h = kept
      OBVIOUS
    <3> HIDE DEF h
    <3> QED
      BY <2>1, <3>1, ImageFinite
  <2>3. added = {h[r] : r \in kept}
    OBVIOUS
  <2>4. ASSUME NEW r \in kept PROVE RowOK(via(r))
    BY <2>1 DEF RowOK
  <2> HIDE DEF h, via
  <2> QED
    BY <2>2, <2>3, <2>4 DEF RowsOK
<1>4. g = [f EXCEPT !.rows = @ \cup added, !.anomaly = @ \/ new # {}]
  BY Zenon DEF Absorb
<1> HIDE DEF added, new, g
<1>5. DOMAIN g = FindingFields /\ g.rows = f.rows \cup added /\ g.unclassified = f.unclassified
  BY <1>4 DEF FindingOK, FindingFields
<1>6. RowsOK(g.rows)
  BY <1>3, <1>5, FS_Union DEF FindingOK, RowsOK
<1>7. FindingOK(g, S) /\ f.rows \subseteq g.rows
  BY <1>5, <1>6 DEF FindingOK
<1> QED
  BY <1>7 DEF g

\* What RefutedIsTrue and HypothesisVerified say of one answer and one check.
RefutedRight(a) ==
  a.verdict = "refuted" =>
    \A s \in world.samples :
      (s.domain = a.q.target /\ a.q.start <= s.time /\ s.time <= a.q.end /\ Resolve(world.graph, s.entity) = a.q.node)
        => ~Wrong(s)
SupportedRight(c) ==
  c.verdict = "supported" =>
    LET now == Measured(c, c.h.start, c.h.end)
    IN /\ Fired(c.h, now) # {}
       /\ c.h.cited # {} /\ c.h.cited \subseteq {s.ref : s \in now}
       /\ (\E name \in world.alarm : Resolve(world.graph, name) # Unresolved) => Upstream(Resolve(world.graph, c.h.entity))
       /\ ~c.earlier.degraded => Fired(c.h, MeasuredBefore(c)) = {}

(* What is wrong fires whatever else was measured.                           *)
LEMMA WrongFires == ASSUME NEW s, Wrong(s), NEW ctx PROVE FiresOn(s, ctx)
<1> DEFINE rule == Catalog[s.signal].rule
           empty == [series |-> {}, baseline |-> {}]
<1>1. rule # NoRule /\ rule.type \in {"threshold", "state_equals", "event_presence"} /\ Fires(rule, s, empty)
  BY DEF Wrong
<1> HIDE DEF rule, empty
<1>2. \/ rule.type = "threshold" /\ Beyond(rule, s.value)
      \/ rule.type = "state_equals" /\ s.value = rule.value
      \/ rule.type = "event_presence" /\ s.signal \in rule.names /\ s.severity >= rule.severity
  BY <1>1 DEF Fires
<1>3. Fires(rule, s, ctx)
  BY <1>2 DEF Fires
<1> QED
  BY <1>1, <1>3 DEF FiresOn, rule

(* A scoped analysis sees what is wrong in its window, under every name.      *)
LEMMA WrongIsHit ==
  ASSUME WorldOK, NEW q, QuestionOK(world.graph, q), <<q.target, "scoped">> \notin world.unread,
         NEW s \in world.samples, s.domain = q.target, q.start <= s.time, s.time <= q.end,
         Resolve(world.graph, s.entity) = q.node, Wrong(s)
  PROVE  LET read == Read(q.target, "scoped", q.names, q.start, q.end, SpanOf(q.target))
         IN s \in HitsIn(ContextOf(q.target, read), TRUE)
<1> DEFINE read == Read(q.target, "scoped", q.names, q.start, q.end, SpanOf(q.target))
<1>1. Matches(s, q.names)
  <2>1. GraphOK(world.graph) /\ q.node \in NodesOf(world.graph) /\ q.node # Unresolved /\ q.names = Named(world.graph, q.node)
    BY NodesOK DEF WorldOK, QuestionOK
  <2>2. TypeOf[s.entity] = q.names.type /\ IdIn[s.entity] \in q.names.ids
    BY <2>1, ResolveOK
  <2> QED
    BY <2>2 DEF Matches
<1>2. q.start - SpanOf(q.target) <= s.time
  <2>1. q.start \in Int /\ s.time \in Int /\ SpanOf(q.target) \in Nat
    BY DiagnosisAssumption DEF WorldOK, QuestionOK, SamplesOK, SampleOK, SpanOf
  <2> QED
    BY <2>1
<1>3. s \in read.samples /\ read.start = q.start
  BY <1>1, <1>2 DEF Read
<1>4. s \in OfDomain(q.target, read.samples)
  BY <1>3 DEF Wrong, OfDomain
<1>5. s.time >= read.start
  BY <1>3 DEF WorldOK, QuestionOK, SamplesOK, SampleOK
<1> HIDE DEF read
<1>6. s \in ContextOf(q.target, read).series
  BY <1>4, <1>5 DEF ContextOf
<1>7. s \in HitsIn(ContextOf(q.target, read), TRUE)
  BY <1>6, WrongFires DEF HitsIn, Relevant
<1> QED
  BY <1>7 DEF read

LEMMA AnswerToOK ==
  ASSUME WorldOK, NEW q, QuestionOK(world.graph, q)
  PROVE  LET a == AnswerTo(q)
         IN /\ a.q = q /\ RowsOK(a.finding.rows) /\ a.finding.unclassified \subseteq world.samples
            /\ LeadsOK(a.leads) /\ RefutedRight(a)
<1> DEFINE read == Read(q.target, "scoped", q.names, q.start, q.end, SpanOf(q.target))
           f == FindingOf(q.target, read, {}, TRUE)
           hits == HitsIn(ContextOf(q.target, read), TRUE)
           a == AnswerTo(q)
<1>1. a.q = q /\ a.finding = f /\ a.verdict = Verdict(f) /\ \E known : a.leads = FindLeads(f, known)
  BY DEF AnswerTo
<1>2. read.samples \in SUBSET world.samples /\ SamplesOK(read.samples) /\ read.degraded = (<<q.target, "scoped">> \in world.unread)
  <2>1. read.samples \in SUBSET world.samples /\ SamplesOK(read.samples)
    BY ReadOK
  <2>2. read.degraded = (<<q.target, "scoped">> \in world.unread)
    BY DEF Read
  <2> QED
    BY <2>1, <2>2
<1>3. SamplesOK({})
  BY FS_EmptySet DEF SamplesOK
<1>4. /\ FindingOK(f, read.samples) /\ f.anomaly = (hits # {}) /\ f.degraded = read.degraded
      /\ hits # {} => f.rows # {}
  <2> DEFINE yes == TRUE
             g == FindingOf(q.target, read, {}, yes)
             fits == HitsIn(ContextOf(q.target, read), yes)
  <2>1. /\ FindingOK(g, read.samples) /\ g.anomaly = (fits # {}) /\ g.degraded = read.degraded
        /\ fits # {} => g.rows # {}
    <3> HIDE DEF read, yes
    <3> QED
      BY <1>2, <1>3, FindingOfOK
  <2> QED
    BY <2>1
<1>5. LeadsOK(a.leads)
  <2> HIDE DEF a, f
  <2> QED
    BY <1>1, <1>4, LeadsFound DEF FindingOK
<1>6. RefutedRight(a)
  <2>1. SUFFICES ASSUME a.verdict = "refuted", NEW s \in world.samples,
                        s.domain = q.target, q.start <= s.time, s.time <= q.end,
                        Resolve(world.graph, s.entity) = q.node, Wrong(s)
                 PROVE  FALSE
    <3> HIDE DEF a, f
    <3> QED
      BY <1>1 DEF RefutedRight
  <2>2. ~(f.degraded /\ ~f.anomaly) /\ ~(f.anomaly /\ f.rows # {})
    <3> HIDE DEF a, f
    <3> QED
      BY <1>1, <2>1 DEF Verdict
  <2>3. CASE <<q.target, "scoped">> \in world.unread
    <3>1. read.samples = {}
      BY <2>3 DEF Read
    <3>2. hits = {}
      BY <3>1 DEF HitsIn, ContextOf, OfDomain
    <3> HIDE DEF f, read, hits
    <3> QED
      BY <1>2, <1>4, <2>2, <2>3, <3>2
  <2>4. CASE <<q.target, "scoped">> \notin world.unread
    <3>1. s \in hits
      BY <2>1, <2>4, WrongIsHit
    <3> HIDE DEF f, read, hits
    <3> QED
      BY <1>4, <2>2, <3>1
  <2> QED
    BY <2>3, <2>4
<1>7. a.q = q /\ RowsOK(a.finding.rows) /\ a.finding.unclassified \subseteq world.samples
  <2> HIDE DEF a, f, read
  <2> QED
    BY <1>1, <1>2, <1>4 DEF FindingOK
<1> HIDE DEF a
<1> QED
  BY <1>5, <1>6, <1>7 DEF a

\* A request to an agent to check a hypothesis.
HypothesisOK(c) ==
  /\ "h" \in DOMAIN c /\ c.domain \in Domains /\ c.hops \in Nat
  /\ c.h.start \in Int /\ c.h.end \in Int

(* The rule of a hypothesis is judged on the samples of its signal only.      *)
LEMMA FiredOfMine == ASSUME NEW h, NEW S, NEW T, Mine(h, S) = Mine(h, T) PROVE Fired(h, S) = Fired(h, T)
BY DEF Fired

LEMMA ReadIsMeasured ==
  ASSUME WorldOK, NEW c, NEW kind, NEW start \in Int, NEW end, <<c.domain, kind>> \notin world.unread
  PROVE  Mine(c.h, Read(c.domain, kind, c.h.names, start, end, 0).samples) = Mine(c.h, Measured(c, start, end))
<1>1. start - 0 = start
  OBVIOUS
<1>2. Read(c.domain, kind, c.h.names, start, end, 0).samples =
        {s \in world.samples : s.domain = c.domain /\ start <= s.time /\ s.time <= end /\ Matches(s, c.h.names)}
  BY <1>1 DEF Read
<1> QED
  BY <1>2 DEF Mine, Measured

(* Where the alarm is known, what it is about is what causes are ranked against. *)
LEMMA PlacedUpstream ==
  ASSUME NEW h, NEW F, Placed(h, world.graph, F, world.alarm), \E name \in world.alarm : Resolve(world.graph, name) # Unresolved
  PROVE  Upstream(Resolve(world.graph, h.entity))
<1> DEFINE alarmed == {Resolve(world.graph, name) : name \in world.alarm} \ {Unresolved}
           node == Resolve(world.graph, h.entity)
<1>1. alarmed # {}
  OBVIOUS
<1>2. Targets(world.graph, F, world.alarm) = alarmed
  BY <1>1 DEF Targets
<1>3. PICK t \in alarmed : node = t \/ DependsOn(world.graph, t, node)
  BY <1>2 DEF Placed
<1>4. PICK name \in world.alarm : t = Resolve(world.graph, name) /\ t # Unresolved
  OBVIOUS
<1> HIDE DEF node, alarmed
<1> QED
  BY <1>3, <1>4 DEF Upstream, node

LEMMA CheckOfOK ==
  ASSUME WorldOK, NEW c, HypothesisOK(c)
  PROVE  LET v == CheckOf(c) IN RowsOK(v.rows) /\ SupportedRight(v)
<1> DEFINE before == WindowBefore(c.h)
           now == Read(c.domain, "scoped", c.h.names, c.h.start, c.h.end, 0)
           earlier == Read(c.domain, "earlier", c.h.names, before.start, before.end, 0)
           checks == Checks(c.h, now, earlier, world.graph, findings, world.alarm)
           v == CheckOf(c)
<1>1. /\ v.domain = c.domain /\ v.h = c.h /\ v.earlier = earlier
      /\ v.verdict = HypothesisVerdict(checks, now, earlier)
      /\ v.rows = IF Passed(checks) THEN {HypothesisRow(c.h, now)} ELSE {}
  BY DEF CheckOf
<1>2. v.verdict = "supported" => Passed(checks)
  <2> HIDE DEF v, checks, now, earlier
  <2> QED
    BY <1>1 DEF HypothesisVerdict
<1>3. Passed(checks) => /\ c.h.cited # {} /\ c.h.cited \subseteq {s.ref : s \in Mine(c.h, now.samples)}
                        /\ Fired(c.h, now.samples) # {} /\ Fired(c.h, earlier.samples) = {}
                        /\ Placed(c.h, world.graph, findings, world.alarm)
  <2> HIDE DEF now, earlier
  <2> QED
    BY DEF Passed, Checks
<1>4. /\ before.start = (c.h.start - Lookback) - (c.h.end - c.h.start)
      /\ before.end = c.h.start - Lookback /\ before.start \in Int
  BY InvestigationAssumption DEF WindowBefore, HypothesisOK
<1>5. now.samples \in SUBSET world.samples /\ SamplesOK(now.samples)
  BY ReadOK
<1>6. RowsOK(v.rows)
  <2>1. CASE ~Passed(checks)
    <3> HIDE DEF v, checks, now, earlier
    <3> QED
      BY <1>1, <2>1, FS_EmptySet DEF RowsOK
  <2>2. CASE Passed(checks)
    <3> DEFINE hits == Fired(c.h, now.samples)
               r == HypothesisRow(c.h, now)
    <3>1. hits \in SUBSET now.samples
      BY DEF Fired, Mine
    <3>2. SamplesOK(hits) /\ hits # {}
      <4> HIDE DEF hits, now, checks
      <4>1. SamplesOK(hits)
        BY <1>5, <3>1, SubsetOK
      <4> QED
        BY <1>3, <2>2, <4>1 DEF hits
    <3>3. Min({s.time : s \in hits}) \in Int /\ Max({s.severity : s \in hits}) \in 1 .. 5
      <4> HIDE DEF hits
      <4> QED
        BY <3>2, FirstAndWorst
    <3>4. /\ r.severity = Max({s.severity : s \in hits}) /\ r.first = Min({s.time : s \in hits})
          /\ r.onset = Min({s.time : s \in hits}) /\ r.role = NoRole /\ r.signals = {c.h.signal} /\ r.names = {}
      <4> HIDE DEF hits, now
      <4> QED
        BY DEF HypothesisRow, hits
    <3> HIDE DEF hits, r
    <3>5. RowOK(r)
      <4>1. IsFiniteSet(r.signals) /\ r.signals # {} /\ IsFiniteSet(r.names)
        <5>1. IsFiniteSet({c.h.signal}) /\ {c.h.signal} # {}
          BY FS_Singleton
        <5>2. IsFiniteSet({})
          BY FS_EmptySet
        <5> QED
          BY <3>4, <5>1, <5>2
      <4> QED
        BY <3>3, <3>4, <4>1 DEF RowOK, Roles
    <3>6. v.rows = {r}
      <4> HIDE DEF v, checks
      <4> QED
        BY <1>1, <2>2 DEF r
    <3> HIDE DEF v
    <3> QED
      BY <3>5, <3>6, FS_Singleton DEF RowsOK
  <2> QED
    BY <2>1, <2>2
<1>7. ASSUME v.verdict = "supported"
      PROVE  LET mine == Measured(v, v.h.start, v.h.end)
             IN /\ Fired(v.h, mine) # {}
                /\ v.h.cited # {} /\ v.h.cited \subseteq {s.ref : s \in mine}
                /\ (\E name \in world.alarm : Resolve(world.graph, name) # Unresolved) => Upstream(Resolve(world.graph, v.h.entity))
                /\ ~v.earlier.degraded => Fired(v.h, MeasuredBefore(v)) = {}
  <2> DEFINE mine == Measured(c, c.h.start, c.h.end)
  <2>1. Passed(checks)
    BY <1>2, <1>7
  <2>2. /\ c.h.cited # {} /\ c.h.cited \subseteq {s.ref : s \in Mine(c.h, now.samples)}
        /\ Fired(c.h, now.samples) # {} /\ Fired(c.h, earlier.samples) = {}
        /\ Placed(c.h, world.graph, findings, world.alarm)
    BY <1>3, <2>1
  <2>3. <<c.domain, "scoped">> \notin world.unread
    <3>1. now.samples # {}
      <4> HIDE DEF now, earlier
      <4> QED
        BY <2>2 DEF Fired, Mine
    <3> QED
      BY <3>1 DEF Read
  <2>4. Mine(c.h, now.samples) = Mine(c.h, mine) /\ Fired(c.h, now.samples) = Fired(c.h, mine)
    <3>1. Mine(c.h, now.samples) = Mine(c.h, mine)
      BY <2>3, ReadIsMeasured DEF HypothesisOK
    <3> HIDE DEF now, mine
    <3> QED
      BY <3>1, FiredOfMine
  <2>5. ASSUME ~earlier.degraded PROVE Fired(c.h, MeasuredBefore(c)) = {}
    <3>1. <<c.domain, "earlier">> \notin world.unread
      BY <2>5 DEF Read
    <3>2. MeasuredBefore(c) = Measured(c, before.start, before.end)
      <4> HIDE DEF before
      <4> QED
        BY <1>4 DEF MeasuredBefore
    <3>3. Mine(c.h, earlier.samples) = Mine(c.h, MeasuredBefore(c))
      <4> HIDE DEF before
      <4> QED
        BY <1>4, <3>1, <3>2, ReadIsMeasured
    <3> HIDE DEF earlier, now
    <3> QED
      BY <2>2, <3>3, FiredOfMine
  <2>6. (\E name \in world.alarm : Resolve(world.graph, name) # Unresolved) => Upstream(Resolve(world.graph, c.h.entity))
    <3> HIDE DEF now, earlier
    <3> QED
      BY <2>2, PlacedUpstream
  <2>7. {s.ref : s \in Mine(c.h, now.samples)} \subseteq {s.ref : s \in mine}
    <3>1. Mine(c.h, mine) \subseteq mine
      BY DEF Mine
    <3> HIDE DEF now, mine
    <3> QED
      BY <2>4, <3>1
  <2>8. Measured(v, v.h.start, v.h.end) = mine /\ MeasuredBefore(v) = MeasuredBefore(c)
    <3> HIDE DEF v, earlier
    <3> QED
      BY <1>1 DEF Measured, MeasuredBefore
  <2> HIDE DEF v, now, earlier, mine
  <2> QED
    BY <1>1, <2>2, <2>4, <2>5, <2>6, <2>7, <2>8
<1> HIDE DEF v
<1>8. SupportedRight(v)
  BY <1>7 DEF SupportedRight
<1> QED
  BY <1>6, <1>8 DEF v

-----------------------------------------------------------------------------
(* The invariant                                                           *)

\* What an agent's sweep leaves it with.
Kept(d) == RowsOf(d, ContextOf(d, SweepOf(d)), OfDomain(d, Later(d)), SweepHits(d))

TypeOK ==
  /\ stage \in {"sweep", "ask", "answer", "done"} /\ WorldOK
  /\ stage # "sweep" => DOMAIN findings = Domains /\ \A d \in Domains : FindingOK(findings[d], world.samples)
  /\ \A d \in Domains : LeadsOK(leads[d]) /\ material[d] \subseteq world.samples
  /\ IsFiniteSet(questions) /\ \A q \in questions : QuestionOK(world.graph, q)
  /\ IsFiniteSet(hypotheses) /\ \A c \in hypotheses : HypothesisOK(c)
SweepKept == stage # "sweep" => \A d \in Domains : Kept(d) \subseteq findings[d].rows
RankedLast == ranking = IF stage = "done" THEN RankCauses(world.graph, findings, world.alarm) ELSE {}
HistoryRight == (\A a \in answers : RefutedRight(a)) /\ \A c \in checked : SupportedRight(c)

(* The inductive invariant.                                                 *)
Inv == TypeOK /\ SweepKept /\ RankedLast /\ HistoryRight

(* Every world there is has a finite telemetry of a well-formed topology.     *)
LEMMA InitInv == Init => Inv
<1> SUFFICES ASSUME Init PROVE Inv
  OBVIOUS
<1>1. WorldOK
  <2>1. PICK f \in Families : \E g \in f.graphs, s \in f.samples, a \in f.alarms, u \in f.unreads, now \in f.nows :
               world = [graph |-> g, samples |-> s, alarm |-> a, unread |-> u, now |-> now]
    BY DEF Init
  <2>2. world.graph \in f.graphs /\ world.samples \in f.samples /\ world.alarm \in f.alarms
    BY <2>1
  <2> QED
    BY <2>1, <2>2, WorldsAssumption DEF WorldOK, GraphOK, SamplesOK, SampleOK
<1>2. TypeOK
  BY <1>1, FS_EmptySet DEF Init, TypeOK, LeadsOK
<1> QED
  BY <1>2 DEF Init, Inv, SweepKept, RankedLast, HistoryRight

(* What was found out stays so: the world does not change.                   *)
LEMMA SameWorld ==
  ASSUME world' = world
  PROVE  /\ \A a : RefutedRight(a)' <=> RefutedRight(a)
         /\ \A c : SupportedRight(c)' <=> SupportedRight(c)
         /\ \A d : Kept(d)' = Kept(d)
         /\ WorldOK' <=> WorldOK
<1>1. ASSUME NEW a PROVE RefutedRight(a)' <=> RefutedRight(a)
  BY DEF RefutedRight
<1>2. ASSUME NEW c PROVE SupportedRight(c)' <=> SupportedRight(c)
  BY DEF SupportedRight, Measured, MeasuredBefore, Upstream
<1>3. ASSUME NEW d PROVE Kept(d)' = Kept(d)
  BY DEF Kept, SweepHits, SweepOf, Later, Read
<1>4. WorldOK' <=> WorldOK
  BY DEF WorldOK
<1> QED
  BY <1>1, <1>2, <1>3, <1>4

LEMMA AnalyzeInv == ASSUME Inv, Analyze PROVE Inv'
<1> DEFINE found(d) == FindingOf(d, SweepOf(d), Later(d), FALSE)
<1>1. stage = "sweep" /\ UNCHANGED <<world, questions, hypotheses, answers, checked, leads, material>>
  BY DEF Analyze, session
<1>2. findings' = [d \in Domains |-> found(d)]
  BY DEF Analyze, SweepOf
<1>3. WorldOK
  BY DEF Inv, TypeOK
<1>4. ASSUME NEW d \in Domains PROVE FindingOK(found(d), world.samples) /\ found(d).rows = Kept(d)
  <2> DEFINE no == FALSE
             f == FindingOf(d, SweepOf(d), Later(d), no)
  <2>1. SweepOf(d).samples \in SUBSET world.samples /\ SamplesOK(SweepOf(d).samples) /\ SamplesOK(Later(d))
    BY <1>3, ReadOK, LaterOK DEF SweepOf
  <2>2. FindingOK(f, SweepOf(d).samples)
        /\ f.rows = RowsOf(d, ContextOf(d, SweepOf(d)), OfDomain(d, Later(d)), HitsIn(ContextOf(d, SweepOf(d)), no))
    <3> HIDE DEF no
    <3> QED
      BY <2>1, FindingOfOK
  <2>3. f.rows = Kept(d)
    BY <2>2 DEF Kept, SweepHits
  <2> HIDE DEF f
  <2>4. FindingOK(f, world.samples)
    BY <2>1, <2>2 DEF FindingOK
  <2> QED
    BY <2>3, <2>4 DEF f
<1>5. (stage' = "done" /\ ranking' = RankCauses(world.graph, findings', world.alarm)) \/ (stage' = "ask" /\ ranking' = ranking)
  BY DEF Analyze, Conclude
<1> HIDE DEF found
<1>6. TypeOK'
  BY <1>1, <1>2, <1>3, <1>4, <1>5, SameWorld DEF Inv, TypeOK
<1>7. SweepKept'
  BY <1>1, <1>2, <1>4, SameWorld DEF SweepKept
<1>8. RankedLast'
  BY <1>1, <1>5 DEF Inv, RankedLast
<1>9. HistoryRight'
  BY <1>1, SameWorld DEF Inv, HistoryRight
<1> QED
  BY <1>6, <1>7, <1>8, <1>9 DEF Inv

(* The hypotheses an agent may want checked.                                 *)
LEMMA TriageOK ==
  ASSUME Inv, stage # "sweep", NEW d \in Domains
  PROVE  IsFiniteSet(Triage(d)) /\ \A c \in Triage(d) : HypothesisOK(c)
<1> DEFINE P == {p \in Proposals : Valid(p, Fresh(d))}
           request(p) == [domain |-> d, hops |-> 0, h |-> Request(p, Fresh(d), world.graph, Window)]
           f == [p \in P |-> request(p)]
<1>1. SamplesOK(Fresh(d))
  <2>1. Fresh(d) \in SUBSET world.samples
    BY DEF Fresh, Inv, TypeOK, FindingOK
  <2> QED
    BY <2>1, SubsetOK DEF Inv, TypeOK, WorldOK
<1>2. ASSUME NEW p \in P PROVE HypothesisOK(request(p))
  <2> DEFINE rows == RowsCited(p, Fresh(d))
             times == {s.time : s \in rows}
             since == {Window.start} \cup times
             h == Request(p, Fresh(d), world.graph, Window)
  <2>1. SamplesOK(rows)
    <3>1. rows \in SUBSET Fresh(d)
      BY DEF RowsCited
    <3> HIDE DEF rows
    <3> QED
      BY <1>1, <3>1, SubsetOK
  <2>2. times \in SUBSET Int /\ IsFiniteSet(times)
    <3> HIDE DEF rows
    <3> QED
      BY <2>1, Measures
  <2>3. since \in SUBSET Int /\ IsFiniteSet(since) /\ since # {}
    <3> HIDE DEF times
    <3>1. IsFiniteSet({Window.start})
      BY FS_Singleton
    <3> QED
      BY <2>2, <3>1, FS_Union, DiagnosisAssumption
  <2>4. Min(since) \in Int
    <3> HIDE DEF since
    <3> QED
      BY <2>3, MinOf
  <2>5. h.start = Min(since) /\ h.end = Window.end
    BY DEF Request
  <2> HIDE DEF since, h
  <2>6. h.start \in Int /\ h.end \in Int
    BY <2>4, <2>5, DiagnosisAssumption
  <2>7. request(p).h = h /\ request(p).domain = d /\ request(p).hops = 0 /\ "h" \in DOMAIN request(p)
    BY DEF h
  <2> HIDE DEF request
  <2> QED
    BY <2>6, <2>7 DEF HypothesisOK
<1>3. Triage(d) = {f[p] : p \in P}
  <2>1. Triage(d) = {request(p) : p \in P}
    BY DEF Triage
  <2> HIDE DEF request, P
  <2> QED
    BY <2>1
<1>4. IsFiniteSet(P) /\ DOMAIN f = P
  BY FS_Subset, DiagnosisAssumption
<1>5. IsFiniteSet(Triage(d))
  <2> HIDE DEF f, P
  <2> QED
    BY <1>3, <1>4, ImageFinite
<1>6. \A c \in Triage(d) : HypothesisOK(c)
  <2> HIDE DEF request, P
  <2> QED
    BY <1>2, <1>3
<1> QED
  BY <1>5, <1>6

LEMMA DomainUnion ==
  ASSUME NEW f, DOMAIN f = Domains, \A d \in Domains : IsFiniteSet(f[d])
  PROVE  IsFiniteSet(UNION {f[d] : d \in Domains})
<1>1. IsFiniteSet({f[d] : d \in Domains})
  BY ImageFinite, InvestigationAssumption DEF Domains
<1> QED
  BY <1>1, FS_UNION

(* The questions of a round, and the hypotheses the LLMs may add.             *)
LEMMA RequestsOK ==
  ASSUME Inv, stage # "sweep"
  PROVE  /\ IsFiniteSet(Planned) /\ \A q \in Planned : QuestionOK(world.graph, q)
         /\ IsFiniteSet(UNION {Triage(d) : d \in Domains})
         /\ \A c \in UNION {Triage(d) : d \in Domains} : HypothesisOK(c)
<1> DEFINE plan(d) == PlanRequests(d, findings[d], leads[d], world.alarm, findings, world.graph, Window, asked)
           plans == [d \in Domains |-> plan(d)]
           triages == [d \in Domains |-> Triage(d)]
<1>1. ASSUME NEW d \in Domains PROVE IsFiniteSet(plan(d)) /\ \A q \in plan(d) : QuestionOK(world.graph, q)
  <2>1. GraphOK(world.graph) /\ RowsOK(findings[d].rows) /\ LeadsOK(leads[d]) /\ IsFiniteSet(world.alarm)
        /\ Window.start \in Int /\ Window.end \in Int
    BY DiagnosisAssumption DEF Inv, TypeOK, WorldOK, FindingOK
  <2> QED
    BY <2>1, PlanOK
<1>2. IsFiniteSet(UNION {plans[d] : d \in Domains})
  <2>1. DOMAIN plans = Domains /\ \A d \in Domains : IsFiniteSet(plans[d])
    BY <1>1
  <2> HIDE DEF plans
  <2> QED
    BY <2>1, DomainUnion
<1>3. Planned = UNION {plans[d] : d \in Domains}
  <2>1. Planned = UNION {plan(d) : d \in Domains}
    BY DEF Planned
  <2> HIDE DEF plan
  <2> QED
    BY <2>1
<1>4. \A q \in Planned : QuestionOK(world.graph, q)
  <2>1. \A d \in Domains : plans[d] = plan(d)
    OBVIOUS
  <2> HIDE DEF plan, plans
  <2> QED
    BY <1>1, <1>3, <2>1
<1>5. IsFiniteSet(UNION {triages[d] : d \in Domains})
  <2>1. DOMAIN triages = Domains /\ \A d \in Domains : IsFiniteSet(triages[d])
    BY TriageOK
  <2> HIDE DEF triages
  <2> QED
    BY <2>1, DomainUnion
<1>6. IsFiniteSet(UNION {Triage(d) : d \in Domains})
  BY <1>5
<1>7. \A c \in UNION {Triage(d) : d \in Domains} : HypothesisOK(c)
  BY TriageOK
<1> HIDE DEF plans
<1> QED
  BY <1>2, <1>3, <1>4, <1>6, <1>7

(* The orchestrator adds nothing to what it is asked for.                     *)
LEMMA SelectedOK ==
  ASSUME NEW Q, HopsKnown(Q)
  PROVE  Selected(Q) \in SUBSET Q /\ IsFiniteSet(Selected(Q))
<1> DEFINE ids == {RequestId(r) : r \in Q} \ asked
           first(i) == CHOOSE r \in Q : RequestId(r) = i
           new == {first(i) : i \in ids}
<1>1. ASSUME NEW i \in ids PROVE first(i) \in Q
  OBVIOUS
<1>2. new \in SUBSET Q
  <2> HIDE DEF first, ids
  <2> QED
    BY <1>1
<1>3. Selected(Q) = NearestOf(new)
  BY DEF Selected
<1> HIDE DEF new
<1>4. HopsKnown(new)
  BY <1>2, FS_Subset DEF HopsKnown
<1> QED
  BY <1>2, <1>3, <1>4, NearestOK

LEMMA AskInv == ASSUME Inv, Ask PROVE Inv'
<1>1. stage = "ask" /\ stage' = "answer" /\ UNCHANGED <<world, findings, answers, checked, ranking>>
      /\ leads' = [d \in Domains |-> {}] /\ material' = [d \in Domains |-> {}]
  BY DEF Ask
<1>2. PICK H \in SUBSET UNION {Triage(d) : d \in Domains} :
             /\ hypotheses' = {r \in Selected(Planned \cup H) : IsHypothesis(r)}
             /\ questions' = Selected(Planned \cup H) \ hypotheses'
  BY DEF Ask
<1>3. /\ IsFiniteSet(Planned) /\ \A q \in Planned : QuestionOK(world.graph, q)
      /\ IsFiniteSet(H) /\ \A c \in H : HypothesisOK(c)
  <2> DEFINE all == UNION {Triage(d) : d \in Domains}
  <2>1. /\ IsFiniteSet(Planned) /\ \A q \in Planned : QuestionOK(world.graph, q)
        /\ IsFiniteSet(all) /\ \A c \in all : HypothesisOK(c)
    BY <1>1, RequestsOK
  <2>2. H \in SUBSET all
    OBVIOUS
  <2> HIDE DEF all
  <2> QED
    BY <2>1, <2>2, FS_Subset
<1>4. HopsKnown(Planned \cup H)
  BY <1>3, FS_Union DEF HopsKnown, QuestionOK, HypothesisOK
<1>5. Selected(Planned \cup H) \in SUBSET (Planned \cup H) /\ IsFiniteSet(Selected(Planned \cup H))
  BY <1>4, SelectedOK
<1>6. IsFiniteSet(hypotheses') /\ IsFiniteSet(questions')
  <2>1. hypotheses' \in SUBSET Selected(Planned \cup H) /\ questions' \in SUBSET Selected(Planned \cup H)
    BY <1>2
  <2> QED
    BY <1>5, <2>1, FS_Subset
<1>7. \A q \in Planned : ~IsHypothesis(q)
  BY <1>3 DEF IsHypothesis, QuestionOK, QuestionFields
<1>8. \A c \in H : IsHypothesis(c)
  BY <1>3 DEF IsHypothesis, HypothesisOK
<1>9. (\A q \in questions' : QuestionOK(world.graph, q)) /\ \A c \in hypotheses' : HypothesisOK(c)
  BY <1>2, <1>3, <1>5, <1>7, <1>8
<1>10. TypeOK'
  <2>1. \A d \in Domains : LeadsOK(leads'[d]) /\ material'[d] \subseteq world.samples
    BY <1>1, FS_EmptySet DEF LeadsOK
  <2> QED
    BY <1>1, <1>6, <1>9, <2>1, SameWorld DEF Inv, TypeOK
<1>11. SweepKept'
  BY <1>1, SameWorld DEF Inv, SweepKept
<1>12. RankedLast' /\ HistoryRight'
  BY <1>1, SameWorld DEF Inv, RankedLast, HistoryRight
<1> QED
  BY <1>10, <1>11, <1>12 DEF Inv

LEMMA AnswerInv == ASSUME Inv, Answer PROVE Inv'
<1> DEFINE given == {AnswerTo(q) : q \in questions}
           verified == {CheckOf(c) : c \in hypotheses}
           answered(d) == {[rows |-> a.finding.rows] : a \in {b \in given : b.q.target = d /\ b.verdict = "supported"}}
           confirmed(d) == {[rows |-> c.rows] : c \in {v \in verified : v.domain = d /\ v.verdict = "supported"}}
           supported(d) == answered(d) \cup confirmed(d)
           told(d) == {b \in given : b.q.asker = d}
           heard(d) == {b \in given : b.q.target = d}
<1>1. stage = "answer" /\ UNCHANGED <<world, asked, questions, hypotheses>>
  BY DEF Answer
<1>2. /\ answers' = answers \cup given /\ checked' = checked \cup verified
      /\ leads' = [d \in Domains |-> leads[d] \cup UNION {a.leads : a \in told(d)}]
      /\ material' = [d \in Domains |-> material[d] \cup
                        IF LlmOn THEN UNION {a.finding.unclassified : a \in heard(d)} ELSE {}]
      /\ findings' = [d \in Domains |-> Absorb(findings[d], supported(d))]
  BY DEF Answer
<1>3. \/ stage' = "done" /\ ranking' = RankCauses(world.graph, findings', world.alarm)
      \/ stage' = "ask" /\ ranking' = ranking
  BY DEF Answer, Conclude
<1>4. WorldOK
  BY DEF Inv, TypeOK
<1>5. \A a \in given : /\ RowsOK(a.finding.rows) /\ a.finding.unclassified \subseteq world.samples
                       /\ LeadsOK(a.leads) /\ RefutedRight(a)
  <2>1. ASSUME NEW q \in questions
        PROVE  LET a == AnswerTo(q)
               IN /\ RowsOK(a.finding.rows) /\ a.finding.unclassified \subseteq world.samples
                  /\ LeadsOK(a.leads) /\ RefutedRight(a)
    <3>1. QuestionOK(world.graph, q)
      BY DEF Inv, TypeOK
    <3> QED
      BY <1>4, <3>1, AnswerToOK
  <2> QED
    BY <2>1
<1>6. \A v \in verified : RowsOK(v.rows) /\ SupportedRight(v)
  <2>1. ASSUME NEW c \in hypotheses PROVE RowsOK(CheckOf(c).rows) /\ SupportedRight(CheckOf(c))
    <3>1. HypothesisOK(c)
      BY DEF Inv, TypeOK
    <3> QED
      BY <1>4, <3>1, CheckOfOK
  <2> QED
    BY <2>1
<1>7. IsFiniteSet(given) /\ IsFiniteSet(verified)
  <2> DEFINE f == [q \in questions |-> AnswerTo(q)]
             g == [c \in hypotheses |-> CheckOf(c)]
  <2>1. DOMAIN f = questions /\ DOMAIN g = hypotheses /\ IsFiniteSet(questions) /\ IsFiniteSet(hypotheses)
    BY DEF Inv, TypeOK
  <2>2. given = {f[q] : q \in questions} /\ verified = {g[c] : c \in hypotheses}
    OBVIOUS
  <2> HIDE DEF f, g, given, verified
  <2> QED
    BY <2>1, <2>2, ImageFinite
<1> HIDE DEF given, verified
<1>8. ASSUME NEW d \in Domains
      PROVE  IsFiniteSet(supported(d)) /\ \A a \in supported(d) : RowsOK(a.rows)
  <2> DEFINE A == {b \in given : b.q.target = d /\ b.verdict = "supported"}
             B == {v \in verified : v.domain = d /\ v.verdict = "supported"}
             f == [a \in A |-> [rows |-> a.finding.rows]]
             g == [c \in B |-> [rows |-> c.rows]]
  <2>1. IsFiniteSet(A) /\ IsFiniteSet(B) /\ DOMAIN f = A /\ DOMAIN g = B
    <3>1. A \in SUBSET given /\ B \in SUBSET verified
      OBVIOUS
    <3>2. IsFiniteSet(A) /\ IsFiniteSet(B)
      <4> HIDE DEF A, B
      <4> QED
        BY <1>7, <3>1, FS_Subset
    <3> QED
      BY <3>2
  <2>2. answered(d) = {f[a] : a \in A} /\ confirmed(d) = {g[c] : c \in B}
    OBVIOUS
  <2>3. IsFiniteSet(answered(d)) /\ IsFiniteSet(confirmed(d))
    <3> HIDE DEF A, B, f, g, answered, confirmed
    <3> QED
      BY <2>1, <2>2, ImageFinite
  <2>4. (\A a \in answered(d) : RowsOK(a.rows)) /\ \A a \in confirmed(d) : RowsOK(a.rows)
    BY <1>5, <1>6
  <2> HIDE DEF answered, confirmed
  <2> QED
    BY <2>3, <2>4, FS_Union
<1> HIDE DEF supported
<1>9. ASSUME NEW d \in Domains
      PROVE  FindingOK(findings'[d], world.samples) /\ findings[d].rows \subseteq findings'[d].rows
  <2>1. FindingOK(findings[d], world.samples)
    BY <1>1 DEF Inv, TypeOK
  <2>2. FindingOK(Absorb(findings[d], supported(d)), world.samples)
        /\ findings[d].rows \subseteq Absorb(findings[d], supported(d)).rows
    BY <1>8, <2>1, AbsorbOK
  <2> QED
    BY <1>2, <2>2
<1>10. ASSUME NEW d \in Domains PROVE LeadsOK(leads'[d])
  <2> DEFINE T == told(d)
             new == UNION {a.leads : a \in T}
             f == [a \in T |-> a.leads]
  <2>1. T \in SUBSET given /\ IsFiniteSet(T)
    <3>1. T \in SUBSET given
      OBVIOUS
    <3> HIDE DEF T
    <3> QED
      BY <1>7, <3>1, FS_Subset
  <2> HIDE DEF T
  <2>2. IsFiniteSet({f[a] : a \in T})
    <3>1. DOMAIN f = T
      OBVIOUS
    <3> HIDE DEF f
    <3> QED
      BY <2>1, <3>1, ImageFinite
  <2>3. IsFiniteSet({a.leads : a \in T})
    BY <2>2
  <2>4. IsFiniteSet(new) /\ \A l \in new : l.seen \in Int
    BY <1>5, <2>1, <2>3, FS_UNION DEF LeadsOK
  <2>5. leads'[d] = leads[d] \cup new
    BY <1>2 DEF T
  <2> HIDE DEF new
  <2> QED
    BY <2>4, <2>5, FS_Union DEF Inv, TypeOK, LeadsOK
<1>11. ASSUME NEW d \in Domains PROVE material'[d] \subseteq world.samples
  <2>1. material[d] \subseteq world.samples
    BY DEF Inv, TypeOK
  <2> QED
    BY <1>2, <1>5, <2>1
<1>12. TypeOK'
  BY <1>1, <1>2, <1>3, <1>4, <1>9, <1>10, <1>11, SameWorld DEF Inv, TypeOK
<1>13. SweepKept'
  BY <1>1, <1>9, SameWorld DEF Inv, SweepKept
<1>14. RankedLast'
  BY <1>1, <1>3 DEF Inv, RankedLast
<1>15. HistoryRight'
  BY <1>1, <1>2, <1>5, <1>6, SameWorld DEF Inv, HistoryRight
<1> QED
  BY <1>12, <1>13, <1>14, <1>15 DEF Inv

LEMMA StutterInv == ASSUME Inv, UNCHANGED vars PROVE Inv'
<1>1. UNCHANGED <<stage, world, findings, questions, leads, material, hypotheses, answers, checked, ranking>>
  BY DEF vars, session
<1>2. TypeOK' /\ SweepKept'
  BY <1>1, SameWorld DEF Inv, TypeOK, SweepKept
<1>3. RankedLast' /\ HistoryRight'
  BY <1>1, SameWorld DEF Inv, RankedLast, HistoryRight
<1> QED
  BY <1>2, <1>3 DEF Inv

(* The invariant holds of every incident.                                    *)
THEOREM Invariance == Spec => []Inv
<1>1. Inv /\ [Next]_vars => Inv'
  BY AnalyzeInv, AskInv, AnswerInv, StutterInv DEF Next
<1> QED
  BY InitInv, <1>1, PTL DEF Spec

(* A refuted question is one with nothing to find (the verdict of the domain  *)
(* agent's answer), whatever telemetry could be read and whatever the entity   *)
(* is called.                                                               *)
THEOREM RefutedIsTrueAlways == Spec => []RefutedIsTrue
<1>1. Inv => RefutedIsTrue
  BY DEF Inv, HistoryRight, RefutedRight, RefutedIsTrue
<1> QED
  BY <1>1, Invariance, PTL

(* A hypothesis that check_hypothesis supports fires on telemetry that exists, *)
(* in its place, and not before.                                            *)
THEOREM HypothesisVerifiedAlways == Spec => []HypothesisVerified
<1>1. Inv => HypothesisVerified
  BY DEF Inv, HistoryRight, SupportedRight, HypothesisVerified
<1> QED
  BY <1>1, Invariance, PTL

-----------------------------------------------------------------------------
(* What survives the cut                                                   *)

(* A cause that a sweep finds is in the agent's evidence to the end, unless   *)
(* as many causes as it may keep are.                                        *)
LEMMA CauseKept ==
  ASSUME Inv, stage # "sweep", NEW d \in Domains, NEW s \in SweepHits(d),
         RoleOf({t.signal : t \in Observed(d, s, ContextOf(d, SweepOf(d))) \cap SweepHits(d)}) = "cause"
  PROVE  RowOn(d, s) # {} \/ Cardinality({r \in findings[d].rows : r.role = "cause"}) >= MaxEvidence
<1> DEFINE no == FALSE
           ctx == ContextOf(d, SweepOf(d))
           hits == HitsIn(ctx, no)
           after == OfDomain(d, Later(d))
           kept == RowsOf(d, ctx, after, hits)
           all == AllRows(d, ctx, after, hits)
           r == RowFor(d, s, ctx, after, hits)
           causes == {t \in findings[d].rows : t.role = "cause"}
<1>1. hits = SweepHits(d) /\ kept = Kept(d)
  BY DEF SweepHits, Kept
<1>2. SamplesOK(SweepOf(d).samples) /\ SamplesOK(Later(d))
  BY ReadOK, LaterOK DEF Inv, TypeOK, SweepOf
<1>3. SamplesOK(after)
  BY <1>2, SubsetOK DEF OfDomain
<1>4. SamplesOK(ctx.series) /\ hits \in SUBSET ctx.series
  <2> HIDE DEF no
  <2> QED
    BY <1>2, ContextSamples
<1>5. s \in hits /\ RoleOf({t.signal : t \in Observed(d, s, ctx) \cap hits}) = "cause"
  BY <1>1
<1> HIDE DEF ctx, hits, after
<1>6. r.entity = s.entity /\ s.ref \in r.refs /\ r.role = "cause"
  <2> HIDE DEF r
  <2>1. r.entity = s.entity /\ s.ref \in r.refs /\ r.role = RoleOf({t.signal : t \in Observed(d, s, ctx) \cap hits})
    BY <1>3, <1>4, <1>5, RowForOK DEF r
  <2> QED
    BY <1>5, <2>1
<1>7. r \in all
  <2>1. all = {RowFor(d, t, ctx, after, hits) : t \in hits}
    BY <1>3, <1>4, AllRowsOK
  <2> QED
    BY <1>5, <2>1
<1>8. RowsOK(kept) /\ (r \in kept \/ (Cardinality(kept) = MaxEvidence /\ \A t \in kept : t.role = "cause"))
  <2>1. /\ RowsOK(kept)
        /\ \A x \in all : x.role = "cause" => x \in kept \/ (Cardinality(kept) = MaxEvidence /\ \A t \in kept : t.role = "cause")
    BY <1>3, <1>4, RowsOfOK
  <2> HIDE DEF r, kept, all
  <2> QED
    BY <1>6, <1>7, <2>1
<1>9. kept \subseteq findings[d].rows /\ IsFiniteSet(findings[d].rows)
  <2> HIDE DEF kept
  <2> QED
    BY <1>1 DEF Inv, SweepKept, TypeOK, FindingOK, RowsOK
<1> HIDE DEF r, kept, all
<1>10. CASE r \in kept
  BY <1>6, <1>9, <1>10 DEF RowOn
<1>11. CASE Cardinality(kept) = MaxEvidence /\ \A t \in kept : t.role = "cause"
  <2>1. kept \in SUBSET causes
    BY <1>9, <1>11
  <2>2. causes \in SUBSET findings[d].rows
    OBVIOUS
  <2>3. Cardinality(causes) >= MaxEvidence
    <3> HIDE DEF causes
    <3>1. IsFiniteSet(causes)
      BY <1>9, <2>2, FS_Subset
    <3>2. Cardinality(kept) <= Cardinality(causes) /\ Cardinality(causes) \in Nat
      BY <2>1, <3>1, FS_Subset, FS_CardinalityType
    <3> QED
      BY <1>11, <3>2, DetectionAssumption
  <2> QED
    BY <2>3
<1> QED
  BY <1>8, <1>10, <1>11

(* No number of symptoms, however severe, crowds a cause out of the evidence  *)
(* that analyze_domain cuts (_evidence sorts causes first).                  *)
THEOREM CauseSurvivesAlways == Spec => []CauseSurvives
<1>1. ASSUME Inv PROVE CauseSurvives
  <2>1. ASSUME stage # "sweep", NEW d \in Domains, NEW s \in SweepHits(d),
               RoleOf({t.signal : t \in Observed(d, s, ContextOf(d, SweepOf(d))) \cap SweepHits(d)}) = "cause"
        PROVE  RowOn(d, s) # {} \/ Cardinality({r \in findings[d].rows : r.role = "cause"}) >= MaxEvidence
    BY <1>1, <2>1, CauseKept
  <2> QED
    BY <2>1 DEF CauseSurvives
<1> QED
  BY <1>1, Invariance, PTL

-----------------------------------------------------------------------------
(* Ranking                                                                 *)

LEMMA MinPair ==
  ASSUME NEW a \in Int, NEW b \in Int
  PROVE  Min({a, b}) = IF a <= b THEN a ELSE b
<1>1. PICK m \in {a, b} : \A y \in {a, b} : m <= y
  <2>1. CASE a <= b
    BY <2>1
  <2>2. CASE ~(a <= b)
    <3>1. b <= a
      BY <2>2
    <3> QED
      BY <3>1
  <2> QED
    BY <2>1, <2>2
<1>2. Min({a, b}) \in {a, b} /\ \A y \in {a, b} : Min({a, b}) <= y
  BY <1>1 DEF Min
<1> HIDE DEF Min
<1> QED
  BY <1>2

LEMMA Scaled ==
  ASSUME NEW w \in Nat, NEW a \in Int, NEW b \in Int, a <= b
  PROVE  w * a <= w * b
OBVIOUS

LEMMA PrecedenceOK ==
  ASSUME NEW began \in Int, NEW onset \in Int
  PROVE  /\ Precedence(began, onset) \in Int /\ Precedence(began, onset) <= 1000
         /\ onset - 5 <= began /\ began <= onset + 2 => Precedence(began, onset) = 1000
<1> DEFINE before == onset - began
<1>1. before \in Int
  OBVIOUS
<1>2. Precedence(began, onset) = IF before < -2 THEN 0 ELSE IF before <= 5 THEN 1000 ELSE 5000 \div before
  BY DEF Precedence
<1>3. onset - 5 <= began /\ began <= onset + 2 => ~(before < -2) /\ before <= 5
  OBVIOUS
<1> HIDE DEF before
<1>4. before > 5 => 5000 \div before \in Int /\ 5000 \div before <= 1000
  BY <1>1
<1> QED
  BY <1>1, <1>2, <1>3, <1>4

LEMMA LatestOK ==
  ASSUME NEW rows, RowsOK(rows), rows # {}
  PROVE  Latest(rows) \in Int
<1> DEFINE f == [r \in rows |-> r.onset]
           onsets == {r.onset : r \in rows}
<1>1. IsFiniteSet({f[r] : r \in rows})
  <2>1. DOMAIN f = rows
    OBVIOUS
  <2> HIDE DEF f
  <2> QED
    BY <2>1, ImageFinite DEF RowsOK
<1>2. IsFiniteSet(onsets) /\ onsets # {} /\ onsets \in SUBSET Int
  BY <1>1 DEF RowsOK, RowOK
<1>3. Latest(rows) = Max(onsets)
  BY DEF Latest
<1> HIDE DEF onsets
<1> QED
  BY <1>2, <1>3, MaxOf

(* The evidence of any entity weighs between a fifth, and a quarter of its     *)
(* confidence, and one.                                                     *)
LEMMA EvidenceOK ==
  ASSUME NEW c, c.domain \in Domains, RowsOK(c.rows), c.rows # {}
  PROVE  LET k == (5 * Confidence[c.domain]) \div 2
         IN k \in 0 .. 250 /\ Evidence(c) \in Int /\ Evidence(c) <= 1000 /\ Evidence(c) >= 200 + k
<1> DEFINE k == (5 * Confidence[c.domain]) \div 2
           severities == {r.severity : r \in c.rows}
           signals == UNION {r.signals : r \in c.rows}
           worst == Max(severities)
           n == Min({2, Cardinality(signals)})
           s == SeverityScore[worst] \div 2
           f == [r \in c.rows |-> r.severity]
           g == [r \in c.rows |-> r.signals]
<1>1. k \in 0 .. 250
  <2>1. Confidence[c.domain] \in 0 .. 100
    BY InvestigationAssumption DEF Domains
  <2> QED
    BY <2>1
<1>2. IsFiniteSet({f[r] : r \in c.rows}) /\ IsFiniteSet({g[r] : r \in c.rows})
  <2>1. DOMAIN f = c.rows /\ DOMAIN g = c.rows
    OBVIOUS
  <2> HIDE DEF f, g
  <2> QED
    BY <2>1, ImageFinite DEF RowsOK
<1>3. worst \in 1 .. 5
  <2>1. IsFiniteSet(severities) /\ severities # {} /\ severities \subseteq 1 .. 5
    BY <1>2 DEF RowsOK, RowOK
  <2> HIDE DEF severities
  <2>2. severities \in SUBSET Int
    BY <2>1
  <2> QED
    BY <2>1, <2>2, MaxOf
<1>4. s \in Int /\ s >= 50
  <2> HIDE DEF worst
  <2>1. worst \in {1, 2, 3, 4, 5}
    BY <1>3
  <2>2. SeverityScore[worst] \in {100, 250, 500, 750, 1000}
    BY <2>1 DEF SeverityScore
  <2> QED
    BY <2>2
<1>5. Cardinality(signals) \in Nat /\ Cardinality(signals) # 0
  <2>1. IsFiniteSet({r.signals : r \in c.rows}) /\ \A S \in {r.signals : r \in c.rows} : IsFiniteSet(S)
    BY <1>2 DEF RowsOK, RowOK
  <2>2. IsFiniteSet(signals)
    BY <2>1, FS_UNION
  <2>3. signals # {}
    <3>1. PICK r \in c.rows : r.signals # {}
      BY DEF RowsOK, RowOK
    <3> QED
      BY <3>1
  <2> HIDE DEF signals
  <2> QED
    BY <2>2, <2>3, FS_CardinalityType, FS_EmptySet
<1>6. n \in {1, 2}
  <2> HIDE DEF signals
  <2>1. n = IF 2 <= Cardinality(signals) THEN 2 ELSE Cardinality(signals)
    BY <1>5, MinPair
  <2> HIDE DEF n
  <2> QED
    BY <1>5, <2>1
<1> DEFINE sum == s + 150 * n + k
<1>7. Evidence(c) = Min({1000, sum})
  BY DEF Evidence
<1> HIDE DEF s, n, k
<1>8. sum \in Int /\ sum >= 200 + k /\ 200 + k <= 1000 /\ k \in Int
  BY <1>1, <1>4, <1>6
<1> HIDE DEF sum
<1>9. Evidence(c) = IF 1000 <= sum THEN 1000 ELSE sum
  BY <1>7, <1>8, MinPair
<1>10. k \in 0 .. 250 /\ Evidence(c) \in Int /\ Evidence(c) <= 1000 /\ Evidence(c) >= 200 + k
  BY <1>1, <1>8, <1>9
<1> QED
  BY <1>10 DEF k

(* A ranking has the groups of the evidence, judged against its own onset.    *)
LEMMA RankingOf ==
  ASSUME Inv, stage = "done"
  PROVE  LET targets == Targets(world.graph, findings, world.alarm)
             onset == Began(ranking, targets)
         IN /\ \A c \in ranking :
                 /\ c.domain \in Domains /\ c.rows # {} /\ c.rows \subseteq findings[c.domain].rows
                 /\ c.role = RoleOfRows(c.rows) /\ c.score = Score(Judged(world.graph, c, targets, onset))
            /\ onset \subseteq Int /\ \A o \in onset : onset = {o}
<1> DEFINE g == world.graph
           targets == Targets(g, findings, world.alarm)
           rowsOf(n, d) == {r \in findings[d].rows : Resolve(g, r.entity) = n}
           groups == Groups(g, findings)
           onset == Began(groups, targets)
           judged(c) == Judged(g, c, targets, onset)
           cause(c) == CauseOf(c, judged(c))
<1>1. ranking = {cause(c) : c \in groups}
  <2>1. ranking = RankCauses(g, findings, world.alarm)
    BY DEF Inv, RankedLast
  <2> QED
    BY <2>1 DEF RankCauses
<1>2. ASSUME NEW c \in groups
      PROVE  cause(c).node = c.node /\ cause(c).domain = c.domain /\ cause(c).rows = c.rows
             /\ cause(c).role = judged(c).role /\ cause(c).score = Score(judged(c))
  BY DEF CauseOf
<1>3. DOMAIN findings = Domains /\ \A d \in Domains : RowsOK(findings[d].rows)
  BY DEF Inv, TypeOK, FindingOK
<1>4. \A c \in groups : c.node \in NodesOf(g) /\ c.domain \in Domains /\ c.rows # {} /\ c.rows = rowsOf(c.node, c.domain)
  BY <1>3 DEF Groups
<1> HIDE DEF groups, cause, targets, judged
<1>5. {Latest(c.rows) : c \in {c \in groups : c.node \in targets}}
        = {Latest(c.rows) : c \in {c \in ranking : c.node \in targets}}
  <2>1. \A c \in groups : cause(c) \in ranking
    BY <1>1
  <2>2. \A r \in ranking : \E c \in groups : r.node = c.node /\ r.rows = c.rows
    BY <1>1, <1>2
  <2> QED
    BY <1>2, <2>1, <2>2
<1>6. {c.rows : c \in groups} = {c.rows : c \in ranking}
  <2>1. \A c \in groups : cause(c) \in ranking
    BY <1>1
  <2>2. \A r \in ranking : \E c \in groups : r.rows = c.rows
    BY <1>1, <1>2
  <2> QED
    BY <1>2, <2>1, <2>2
<1>7. onset = Began(ranking, targets)
  BY <1>5, <1>6 DEF Began
<1>8. ASSUME NEW c \in groups PROVE Evidence(cause(c)) = Evidence(c)
  <2>1. cause(c).rows = c.rows /\ cause(c).domain = c.domain
    BY <1>2
  <2>2. /\ {r.severity : r \in cause(c).rows} = {r.severity : r \in c.rows}
        /\ UNION {r.signals : r \in cause(c).rows} = UNION {r.signals : r \in c.rows}
    BY <2>1
  <2> QED
    BY <2>1, <2>2, Zenon DEF Evidence
<1>9. \A c \in groups : judged(c) = Judged(g, cause(c), targets, onset)
  <2> HIDE DEF onset
  <2> QED
    BY <1>2, <1>8 DEF Judged, judged
<1>10. \A c \in ranking :
         /\ c.domain \in Domains /\ c.rows # {} /\ c.rows \subseteq findings[c.domain].rows
         /\ c.role = RoleOfRows(c.rows) /\ c.score = Score(Judged(g, c, targets, onset))
  <2>1. \A c \in groups : c.rows \subseteq findings[c.domain].rows
    BY <1>4
  <2>2. \A c \in groups : judged(c).role = RoleOfRows(c.rows)
    BY DEF judged, Judged
  <2> HIDE DEF onset, rowsOf
  <2> QED
    BY <1>1, <1>2, <1>4, <1>9, <2>1, <2>2
<1> DEFINE alarmed == {Latest(c.rows) : c \in {c \in groups : c.node \in targets}}
           bad == {r \in UNION {c.rows : c \in groups} : r.role = "symptom"}
           symptoms == {r.onset : r \in bad}
<1>11. alarmed \in SUBSET Int /\ IsFiniteSet(alarmed)
  <2> DEFINE X == NodesOf(g) \X Domains
             f == [x \in X |-> Latest(rowsOf(x[1], x[2]))]
  <2>1. IsFiniteSet(X) /\ DOMAIN f = X
    <3>1. IsFiniteSet(NodesOf(g)) /\ IsFiniteSet(Domains)
      BY NodesOK, InvestigationAssumption DEF Inv, TypeOK, WorldOK, Domains
    <3>2. IsFiniteSet(X)
      BY <3>1, FS_Product
    <3> QED
      BY <3>2
  <2>2. \A c \in groups : <<c.node, c.domain>> \in X /\ f[<<c.node, c.domain>>] = Latest(c.rows)
    BY <1>4
  <2>3. \A c \in groups : RowsOK(c.rows)
    BY <1>3, <1>4, FS_Subset DEF RowsOK
  <2>4. \A c \in groups : Latest(c.rows) \in Int
    BY <1>4, <2>3, LatestOK
  <2> HIDE DEF X, f, targets, rowsOf
  <2>5. IsFiniteSet({f[x] : x \in X})
    BY <2>1, ImageFinite
  <2>6. alarmed \in SUBSET {f[x] : x \in X}
    BY <2>2
  <2>7. IsFiniteSet(alarmed)
    <3> HIDE DEF alarmed
    <3> QED
      BY <2>5, <2>6, FS_Subset
  <2> QED
    BY <2>4, <2>7
<1>12. symptoms \in SUBSET Int /\ IsFiniteSet(symptoms)
  <2> DEFINE h == [d \in Domains |-> findings[d].rows]
             all == UNION {h[d] : d \in Domains}
             f == [r \in bad |-> r.onset]
  <2>1. DOMAIN h = Domains /\ \A d \in Domains : h[d] = findings[d].rows
    OBVIOUS
  <2> HIDE DEF h
  <2>2. IsFiniteSet(all) /\ \A r \in all : RowOK(r)
    BY <1>3, <2>1, DomainUnion DEF RowsOK
  <2>3. bad \in SUBSET all
    BY <1>4, <2>1
  <2> HIDE DEF all, bad
  <2>4. IsFiniteSet(bad) /\ \A r \in bad : r.onset \in Int
    BY <2>2, <2>3, FS_Subset DEF RowOK
  <2>5. DOMAIN f = bad
    OBVIOUS
  <2>6. IsFiniteSet({f[r] : r \in bad})
    <3> HIDE DEF f
    <3> QED
      BY <2>4, <2>5, ImageFinite
  <2> QED
    BY <2>4, <2>6
<1>13. onset = IF alarmed # {} THEN {Min(alarmed)} ELSE IF symptoms # {} THEN {Min(symptoms)} ELSE {}
  BY Zenon DEF Began
<1> HIDE DEF alarmed, symptoms, onset, targets
<1>14. onset \subseteq Int /\ \A o \in onset : onset = {o}
  BY <1>11, <1>12, <1>13, MinOf
<1> QED
  BY <1>7, <1>10, <1>14 DEF targets

(* A cause upstream of the trouble and in time for it outscores what is no    *)
(* cause, for every topology and evidence.                                  *)
LEMMA CauseFirst ==
  ASSUME RolesDecide, NEW g, NEW targets, NEW onset, onset \subseteq Int, \A o \in onset : onset = {o},
         NEW c, c.domain \in Domains, RowsOK(c.rows), c.rows # {}, RoleOfRows(c.rows) = "cause",
         c.node \notin targets, \E t \in targets : DependsOn(g, t, c.node),
         \A o \in onset : o - 5 <= Latest(c.rows) /\ Latest(c.rows) <= o + 2,
         NEW e, e.domain \in Domains, RowsOK(e.rows), e.rows # {}, RoleOfRows(e.rows) # "cause"
  PROVE  Score(Judged(g, c, targets, onset)) > Score(Judged(g, e, targets, onset))
<1> DEFINE first == Judged(g, c, targets, onset)
           other == Judged(g, e, targets, onset)
           k == (5 * Confidence[c.domain]) \div 2
<1>1. /\ first.evidence = Evidence(c) /\ first.place = Place(g, c.node, targets) /\ first.role = "cause"
      /\ first.precedence = IF onset = {} THEN 500 ELSE Precedence(Latest(c.rows), Min(onset))
      /\ other.evidence = Evidence(e) /\ other.place = Place(g, e.node, targets) /\ other.role = RoleOfRows(e.rows)
      /\ other.precedence = IF onset = {} THEN 500 ELSE Precedence(Latest(e.rows), Min(onset))
  BY DEF Judged
<1> HIDE DEF first, other
<1>2. first.evidence \in Int /\ other.evidence \in Int /\ k \in Int
      /\ first.evidence >= 200 + k /\ other.evidence <= 1000
  BY <1>1, EvidenceOK
<1>3. first.place = 1000 /\ other.place \in Int /\ other.place <= 1000
  BY <1>1 DEF Place
<1>4. first.precedence \in Int /\ other.precedence \in Int /\ first.precedence >= other.precedence
  <2>1. CASE onset = {}
    BY <1>1, <2>1
  <2>2. CASE onset # {}
    <3>1. PICK o \in onset : onset = {o}
      BY <2>2
    <3>2. o \in Int /\ Min(onset) = o
      <4>1. o \in Int
        BY <3>1
      <4>2. Min({o, o}) = o
        BY <4>1, MinPair
      <4>3. onset = {o, o}
        BY <3>1
      <4> QED
        BY <4>1, <4>2, <4>3
    <3>3. Latest(c.rows) \in Int /\ Latest(e.rows) \in Int
      BY LatestOK
    <3>4. Precedence(Latest(c.rows), o) = 1000
      BY <3>1, <3>2, <3>3, PrecedenceOK
    <3>5. Precedence(Latest(e.rows), o) \in Int /\ Precedence(Latest(e.rows), o) <= 1000
      BY <3>2, <3>3, PrecedenceOK
    <3> QED
      BY <1>1, <2>2, <3>2, <3>4, <3>5
  <2> QED
    BY <2>1, <2>2
<1>5. RoleScore(first.role) = 1000 /\ RoleScore(other.role) \in Int /\ RoleScore(other.role) <= 500
  BY <1>1, DetectionAssumption DEF RoleScore, RoleOfRows
<1>6. \A w \in {"evidence", "topology", "precedence", "role"} : Weights[w] \in Nat
  BY InvestigationAssumption
<1> DEFINE we == Weights["evidence"]
           wt == Weights["topology"]
           wp == Weights["precedence"]
           wr == Weights["role"]
           a == first.evidence
           b == other.evidence
           p == first.precedence
           q == other.precedence
           r == RoleScore(other.role)
<1>7. we * (800 - k) < wr * 500
  BY DEF RolesDecide
<1>8. /\ Score(first) = we * a + wt * 1000 + wp * p + wr * 1000
      /\ Score(other) = we * b + wt * other.place + wp * q + wr * r
  BY <1>3, <1>5 DEF Score
<1>9. we \in Nat /\ wt \in Nat /\ wp \in Nat /\ wr \in Nat
  BY <1>6
<1> HIDE DEF we, wt, wp, wr, k
<1>10. we * (b - a) <= we * (800 - k) /\ wt * other.place <= wt * 1000 /\ wp * q <= wp * p /\ wr * 500 <= wr * (1000 - r)
  <2>1. b - a \in Int /\ 800 - k \in Int /\ b - a <= 800 - k
    BY <1>2
  <2>2. 1000 - r \in Int /\ 500 <= 1000 - r
    BY <1>5
  <2> HIDE DEF a, b, p, q, r
  <2>3. we * (b - a) <= we * (800 - k)
    BY <1>9, <2>1, Scaled
  <2>4. wt * other.place <= wt * 1000
    BY <1>3, <1>9, Scaled
  <2>5. wp * q <= wp * p
    BY <1>4, <1>9, Scaled DEF p, q
  <2>6. wr * 500 <= wr * (1000 - r)
    BY <1>9, <2>2, Scaled
  <2> QED
    BY <2>3, <2>4, <2>5, <2>6
<1>11. we * (b - a) = we * b - we * a /\ wr * (1000 - r) = wr * 1000 - wr * r
  BY <1>2, <1>5, <1>9
<1> DEFINE x1 == we * a
           x2 == we * b
           x3 == wt * 1000
           x4 == wt * other.place
           x5 == wp * p
           x6 == wp * q
           x7 == wr * 1000
           x8 == wr * r
           m == we * (800 - k)
           h == wr * 500
<1>12. x1 \in Int /\ x2 \in Int /\ x3 \in Int /\ x4 \in Int /\ x5 \in Int /\ x6 \in Int /\ x7 \in Int /\ x8 \in Int
       /\ m \in Int /\ h \in Int
  BY <1>2, <1>3, <1>4, <1>5, <1>9
<1>13. x2 - x1 <= m /\ m < h /\ x4 <= x3 /\ x6 <= x5 /\ h <= x7 - x8
  BY <1>7, <1>10, <1>11
<1>14. Score(first) = x1 + x3 + x5 + x7 /\ Score(other) = x2 + x4 + x6 + x8
  BY <1>8
<1> HIDE DEF x1, x2, x3, x4, x5, x6, x7, x8, m, h
<1>15. Score(first) > Score(other)
  BY <1>12, <1>13, <1>14
<1> QED
  BY <1>15 DEF first, other

(* rank_causes puts a cause upstream of the trouble, in time for it, before    *)
(* everything that is not a cause, if its role can make up for its evidence.  *)
THEOREM CauseRanksFirstAlways == ASSUME RolesDecide PROVE Spec => []CauseRanksFirst
<1>1. ASSUME Inv PROVE CauseRanksFirst
  <2> DEFINE targets == Targets(world.graph, findings, world.alarm)
             onset == Began(ranking, targets)
  <2>1. SUFFICES ASSUME NEW c \in ranking, NEW e \in ranking, c.role = "cause", e.role # "cause",
                        c.node \notin targets, \E t \in targets : DependsOn(world.graph, t, c.node),
                        \A o \in onset : o - 5 <= Latest(c.rows) /\ Latest(c.rows) <= o + 2
                 PROVE  c.score > e.score
    BY DEF CauseRanksFirst, Outranks
  <2>2. stage = "done"
    BY <1>1 DEF Inv, RankedLast
  <2>3. /\ \A x \in ranking :
             /\ x.domain \in Domains /\ x.rows # {} /\ x.rows \subseteq findings[x.domain].rows
             /\ x.role = RoleOfRows(x.rows) /\ x.score = Score(Judged(world.graph, x, targets, onset))
        /\ onset \subseteq Int /\ \A o \in onset : onset = {o}
    BY <1>1, <2>2, RankingOf
  <2> HIDE DEF onset, targets
  <2>4. \A x \in ranking : RowsOK(x.rows)
    <3>1. \A d \in Domains : RowsOK(findings[d].rows)
      BY <1>1, <2>2 DEF Inv, TypeOK, FindingOK
    <3> QED
      BY <2>3, <3>1, FS_Subset DEF RowsOK
  <2>5. Score(Judged(world.graph, c, targets, onset)) > Score(Judged(world.graph, e, targets, onset))
    BY <2>1, <2>3, <2>4, CauseFirst
  <2> QED
    BY <2>3, <2>5
<1> QED
  BY <1>1, Invariance, PTL

-----------------------------------------------------------------------------
(* Status                                                                  *)

SeriesOK(R) ==
  /\ IsFiniteSet(R) /\ \A p \in R : p.time \in Int /\ p.hit \in BOOLEAN
  /\ \A p, q \in R : p.time = q.time => p = q

LEMMA Latter ==
  ASSUME NEW R, IsFiniteSet(R), \A p \in R : p.time \in Int, R # {}
  PROVE  Newest(R) \in R /\ \A q \in R : q.time <= Newest(R).time
<1> DEFINE O == {x \in R \X R : x[1].time > x[2].time}
<1>1. \A p, q \in R : <<p, q>> \in O <=> p.time > q.time
  OBVIOUS
<1>2. Orders(O, R)
  <2> HIDE DEF O
  <2> QED
    BY <1>1 DEF Orders
<1> HIDE DEF O
<1>3. PICK p \in R : \A q \in R : <<q, p>> \notin O
  BY <1>2, Minimal
<1>4. ASSUME NEW q \in R PROVE q.time <= p.time
  <2>1. ~(q.time > p.time)
    BY <1>1, <1>3
  <2>2. q.time \in Int /\ p.time \in Int
    OBVIOUS
  <2> QED
    BY <2>1, <2>2
<1> QED
  BY <1>4, Zenon DEF Newest

(* The first wrong sample of a series after some time.                       *)
LEMMA FirstHit ==
  ASSUME NEW R, SeriesOK(R), NEW T \in SUBSET R, T # {}
  PROVE  \E p \in T : \A q \in T : p.time <= q.time
<1> DEFINE O == {x \in R \X R : x[1].time < x[2].time}
<1>1. \A p, q \in R : <<p, q>> \in O <=> p.time < q.time
  OBVIOUS
<1>2. Orders(O, R)
  <2> HIDE DEF O
  <2> QED
    BY <1>1 DEF Orders, SeriesOK
<1> HIDE DEF O
<1>3. PICK p \in T : \A q \in T : <<q, p>> \notin O
  BY <1>2, Minimal DEF SeriesOK
<1>4. ASSUME NEW q \in T PROVE p.time <= q.time
  <2>1. p \in R /\ q \in R /\ <<q, p>> \notin O
    BY <1>3
  <2>2. ~(q.time < p.time)
    BY <1>1, <2>1
  <2>3. q.time \in Int /\ p.time \in Int
    BY <2>1 DEF SeriesOK
  <2> QED
    BY <2>2, <2>3
<1> QED
  BY <1>4

\* Wrong, fine and wrong again.
Relapses(R) == \E p, q, r \in R : p.time < q.time /\ q.time < r.time /\ p.hit /\ ~q.hit /\ r.hit

(* A series has two episodes exactly if it was wrong, fine and wrong again.    *)
LEMMA Flaps ==
  ASSUME NEW R, SeriesOK(R)
  PROVE  /\ Cardinality(Episodes(R)) \in Nat
         /\ Cardinality(Episodes(R)) >= 2 <=> Relapses(R)
<1> DEFINE E == Episodes(R)
<1>1. E \in SUBSET R
  BY DEF Episodes
<1>2. IsFiniteSet(E) /\ Cardinality(E) \in Nat
  BY <1>1, FS_Subset, FS_CardinalityType DEF SeriesOK
<1>3. ASSUME NEW b \in R, Earlier(R, b) # {}
      PROVE  LET n == Newest(Earlier(R, b)) IN n \in R /\ n.time < b.time /\ \A a \in R : a.time < b.time => a.time <= n.time
  <2>1. Earlier(R, b) \in SUBSET R /\ \A a \in R : a \in Earlier(R, b) <=> a.time < b.time
    BY DEF Earlier
  <2>2. IsFiniteSet(Earlier(R, b)) /\ \A p \in Earlier(R, b) : p.time \in Int
    BY <2>1, FS_Subset DEF SeriesOK
  <2>3. Newest(Earlier(R, b)) \in Earlier(R, b) /\ \A q \in Earlier(R, b) : q.time <= Newest(Earlier(R, b)).time
    BY <1>3, <2>2, Latter
  <2> QED
    BY <2>1, <2>3
<1>4. ASSUME NEW a \in E, NEW b \in E, a # b, a.time < b.time
      PROVE  \E p, q, r \in R : p.time < q.time /\ q.time < r.time /\ p.hit /\ ~q.hit /\ r.hit
  <2> DEFINE n == Newest(Earlier(R, b))
  <2>1. a \in R /\ b \in R /\ a \in Earlier(R, b)
    BY <1>1, <1>4 DEF Earlier
  <2>2. a.hit /\ b.hit /\ ~n.hit
    BY <2>1, Zenon DEF Episodes
  <2>3. n \in R /\ n.time < b.time /\ a.time <= n.time
    BY <1>3, <1>4, <2>1
  <2> HIDE DEF n
  <2>4. a.time # n.time
    BY <2>1, <2>2, <2>3 DEF SeriesOK
  <2>5. a.time < n.time
    BY <2>1, <2>3, <2>4 DEF SeriesOK
  <2> QED
    BY <2>1, <2>2, <2>3, <2>5
<1>5. ASSUME Cardinality(E) >= 2
      PROVE  \E p, q, r \in R : p.time < q.time /\ q.time < r.time /\ p.hit /\ ~q.hit /\ r.hit
  <2>1. \E a, b \in E : a # b
    <3> SUFFICES ASSUME \A a, b \in E : a = b PROVE FALSE
      OBVIOUS
    <3>1. E = {} \/ \E a \in E : E = {a}
      <4> HIDE DEF E
      <4> QED
        OBVIOUS
    <3> HIDE DEF E
    <3>2. Cardinality(E) \in {0, 1}
      BY <3>1, FS_EmptySet, FS_Singleton
    <3> QED
      BY <1>5, <3>2
  <2>2. PICK a \in E, b \in E : a # b
    BY <2>1
  <2>3. a.time \in Int /\ b.time \in Int /\ a.time # b.time
    BY <1>1, <2>2 DEF SeriesOK
  <2>4. a.time < b.time \/ b.time < a.time
    BY <2>3
  <2> HIDE DEF E
  <2> QED
    BY <1>4, <2>2, <2>4
<1>6. ASSUME NEW p \in R, NEW q \in R, NEW r \in R, p.time < q.time, q.time < r.time, p.hit, ~q.hit, r.hit
      PROVE  Cardinality(E) >= 2
  <2> DEFINE early == {s \in R : s.hit /\ s.time <= q.time}
             late == {s \in R : s.hit /\ s.time > q.time}
  <2>0. p.time \in Int /\ q.time \in Int /\ r.time \in Int /\ \A s \in R : s.time \in Int
    BY DEF SeriesOK
  <2>1. p \in early /\ r \in late
    BY <1>6, <2>0
  <2>2. PICK a \in early : \A s \in early : a.time <= s.time
    BY <2>1, FirstHit
  <2>3. PICK b \in late : \A s \in late : b.time <= s.time
    BY <2>1, FirstHit
  <2>4. a \in R /\ a.hit /\ a.time <= q.time /\ b \in R /\ b.hit /\ b.time > q.time
    OBVIOUS
  <2>5. a \in E
    <3>1. ASSUME Earlier(R, a) # {} PROVE ~Newest(Earlier(R, a)).hit
      <4> DEFINE n == Newest(Earlier(R, a))
      <4>1. n \in R /\ n.time < a.time
        BY <1>3, <2>4, <3>1
      <4> HIDE DEF n
      <4>2. n \notin early
        BY <2>0, <2>2, <4>1
      <4> QED
        BY <2>0, <2>4, <4>1, <4>2 DEF n
    <3> QED
      BY <2>4, <3>1, Zenon DEF Episodes
  <2>6. b \in E
    <3>1. Earlier(R, b) # {} /\ \A s \in R : s \in Earlier(R, b) <=> s.time < b.time
      BY <2>0, <2>4 DEF Earlier
    <3> DEFINE n == Newest(Earlier(R, b))
    <3>2. n \in R /\ n.time < b.time /\ q.time <= n.time
      BY <1>3, <2>0, <2>4, <3>1
    <3> HIDE DEF n
    <3>3. n \notin late
      BY <2>0, <2>3, <3>2
    <3>4. ASSUME n.hit PROVE FALSE
      <4>1. n.time = q.time
        BY <2>0, <3>2, <3>3, <3>4
      <4>2. n = q
        BY <3>2, <4>1 DEF SeriesOK
      <4> QED
        BY <1>6, <3>4, <4>2
    <3> QED
      BY <2>4, <3>4, Zenon DEF Episodes, n
  <2>7. a # b
    BY <2>0, <2>4
  <2>8. {a, b} \in SUBSET E
    BY <2>5, <2>6
  <2> HIDE DEF E
  <2>9. Cardinality({a, b}) = 2
    <3>1. IsFiniteSet({a}) /\ Cardinality({a}) = 1
      BY FS_Singleton
    <3>2. {a, b} = {a} \cup {b} /\ b \notin {a}
      BY <2>7
    <3>3. Cardinality({a} \cup {b}) = Cardinality({a}) + 1
      BY <3>1, <3>2, FS_AddElement
    <3> QED
      BY <3>1, <3>2, <3>3
  <2> QED
    BY <1>2, <2>8, <2>9, FS_Subset
<1> QED
  BY <1>2, <1>5, <1>6 DEF Relapses

(* The samples that tell the state of an entity: of the window and, where     *)
(* there is a rule to judge them by, from after it.                          *)
Tells(e, ctx, after) ==
  {s \in ctx.series \cup {t \in after : Catalog[t.signal].rule # NoRule} : s.entity = e /\ Stateful(s.signal)}
LastSeen(S) == {s \in S : \A t \in S : t.time <= s.time}
Flapped(S, ctx) ==
  \E p, q, r \in S : p.signal = q.signal /\ q.signal = r.signal /\ p.time < q.time /\ q.time < r.time
                     /\ FiresOn(p, ctx) /\ ~FiresOn(q, ctx) /\ FiresOn(r, ctx)
Mark(s, ctx) == [time |-> s.time, hit |-> FiresOn(s, ctx)]
OfSignal(S, n) == {t \in S : t.signal = n}
Marked(S, n, ctx) == {Mark(s, ctx) : s \in OfSignal(S, n)}

(* A series is its samples, marked.                                         *)
LEMMA SeriesMarked ==
  ASSUME NEW e, NEW ctx, NEW after, NEW hits, NEW n, Stateful(n),
         \A s \in Tells(e, ctx, after) : s \in ctx.series => (s \in hits <=> FiresOn(s, ctx))
  PROVE  SeriesOf(e, n, ctx, after, hits) = Marked(Tells(e, ctx, after), n, ctx)
<1> DEFINE in == {t \in ctx.series : t.entity = e /\ t.signal = n}
           out == {t \in after : t.entity = e /\ t.signal = n /\ Catalog[n].rule # NoRule}
<1>1. OfSignal(Tells(e, ctx, after), n) = in \cup out
  BY DEF Tells, OfSignal
<1>2. ASSUME NEW s \in in PROVE [time |-> s.time, hit |-> s \in hits] = Mark(s, ctx)
  <2>1. s \in Tells(e, ctx, after)
    BY DEF Tells
  <2>2. (s \in hits) = FiresOn(s, ctx)
    <3>1. s \in hits <=> FiresOn(s, ctx)
      BY <2>1
    <3>2. FiresOn(s, ctx) \in BOOLEAN
      BY DEF FiresOn
    <3> QED
      BY <3>1, <3>2
  <2> QED
    BY <2>2, Zenon DEF Mark
<1>3. {[time |-> s.time, hit |-> s \in hits] : s \in in} = {Mark(s, ctx) : s \in in}
  <2> HIDE DEF in
  <2> QED
    BY <1>2, Zenon
<1>4. {[time |-> s.time, hit |-> FiresOn(s, ctx)] : s \in out} = {Mark(s, ctx) : s \in out}
  BY Zenon DEF Mark
<1>5. SeriesOf(e, n, ctx, after, hits) = {Mark(s, ctx) : s \in in} \cup {Mark(s, ctx) : s \in out}
  BY <1>3, <1>4, Zenon DEF SeriesOf
<1> HIDE DEF in, out
<1> QED
  BY <1>1, <1>5 DEF Marked

LEMMA MarkedOK ==
  ASSUME NEW S, SamplesOK(S), NEW ctx, NEW n, \A s, t \in S : s.signal = t.signal /\ s.time = t.time => s = t
  PROVE  SeriesOK(Marked(S, n, ctx)) /\ (Relapses(Marked(S, n, ctx)) <=> Flapped(OfSignal(S, n), ctx))
<1> DEFINE T == OfSignal(S, n)
           f == [s \in T |-> Mark(s, ctx)]
           R == {Mark(s, ctx) : s \in T}
<1>1. T \in SUBSET S /\ IsFiniteSet(T)
  <2>1. T \in SUBSET S
    BY DEF OfSignal
  <2> HIDE DEF T
  <2> QED
    BY <2>1, FS_Subset DEF SamplesOK
<1>2. \A s, t \in T : s.time \in Int /\ s.signal = t.signal /\ (s.time = t.time => s = t)
  BY DEF SamplesOK, SampleOK, OfSignal
<1> HIDE DEF T
<1>3. IsFiniteSet({f[s] : s \in T})
  <2>1. DOMAIN f = T
    OBVIOUS
  <2> HIDE DEF f
  <2> QED
    BY <1>1, <2>1, ImageFinite
<1>4. {f[s] : s \in T} = R
  OBVIOUS
<1>5. \A s : Mark(s, ctx).time = s.time /\ Mark(s, ctx).hit = FiresOn(s, ctx) /\ Mark(s, ctx).hit \in BOOLEAN
  BY DEF Mark, FiresOn
<1>6. SeriesOK(R)
  <2>1. IsFiniteSet(R)
    BY <1>3, <1>4
  <2>2. ASSUME NEW p \in R PROVE p.time \in Int /\ p.hit \in BOOLEAN
    BY <1>2, <1>5
  <2>3. ASSUME NEW p \in R, NEW q \in R, p.time = q.time PROVE p = q
    <3>1. PICK s \in T : p = Mark(s, ctx)
      OBVIOUS
    <3>2. PICK t \in T : q = Mark(t, ctx)
      OBVIOUS
    <3>3. s = t
      BY <1>2, <1>5, <2>3, <3>1, <3>2
    <3> QED
      BY <3>1, <3>2, <3>3
  <2> QED
    BY <2>1, <2>2, <2>3 DEF SeriesOK
<1>7. ASSUME NEW p \in R, NEW q \in R, NEW r \in R, p.time < q.time, q.time < r.time, p.hit, ~q.hit, r.hit
      PROVE  Flapped(T, ctx)
  <2>1. PICK s \in T : p = Mark(s, ctx)
    OBVIOUS
  <2>2. PICK t \in T : q = Mark(t, ctx)
    OBVIOUS
  <2>3. PICK u \in T : r = Mark(u, ctx)
    OBVIOUS
  <2>4. s.time < t.time /\ t.time < u.time /\ FiresOn(s, ctx) /\ ~FiresOn(t, ctx) /\ FiresOn(u, ctx)
    BY <1>5, <1>7, <2>1, <2>2, <2>3
  <2> QED
    BY <1>2, <2>4 DEF Flapped
<1>8. ASSUME Flapped(T, ctx)
      PROVE  Relapses(R)
  <2>1. PICK s \in T, t \in T, u \in T : s.time < t.time /\ t.time < u.time
                                         /\ FiresOn(s, ctx) /\ ~FiresOn(t, ctx) /\ FiresOn(u, ctx)
    BY <1>8 DEF Flapped
  <2>2. Mark(s, ctx) \in R /\ Mark(t, ctx) \in R /\ Mark(u, ctx) \in R
    OBVIOUS
  <2> HIDE DEF R
  <2> QED
    BY <1>5, <2>1, <2>2 DEF Relapses
<1>9. Relapses(R) => Flapped(T, ctx)
  BY <1>7 DEF Relapses
<1>10. R = Marked(S, n, ctx)
  BY DEF Marked, T
<1> QED
  BY <1>6, <1>8, <1>9, <1>10 DEF T

(* What entity_status says of an entity that its samples tell of.             *)
LEMMA StatusOfOK ==
  ASSUME NEW e, NEW ctx, NEW after, NEW hits,
         \A s \in Tells(e, ctx, after) : s \in ctx.series => (s \in hits <=> FiresOn(s, ctx)),
         SamplesOK(Tells(e, ctx, after)), \A s \in Tells(e, ctx, after) : s.signal \in DOMAIN Catalog,
         \A s, t \in Tells(e, ctx, after) : s.signal = t.signal /\ s.time = t.time => s = t
  PROVE  LET st == StatusOf(e, ctx, after, hits)
             S == Tells(e, ctx, after)
         IN /\ st.episodes >= 2 <=> Flapped(S, ctx)
            /\ "firing" \in st.states <=> \E s \in LastSeen(S) : FiresOn(s, ctx)
            /\ "cleared" \in st.states <=> \E s \in LastSeen(S) : ~FiresOn(s, ctx)
            /\ LastSeen(S) # {} <=> st.states # {}
<1> DEFINE S == Tells(e, ctx, after)
           series(n) == SeriesOf(e, n, ctx, after, hits)
           of(n) == OfSignal(S, n)
           signals == {n \in DOMAIN Catalog : Stateful(n)}
           named == {s.signal : s \in S}
           all == {series(n) : n \in signals} \ {{}}
           newest == {p \in UNION all : \A q \in UNION all : q.time <= p.time}
           counts == {0} \cup {Cardinality(Episodes(R)) : R \in all}
           st == StatusOf(e, ctx, after, hits)
<1>1. st = [entity |-> e, states |-> {IF p.hit THEN "firing" ELSE "cleared" : p \in newest}, episodes |-> Max(counts)]
  BY Zenon DEF StatusOf
<1>2. named \subseteq signals /\ SamplesOK(S) /\ \A s, t \in S : s.signal = t.signal /\ s.time = t.time => s = t
  BY DEF Tells
<1>3. ASSUME NEW n \in signals PROVE series(n) = Marked(S, n, ctx)
  BY SeriesMarked
<1>4. ASSUME NEW n
      PROVE  SeriesOK(Marked(S, n, ctx)) /\ (Relapses(Marked(S, n, ctx)) <=> Flapped(of(n), ctx))
  <2> HIDE DEF S
  <2> QED
    BY <1>2, MarkedOK
<1> HIDE DEF series, S, st
<1>5. all = {series(n) : n \in named}
  <2>1. ASSUME NEW n \in signals, series(n) # {} PROVE n \in named
    BY <1>3, <2>1 DEF Marked, OfSignal
  <2>2. ASSUME NEW n \in named PROVE n \in signals /\ series(n) # {}
    <3>1. n \in signals
      BY <1>2
    <3>2. of(n) # {}
      BY DEF OfSignal
    <3> QED
      BY <1>3, <3>1, <3>2 DEF Marked
  <2> HIDE DEF signals, named
  <2> QED
    BY <2>1, <2>2
<1>6. UNION all = {Mark(s, ctx) : s \in S}
  <2>1. ASSUME NEW n \in named PROVE series(n) = {Mark(s, ctx) : s \in of(n)}
    BY <1>2, <1>3 DEF Marked
  <2>2. UNION all = UNION {{Mark(s, ctx) : s \in of(n)} : n \in named}
    <3> HIDE DEF all, named, of
    <3> QED
      BY <1>5, <2>1
  <2> HIDE DEF all
  <2> QED
    BY <2>2 DEF OfSignal
<1>7. \A s : Mark(s, ctx).time = s.time /\ Mark(s, ctx).hit = FiresOn(s, ctx)
  BY DEF Mark
<1>8. newest = {Mark(s, ctx) : s \in LastSeen(S)}
  <2> HIDE DEF all
  <2> QED
    BY <1>6, <1>7 DEF LastSeen
<1>9. st.states = {IF p.hit THEN "firing" ELSE "cleared" : p \in newest} /\ st.episodes = Max(counts)
  <2> HIDE DEF newest, counts
  <2> QED
    BY <1>1
<1> HIDE DEF newest
<1>10. \A R \in all : Cardinality(Episodes(R)) \in Nat
                      /\ (Cardinality(Episodes(R)) >= 2 <=> \E n \in named : R = series(n) /\ Flapped(of(n), ctx))
  <2> TAKE R \in all
  <2>1. PICK m \in named : R = series(m)
    <3> HIDE DEF all, named
    <3> QED
      BY <1>5
  <2>2. \A n \in named : SeriesOK(series(n)) /\ (Flapped(of(n), ctx) <=> Relapses(series(n)))
    <3> TAKE n \in named
    <3>1. series(n) = Marked(S, n, ctx)
      BY <1>2, <1>3
    <3> HIDE DEF of
    <3> QED
      BY <1>4, <3>1
  <2> HIDE DEF all, named, of
  <2>3. SeriesOK(R)
    BY <2>1, <2>2
  <2> QED
    BY <2>1, <2>2, <2>3, Flaps
<1>11. counts \in SUBSET Int /\ IsFiniteSet(counts) /\ counts # {}
  <2> DEFINE f == [n \in named |-> series(n)]
             g == [R \in all |-> Cardinality(Episodes(R))]
  <2>1. IsFiniteSet(named)
    BY <1>2, Measures
  <2>2. {f[n] : n \in named} = all
    <3> HIDE DEF all, named
    <3> QED
      BY <1>5
  <2>3. IsFiniteSet(all)
    <3>1. DOMAIN f = named
      OBVIOUS
    <3> HIDE DEF f, all, named
    <3> QED
      BY <2>1, <2>2, <3>1, ImageFinite
  <2> HIDE DEF all
  <2>4. {g[R] : R \in all} = {Cardinality(Episodes(R)) : R \in all}
    OBVIOUS
  <2>5. IsFiniteSet({g[R] : R \in all})
    <3>1. DOMAIN g = all
      OBVIOUS
    <3> HIDE DEF g
    <3> QED
      BY <2>3, <3>1, ImageFinite
  <2>6. IsFiniteSet(counts)
    BY <2>4, <2>5, FS_Singleton, FS_Union
  <2>7. counts \in SUBSET Int
    BY <1>10
  <2> QED
    BY <2>6, <2>7
<1>12. Max(counts) \in counts /\ \A x \in counts : x <= Max(counts)
  <2> HIDE DEF counts
  <2> QED
    BY <1>11, MaxOf
<1>13. Max(counts) >= 2 <=> \E R \in all : Cardinality(Episodes(R)) >= 2
  <2> HIDE DEF all
  <2> DEFINE most == Max(counts)
  <2>1. most \in counts /\ \A x \in counts : x <= most
    BY <1>12
  <2> HIDE DEF most
  <2>2. most \in Int
    BY <1>11, <2>1
  <2>3. ASSUME NEW R \in all, Cardinality(Episodes(R)) >= 2 PROVE most >= 2
    <3>1. Cardinality(Episodes(R)) \in Nat /\ Cardinality(Episodes(R)) <= most
      BY <1>10, <2>1
    <3> QED
      BY <2>2, <2>3, <3>1
  <2>4. ASSUME most >= 2 PROVE \E R \in all : Cardinality(Episodes(R)) >= 2
    BY <2>1, <2>4
  <2> QED
    BY <2>3, <2>4 DEF most
<1>14. st.episodes >= 2 <=> \E n \in named : Flapped(of(n), ctx)
  <2> HIDE DEF all, named, of, counts
  <2> QED
    BY <1>5, <1>9, <1>10, <1>13
<1>15. (\E n \in named : Flapped(of(n), ctx)) <=> Flapped(S, ctx)
  BY DEF Flapped, OfSignal
<1> HIDE DEF all, named, of, counts
<1>16. /\ "firing" \in st.states <=> \E s \in LastSeen(S) : FiresOn(s, ctx)
       /\ "cleared" \in st.states <=> \E s \in LastSeen(S) : ~FiresOn(s, ctx)
       /\ LastSeen(S) # {} <=> st.states # {}
  BY <1>7, <1>8, <1>9
<1> QED
  BY <1>14, <1>15, <1>16 DEF st, S

(* The findings' statuses are those of the sweep, since answers add rows only,  *)
(* and the incident's is one of what they say.                               *)
SamplesClear ==
  \A s, t \in world.samples :
    Known(s) /\ Stateful(s.signal) =>
      s.topical /\ (s.entity = t.entity /\ s.signal = t.signal /\ s.time = t.time => s = t)
StatusesOf(d) ==
  {StatusOf(s.entity, ContextOf(d, SweepOf(d)), OfDomain(d, Later(d)), SweepHits(d)) : s \in SweepHits(d)}
StatusKept ==
  /\ SamplesClear
  /\ stage # "sweep" =>
       \A d \in Domains : findings[d].status = StatusesOf(d) /\ (SweepHits(d) # {} => findings[d].anomaly)
  /\ stage = "done" => status \in Statuses(findings)

LEMMA AbsorbStatus ==
  ASSUME NEW f, NEW S, FindingOK(f, S), NEW answered
  PROVE  Absorb(f, answered).status = f.status /\ (f.anomaly => Absorb(f, answered).anomaly)
<1> DEFINE new == {r \in UNION {a.rows : a \in answered} : RowKey(r) \notin {RowKey(t) : t \in f.rows}}
           kept == {CHOOSE r \in new : RowKey(r) = k : k \in {RowKey(t) : t \in new}}
           added == {IF r.via = "rule" THEN [r EXCEPT !.via = "validation"] ELSE r : r \in kept}
           g == Absorb(f, answered)
<1>1. g = [f EXCEPT !.rows = @ \cup added, !.anomaly = @ \/ new # {}]
  BY Zenon DEF Absorb
<1> HIDE DEF added, new, g
<1>2. g.status = f.status /\ (f.anomaly => g.anomaly)
  BY <1>1 DEF FindingOK, FindingFields
<1> QED
  BY <1>2 DEF g

LEMMA SameStatuses ==
  ASSUME world' = world
  PROVE  (SamplesClear' <=> SamplesClear) /\ \A d : StatusesOf(d)' = StatusesOf(d) /\ SweepHits(d)' = SweepHits(d)
<1>1. SamplesClear' <=> SamplesClear
  BY DEF SamplesClear
<1>2. ASSUME NEW d PROVE StatusesOf(d)' = StatusesOf(d) /\ SweepHits(d)' = SweepHits(d)
  BY DEF StatusesOf, SweepHits, SweepOf, Later, Read
<1> QED
  BY <1>1, <1>2

LEMMA StatusInit == ASSUME StatesAreClear, Init PROVE StatusKept
<1>1. PICK f \in Families : \E g \in f.graphs, s \in f.samples, a \in f.alarms, u \in f.unreads, now \in f.nows :
             world = [graph |-> g, samples |-> s, alarm |-> a, unread |-> u, now |-> now]
  BY DEF Init
<1>2. world.samples \in f.samples
  BY <1>1
<1>3. SamplesClear
  BY <1>2 DEF StatesAreClear, SamplesClear
<1> QED
  BY <1>3 DEF StatusKept, Init

LEMMA StatusAnalyze == ASSUME StatusKept, Analyze PROVE StatusKept'
<1> DEFINE found(d) == FindingOf(d, SweepOf(d), Later(d), FALSE)
<1>1. world' = world /\ findings' = [d \in Domains |-> found(d)]
  BY DEF Analyze, SweepOf
<1>2. ASSUME NEW d \in Domains PROVE found(d).status = StatusesOf(d) /\ (SweepHits(d) # {} => found(d).anomaly)
  BY DEF FindingOf, StatusesOf, SweepHits
<1>3. stage' = "done" => status' \in Statuses(findings')
  BY DEF Analyze, Conclude
<1> HIDE DEF found
<1> QED
  BY <1>1, <1>2, <1>3, SameStatuses DEF StatusKept

LEMMA StatusAnswer == ASSUME Inv, StatusKept, Answer PROVE StatusKept'
<1>1. stage = "answer" /\ world' = world /\ (stage' = "done" => status' \in Statuses(findings'))
  BY DEF Answer, Conclude
<1>2. ASSUME NEW d \in Domains
      PROVE  findings'[d].status = findings[d].status /\ (findings[d].anomaly => findings'[d].anomaly)
  <2>1. \E A : findings'[d] = Absorb(findings[d], A)
    BY DEF Answer
  <2>2. PICK A : findings'[d] = Absorb(findings[d], A)
    BY <2>1
  <2>3. FindingOK(findings[d], world.samples)
    BY <1>1 DEF Inv, TypeOK
  <2> QED
    BY <2>2, <2>3, AbsorbStatus
<1> QED
  BY <1>1, <1>2, SameStatuses DEF StatusKept

LEMMA StatusElse == ASSUME StatusKept, Ask \/ UNCHANGED vars PROVE StatusKept'
<1>1. UNCHANGED <<world, findings, status>> /\ ((stage = "ask" /\ stage' = "answer") \/ stage' = stage)
  BY DEF Ask, vars
<1> QED
  BY <1>1, SameStatuses DEF StatusKept

LEMMA StatusInvariance == ASSUME StatesAreClear PROVE Spec => []StatusKept
<1>1. Init => StatusKept
  BY StatusInit
<1>2. Inv /\ StatusKept /\ [Next]_vars => StatusKept'
  BY StatusAnalyze, StatusAnswer, StatusElse DEF Next
<1> QED
  BY <1>1, <1>2, Invariance, PTL DEF Spec

(* What the status of an entity that a sweep found wrong says.                *)
LEMMA SweepStatus ==
  ASSUME WorldOK, SamplesClear, NEW d, NEW e
  PROVE  LET ctx == ContextOf(d, SweepOf(d))
             st == StatusOf(e, ctx, OfDomain(d, Later(d)), SweepHits(d))
             S == Tells(e, ctx, OfDomain(d, Later(d)))
         IN /\ st.episodes >= 2 <=> Flapped(S, ctx)
            /\ "firing" \in st.states <=> \E s \in LastSeen(S) : FiresOn(s, ctx)
            /\ "cleared" \in st.states <=> \E s \in LastSeen(S) : ~FiresOn(s, ctx)
            /\ LastSeen(S) # {} <=> st.states # {}
<1> DEFINE ctx == ContextOf(d, SweepOf(d))
           after == OfDomain(d, Later(d))
           S == Tells(e, ctx, after)
<1>1. SweepOf(d).samples \in SUBSET world.samples /\ Later(d) \in SUBSET world.samples
  BY DEF SweepOf, Read, Later
<1>2. /\ ctx.series \in SUBSET world.samples /\ after \in SUBSET world.samples
      /\ \A s \in ctx.series \cup after : Known(s)
  BY <1>1 DEF ContextOf, OfDomain
<1>3. SweepHits(d) = HitsIn(ctx, FALSE)
  BY DEF SweepHits
<1> HIDE DEF ctx, after
<1>4. /\ S \in SUBSET world.samples /\ \A s \in S : Known(s) /\ Stateful(s.signal) /\ s.entity = e
  BY <1>2 DEF Tells
<1> HIDE DEF S
<1>5. SamplesOK(S)
  BY <1>4, SubsetOK DEF WorldOK
<1>6. \A s \in S : s.signal \in DOMAIN Catalog /\ s.topical
  BY <1>4 DEF SamplesClear, Known
<1>7. \A s, t \in S : s.signal = t.signal /\ s.time = t.time => s = t
  BY <1>4 DEF SamplesClear
<1>8. \A s \in S : s \in ctx.series => (s \in SweepHits(d) <=> FiresOn(s, ctx))
  BY <1>3, <1>6 DEF HitsIn, Relevant
<1> QED
  BY <1>5, <1>6, <1>7, <1>8, StatusOfOK DEF ctx, after, S

(* incident_status says what the samples of the entities that were hit say,    *)
(* if a series has one sample at a time and two episodes are flapping (the     *)
(* default of `flap_episodes`).                                              *)
THEOREM StatusTellsStateAlways ==
  ASSUME StatesAreClear, FlapEpisodes = 2 PROVE Spec => []StatusTellsState
<1>1. ASSUME Inv, StatusKept PROVE StatusTellsState
  <2> DEFINE ctx(d) == ContextOf(d, SweepOf(d))
             S(d, e) == Tells(e, ctx(d), OfDomain(d, Later(d)))
             st(d, e) == StatusOf(e, ctx(d), OfDomain(d, Later(d)), SweepHits(d))
             hit == {<<s.domain, s.entity>> : s \in UNION {SweepHits(d) : d \in Domains}}
             entities == UNION {findings[d].status : d \in {e \in DOMAIN findings : findings[e].anomaly}}
             known == {e \in entities : e.states # {}}
  <2>1. SUFFICES ASSUME stage = "done"
        PROVE  /\ status = "flapping" <=> \E x \in hit : Flapped(S(x[1], x[2]), ctx(x[1]))
               /\ status = "ongoing" => \E x \in hit : \E s \in LastSeen(S(x[1], x[2])) : FiresOn(s, ctx(x[1]))
               /\ status = "recovered" =>
                    \A x \in hit : LastSeen(S(x[1], x[2])) # {} => \E s \in LastSeen(S(x[1], x[2])) : ~FiresOn(s, ctx(x[1]))
    BY DEF StatusTellsState, Tells, LastSeen, Flapped
  <2>2. \A d \in Domains : \A s \in SweepHits(d) : s.domain = d
    BY DEF SweepHits, HitsIn, ContextOf, OfDomain, SweepOf, Read
  <2>3. \A x \in hit : \E d \in Domains : x[1] = d /\ \E s \in SweepHits(d) : x[2] = s.entity
    BY <2>2
  <2>4. \A d \in Domains : \A s \in SweepHits(d) : <<d, s.entity>> \in hit
    BY <2>2
  <2> HIDE DEF hit
  <2>5. DOMAIN findings = Domains /\ \A d \in Domains :
          findings[d].status = {st(d, s.entity) : s \in SweepHits(d)} /\ (SweepHits(d) # {} => findings[d].anomaly)
    BY <1>1, <2>1 DEF Inv, TypeOK, StatusKept, StatusesOf
  <2> HIDE DEF st
  <2>6. entities = {st(x[1], x[2]) : x \in hit}
    <3>1. ASSUME NEW r \in entities PROVE r \in {st(x[1], x[2]) : x \in hit}
      <4>1. PICK d \in Domains : \E s \in SweepHits(d) : r = st(d, s.entity)
        BY <2>5
      <4>2. PICK s \in SweepHits(d) : r = st(d, s.entity)
        BY <4>1
      <4> DEFINE x == <<d, s.entity>>
      <4>3. x \in hit /\ x[1] = d /\ x[2] = s.entity
        BY <2>4
      <4> HIDE DEF x
      <4>4. r = st(x[1], x[2])
        BY <4>2, <4>3
      <4> QED
        BY <4>3, <4>4
    <3>2. ASSUME NEW x \in hit PROVE st(x[1], x[2]) \in entities
      BY <2>3, <2>5
    <3> HIDE DEF entities
    <3> QED
      BY <3>1, <3>2
  <2>7. \A x \in hit : /\ st(x[1], x[2]).episodes >= 2 <=> Flapped(S(x[1], x[2]), ctx(x[1]))
                       /\ "firing" \in st(x[1], x[2]).states <=> \E s \in LastSeen(S(x[1], x[2])) : FiresOn(s, ctx(x[1]))
                       /\ "cleared" \in st(x[1], x[2]).states <=> \E s \in LastSeen(S(x[1], x[2])) : ~FiresOn(s, ctx(x[1]))
                       /\ LastSeen(S(x[1], x[2])) # {} <=> st(x[1], x[2]).states # {}
    <3>1. WorldOK /\ SamplesClear
      BY <1>1 DEF Inv, TypeOK, StatusKept
    <3> QED
      BY <3>1, SweepStatus DEF st
  <2>8. status \in IF \E e \in entities : e.episodes >= 2 THEN {"flapping"}
                   ELSE IF known = {} THEN {"unknown"}
                   ELSE {"ongoing" : e \in {e \in known : "firing" \in e.states}}
                          \cup (IF \A e \in known : "cleared" \in e.states THEN {"recovered"} ELSE {})
    BY <1>1, <2>1 DEF StatusKept, Statuses
  <2> HIDE DEF entities, S, ctx
  <2> QED
    BY <2>6, <2>7, <2>8
<1>2. Spec => []StatusKept
  BY StatusInvariance
<1> QED
  BY <1>1, <1>2, Invariance, PTL
-----------------------------------------------------------------------------
(* Where a walk arrives                                                    *)

\* What is reached from a node in so many hops, hop by hop.
Hops(next, start, k, r) ==
  r = [i \in 0 .. k |-> IF i = 0 THEN {start} ELSE r[i - 1] \cup UNION {next[n] : n \in r[i - 1]}]

(* Walks of every length exist.                                             *)
LEMMA HopsExist ==
  ASSUME NEW U, NEW next \in [U -> SUBSET U], NEW start \in U, NEW k \in Nat
  PROVE  \E r \in [0 .. k -> SUBSET U] : Hops(next, start, k, r)
<1> DEFINE Walks(i) == \E r \in [0 .. i -> SUBSET U] : Hops(next, start, i, r)
           Missed == {i \in Nat : ~Walks(i)}
<1>1. Walks(0)
  <2> DEFINE r == [i \in 0 .. 0 |-> {start}]
  <2>1. r \in [0 .. 0 -> SUBSET U]
    OBVIOUS
  <2>2. Hops(next, start, 0, r)
    BY DEF Hops
  <2> QED
    BY <2>1, <2>2
<1>2. ASSUME NEW i \in Nat, Walks(i) PROVE Walks(i + 1)
  <2>1. PICK r \in [0 .. i -> SUBSET U] : Hops(next, start, i, r)
    BY <1>2
  <2> DEFINE s == [j \in 0 .. i + 1 |-> IF j = i + 1 THEN r[i] \cup UNION {next[n] : n \in r[i]} ELSE r[j]]
  <2>2. r[i] \cup UNION {next[n] : n \in r[i]} \in SUBSET U
    OBVIOUS
  <2>3. s \in [0 .. i + 1 -> SUBSET U]
    <3> SUFFICES ASSUME NEW j \in 0 .. i + 1 PROVE s[j] \in SUBSET U
      OBVIOUS
    <3>1. CASE j = i + 1
      BY <2>2, <3>1
    <3>2. CASE j # i + 1
      <4>1. j \in 0 .. i
        BY <3>2
      <4> QED
        BY <3>2, <4>1
    <3> QED
      BY <3>1, <3>2
  <2>4. \A j \in 0 .. i : r[j] = IF j = 0 THEN {start} ELSE r[j - 1] \cup UNION {next[n] : n \in r[j - 1]}
    BY <2>1 DEF Hops
  <2>5. \A j \in 0 .. i : s[j] = r[j]
    OBVIOUS
  <2>6. s[i + 1] = r[i] \cup UNION {next[n] : n \in r[i]}
    OBVIOUS
  <2>7. DOMAIN s = 0 .. i + 1 /\ s = [j \in 0 .. i + 1 |-> s[j]]
    OBVIOUS
  <2> HIDE DEF s
  <2>8. ASSUME NEW j \in 0 .. i + 1
        PROVE  s[j] = IF j = 0 THEN {start} ELSE s[j - 1] \cup UNION {next[n] : n \in s[j - 1]}
    <3>1. CASE j = i + 1
      <4>1. j # 0 /\ j - 1 = i /\ i \in 0 .. i
        BY <3>1
      <4>2. s[j - 1] = r[i] /\ s[j] = r[i] \cup UNION {next[n] : n \in r[i]}
        BY <2>5, <2>6, <3>1, <4>1
      <4> QED
        BY <4>1, <4>2
    <3>2. CASE j # i + 1
      <4>1. j \in 0 .. i /\ (j # 0 => j - 1 \in 0 .. i)
        BY <3>2
      <4> QED
        BY <2>4, <2>5, <4>1
    <3> QED
      BY <3>1, <3>2
  <2>9. Hops(next, start, i + 1, s)
    BY <2>7, <2>8 DEF Hops
  <2> QED
    BY <2>3, <2>9
<1> HIDE DEF Walks
<1>3. Missed = {}
  <2> SUFFICES ASSUME Missed # {} PROVE FALSE
    OBVIOUS
  <2>1. PICK m \in Missed : \A i \in Missed : <<i, m>> \notin OpToRel(<, Nat)
    <3>1. Missed \subseteq Nat
      OBVIOUS
    <3> HIDE DEF Missed
    <3> QED
      BY <3>1, WFMin, NatLessThanWellFounded
  <2>2. m \in Nat /\ m # 0
    BY <1>1, <2>1
  <2>3. m - 1 \in Nat /\ m - 1 < m
    BY <2>2
  <2>4. <<m - 1, m>> \in OpToRel(<, Nat)
    BY <2>2, <2>3 DEF OpToRel
  <2>5. Walks(m - 1)
    BY <2>1, <2>3, <2>4
  <2>6. Walks((m - 1) + 1)
    BY <1>2, <2>3, <2>5
  <2>7. (m - 1) + 1 = m
    BY <2>2
  <2> QED
    BY <2>1, <2>6, <2>7
<1> QED
  BY <1>3 DEF Walks

\* The nodes that some nodes are adjacent to, or depend on.
Around(g, S) == UNION {Adjacent(g, n) : n \in S}
Below(g, S) == UNION {Depends(g, n) : n \in S}

(* walk and depends_on, hop by hop.                                         *)
LEMMA WalkHops ==
  ASSUME NEW g, NEW start \in NodesOf(g)
  PROVE  \E w : /\ Walk(g, start) = w[MaxHops] /\ w[0] = {start}
               /\ \A i \in 0 .. MaxHops : i # 0 => w[i] = w[i - 1] \cup Around(g, w[i - 1])
<1> DEFINE next == [n \in NodesOf(g) |-> Adjacent(g, n)]
           isWalk(w) == w = [i \in 0 .. MaxHops |-> IF i = 0 THEN {start} ELSE w[i - 1] \cup Around(g, w[i - 1])]
           walk == CHOOSE w : isWalk(w)
<1>1. next \in [NodesOf(g) -> SUBSET NodesOf(g)] /\ \A n \in NodesOf(g) : next[n] = Adjacent(g, n)
  BY DEF Adjacent
<1>0. MaxHops \in Nat
  BY HopsAssumption
<1>2. Walk(g, start) = walk[MaxHops]
  BY Zenon DEF Walk, Within, Around
<1> HIDE DEF next
<1>3. PICK r \in [0 .. MaxHops -> SUBSET NodesOf(g)] : Hops(next, start, MaxHops, r)
  BY <1>0, <1>1, HopsExist
<1>4. r[0] = {start} /\ \A i \in 0 .. MaxHops : i # 0 => r[i] = r[i - 1] \cup UNION {next[n] : n \in r[i - 1]}
  <2>1. \A i \in 0 .. MaxHops : r[i] = IF i = 0 THEN {start} ELSE r[i - 1] \cup UNION {next[n] : n \in r[i - 1]}
    BY <1>3 DEF Hops
  <2>2. 0 \in 0 .. MaxHops
    BY <1>0
  <2>3. r[0] = {start}
    BY <2>1, <2>2
  <2>4. ASSUME NEW i \in 0 .. MaxHops, i # 0 PROVE r[i] = r[i - 1] \cup UNION {next[n] : n \in r[i - 1]}
    BY <2>1, <2>4
  <2> QED
    BY <2>3, <2>4
<1>5. \A i \in 0 .. MaxHops : i # 0 => r[i] = r[i - 1] \cup Around(g, r[i - 1])
  <2> SUFFICES ASSUME NEW i \in 0 .. MaxHops, i # 0 PROVE r[i] = r[i - 1] \cup Around(g, r[i - 1])
    BY <1>0
  <2>1. i - 1 \in 0 .. MaxHops
    BY <1>0
  <2>2. r[i - 1] \subseteq NodesOf(g)
    BY <2>1
  <2>3. UNION {next[n] : n \in r[i - 1]} = Around(g, r[i - 1])
    BY <1>1, <2>2 DEF Around
  <2> QED
    BY <1>4, <2>3
<1>6. isWalk(r)
  <2>1. \A i \in 0 .. MaxHops : r[i] = IF i = 0 THEN {start} ELSE r[i - 1] \cup Around(g, r[i - 1])
    BY <1>4, <1>5
  <2> QED
    BY <2>1
<1>7. isWalk(walk)
  <2> HIDE DEF isWalk
  <2> QED
    BY <1>6
<1> HIDE DEF walk
<1>8. \A i \in 0 .. MaxHops : walk[i] = IF i = 0 THEN {start} ELSE walk[i - 1] \cup Around(g, walk[i - 1])
  BY <1>7
<1>9. walk[0] = {start} /\ \A i \in 0 .. MaxHops : i # 0 => walk[i] = walk[i - 1] \cup Around(g, walk[i - 1])
  <2>1. 0 \in 0 .. MaxHops
    BY <1>0
  <2>2. walk[0] = {start}
    BY <1>8, <2>1
  <2>3. ASSUME NEW i \in 0 .. MaxHops, i # 0 PROVE walk[i] = walk[i - 1] \cup Around(g, walk[i - 1])
    BY <1>8, <2>3
  <2> QED
    BY <2>2, <2>3
<1> QED
  BY <1>2, <1>9

(* And of dependencies alone.                                               *)
LEMMA DependsHops ==
  ASSUME NEW g, NEW start \in NodesOf(g)
  PROVE  \E w : /\ \A m : DependsOn(g, start, m) <=> \E n \in w[MaxHops - 1] : m \in Depends(g, n)
               /\ w[0] = {start}
               /\ \A i \in 0 .. (MaxHops - 1) : i # 0 => w[i] = w[i - 1] \cup Below(g, w[i - 1])
<1> DEFINE next == [n \in NodesOf(g) |-> Depends(g, n)]
           isWalk(w) == w = [i \in 0 .. (MaxHops - 1) |-> IF i = 0 THEN {start} ELSE w[i - 1] \cup Below(g, w[i - 1])]
           walk == CHOOSE w : isWalk(w)
<1>1. next \in [NodesOf(g) -> SUBSET NodesOf(g)] /\ \A n \in NodesOf(g) : next[n] = Depends(g, n)
  BY DEF Depends
<1>0. MaxHops - 1 \in Nat
  BY HopsAssumption
<1>2. \A m : DependsOn(g, start, m) <=> \E n \in walk[MaxHops - 1] : m \in Depends(g, n)
  BY Zenon DEF DependsOn, Below
<1> HIDE DEF next
<1>3. PICK r \in [0 .. (MaxHops - 1) -> SUBSET NodesOf(g)] : Hops(next, start, MaxHops - 1, r)
  BY <1>0, <1>1, HopsExist
<1>4. r[0] = {start} /\ \A i \in 0 .. (MaxHops - 1) : i # 0 => r[i] = r[i - 1] \cup UNION {next[n] : n \in r[i - 1]}
  <2>1. \A i \in 0 .. (MaxHops - 1) : r[i] = IF i = 0 THEN {start} ELSE r[i - 1] \cup UNION {next[n] : n \in r[i - 1]}
    BY <1>3 DEF Hops
  <2>2. 0 \in 0 .. (MaxHops - 1)
    BY <1>0
  <2>3. r[0] = {start}
    BY <2>1, <2>2
  <2>4. ASSUME NEW i \in 0 .. (MaxHops - 1), i # 0 PROVE r[i] = r[i - 1] \cup UNION {next[n] : n \in r[i - 1]}
    BY <2>1, <2>4
  <2> QED
    BY <2>3, <2>4
<1>5. \A i \in 0 .. (MaxHops - 1) : i # 0 => r[i] = r[i - 1] \cup Below(g, r[i - 1])
  <2> SUFFICES ASSUME NEW i \in 0 .. (MaxHops - 1), i # 0 PROVE r[i] = r[i - 1] \cup Below(g, r[i - 1])
    BY <1>0
  <2>1. i - 1 \in 0 .. (MaxHops - 1)
    BY <1>0
  <2>2. r[i - 1] \subseteq NodesOf(g)
    BY <2>1
  <2>3. UNION {next[n] : n \in r[i - 1]} = Below(g, r[i - 1])
    BY <1>1, <2>2 DEF Below
  <2> QED
    BY <1>4, <2>3
<1>6. isWalk(r)
  <2>1. \A i \in 0 .. (MaxHops - 1) : r[i] = IF i = 0 THEN {start} ELSE r[i - 1] \cup Below(g, r[i - 1])
    BY <1>4, <1>5
  <2> QED
    BY <2>1
<1>7. isWalk(walk)
  <2> HIDE DEF isWalk
  <2> QED
    BY <1>6
<1> HIDE DEF walk
<1>8. \A i \in 0 .. (MaxHops - 1) : walk[i] = IF i = 0 THEN {start} ELSE walk[i - 1] \cup Below(g, walk[i - 1])
  BY <1>7
<1>9. walk[0] = {start} /\ \A i \in 0 .. (MaxHops - 1) : i # 0 => walk[i] = walk[i - 1] \cup Below(g, walk[i - 1])
  <2>1. 0 \in 0 .. (MaxHops - 1)
    BY <1>0
  <2>2. walk[0] = {start}
    BY <1>8, <2>1
  <2>3. ASSUME NEW i \in 0 .. (MaxHops - 1), i # 0 PROVE walk[i] = walk[i - 1] \cup Below(g, walk[i - 1])
    BY <1>8, <2>3
  <2> QED
    BY <2>2, <2>3
<1> QED
  BY <1>2, <1>9

(* What an entity depends on is where a walk from it arrives.                 *)
LEMMA WalkArrives ==
  ASSUME NEW g, NEW start \in NodesOf(g), NEW n, Explains(g, start, n)
  PROVE  n \in Walk(g, start)
<1>1. MaxHops \in Nat /\ MaxHops - 1 \in Nat
  BY HopsAssumption
<1>2. PICK w : /\ Walk(g, start) = w[MaxHops] /\ w[0] = {start}
               /\ \A i \in 0 .. MaxHops : i # 0 => w[i] = w[i - 1] \cup Around(g, w[i - 1])
  BY WalkHops
<1>3. PICK v : /\ \A m : DependsOn(g, start, m) <=> \E l \in v[MaxHops - 1] : m \in Depends(g, l)
               /\ v[0] = {start}
               /\ \A i \in 0 .. (MaxHops - 1) : i # 0 => v[i] = v[i - 1] \cup Below(g, v[i - 1])
  BY DependsHops
<1>4. \A m : Depends(g, m) \subseteq Adjacent(g, m)
  BY DEF Depends, Adjacent
<1> DEFINE Astray == {i \in 0 .. (MaxHops - 1) : ~({start} \subseteq w[i] /\ v[i] \subseteq w[i])}
<1>5. Astray = {}
  <2> SUFFICES ASSUME Astray # {} PROVE FALSE
    OBVIOUS
  <2>1. PICK i \in Astray : \A j \in Astray : <<j, i>> \notin OpToRel(<, Nat)
    <3>1. Astray \subseteq Nat
      OBVIOUS
    <3> HIDE DEF Astray
    <3> QED
      BY <3>1, WFMin, NatLessThanWellFounded
  <2>2. i \in 0 .. (MaxHops - 1) /\ ~({start} \subseteq w[i] /\ v[i] \subseteq w[i])
    BY <2>1
  <2>3. i # 0
    BY <1>2, <1>3, <2>2
  <2>4. i - 1 \in 0 .. (MaxHops - 1) /\ i \in 0 .. MaxHops /\ i \in Nat /\ i - 1 \in Nat /\ i - 1 < i
    BY <1>1, <2>2, <2>3
  <2>5. <<i - 1, i>> \in OpToRel(<, Nat)
    BY <2>4 DEF OpToRel
  <2>6. {start} \subseteq w[i - 1] /\ v[i - 1] \subseteq w[i - 1]
    BY <2>1, <2>4, <2>5
  <2>7. w[i] = w[i - 1] \cup Around(g, w[i - 1])
    BY <1>2, <2>3, <2>4
  <2>8. v[i] = v[i - 1] \cup Below(g, v[i - 1])
    BY <1>3, <2>2, <2>3
  <2>9. {start} \subseteq w[i]
    BY <2>6, <2>7
  <2>10. v[i] \subseteq w[i]
    <3> SUFFICES ASSUME NEW x \in v[i] PROVE x \in w[i]
      OBVIOUS
    <3>1. CASE x \in v[i - 1]
      BY <2>6, <2>7, <3>1
    <3>2. CASE x \notin v[i - 1]
      <4>1. PICK m \in v[i - 1] : x \in Depends(g, m)
        BY <2>8, <3>2 DEF Below
      <4>2. m \in w[i - 1] /\ x \in Adjacent(g, m)
        BY <1>4, <2>6, <4>1
      <4> QED
        BY <2>7, <4>2 DEF Around
    <3> QED
      BY <3>1, <3>2
  <2> QED
    BY <2>2, <2>9, <2>10
<1>6. {start} \subseteq w[MaxHops - 1] /\ v[MaxHops - 1] \subseteq w[MaxHops - 1]
  <2>1. MaxHops - 1 \in 0 .. (MaxHops - 1)
    BY <1>1
  <2> QED
    BY <1>5, <2>1
<1>7. w[MaxHops] = w[MaxHops - 1] \cup Around(g, w[MaxHops - 1])
  <2>1. MaxHops \in 0 .. MaxHops /\ MaxHops # 0
    BY HopsAssumption
  <2> QED
    BY <1>2, <2>1
<1>8. CASE n = start
  BY <1>2, <1>6, <1>7, <1>8
<1>9. CASE DependsOn(g, start, n)
  <2>1. PICK l \in v[MaxHops - 1] : n \in Depends(g, l)
    BY <1>3, <1>9
  <2>2. l \in w[MaxHops - 1] /\ n \in Adjacent(g, l)
    BY <1>4, <1>6, <2>1
  <2> QED
    BY <1>2, <1>7, <2>2 DEF Around
<1> QED
  BY <1>8, <1>9 DEF Explains

-----------------------------------------------------------------------------
(* Who asks                                                                *)

(* Who sees an alarm has its entity among the places it starts from.           *)
LEMMA AlarmAnchors ==
  ASSUME NEW g, NEW d, NEW finding, NEW leadsOf, NEW alarm, NEW end,
         NEW name \in alarm, NEW t, t = Resolve(g, name), t # Unresolved, d \in Probes[TypeOf[t]]
  PROVE  \E a \in Anchors(d, finding, leadsOf, alarm, end, g) : a.node = t
<1> DEFINE place(nm, seen) == [node |-> Resolve(g, nm), seen |-> seen]
           known(places) == {p \in places : p.node # Unresolved}
           found == known({place(r.entity, r.first) : r \in finding.rows} \cup {place(l.name, l.seen) : l \in leadsOf})
           alarmed == known({place(nm, end) : nm \in alarm})
           A == Anchors(d, finding, leadsOf, alarm, end, g)
<1>1. A = found \cup {p \in alarmed : p.node \notin {q.node : q \in found} /\ d \in Probes[TypeOf[p.node]]}
  BY DEF Anchors
<1>2. \E p \in alarmed : p.node = t
  <2>1. place(name, end) \in alarmed /\ place(name, end).node = t
    OBVIOUS
  <2> QED
    BY <2>1
<1> HIDE DEF found, alarmed, A
<1>3. CASE t \in {q.node : q \in found}
  BY <1>1, <1>3 DEF A
<1>4. CASE t \notin {q.node : q \in found}
  <2>1. PICK p \in alarmed : p.node = t
    BY <1>2
  <2>2. p \in A
    BY <1>1, <1>4, <2>1
  <2> QED
    BY <2>1, <2>2 DEF A
<1> QED
  BY <1>3, <1>4

(* It could then ask every peer that can see something the alarm depends on.    *)
LEMMA CandidateFor ==
  ASSUME NEW g, GraphOK(g), NEW d \in Domains, NEW finding, RowsOK(finding.rows), NEW leadsOf, LeadsOK(leadsOf),
         NEW alarm, IsFiniteSet(alarm), NEW peers, NEW window, window.start \in Int, window.end \in Int,
         NEW name \in alarm, NEW t, t = Resolve(g, name), t # Unresolved, d \in Probes[TypeOf[t]],
         NEW n, Explains(g, t, n), NEW target \in Probes[TypeOf[n]] \ {d}, ~Covered(g, peers[target], n)
  PROVE  \E q \in Candidates(d, finding, leadsOf, alarm, peers, g, window, {}) : q.target = target /\ q.node = n
<1> DEFINE A == Anchors(d, finding, leadsOf, alarm, window.end, g)
           ask(a, m, p) == [asker |-> d, target |-> p, node |-> m, names |-> Named(g, m), anchor |-> a.node,
                            hops |-> HopsTo(g, a.node, m), start |-> Reach(a.seen, window), end |-> window.end]
           about(a, m) == {ask(a, m, p) : p \in Probes[TypeOf[m]] \ {d}}
           all == UNION {UNION {about(a, m) : m \in {l \in Walk(g, a.node) : Explains(g, a.node, l)}} : a \in A}
<1>1. PICK a \in A : a.node = t
  BY AlarmAnchors
<1>2. t \in NodesOf(g)
  BY ResolveOK
<1>3. n \in Walk(g, a.node) /\ Explains(g, a.node, n)
  BY <1>1, <1>2, WalkArrives
<1>4. Candidates(d, finding, leadsOf, alarm, peers, g, window, {})
        = {q \in all : IdOf(q) \notin {} /\ ~Covered(g, peers[q.target], q.node)}
  BY DEF Candidates
<1>5. ask(a, n, target).target = target /\ ask(a, n, target).node = n
  OBVIOUS
<1>6. ask(a, n, target) \in about(a, n)
  OBVIOUS
<1> HIDE DEF A, ask, about
<1>7. ask(a, n, target) \in all
  BY <1>3, <1>6
<1> HIDE DEF all
<1> QED
  BY <1>4, <1>5, <1>7

(* Every question reaches back a lookback before the window, to its end.       *)
LEMMA CandidateTimes ==
  ASSUME NEW g, GraphOK(g), NEW d \in Domains, NEW finding, RowsOK(finding.rows), NEW leadsOf, LeadsOK(leadsOf),
         NEW alarm, IsFiniteSet(alarm), NEW peers, NEW window, window.start \in Int, window.end \in Int, NEW before,
         NEW q \in Candidates(d, finding, leadsOf, alarm, peers, g, window, before)
  PROVE  q.start <= window.start - Lookback /\ q.end = window.end
<1> DEFINE A == Anchors(d, finding, leadsOf, alarm, window.end, g)
<1>1. \A a \in A : a.seen \in Int
  BY AnchorsOK
<1>2. PICK a \in A : q.start = Reach(a.seen, window) /\ q.end = window.end
  BY DEF Candidates
<1> HIDE DEF A
<1>3. Reach(a.seen, window) <= window.start - Lookback
  <2>1. a.seen \in Int
    BY <1>1
  <2>2. IsFiniteSet({a.seen, window.start})
    <3>1. {a.seen, window.start} = {a.seen} \cup {window.start}
      OBVIOUS
    <3>2. IsFiniteSet({a.seen} \cup {window.start})
      BY FS_Singleton, FS_Union
    <3> QED
      BY <3>1, <3>2
  <2>3. {a.seen, window.start} \in SUBSET Int /\ {a.seen, window.start} # {}
    BY <2>1
  <2>4. Min({a.seen, window.start}) \in Int /\ Min({a.seen, window.start}) <= window.start
    BY <2>1, <2>2, <2>3, MinOf
  <2> QED
    BY <2>4, InvestigationAssumption DEF Reach
<1> QED
  BY <1>2, <1>3

-----------------------------------------------------------------------------
(* What is asked                                                           *)

(* Different elements with different images are as many as their images.       *)
LEMMA ImageSize ==
  ASSUME NEW S, IsFiniteSet(S), NEW f, DOMAIN f = S, \A x, y \in S : f[x] = f[y] => x = y
  PROVE  IsFiniteSet({f[x] : x \in S}) /\ Cardinality({f[x] : x \in S}) = Cardinality(S)
<1> DEFINE T == {f[x] : x \in S}
           h == [x \in S |-> f[x]]
<1>0. h \in [S -> T] /\ (\A x \in S : h[x] = f[x])
  OBVIOUS
<1>1. h \in Bijection(S, T)
  <2>1. \A y \in T : \E x \in S : h[x] = y
    BY <1>0
  <2> HIDE DEF T, h
  <2>2. h \in Surjection(S, T)
    BY <1>0, <2>1 DEF Surjection
  <2>3. h \in Injection(S, T)
    BY <1>0 DEF Injection, IsInjective
  <2> QED
    BY <2>2, <2>3 DEF Bijection
<1>2. ExistsBijection(S, T)
  BY <1>1 DEF ExistsBijection
<1> HIDE DEF T
<1>3. IsFiniteSet(T) /\ Cardinality(T) = Cardinality(S)
  BY <1>2, FS_Bijection
<1> QED
  BY <1>3 DEF T

\* The ids of some questions and hypotheses.
RequestIds(Q) == {RequestId(r) : r \in Q}

(* The orchestrator drops what was asked before, and more only if it asks as     *)
(* much as it may.                                                          *)
LEMMA SelectedIs ==
  ASSUME NEW Q, HopsKnown(Q)
  PROVE  LET K == Selected(Q)
         IN /\ IsFiniteSet(RequestIds(K))
            /\ RequestIds(K) = RequestIds(Q) \ asked \/ Cardinality(RequestIds(K)) = MaxQuestions
<1> DEFINE ids == {RequestId(r) : r \in Q} \ asked
           rep(i) == CHOOSE r \in Q : RequestId(r) = i
           reps == {rep(i) : i \in ids}
           K == NearestOf(reps)
<1>1. Selected(Q) = K
  BY DEF Selected
<1>2. \A i \in ids : rep(i) \in Q /\ RequestId(rep(i)) = i
  OBVIOUS
<1> HIDE DEF rep
<1>3. HopsKnown(reps)
  BY <1>2, FS_Subset DEF HopsKnown
<1>4. \A r \in reps : RequestId(r) \in ids /\ r = rep(RequestId(r))
  BY <1>2
<1>5. \A i \in ids : \E r \in reps : RequestId(r) = i
  BY <1>2
<1> HIDE DEF reps
<1>6. K \in SUBSET reps /\ IsFiniteSet(K) /\ (K = reps \/ Cardinality(K) = MaxQuestions)
  BY <1>3, NearestOK
<1> HIDE DEF K
<1> DEFINE f == [r \in K |-> RequestId(r)]
<1>7. DOMAIN f = K /\ \A r \in K : f[r] = RequestId(r)
  OBVIOUS
<1>8. RequestIds(K) = {f[r] : r \in K}
  BY DEF RequestIds
<1>9. \A x, y \in K : f[x] = f[y] => x = y
  <2> HIDE DEF f, ids
  <2> SUFFICES ASSUME NEW x \in K, NEW y \in K, f[x] = f[y] PROVE x = y
    OBVIOUS
  <2>1. RequestId(x) = RequestId(y)
    BY <1>7
  <2>2. x = rep(RequestId(x)) /\ y = rep(RequestId(y))
    BY <1>4, <1>6
  <2> QED
    BY <2>1, <2>2
<1> HIDE DEF f
<1>10. IsFiniteSet(RequestIds(K)) /\ Cardinality(RequestIds(K)) = Cardinality(K)
  BY <1>6, <1>7, <1>8, <1>9, ImageSize
<1>11. K = reps => RequestIds(K) = ids
  <2> HIDE DEF ids
  <2> QED
    BY <1>4, <1>5 DEF RequestIds
<1>12. ids = RequestIds(Q) \ asked
  BY DEF RequestIds
<1> HIDE DEF ids
<1> QED
  BY <1>1, <1>6, <1>10, <1>11, <1>12

-----------------------------------------------------------------------------
(* What an alarm's causes are asked about                                  *)

\* What CauseFound speaks of, and what becomes of it: an agent that can see it has
\* it in its evidence, or has yet to answer a question about it.
NodeOf(s) == Resolve(world.graph, s.entity)
Sought(s) ==
  /\ Wrong(s) /\ Window.start - Lookback <= s.time /\ s.time <= Window.end
  /\ NodeOf(s) # Unresolved /\ AskedAbout(NodeOf(s), s.domain) /\ s.domain \in Probes[TypeOf[NodeOf(s)]]
  /\ <<s.domain, "scoped">> \notin world.unread
Shown(s) == Covered(world.graph, findings[s.domain], NodeOf(s))
AsksFor(q, s) == q.target = s.domain /\ q.node = NodeOf(s) /\ q.start <= s.time /\ s.time <= q.end
Pending(s) == stage = "answer" /\ \E q \in questions : AsksFor(q, s)

(* What is sought is at a node of the topology, for a domain that can see it.   *)
LEMMA SoughtNode ==
  ASSUME WorldOK, NEW s \in world.samples, Sought(s)
  PROVE  /\ NodeOf(s) \in NodesOf(world.graph) /\ s.domain \in Domains /\ s.time \in Int
<1>1. GraphOK(world.graph) /\ s.time \in Int
  BY DEF WorldOK, SamplesOK, SampleOK
<1>2. NodeOf(s) \in NodesOf(world.graph)
  <2>1. Resolve(world.graph, s.entity) # Unresolved
    BY DEF Sought, NodeOf
  <2>2. Resolve(world.graph, s.entity) \in NodesOf(world.graph)
    BY <1>1, <2>1, ResolveOK
  <2> QED
    BY <2>2 DEF NodeOf
<1>3. NodeOf(s) \in DOMAIN TypeOf
  BY <1>1, <1>2, NodesOK
<1>4. Probes[TypeOf[NodeOf(s)]] \subseteq Domains
  BY <1>3, InvestigationAssumption, CatalogAssumption DEF ValidCatalog
<1> QED
  BY <1>1, <1>2, <1>4 DEF Sought

(* Somebody has a question about it, or as many others as there may be.         *)
LEMMA SomebodyPlans ==
  ASSUME Inv, stage = "ask", asked = {}, NEW s \in world.samples, Sought(s), ~Shown(s)
  PROVE  \E P \in SUBSET Planned :
           /\ IsFiniteSet(P) /\ \A q \in P : QuestionOK(world.graph, q)
           /\ \A q, r \in P : q.target = r.target /\ q.node = r.node => q = r
           /\ Cardinality(P) = MaxQuestions \/ \E q \in P : AsksFor(q, s)
<1>1. PICK name \in world.alarm :
             LET t == Resolve(world.graph, name)
             IN t # Unresolved /\ Explains(world.graph, t, NodeOf(s)) /\ Probes[TypeOf[t]] \ {s.domain} # {}
  BY DEF Sought, AskedAbout
<1> DEFINE t == Resolve(world.graph, name)
           g == world.graph
           n == NodeOf(s)
<1>2. t # Unresolved /\ Explains(g, t, n) /\ Probes[TypeOf[t]] \ {s.domain} # {}
  BY <1>1
<1>3. PICK d \in Probes[TypeOf[t]] : d # s.domain
  BY <1>2
<1>4. WorldOK /\ GraphOK(g) /\ IsFiniteSet(world.alarm)
  BY DEF Inv, TypeOK, WorldOK
<1>5. d \in Domains
  <2>1. t \in DOMAIN TypeOf
    BY <1>2, <1>4, ResolveOK, NodesOK
  <2>2. Probes[TypeOf[t]] \subseteq Domains
    BY <2>1, InvestigationAssumption, CatalogAssumption DEF ValidCatalog
  <2> QED
    BY <2>2
<1>6. /\ RowsOK(findings[d].rows) /\ LeadsOK(leads[d]) /\ Window.start \in Int /\ Window.end \in Int
  BY <1>5, DiagnosisAssumption DEF Inv, TypeOK, FindingOK
<1>7. n \in NodesOf(g) /\ s.domain \in Domains /\ s.time \in Int
  BY <1>4, SoughtNode
<1>8. s.domain \in Probes[TypeOf[n]] \ {d} /\ ~Covered(g, findings[s.domain], n)
  BY <1>3 DEF Sought, Shown
<1> DEFINE C == Candidates(d, findings[d], leads[d], world.alarm, findings, g, Window, asked)
           P == PlanRequests(d, findings[d], leads[d], world.alarm, findings, g, Window, asked)
<1>9. \E q \in C : q.target = s.domain /\ q.node = n
  <2> HIDE DEF n
  <2>1. t = Resolve(g, name) /\ d \in Probes[TypeOf[t]] /\ name \in world.alarm
    BY <1>3
  <2> HIDE DEF t, g, C
  <2>2. \E q \in Candidates(d, findings[d], leads[d], world.alarm, findings, g, Window, {}) : q.target = s.domain /\ q.node = n
    BY <1>2, <1>4, <1>5, <1>6, <1>8, <2>1, CandidateFor
  <2> QED
    BY <2>2 DEF C
<1>10. /\ P \in SUBSET C /\ IsFiniteSet(P) /\ \A q \in P : QuestionOK(g, q)
       /\ \A q, r \in P : q.target = r.target /\ q.node = r.node => q = r
       /\ \/ Cardinality(P) = MaxQuestions
          \/ \A q \in C : \E r \in P : r.target = q.target /\ r.node = q.node
  BY <1>4, <1>5, <1>6, PlanIs
<1>11. \A q \in C : q.start <= Window.start - Lookback /\ q.end = Window.end
  BY <1>4, <1>5, <1>6, CandidateTimes
<1>12. P \in SUBSET Planned
  BY <1>5 DEF Planned
<1> HIDE DEF C, P, t, n
<1>13. Cardinality(P) = MaxQuestions \/ \E q \in P : AsksFor(q, s)
  <2> SUFFICES ASSUME Cardinality(P) # MaxQuestions PROVE \E q \in P : AsksFor(q, s)
    OBVIOUS
  <2>1. PICK q \in P : q.target = s.domain /\ q.node = n
    BY <1>9, <1>10
  <2>2. q.start <= Window.start - Lookback /\ q.end = Window.end /\ q.start \in Int
    BY <1>10, <1>11, <2>1 DEF QuestionOK
  <2>3. Window.start - Lookback <= s.time /\ s.time <= Window.end
    BY DEF Sought
  <2>4. q.start <= s.time /\ s.time <= q.end
    BY <1>6, <1>7, <2>2, <2>3, InvestigationAssumption
  <2> QED
    BY <2>1, <2>4 DEF AsksFor, n
<1> QED
  BY <1>10, <1>12, <1>13

(* What was asked after the questions of a round: all that was wanted, or as     *)
(* much as there may be.                                                    *)
LEMMA AskedIs ==
  ASSUME Inv, Ask, IsFiniteSet(asked)
  PROVE  \E Q : /\ Planned \subseteq Q
                /\ \A r \in Q : IsHypothesis(r) \/ QuestionOK(world.graph, r)
                /\ asked' = asked \cup RequestIds(Selected(Q)) /\ IsFiniteSet(asked')
                /\ Selected(Q) \subseteq Q /\ questions' = {r \in Selected(Q) : ~IsHypothesis(r)}
                /\ RequestIds(Q) \subseteq asked' \/ Cardinality(asked') >= MaxQuestions
<1>1. PICK H \in SUBSET UNION {Triage(d) : d \in Domains} :
             /\ hypotheses' = {r \in Selected(Planned \cup H) : IsHypothesis(r)}
             /\ questions' = Selected(Planned \cup H) \ hypotheses'
             /\ asked' = asked \cup RequestIds(Selected(Planned \cup H))
  BY DEF Ask, RequestIds
<1>2. stage = "ask"
  BY DEF Ask
<1>3. /\ IsFiniteSet(Planned) /\ \A q \in Planned : QuestionOK(world.graph, q)
      /\ IsFiniteSet(H) /\ \A c \in H : HypothesisOK(c)
  <2> DEFINE all == UNION {Triage(d) : d \in Domains}
  <2>1. /\ IsFiniteSet(Planned) /\ \A q \in Planned : QuestionOK(world.graph, q)
        /\ IsFiniteSet(all) /\ \A c \in all : HypothesisOK(c)
    BY <1>2, RequestsOK
  <2>2. H \in SUBSET all
    OBVIOUS
  <2> HIDE DEF all
  <2> QED
    BY <2>1, <2>2, FS_Subset
<1> DEFINE Q == Planned \cup H
<1>4. HopsKnown(Q)
  BY <1>3, FS_Union DEF HopsKnown, QuestionOK, HypothesisOK
<1>5. \A r \in Q : IsHypothesis(r) \/ QuestionOK(world.graph, r)
  BY <1>3 DEF IsHypothesis, HypothesisOK
<1> HIDE DEF Q
<1>6. Selected(Q) \subseteq Q
  BY <1>4, SelectedOK
<1> DEFINE new == RequestIds(Selected(Q))
<1>7. IsFiniteSet(new) /\ (new = RequestIds(Q) \ asked \/ Cardinality(new) = MaxQuestions)
  BY <1>4, SelectedIs
<1>8. asked' = asked \cup new /\ questions' = {r \in Selected(Q) : ~IsHypothesis(r)}
  BY <1>1 DEF Q
<1> HIDE DEF new
<1>9. IsFiniteSet(asked') /\ new \subseteq asked'
  BY <1>7, <1>8, FS_Union
<1>10. RequestIds(Q) \subseteq asked' \/ Cardinality(asked') >= MaxQuestions
  <2>1. CASE new = RequestIds(Q) \ asked
    BY <1>8, <2>1
  <2>2. CASE Cardinality(new) = MaxQuestions
    <3>1. Cardinality(new) <= Cardinality(asked') /\ Cardinality(asked') \in Nat
      BY <1>9, FS_Subset, FS_CardinalityType
    <3> QED
      BY <2>2, <3>1, InvestigationAssumption
  <2> QED
    BY <1>7, <2>1, <2>2
<1>11. Planned \subseteq Q
  BY DEF Q
<1> QED
  BY <1>5, <1>6, <1>8, <1>9, <1>10, <1>11 DEF new

(* Different questions of a plan have different ids, and none that a hypothesis *)
(* has.                                                                     *)
LEMMA PlanIds ==
  ASSUME NEW g, NEW P, IsFiniteSet(P), \A q \in P : QuestionOK(g, q),
         \A q, r \in P : q.target = r.target /\ q.node = r.node => q = r
  PROVE  /\ \A q \in P : RequestId(q) = IdOf(q)
         /\ Cardinality(RequestIds(P)) = Cardinality(P)
<1>1. ASSUME NEW q \in P PROVE RequestId(q) = IdOf(q)
  <2>1. ~IsHypothesis(q)
    BY DEF IsHypothesis, QuestionOK, QuestionFields
  <2> QED
    BY <2>1 DEF RequestId
<1> DEFINE f == [q \in P |-> RequestId(q)]
<1>2. DOMAIN f = P /\ \A q \in P : f[q] = IdOf(q)
  BY <1>1
<1>3. RequestIds(P) = {f[q] : q \in P}
  BY DEF RequestIds
<1> HIDE DEF f
<1>4. \A q, r \in P : f[q] = f[r] => q = r
  BY <1>2 DEF IdOf
<1>5. Cardinality(RequestIds(P)) = Cardinality(P)
  BY <1>2, <1>3, <1>4, ImageSize
<1> QED
  BY <1>1, <1>5

(* A question that was asked about something is asked, by one agent or another. *)
LEMMA SameQuestion ==
  ASSUME NEW g, NEW q, QuestionOK(g, q), NEW K, RequestId(q) \in RequestIds(K),
         \A r \in K : IsHypothesis(r) \/ QuestionOK(g, r)
  PROVE  \E r \in K : ~IsHypothesis(r) /\ r.target = q.target /\ r.node = q.node /\ r.start = q.start /\ r.end = q.end
<1>1. PICK r \in K : RequestId(r) = RequestId(q)
  BY DEF RequestIds
<1>2. RequestId(q) = <<q.target, q.node, q.start, q.end>>
  <2>1. ~IsHypothesis(q)
    BY DEF IsHypothesis, QuestionOK, QuestionFields
  <2> QED
    BY <2>1 DEF RequestId, IdOf
<1>3. ~IsHypothesis(r)
  <2> SUFFICES ASSUME IsHypothesis(r) PROVE FALSE
    OBVIOUS
  <2>1. <<"hypothesis", r.domain, r.h.signal, r.h.entity, r.h.rule>> = <<q.target, q.node, q.start, q.end>>
    BY <1>1, <1>2 DEF RequestId
  <2>2. Len(<<"hypothesis", r.domain, r.h.signal, r.h.entity, r.h.rule>>) = 5 /\ Len(<<q.target, q.node, q.start, q.end>>) = 4
    OBVIOUS
  <2> QED
    BY <2>1, <2>2
<1>4. RequestId(r) = <<r.target, r.node, r.start, r.end>>
  BY <1>3 DEF RequestId, IdOf
<1> QED
  BY <1>1, <1>2, <1>3, <1>4

(* The questions of the first round leave nothing out.                        *)
LEMMA AskFinds ==
  ASSUME Inv, Ask, asked = {}, NEW s \in world.samples, Sought(s), ~Shown(s)
  PROVE  Cardinality(asked') >= MaxQuestions \/ \E q \in questions' : AsksFor(q, s)
<1>1. stage = "ask" /\ IsFiniteSet(asked)
  BY FS_EmptySet DEF Ask
<1>2. PICK P \in SUBSET Planned :
           /\ IsFiniteSet(P) /\ \A q \in P : QuestionOK(world.graph, q)
           /\ \A q, r \in P : q.target = r.target /\ q.node = r.node => q = r
           /\ Cardinality(P) = MaxQuestions \/ \E q \in P : AsksFor(q, s)
  BY <1>1, SomebodyPlans
<1>3. PICK Q : /\ Planned \subseteq Q
               /\ \A r \in Q : IsHypothesis(r) \/ QuestionOK(world.graph, r)
               /\ asked' = asked \cup RequestIds(Selected(Q)) /\ IsFiniteSet(asked')
               /\ Selected(Q) \subseteq Q /\ questions' = {r \in Selected(Q) : ~IsHypothesis(r)}
               /\ RequestIds(Q) \subseteq asked' \/ Cardinality(asked') >= MaxQuestions
  BY <1>1, AskedIs
<1>4. CASE Cardinality(asked') >= MaxQuestions
  BY <1>4
<1>5. CASE RequestIds(Q) \subseteq asked' /\ Cardinality(P) = MaxQuestions
  <2>1. RequestIds(P) \subseteq asked'
    BY <1>2, <1>3, <1>5 DEF RequestIds
  <2>2. Cardinality(RequestIds(P)) = MaxQuestions
    BY <1>2, <1>5, PlanIds
  <2>3. Cardinality(RequestIds(P)) <= Cardinality(asked')
    BY <1>3, <2>1, FS_Subset
  <2> QED
    BY <2>2, <2>3
<1>6. CASE RequestIds(Q) \subseteq asked' /\ \E q \in P : AsksFor(q, s)
  <2>1. PICK q \in P : AsksFor(q, s)
    BY <1>6
  <2>2. QuestionOK(world.graph, q) /\ RequestId(q) \in RequestIds(Selected(Q))
    BY <1>2, <1>3, <1>6, <2>1 DEF RequestIds
  <2> DEFINE K == Selected(Q)
  <2>3. \A r \in K : IsHypothesis(r) \/ QuestionOK(world.graph, r)
    BY <1>3
  <2>4. PICK r \in K : ~IsHypothesis(r) /\ r.target = q.target /\ r.node = q.node /\ r.start = q.start /\ r.end = q.end
    <3> HIDE DEF K
    <3>1. RequestId(q) \in RequestIds(K)
      BY <2>2 DEF K
    <3> QED
      BY <2>2, <2>3, <3>1, SameQuestion
  <2>5. r \in questions'
    BY <1>3, <2>4
  <2> QED
    BY <2>1, <2>4, <2>5 DEF AsksFor
<1> QED
  BY <1>2, <1>3, <1>4, <1>5, <1>6

-----------------------------------------------------------------------------
(* What an answer shows                                                    *)

\* NamesAreClear, of the world of this incident.
WorldClear ==
  \A n \in NodesOf(world.graph), s \in world.samples :
    TypeOf[s.entity] = TypeOf[n] /\ IdIn[s.entity] \in Named(world.graph, n).ids => Resolve(world.graph, s.entity) = n

(* What analyze_domain keeps is of the rows there are.                         *)
LEMMA RowsWithin ==
  ASSUME NEW d, NEW ctx, SamplesOK(ctx.series), NEW after, SamplesOK(after), NEW hits \in SUBSET ctx.series
  PROVE  RowsOf(d, ctx, after, hits) \subseteq AllRows(d, ctx, after, hits)
<1> DEFINE rows == AllRows(d, ctx, after, hits)
           R == {p \in rows \X rows : Before(p[1], p[2])}
<1>1. RowsOK(rows)
  BY AllRowsOK
<1>2. RowsOf(d, ctx, after, hits) = Foremost(rows, MaxEvidence, R)
  BY DEF RowsOf
<1>3. Orders(R, rows)
  BY <1>1, BeforeOrders DEF RowsOK
<1> HIDE DEF rows, R
<1>4. Foremost(rows, MaxEvidence, R) \subseteq rows
  BY <1>1, <1>3, DetectionAssumption, ForemostCut DEF RowsOK
<1> QED
  BY <1>2, <1>4 DEF rows

(* The rows of a scoped analysis are about the entity it was asked about.       *)
LEMMA ScopedRows ==
  ASSUME WorldOK, WorldClear, NEW q, QuestionOK(world.graph, q)
  PROVE  \A r \in AnswerTo(q).finding.rows : Resolve(world.graph, r.entity) = q.node
<1> DEFINE read == Read(q.target, "scoped", q.names, q.start, q.end, SpanOf(q.target))
           yes == TRUE
           f == FindingOf(q.target, read, {}, yes)
           ctx == ContextOf(q.target, read)
           hits == HitsIn(ctx, yes)
           after == OfDomain(q.target, {})
<1>1. AnswerTo(q).finding = f
  BY DEF AnswerTo
<1>2. read.samples \in SUBSET world.samples /\ SamplesOK(read.samples)
  BY ReadOK
<1>3. SamplesOK({})
  BY FS_EmptySet DEF SamplesOK
<1>4. f.rows = RowsOf(q.target, ctx, after, hits) /\ SamplesOK(after)
  <2> HIDE DEF read, yes
  <2> QED
    BY <1>2, <1>3, FindingOfOK
<1>5. SamplesOK(ctx.series) /\ hits \in SUBSET ctx.series
  <2> HIDE DEF read, yes
  <2> QED
    BY <1>2, ContextSamples
<1>6. \A s \in read.samples : s \in world.samples /\ TypeOf[s.entity] = q.names.type /\ IdIn[s.entity] \in q.names.ids
  <2>1. q.names # AllEntities
    <3>1. q.names = [type |-> TypeOf[q.node], ids |-> {IdIn[q.node]} \cup world.graph.labels[q.node]]
      BY DEF QuestionOK, Named
    <3>2. "type" \in DOMAIN q.names /\ "type" \notin DOMAIN AllEntities
      BY <3>1 DEF AllEntities
    <3> QED
      BY <3>2
  <2> QED
    BY <2>1 DEF Read, Matches
<1>7. ctx.series \subseteq read.samples
  BY DEF ContextOf, OfDomain
<1>8. \A s \in hits : Resolve(world.graph, s.entity) = q.node
  <2>1. q.node \in NodesOf(world.graph) /\ q.names = Named(world.graph, q.node) /\ q.names.type = TypeOf[q.node]
    BY DEF QuestionOK, Named
  <2> HIDE DEF read, yes, ctx, hits
  <2> QED
    BY <1>5, <1>6, <1>7, <2>1 DEF WorldClear
<1> HIDE DEF f, read, ctx, hits, after
<1>9. RowsOf(q.target, ctx, after, hits) \subseteq AllRows(q.target, ctx, after, hits)
  BY <1>4, <1>5, RowsWithin
<1>10. AllRows(q.target, ctx, after, hits) = {RowFor(q.target, s, ctx, after, hits) : s \in hits}
  BY <1>4, <1>5, AllRowsOK
<1>11. ASSUME NEW s \in hits PROVE RowFor(q.target, s, ctx, after, hits).entity = s.entity
  <2> DEFINE d == q.target
             r == RowFor(d, s, ctx, after, hits)
  <2> HIDE DEF d, r
  <2>1. r.entity = s.entity /\ s.ref \in r.refs /\ r.role = RoleOf({t.signal : t \in Observed(d, s, ctx) \cap hits})
    BY <1>4, <1>5, RowForOK DEF r
  <2> QED
    BY <2>1 DEF d, r
<1> QED
  BY <1>1, <1>4, <1>8, <1>9, <1>10, <1>11

(* An answer about something wrong that could be read supports it.            *)
LEMMA AnswerFinds ==
  ASSUME WorldOK, NEW q, QuestionOK(world.graph, q), <<q.target, "scoped">> \notin world.unread,
         NEW s \in world.samples, s.domain = q.target, q.start <= s.time, s.time <= q.end,
         Resolve(world.graph, s.entity) = q.node, Wrong(s)
  PROVE  AnswerTo(q).verdict = "supported" /\ AnswerTo(q).finding.rows # {}
<1> DEFINE read == Read(q.target, "scoped", q.names, q.start, q.end, SpanOf(q.target))
           yes == TRUE
           f == FindingOf(q.target, read, {}, yes)
           hits == HitsIn(ContextOf(q.target, read), yes)
<1>1. AnswerTo(q).finding = f /\ AnswerTo(q).verdict = Verdict(f)
  BY DEF AnswerTo
<1>2. s \in hits
  BY WrongIsHit
<1>3. SamplesOK(read.samples) /\ SamplesOK({})
  BY ReadOK, FS_EmptySet DEF SamplesOK
<1>4. f.anomaly = (hits # {}) /\ (hits # {} => f.rows # {})
  <2> HIDE DEF read, yes
  <2> QED
    BY <1>3, FindingOfOK
<1> HIDE DEF f, hits, read
<1>5. hits # {}
  BY <1>2
<1>6. f.anomaly /\ f.rows # {}
  BY <1>4, <1>5
<1>7. Verdict(f) = "supported"
  BY <1>6 DEF Verdict
<1> QED
  BY <1>1, <1>6, <1>7

(* Whatever a supported answer is about, the evidence is about afterwards.     *)
LEMMA AbsorbShows ==
  ASSUME NEW f, NEW S, FindingOK(f, S), NEW answered
  PROVE  /\ f.rows \subseteq Absorb(f, answered).rows
         /\ \A a \in answered : \A r \in a.rows : \E t \in Absorb(f, answered).rows : t.entity = r.entity
<1> DEFINE all == UNION {a.rows : a \in answered}
           new == {r \in all : RowKey(r) \notin {RowKey(t) : t \in f.rows}}
           pick(k) == CHOOSE r \in new : RowKey(r) = k
           kept == {pick(k) : k \in {RowKey(t) : t \in new}}
           via(r) == IF r.via = "rule" THEN [r EXCEPT !.via = "validation"] ELSE r
           added == {via(r) : r \in kept}
           g == Absorb(f, answered)
<1>1. g = [f EXCEPT !.rows = @ \cup added, !.anomaly = @ \/ new # {}]
  BY Zenon DEF Absorb
<1>2. \A r \in new : pick(RowKey(r)) \in kept /\ RowKey(pick(RowKey(r))) = RowKey(r)
  <2> HIDE DEF new
  <2> QED
    OBVIOUS
<1>3. \A r \in kept : via(r) \in added /\ via(r).entity = r.entity
  <2> HIDE DEF kept
  <2> QED
    OBVIOUS
<1>4. \A r, t : RowKey(r) = RowKey(t) => r.entity = t.entity
  BY DEF RowKey
<1>5. \A r \in all : r \in new \/ \E t \in f.rows : RowKey(t) = RowKey(r)
  <2> HIDE DEF all
  <2> QED
    OBVIOUS
<1> HIDE DEF new, g, pick, kept, via, added
<1>6. g.rows = f.rows \cup added
  BY <1>1 DEF FindingOK, FindingFields
<1>7. \A r \in all : \E t \in g.rows : t.entity = r.entity
  <2> SUFFICES ASSUME NEW r \in all PROVE \E t \in g.rows : t.entity = r.entity
    OBVIOUS
  <2> HIDE DEF all
  <2>1. CASE r \in new
    <3>1. pick(RowKey(r)) \in kept /\ pick(RowKey(r)).entity = r.entity
      BY <1>2, <1>4, <2>1
    <3>2. via(pick(RowKey(r))) \in added /\ via(pick(RowKey(r))).entity = r.entity
      BY <1>3, <3>1
    <3> QED
      BY <1>6, <3>2
  <2>2. CASE r \notin new
    BY <1>4, <1>5, <1>6, <2>2
  <2> QED
    BY <2>1, <2>2
<1> QED
  BY <1>6, <1>7 DEF g

(* What was asked about is shown once the answers are in, and what was shown    *)
(* before still is.                                                         *)
LEMMA AnswerShows ==
  ASSUME Inv, WorldClear, Answer, NEW s \in world.samples, Sought(s), Shown(s) \/ Pending(s)
  PROVE  Shown(s)'
<1> DEFINE given == {AnswerTo(q) : q \in questions}
           verified == {CheckOf(c) : c \in hypotheses}
           answered(d) == {[rows |-> a.finding.rows] : a \in {b \in given : b.q.target = d /\ b.verdict = "supported"}}
           confirmed(d) == {[rows |-> c.rows] : c \in {v \in verified : v.domain = d /\ v.verdict = "supported"}}
           supported(d) == answered(d) \cup confirmed(d)
           d == s.domain
<1>1. stage = "answer" /\ world' = world
  BY DEF Answer
<1>2. WorldOK /\ d \in Domains
  BY SoughtNode DEF Inv, TypeOK
<1>3. findings'[d] = Absorb(findings[d], supported(d))
  <2>1. findings' = [e \in Domains |-> Absorb(findings[e], supported(e))]
    BY DEF Answer
  <2> HIDE DEF supported
  <2> QED
    BY <1>2, <2>1
<1>4. FindingOK(findings[d], world.samples)
  BY <1>1, <1>2 DEF Inv, TypeOK
<1>5. /\ findings[d].rows \subseteq findings'[d].rows
      /\ \A a \in supported(d) : \A r \in a.rows : \E t \in findings'[d].rows : t.entity = r.entity
  <2> HIDE DEF supported
  <2> QED
    BY <1>3, <1>4, AbsorbShows
<1>6. Shown(s)' <=> \E r \in findings'[d].rows : Resolve(world.graph, r.entity) = NodeOf(s)
  BY <1>1 DEF Shown, Covered, NodeOf
<1>7. CASE Shown(s)
  BY <1>5, <1>6, <1>7 DEF Shown, Covered
<1>8. CASE Pending(s)
  <2>1. PICK q \in questions : AsksFor(q, s)
    BY <1>8 DEF Pending
  <2>2. QuestionOK(world.graph, q)
    BY DEF Inv, TypeOK
  <2> DEFINE a == AnswerTo(q)
  <2>3. a.verdict = "supported" /\ a.finding.rows # {} /\ a.q = q
    <3>1. AnswerTo(q).verdict = "supported" /\ AnswerTo(q).finding.rows # {}
      BY <1>2, <2>1, <2>2, AnswerFinds DEF AsksFor, Sought, NodeOf
    <3>2. AnswerTo(q).q = q
      BY <1>2, <2>2, AnswerToOK
    <3> QED
      BY <3>1, <3>2
  <2>4. \A r \in a.finding.rows : Resolve(world.graph, r.entity) = NodeOf(s)
    <3>1. \A r \in AnswerTo(q).finding.rows : Resolve(world.graph, r.entity) = q.node
      BY <1>2, <2>2, ScopedRows
    <3> QED
      BY <2>1, <3>1 DEF AsksFor
  <2>5. a \in given
    OBVIOUS
  <2> HIDE DEF a, given
  <2>6. PICK r \in a.finding.rows : TRUE
    BY <2>3
  <2>7. [rows |-> a.finding.rows] \in answered(d)
    <3>1. a \in {b \in given : b.q.target = d /\ b.verdict = "supported"}
      BY <2>1, <2>3, <2>5 DEF AsksFor
    <3> QED
      BY <3>1
  <2>8. \E t \in findings'[d].rows : t.entity = r.entity
    <3> DEFINE x == [rows |-> a.finding.rows]
    <3>1. x \in supported(d) /\ r \in x.rows
      BY <2>7
    <3> HIDE DEF x, supported
    <3> QED
      BY <1>5, <3>1
  <2> QED
    BY <1>6, <2>4, <2>8
<1> QED
  BY <1>7, <1>8

-----------------------------------------------------------------------------
(* Every cause is found                                                    *)

\* Whatever is sought is shown or pending from the first round on, unless the
\* questions ran into their limit, or nobody collaborated.
Followed(s) ==
  \/ stage = "sweep" \/ (stage = "ask" /\ round = 1)
  \/ Cardinality(asked) >= MaxQuestions
  \/ Shown(s) \/ Pending(s)
  \/ stage = "done" /\ ~Collaborated
Found ==
  /\ WorldClear /\ IsFiniteSet(asked) /\ round \in Nat \ {0}
  /\ stage = "sweep" => round = 1
  /\ round = 1 /\ stage \in {"sweep", "ask"} => asked = {}
  /\ \A s \in world.samples : Sought(s) => Followed(s)

LEMMA FoundInit == ASSUME NamesAreClear, Init PROVE Found
<1>1. PICK f \in Families : \E g \in f.graphs, s \in f.samples, a \in f.alarms, u \in f.unreads, now \in f.nows :
             world = [graph |-> g, samples |-> s, alarm |-> a, unread |-> u, now |-> now]
  BY DEF Init
<1>2. world.graph \in f.graphs /\ world.samples \in f.samples
  BY <1>1
<1>3. WorldClear
  BY <1>2 DEF NamesAreClear, WorldClear
<1> QED
  BY <1>3, FS_EmptySet DEF Init, Found, Followed

\* The world, and what is sought in it, do not change.
LEMMA SameSought ==
  ASSUME world' = world
  PROVE  /\ WorldClear' <=> WorldClear
         /\ \A s : (Sought(s)' <=> Sought(s)) /\ (findings' = findings => (Shown(s)' <=> Shown(s)))
         /\ \A q, s : AsksFor(q, s)' <=> AsksFor(q, s)
<1>1. WorldClear' <=> WorldClear
  BY DEF WorldClear
<1>2. ASSUME NEW s PROVE (Sought(s)' <=> Sought(s)) /\ (findings' = findings => (Shown(s)' <=> Shown(s)))
  BY DEF Sought, Shown, NodeOf, AskedAbout
<1>3. ASSUME NEW q, NEW s PROVE AsksFor(q, s)' <=> AsksFor(q, s)
  BY DEF AsksFor, NodeOf
<1> QED
  BY <1>1, <1>2, <1>3

LEMMA FoundAnalyze == ASSUME Inv, Found, Analyze PROVE Found'
<1>1. /\ stage = "sweep" /\ UNCHANGED <<round, world, asked>>
      /\ (stage' = "done" /\ ShortCircuit(findings')) \/ stage' = "ask"
  BY DEF Analyze, Conclude
<1>2. round = 1 /\ asked = {}
  BY <1>1 DEF Found
<1>3. ASSUME ShortCircuit(findings') PROVE ~Collaborated'
  <2>1. (\A d \in Domains : ~findings'[d].anomaly) /\ ~(LlmOn /\ world.alarm # {})
    BY <1>3 DEF ShortCircuit
  <2> QED
    BY <1>1, <2>1 DEF Collaborated
<1>4. ASSUME NEW s PROVE Followed(s)'
  BY <1>1, <1>2, <1>3 DEF Followed
<1> QED
  BY <1>1, <1>2, <1>4, SameSought DEF Found

LEMMA FoundAsk == ASSUME Inv, Found, Ask PROVE Found'
<1>1. stage = "ask" /\ stage' = "answer" /\ UNCHANGED <<round, world, findings>>
  BY DEF Ask
<1>2. IsFiniteSet(asked) /\ WorldOK
  BY DEF Found, Inv, TypeOK
<1>3. IsFiniteSet(asked') /\ asked \subseteq asked'
  <2>1. PICK Q : asked' = asked \cup RequestIds(Selected(Q)) /\ IsFiniteSet(asked')
    BY <1>2, AskedIs
  <2> QED
    BY <2>1
<1>4. ASSUME NEW s \in world.samples, Sought(s) PROVE Followed(s)'
  <2>1. CASE Shown(s)
    BY <1>1, <2>1, SameSought DEF Followed
  <2>2. CASE Cardinality(asked) >= MaxQuestions
    <3>1. Cardinality(asked) <= Cardinality(asked') /\ Cardinality(asked) \in Nat /\ Cardinality(asked') \in Nat
      BY <1>2, <1>3, FS_Subset, FS_CardinalityType
    <3> QED
      BY <2>2, <3>1, InvestigationAssumption DEF Followed
  <2>3. CASE ~Shown(s) /\ round = 1
    <3>1. asked = {}
      BY <1>1, <2>3 DEF Found
    <3>2. Cardinality(asked') >= MaxQuestions \/ \E q \in questions' : AsksFor(q, s)
      BY <2>3, <1>4, <3>1, AskFinds
    <3>3. CASE Cardinality(asked') >= MaxQuestions
      BY <3>3 DEF Followed
    <3>4. CASE \E q \in questions' : AsksFor(q, s)
      <4>1. Pending(s)'
        BY <1>1, <3>4, SameSought DEF Pending
      <4> QED
        BY <4>1 DEF Followed
    <3> QED
      BY <3>2, <3>3, <3>4
  <2>4. Followed(s)
    BY <1>4 DEF Found
  <2> QED
    BY <1>1, <2>1, <2>2, <2>3, <2>4 DEF Followed, Pending
<1>5. ~(stage' \in {"sweep", "ask"})
  BY <1>1
<1> QED
  BY <1>1, <1>3, <1>4, <1>5, SameSought DEF Found

LEMMA FoundAnswer == ASSUME Inv, Found, Answer PROVE Found'
<1>1. /\ stage = "answer" /\ UNCHANGED <<world, asked>>
      /\ (stage' = "done" /\ round' = round) \/ (stage' = "ask" /\ round' = round + 1)
  BY DEF Answer, Conclude
<1>2. WorldClear /\ round \in Nat \ {0}
  BY DEF Found
<1>3. ASSUME NEW s \in world.samples, Sought(s) PROVE Followed(s)'
  <2>1. Followed(s)
    BY <1>3 DEF Found
  <2>2. CASE Cardinality(asked) >= MaxQuestions
    BY <1>1, <2>2 DEF Followed
  <2>3. CASE Shown(s) \/ Pending(s)
    <3>1. Shown(s)'
      BY <1>2, <1>3, <2>3, AnswerShows
    <3> QED
      BY <3>1 DEF Followed
  <2> QED
    BY <1>1, <2>1, <2>2, <2>3 DEF Followed
<1>4. round' \in Nat \ {0} /\ (stage' = "ask" => round' # 1) /\ stage' # "sweep"
  BY <1>1, <1>2
<1> QED
  BY <1>1, <1>3, <1>4, SameSought DEF Found

LEMMA FoundStutter == ASSUME Found, UNCHANGED vars PROVE Found'
<1>1. UNCHANGED <<stage, round, world, findings, asked, questions>>
  BY DEF vars
<1>2. ASSUME NEW s, Followed(s) PROVE Followed(s)'
  <2>1. Collaborated' <=> Collaborated
    BY <1>1 DEF Collaborated
  <2>2. Pending(s)' <=> Pending(s)
    BY <1>1, SameSought DEF Pending
  <2>3. Shown(s)' <=> Shown(s)
    BY <1>1, SameSought
  <2> QED
    BY <1>1, <1>2, <2>1, <2>2, <2>3 DEF Followed
<1> QED
  BY <1>1, <1>2, SameSought DEF Found

\* What is shown is among the causes that are ranked.
LEMMA ShownIsRanked ==
  ASSUME Inv, stage = "done", NEW s \in world.samples, Sought(s), Shown(s)
  PROVE  \E c \in ranking : c.node = NodeOf(s) /\ c.domain = s.domain
<1> DEFINE g == world.graph
           d == s.domain
           n == NodeOf(s)
           rows == {r \in findings[d].rows : Resolve(g, r.entity) = n}
           c == [node |-> n, domain |-> d, rows |-> rows]
           targets == Targets(g, findings, world.alarm)
           groups == Groups(g, findings)
           onset == Began(groups, targets)
<1>1. ranking = {CauseOf(e, Judged(g, e, targets, onset)) : e \in groups}
  BY DEF Inv, RankedLast, RankCauses
<1>2. n \in NodesOf(g) /\ d \in DOMAIN findings
  BY SoughtNode DEF Inv, TypeOK
<1>3. rows # {}
  BY DEF Shown, Covered
<1>4. c \in groups
  <2> DEFINE rowsOf(m, e) == {r \in findings[e].rows : Resolve(g, r.entity) = m}
             all == {[node |-> m, domain |-> e, rows |-> rowsOf(m, e)] : m \in NodesOf(g), e \in DOMAIN findings}
  <2>1. groups = {x \in all : x.rows # {}}
    BY DEF Groups
  <2>2. rows = rowsOf(n, d) /\ c.rows = rows
    OBVIOUS
  <2>3. c \in all
    <3> HIDE DEF n, d, g, rowsOf, rows
    <3> QED
      BY <1>2, <2>2
  <2> HIDE DEF all, c, groups, rows
  <2> QED
    BY <1>3, <2>1, <2>2, <2>3
<1>5. \A e, j : CauseOf(e, j).node = e.node /\ CauseOf(e, j).domain = e.domain
  BY DEF CauseOf
<1>6. c.node = n /\ c.domain = d
  OBVIOUS
<1> HIDE DEF c, groups, targets, onset
<1> QED
  BY <1>1, <1>4, <1>5, <1>6

(* Whatever is wrong at the alarm's entity, or upstream of it, is among the     *)
(* ranked causes, however far away it is: a walk (TopologyGraph.walk) arrives    *)
(* wherever a chain of dependencies (depends_on) does, the agents that see the  *)
(* alarm plan a question about it (plan_requests), and its answer                *)
(* (DomainAgent.answer) is absorbed.  Names must be clear: a name that leads to *)
(* another node than the one that goes by it takes the answer there.           *)
THEOREM CauseFoundAlways == ASSUME NamesAreClear PROVE Spec => []CauseFound
<1>1. Init => Found
  BY FoundInit
<1>2. Inv /\ Found /\ [Next]_vars => Found'
  BY FoundAnalyze, FoundAsk, FoundAnswer, FoundStutter DEF Next
<1>3. ASSUME Inv, Found PROVE CauseFound
  <2> SUFFICES ASSUME stage = "done", Collaborated, Cardinality(asked) < MaxQuestions,
                      NEW s \in world.samples, Sought(s)
               PROVE  \E c \in ranking : c.node = NodeOf(s) /\ c.domain = s.domain
    BY DEF CauseFound, Sought, NodeOf
  <2>1. Followed(s)
    BY <1>3 DEF Found
  <2>2. ~(Cardinality(asked) >= MaxQuestions)
    BY <1>3, FS_CardinalityType, InvestigationAssumption DEF Found
  <2>3. Shown(s)
    BY <2>1, <2>2 DEF Followed, Pending
  <2> QED
    BY <1>3, <2>3, ShownIsRanked
<1> QED
  BY <1>1, <1>2, <1>3, Invariance, PTL DEF Spec
=============================================================================
