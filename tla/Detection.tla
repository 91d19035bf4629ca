------------------------------- MODULE Detection -------------------------------
(***************************************************************************)
(* A domain's analysis (detection/analyze.py) with the closed set of rules    *)
(* (rules.py): samples of telemetry become observations, hits, evidence rows *)
(* and the state of the entities that were hit.                             *)
(*                                                                         *)
(* A sample is [entity, signal, time, value, severity, ref, topical, names]:  *)
(* `topical` tells whether it has to do with the incident's text, `names` the *)
(* entities its text mentions.  Samples are distinct in entity, signal and    *)
(* time.  Times are minutes; severities are 1 .. 5, debug to critical.       *)
(***************************************************************************)
EXTENDS Integers, FiniteSets, SequencesExt, Functions

CONSTANTS
  Catalog,       \* known signals: [domain, kind, rule, role, symptomWith]
  ByTime,        \* domains whose observations are by entity and time
  HasBaseline,   \* domains that read a baseline before the window
  Store,         \* baselines of the provider, by signal
  LegacyFallback,
  MaxEvidence,   \* MAX_EVIDENCE
  MaxUnclassified,
  NoRule, NoRole

ASSUME DetectionAssumption ==
  MaxEvidence \in Nat \ {0} /\ MaxUnclassified \in Nat \ {0} /\ NoRole \notin {"cause", "symptom"}

-----------------------------------------------------------------------------
\* The first n of a set in a sorted list, cut: `before` is the order of its keys, and
\* ties, which the code breaks by the order it met them in, are broken arbitrarily.
Foremost(S, n, before) ==
  IF Cardinality(S) <= n THEN S
  ELSE CHOOSE K \in SUBSET S : Cardinality(K) = n /\ \A k \in K, r \in S \ K : <<r, k>> \notin before

-----------------------------------------------------------------------------
(* Rules                                                                   *)

\* The closed set of rules, and what is demanded of each when it is loaded.
Closed(rule) ==
  \/ rule.type = "threshold" /\ rule.op \in {"gt", "lt", "between"}
       /\ (IF rule.op = "between" THEN {"min", "max"} ELSE {"value"}) \subseteq DOMAIN rule
  \/ rule.type = "state_equals" /\ "value" \in DOMAIN rule
  \/ rule.type = "zscore_baseline" /\ rule.limit > 0 /\ rule.enough >= 2
  \/ rule.type = "rate_change" /\ rule.factor > 1 /\ rule.minimum >= 0
       /\ rule.direction \in {"increase", "decrease"} /\ rule.reference \in {"mean", "median"}
  \/ rule.type = "event_presence" /\ rule.severity \in 1 .. 5

Total(samples) == MapThenSumSet(LAMBDA s : s.value, samples)
Stats(samples) == [n |-> Cardinality(samples), sum |-> Total(samples),
                   squares |-> MapThenSumSet(LAMBDA s : s.value * s.value, samples)]

Beyond(rule, v) ==
  \/ rule.op = "gt" /\ v > rule.value
  \/ rule.op = "lt" /\ v < rule.value
  \/ rule.op = "between" /\ rule.min <= v /\ v <= rule.max

\* |z| > limit, without division; a flat baseline never flags.
Deviates(rule, v, stats) ==
  LET off == stats.n * v - stats.sum
      spread == stats.n * stats.squares - stats.sum * stats.sum
  IN spread > 0 /\ off * off > rule.limit * rule.limit * spread

\* The baseline samples, else the provider's baseline, else the fallback.
ZScore(rule, s, baseline) ==
  IF Cardinality(baseline) >= rule.enough THEN Deviates(rule, s.value, Stats(baseline))
  ELSE IF s.signal \in DOMAIN Store THEN Deviates(rule, s.value, Store[s.signal])
  ELSE rule.fallback # NoRule /\ LegacyFallback /\ Beyond(rule.fallback, s.value)

\* The level of some samples, as a fraction.
Level(rule, samples) ==
  LET n == Cardinality(samples)
      ordered == SetToSortSeq(samples, LAMBDA s, t : s.value < t.value)
  IN IF rule.reference = "mean" THEN [num |-> Total(samples), den |-> n]
     ELSE [num |-> ordered[(n + 1) \div 2].value + ordered[n \div 2 + 1].value, den |-> 2]

RateChange(rule, s, baseline, earlier) ==
  LET samples == IF baseline # {} THEN baseline ELSE earlier
      level == Level(rule, samples)
  IN /\ samples # {} /\ level.num > rule.minimum * level.den
     /\ IF rule.direction = "increase" THEN s.value * level.den >= level.num * rule.factor
        ELSE s.value * level.den * rule.factor <= level.num

\* evaluate; `ctx` has the samples of the window and of the baseline.
Fires(rule, s, ctx) ==
  LET of(samples) == {t \in samples : t.signal = s.signal /\ t.entity = s.entity}
  IN \/ rule.type = "threshold" /\ Beyond(rule, s.value)
     \/ rule.type = "state_equals" /\ s.value = rule.value
     \/ rule.type = "zscore_baseline" /\ ZScore(rule, s, of(ctx.baseline))
     \/ rule.type = "rate_change"
          /\ RateChange(rule, s, of(ctx.baseline), {t \in of(ctx.series) : t.time < s.time})
     \/ rule.type = "event_presence" /\ s.signal \in rule.names /\ s.severity >= rule.severity

-----------------------------------------------------------------------------
(* Observations and hits.  A read is [samples, start, degraded].             *)

Known(s) == s.signal \in DOMAIN Catalog
OfDomain(d, samples) == {s \in samples : Known(s) /\ Catalog[s.signal].domain = d}
ContextOf(d, read) ==
  LET mine == OfDomain(d, read.samples)
  IN [series |-> {s \in mine : s.time >= read.start}, baseline |-> {s \in mine : s.time < read.start}]

\* is_relevant: a change that has nothing to do with the incident's text is noise
\* in a sweep; a scoped question has no text.
Relevant(s, scoped) == scoped \/ s.topical
FiresOn(s, ctx) == Catalog[s.signal].rule # NoRule /\ Fires(Catalog[s.signal].rule, s, ctx)
HitsIn(ctx, scoped) == {s \in ctx.series : FiresOn(s, ctx) /\ Relevant(s, scoped)}

Observed(d, s, ctx) ==
  IF d \in ByTime THEN {t \in ctx.series : t.entity = s.entity /\ t.time = s.time} ELSE {s}

-----------------------------------------------------------------------------
(* Evidence rows                                                           *)

RoleRank(role) == CASE role = "cause" -> 0 [] role = NoRole -> 1 [] role = "symptom" -> 2

\* Catalog.signal_role, and _role of the signals of one observation: a cause that a companion explains
\* is a symptom.
SignalRole(n) == Catalog[n].role
RoleOf(signals) ==
  LET roles == {IF Catalog[n].symptomWith \cap signals # {} THEN "symptom" ELSE SignalRole(n) : n \in signals}
  IN IF "cause" \in roles THEN "cause" ELSE IF "symptom" \in roles THEN "symptom" ELSE NoRole

\* The samples of a series as [time, hit], of the window and from after it.
SeriesOf(entity, signal, ctx, after, hits) ==
  {[time |-> s.time, hit |-> s \in hits] : s \in {t \in ctx.series : t.entity = entity /\ t.signal = signal}}
    \cup {[time |-> s.time, hit |-> FiresOn(s, ctx)] :
            s \in {t \in after : t.entity = entity /\ t.signal = signal /\ Catalog[signal].rule # NoRule}}
Earlier(series, p) == {q \in series : q.time < p.time}
Newest(series) == CHOOSE p \in series : \A q \in series : q.time <= p.time
Mut_Episodes(series) == {p \in series : p.hit}
Episodes(series) == {p \in series : p.hit /\ (Earlier(series, p) # {} => ~Newest(Earlier(series, p)).hit)}
Stateful(signal) == Catalog[signal].kind # "event"

\* The row of the observations of an entity with the same hits.
RowOf(entity, signals, observations, ctx, after, hits) ==
  LET samples == (UNION observations) \cap hits
      times == {s.time : s \in samples}
      starts == UNION {{p.time : p \in Episodes(SeriesOf(entity, n, ctx, after, hits))} :
                         n \in {m \in signals : Stateful(m)}}
  IN [entity |-> entity, signals |-> signals, role |-> RoleOf(signals),
      severity |-> Max({s.severity : s \in samples}), first |-> Min(times),
      onset |-> IF starts = {} THEN Min(times) ELSE Max(starts),
      refs |-> {s.ref : s \in samples}, names |-> UNION {s.names : s \in samples}, via |-> "rule"]

\* Causes first, so that a burst of symptoms cannot crowd them out.
Mut_Before(r, t) == r.severity > t.severity
Before(r, t) ==
  LET a == <<RoleRank(r.role), -r.severity, r.first>>
      b == <<RoleRank(t.role), -t.severity, t.first>>
  IN \E i \in 1 .. 3 : a[i] < b[i] /\ \A j \in 1 .. i - 1 : a[j] = b[j]

KeyOf(d, s, ctx, hits) == <<s.entity, {t.signal : t \in Observed(d, s, ctx) \cap hits}>>
AllRows(d, ctx, after, hits) ==
  {RowOf(k[1], k[2], {Observed(d, s, ctx) : s \in {t \in hits : KeyOf(d, t, ctx, hits) = k}}, ctx, after, hits) :
     k \in {KeyOf(d, s, ctx, hits) : s \in hits}}
RowsOf(d, ctx, after, hits) ==
  LET rows == AllRows(d, ctx, after, hits)
  IN Foremost(rows, MaxEvidence, {p \in rows \X rows : Before(p[1], p[2])})

\* _entity_status: the state of the newest sample of any stateful series; of two
\* at the same time, that of the series that came first.
StatusOf(entity, ctx, after, hits) ==
  LET signals == {n \in DOMAIN Catalog : Stateful(n)}
      all == {SeriesOf(entity, n, ctx, after, hits) : n \in signals} \ {{}}
      newest == {p \in UNION all : \A q \in UNION all : q.time <= p.time}
  IN [entity |-> entity,
      states |-> {IF p.hit THEN "firing" ELSE "cleared" : p \in newest},
      episodes |-> Max({0} \cup {Cardinality(Episodes(series)) : series \in all})]

\* _unclassified_rows: one row for the samples of an entity and a name the catalog
\* does not know; the most severe are kept.
Unclassified(samples) ==
  LET unknown == {s \in samples : ~Known(s)}
      alike(s) == {t \in unknown : t.entity = s.entity /\ t.signal = s.signal}
      severer(a, b) ==
        LET x == Max({s.severity : s \in a}) y == Max({s.severity : s \in b})
        IN x > y \/ (x = y /\ Min({s.time : s \in a}) < Min({s.time : s \in b}))
      series == {alike(s) : s \in unknown}
  IN UNION Foremost(series, MaxUnclassified, {p \in series \X series : severer(p[1], p[2])})

\* analyze_domain
FindingOf(d, read, after, scoped) ==
  LET ctx == ContextOf(d, read)
      hits == HitsIn(ctx, scoped)
      mine == OfDomain(d, after)
  IN [anomaly |-> hits # {}, rows |-> RowsOf(d, ctx, mine, hits),
      status |-> {StatusOf(s.entity, ctx, mine, hits) : s \in hits},
      degraded |-> read.degraded, unclassified |-> Unclassified(read.samples)]
=============================================================================
