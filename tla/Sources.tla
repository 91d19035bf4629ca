------------------------------- MODULE Sources -------------------------------
(***************************************************************************)
(* What the fetch of each source plugin returns of what its backend holds    *)
(* (mcp_telemetry_server/plugins): the records it keeps and the status it     *)
(* reports, under its page, row and series limits.  Records are in time       *)
(* order; a limit keeps a prefix.                                            *)
(***************************************************************************)
EXTENDS Integers, FiniteSets, SequencesExt, Listing

CONSTANTS
  Page,       \* records in a page
  MaxPages,   \* pages read before AwsPlugin.paginate stops
  MaxRecords, \* the limit of the configuration: max_events, max_series, max_routes
  NoGroup,    \* ResourceNotFoundException
  NoAccess    \* any other exception

ASSUME LimitsAssumption == Page \in Nat \ {0} /\ MaxPages \in Nat \ {0} /\ MaxRecords \in Nat \ {0}

FirstOf(n, s) == SubSeq(s, 1, Min({n, Len(s)}))
Fetched(got, cut) == [got |-> got, status |-> IF cut THEN "partial" ELSE "ok"]
Raised == [got |-> {}, status |-> "failed"]

\* AwsPlugin.paginate: the items of the first pages, and whether there are more.
Paginate(items, pages) == [items |-> FirstOf(pages * Page, items), more |-> Len(items) > pages * Page]

-----------------------------------------------------------------------------
(* CloudWatch Logs: a line is [id, kind], the kind telling what the filter    *)
(* pattern, the parser and the classify rules make of it.                    *)

Shown(line) == line.kind # "hidden"     \* the filter pattern lets it through
Parsed(line) == line.kind # "garbled"   \* it has the query's format, if that is json
Classified(line) == Parsed(line) /\ line.kind = "fault"   \* a rule matches it
Ids(lines) == {l.id : l \in lines}

\* _run: the classified lines of the read, filtered if the query has a pattern.
LogRead(group, filtered) == Paginate(IF filtered THEN Picked(group, {i \in DOMAIN group : Shown(group[i])}) ELSE group, MaxPages)
Mut_RunQuery(group, filtered) ==
  LET read == LogRead(group, filtered)
      events == FirstOf(MaxRecords, read.items)
  IN [got |-> Ids({l \in ToSet(events) : Classified(l)}), cut |-> read.more \/ Len(events) > MaxRecords]
RunQuery(group, filtered) ==
  LET read == LogRead(group, filtered)
  IN [got |-> Ids({l \in ToSet(FirstOf(MaxRecords, read.items)) : Classified(l)}),
      cut |-> read.more \/ Len(read.items) > MaxRecords]

\* _unmatched: the first lines that were not kept, from a read of their own if
\* the query has a filter pattern.
Unmatched(group, filtered, limit) ==
  LET lines == IF filtered THEN LogRead(group, FALSE).items ELSE FirstOf(MaxRecords, LogRead(group, FALSE).items)
      kept == RunQuery(group, filtered).got
  IN Ids(ToSet(FirstOf(limit, Picked(lines, {i \in DOMAIN lines : lines[i].id \notin kept}))))

\* fetch: `groups` are the lines of each query's log group, or why it cannot be
\* read; a missing group is skipped when its query is optional.  `extra` is the
\* limit of the unmatched lines, whose cut the status does not tell.
Readable(groups) == {q \in DOMAIN groups : groups[q] \notin {NoGroup, NoAccess}}
LogsFetch(groups, optional, filtered, extra) ==
  LET errors == {q \in DOMAIN groups \ Readable(groups) : ~(groups[q] = NoGroup /\ q \in optional)}
  IN IF errors # {} /\ errors = DOMAIN groups THEN Raised
     ELSE Fetched(UNION {RunQuery(groups[q], filtered).got \cup Unmatched(groups[q], filtered, extra) : q \in Readable(groups)},
                  errors # {} \/ \E q \in Readable(groups) : RunQuery(groups[q], filtered).cut)

-----------------------------------------------------------------------------
(* CloudTrail: an event is [id, ours]: of an event source that is read.      *)

Ceiling(n, d) == (n + d - 1) \div d

TrailFetch(events) ==
  LET read == Paginate(events, Ceiling(MaxRecords, Page))
  IN Fetched(Ids({e \in ToSet(read.items) : e.ours}), read.more)

-----------------------------------------------------------------------------
(* CloudWatch metrics: the series of each metric.  Discovery reads up to      *)
(* MaxPages of list_metrics and does not ask for more.                       *)

UpToLimit(series) == Fetched(ToSet(FirstOf(MaxRecords, series)), Len(series) > MaxRecords)
Discover(metrics) == Flattened([m \in DOMAIN metrics |-> Paginate(metrics[m], MaxPages).items])
MetricsFetch(metrics) == UpToLimit(Discover(metrics))

\* Prometheus: one limit for all queries, and any query that fails fails all.
PrometheusFetch(queries) == IF NoAccess \in ToSet(queries) THEN Raised ELSE UpToLimit(Flattened(queries))

-----------------------------------------------------------------------------
(* Transit gateway routes: a snapshot of now, which an old window must not    *)
(* get; the routes of each table up to the limit.                            *)

RoutesFetch(tables, old) ==
  IF old THEN [got |-> {}, status |-> "partial"]
  ELSE LET read == Paginate(tables, MaxPages).items
       IN Fetched(UNION {ToSet(FirstOf(MaxRecords, t)) : t \in ToSet(read)},
                  \E t \in ToSet(read) : Len(t) > MaxRecords)

-----------------------------------------------------------------------------
(* Simulation: rows [id, region, age, drift] of a scenario.  A row is written  *)
(* some minutes before the incident; `drift`, in tenths of a second, is what   *)
(* the clock moved between the row and the incident.                         *)

\* The age, rounded to a second, so that a row at the window's start stays in it.
Rebased(row) == (10 * row.age + row.drift + 5) \div 10
SimulationFetch(rows, known, query) ==
  IF ~known THEN Raised   \* no such scenario
  ELSE Fetched({r.id : r \in {s \in rows : s.region = query.region
                                          /\ query.start <= query.end - Rebased(s) /\ Rebased(s) >= 0}}, FALSE)

-----------------------------------------------------------------------------
(* Recording and replay (providers/recorder.py, plugins/replay.py): responses *)
(* are [region, alarm, signals], a signal [id, time]; `id` is its source and   *)
(* evidence reference.                                                      *)

\* record: the file of a region and an alarm has each signal once.
Recorded(responses, region, alarm) ==
  LET about == {i \in DOMAIN responses : responses[i].region = region /\ responses[i].alarm = alarm}
      new(i) == {s \in responses[i].signals : \A j \in about : j < i => s.id \notin Ids(responses[j].signals)}
  IN UNION {new(i) : i \in about}

\* fetch: the fixtures of the query's region, moved so that their alarm is the
\* query's.
ReplayFetch(fixtures, query) ==
  LET moved(f) == {[id |-> s.id, time |-> s.time + query.alarm - f.alarm] : s \in f.signals}
      signals == UNION {moved(f) : f \in {g \in fixtures : g.region = query.region}}
  IN Fetched({s.id : s \in {t \in signals : query.start <= t.time /\ t.time <= query.end}}, FALSE)

-----------------------------------------------------------------------------
(* Every backend, and what a complete read of it has                         *)

ReadSource(backend) ==
  CASE backend.plugin = "logs" -> LogsFetch(backend.groups, backend.optional, backend.filtered, backend.extra)
    [] backend.plugin = "cloudtrail" -> TrailFetch(backend.events)
    [] backend.plugin = "cloudwatch" -> MetricsFetch(backend.metrics)
    [] backend.plugin = "prometheus" -> PrometheusFetch(backend.queries)
    [] backend.plugin = "tgw" -> RoutesFetch(backend.tables, backend.old)
    [] backend.plugin = "simulation" -> SimulationFetch(backend.rows, backend.known, backend.query)
    [] backend.plugin = "replay" ->
         ReplayFetch({[region |-> backend.region, alarm |-> backend.alarm,
                       signals |-> Recorded(backend.responses, backend.region, backend.alarm)]}, backend.query)

Whole(backend) ==
  CASE backend.plugin = "logs" ->
         UNION {Ids({l \in ToSet(backend.groups[q]) : Classified(l)}) : q \in Readable(backend.groups)}
    [] backend.plugin = "cloudtrail" -> Ids({e \in ToSet(backend.events) : e.ours})
    [] backend.plugin = "cloudwatch" -> UNION {ToSet(m) : m \in ToSet(backend.metrics)}
    [] backend.plugin = "prometheus" -> UNION {ToSet(s) : s \in ToSet(backend.queries) \ {NoAccess}}
    [] backend.plugin = "tgw" -> UNION {ToSet(t) : t \in ToSet(backend.tables)}
    [] backend.plugin = "simulation" ->
         {r.id : r \in {s \in backend.rows : s.region = backend.query.region
                                             /\ s.age \in 0 .. backend.query.end - backend.query.start}}
    [] backend.plugin = "replay" ->   \* what a live source answered about the same alarm
         {s.id : s \in {t \in UNION {r.signals : r \in {q \in ToSet(backend.responses) :
                                       {q.region, backend.region} = {backend.query.region} /\ q.alarm = backend.alarm}} :
                         t.time - backend.alarm \in backend.query.start - backend.query.alarm
                                                   .. backend.query.end - backend.query.alarm}}

\* With a limit of unmatched lines, lines that no rule knows are answered too.
Held(backend) ==
  IF backend.plugin = "logs" THEN UNION {Ids(ToSet(backend.groups[q])) : q \in Readable(backend.groups)} ELSE Whole(backend)

\* What backends hold.  A row of a scenario is written less than half a second
\* before its incident (rebase), and an evidence reference is one signal's.
IsList(s) == s \in Seq(ToSet(s))
AreLists(ss) == IsList(ss) /\ \A m \in DOMAIN ss : IsList(ss[m])
Holdable(backend) ==
  CASE backend.plugin = "logs" ->
         backend.extra \in Nat /\ \A q \in Readable(backend.groups) : IsList(backend.groups[q])
    [] backend.plugin = "cloudtrail" -> IsList(backend.events)
    [] backend.plugin = "cloudwatch" -> AreLists(backend.metrics)
    [] backend.plugin = "prometheus" -> NoAccess \in ToSet(backend.queries) \/ AreLists(backend.queries)
    [] backend.plugin = "tgw" -> AreLists(backend.tables)
    [] backend.plugin = "simulation" ->
         {backend.query.start, backend.query.end} \subseteq Int
           /\ \A r \in backend.rows : r.age \in Nat /\ r.drift \in 0 .. 4
    [] backend.plugin = "replay" ->
         LET recorded == UNION {r.signals : r \in ToSet(backend.responses)} IN
         /\ IsList(backend.responses)
         /\ {backend.query.start, backend.query.end, backend.query.alarm, backend.alarm} \subseteq Int
         /\ \A s, t \in recorded : s.time \in Int /\ (s.id = t.id => s.time = t.time)
    [] OTHER -> FALSE

\* Pages of list_metrics and of route tables beyond the limit are not missed.
Discovered(backend) ==
  CASE backend.plugin = "cloudwatch" -> \A m \in ToSet(backend.metrics) : Len(m) <= MaxPages * Page
    [] backend.plugin = "tgw" -> Len(backend.tables) <= MaxPages * Page
    [] OTHER -> TRUE
=============================================================================
