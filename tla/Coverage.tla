------------------------------- MODULE Coverage -------------------------------
(***************************************************************************)
(* How complete a telemetry answer says it is (contract/models.py,          *)
(* providers/factory.py): an entry for each source of a server, one for      *)
(* each endpoint in the merged response, and what a reader may conclude.     *)
(***************************************************************************)
EXTENDS FiniteSets

Statuses == {"ok", "partial", "failed"}
Entry(source, status, required) == [source |-> source, status |-> status, required |-> required]

\* ToolResponse.status, of a set of entries.
Status(coverage) ==
  LET statuses == {c.status : c \in coverage}
  IN IF statuses \subseteq {"failed"} THEN "failed" ELSE IF statuses = {"ok"} THEN "ok" ELSE "partial"

\* ToolResponse.degraded: something required may be missing.
Degraded(coverage) == coverage = {} \/ \E c \in coverage : c.required /\ c.status # "ok"

\* _endpoint_coverage: the entry of an endpoint for its server's entries;
\* `skipped`: malformed signals were skipped; `required`: the endpoint is.
Mut_EndpointCoverage(endpoint, required, coverage, skipped) ==
  LET gaps == {c \in coverage : c.status # "ok"}
  IN Entry(endpoint, Status(coverage), required /\ (\A c \in gaps : c.required \/ skipped))
EndpointCoverage(endpoint, required, coverage, skipped) ==
  LET gaps == {c \in coverage : c.status # "ok"}
  IN Entry(endpoint,
           IF skipped /\ Status(coverage) = "ok" THEN "partial" ELSE Status(coverage),
           required /\ (gaps = {} \/ (\E c \in gaps : c.required) \/ skipped))
=============================================================================
