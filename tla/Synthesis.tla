------------------------------ MODULE Synthesis ------------------------------
(***************************************************************************)
(* What a report may say (agents/rca_synthesizer.py): pure operators over  *)
(* the findings of an incident, the ranking of its causes by the rules and  *)
(* the answer of the LLM.                                                  *)
(*                                                                         *)
(* A cause is a number, its place among causes of equal score; a sentence   *)
(* is the evidence it cites and the causes it names.  Scores are in         *)
(* thousandths and confidences in hundredths, as the code rounds them.      *)
(***************************************************************************)
EXTENDS Integers, FiniteSets, SequencesExt, Listing

CONSTANTS
  Evidence,   \* rule-fired evidence rows, E1 ..
  Causes,     \* entities that may be ranked
  CauseOf,    \* the cause a row of evidence is about
  Score,      \* its score by the rules
  NoAnswer,   \* _call_gemini returned None
  Absent,     \* a key the LLM's answer does not have
  Malformed   \* a value that has not the type it should have

ASSUME CausesAssumption ==
  Causes \subseteq Nat /\ CauseOf \in [Evidence -> Causes] /\ Score \in [Causes -> 0 .. 1000]

\* The evidence and the flags of a finding.
Finding == [refs : SUBSET Evidence, anomaly : BOOLEAN, degraded : BOOLEAN]

EvidenceOf(F) == UNION {F[a].refs : a \in DOMAIN F}
AnomalousIn(F) == {a \in DOMAIN F : F[a].anomaly}
DegradedIn(F) == {a \in DOMAIN F : F[a].degraded}

-----------------------------------------------------------------------------
(* Confidence                                                              *)

\* round(num / den): on a tie binary floating point may be on either side.
Rounded(num, den) ==
  {q \in {num \div den, num \div den + 1} : 2 * num \in (2 * q - 1) * den .. (2 * q + 1) * den}

Conflict(F) == AnomalousIn(F) \notin {{}, DOMAIN F}

Mut_Total(dispatched, F) == Max({Cardinality(DOMAIN F), 1})
Total(dispatched, F) == Max({dispatched, Cardinality(DOMAIN F), 1})

\* compute_confidence, before it is rounded, as a fraction of hundredths.
Confidence(F, dispatched) ==
  LET n == Cardinality(AnomalousIn(F))
      total == Total(dispatched, F)
      weight == IF n <= 1 THEN 50 ELSE IF n = 2 THEN 75 ELSE IF n = 3 THEN 90 ELSE 100
  IN <<n * weight * (IF Conflict(F) THEN 90 ELSE 100), 100 * total>>

-----------------------------------------------------------------------------
(* The ranking                                                             *)

Margin == 50   \* RERANK_MARGIN

\* Best score first, then the order of the causes.
Ahead(C) == {p \in C \X C : Score[p[1]] > Score[p[2]] \/ (Score[p[1]] = Score[p[2]] /\ p[1] <= p[2])}
Ranked(C) == InOrder(C, Ahead(C))

\* The near-tied leaders; `edge` says on which side of the margin a score at
\* exactly the margin falls in floating point.
Mut_NearTied(ranking, edge) == ToSet(ranking)
NearTied(ranking, edge) ==
  {c \in ToSet(ranking) : LET behind == Score[ranking[1]] - Score[c]
                          IN behind < Margin \/ (behind = Margin /\ edge)}

\* Where the ids of a set are first mentioned (dict.fromkeys).
FirstMentions(ids, near) == {i \in DOMAIN ids : ids[i] \in near /\ \A j \in 1 .. (i - 1) : ids[j] # ids[i]}

\* _rerank: `ids` is the LLM's order, with repetitions and unknown ids.
Rerank(ranking, ids, edge) ==
  IF ranking = << >> \/ ids \in {Absent, Malformed} THEN ranking ELSE
  LET chosen == Picked(ids, FirstMentions(ids, NearTied(ranking, edge)))
  IN chosen \o Picked(ranking, {j \in DOMAIN ranking : ranking[j] \notin ToSet(chosen)})

-----------------------------------------------------------------------------
(* The root cause                                                          *)

\* _cited_ok.
CitedOk(text, evidence) == evidence = {} \/ (text.cites # {} /\ text.cites \subseteq evidence)
\* _names.
Names(text, cause) == cause \in text.names

\* The sentence the rules give: of the first-ranked cause, or of the domain of
\* the most confident finding.
DetRoot(ranking) ==
  [kind |-> "rules", cites |-> {}, names |-> IF ranking = << >> THEN {} ELSE {ranking[1]}]

\* The report of a run without anomalies.
Mut_QuietRoot(F) == [kind |-> "clean", cites |-> {}, names |-> {}]
QuietRoot(F) ==
  [kind |-> IF DegradedIn(F) = {} THEN "clean" ELSE "inconclusive", cites |-> {}, names |-> {}]

\* A sentence must cite known evidence and name the first-ranked cause; the
\* field is dropped if it does not.
Mut_AcceptedUncited(text, evidence, ranking) == ranking # << >> => Names(text, ranking[1])
Accepted(text, evidence, ranking) ==
  CitedOk(text, evidence) /\ (ranking # << >> => Names(text, ranking[1]))

\* _coerce_llm_field: what the LLM leaves out or gets wrong falls back alone.
Coerced(field, fallback) == IF field \in {Absent, Malformed} THEN fallback ELSE field

\* synthesize_report: the root cause and the ranking it is printed with.
Conclusion(F, ranking, answer, edge) ==
  IF AnomalousIn(F) = {} THEN [root |-> QuietRoot(F), ranked |-> ranking]
  ELSE IF answer = NoAnswer THEN [root |-> DetRoot(ranking), ranked |-> ranking]
  ELSE LET reranked == Rerank(ranking, answer.ids, edge)
           given == {t \in {answer.root} \ {Absent, Malformed} : Accepted(t, EvidenceOf(F), reranked)}
           text == IF given = {} THEN Absent
                   ELSE [kind |-> "llm", cites |-> answer.root.cites, names |-> answer.root.names]
       IN [root |-> Coerced(text, DetRoot(reranked)), ranked |-> reranked]
=============================================================================
