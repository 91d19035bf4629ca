------------------------- MODULE Collaboration_proofs -------------------------
(***************************************************************************)
(* Proofs about Collaboration: what the agents found reaches the report, and *)
(* the report is what the agents hold, for every set of agents and entities, *)
(* every number of rounds, and every lost, late or reordered message.        *)
(***************************************************************************)
EXTENDS Collaboration, FiniteSetTheorems, TLAPS

-----------------------------------------------------------------------------
(* The invariant                                                           *)

Messages ==
  [kind : {"analysis"}, to : Agents, round : {0}]
    \cup [kind : {"finding_publish"}, from : Agents, to : Agents, round : Rounds, rows : SUBSET Entities,
          asked : SUBSET (Agents \X Entities)]
    \cup [kind : {"validation_request"}, to : Agents, round : Rounds, q : Questions]
    \cup [kind : {"validation_response"}, to : Agents, round : Rounds, q : Questions, leads : SUBSET Entities]
    \cup [kind : {"finding_update"}, to : Agents, round : Rounds]
Sessions ==
  [context : BOOLEAN, own : Finding \cup {NoFinding}, asked : SUBSET (Agents \X Entities), leads : SUBSET Entities,
   planned : SUBSET Rounds, peers : [Rounds -> SUBSET [from : Agents, rows : SUBSET Entities]],
   answers : [Rounds -> SUBSET Entities]]
FindingReplies == [kind : {"finding"}, agent : Agents, finding : Finding]
RequestReplies == [q : Questions, supported : BOOLEAN]
Logged == [q : Questions, round : Rounds, supported : BOOLEAN, leads : SUBSET Entities]
Findings == UNION {[A -> Finding] : A \in SUBSET Agents}

TypeOK ==
  /\ phase \in {"analysis", "publish", "ask", "deliver", "update"} \cup Final
  /\ IF phase = "analysis" THEN round = 0 ELSE round \in Rounds
  /\ findings \in Findings
  /\ asked \subseteq Agents \X Entities /\ requests \subseteq Questions /\ log \subseteq Logged
  /\ calls \subseteq inbox /\ inbox \subseteq Messages
  /\ session \in [Agents -> Sessions]
  /\ \A m \in inbox : m.kind = "validation_request" => m.to = m.q.target

\* What the orchestrator waits for, and what it is given, in each phase.
Phases ==
  /\ \A m \in calls : m.round = round
  /\ phase = "analysis" =>
       /\ replies \subseteq FindingReplies /\ findings = << >> /\ log = {}
       /\ \A m \in inbox : m.kind = "analysis"
  /\ phase = "publish" => replies \subseteq Questions /\ \A m \in calls : m.kind = "finding_publish"
  /\ phase = "ask" => replies \subseteq RequestReplies /\ \A m \in calls : m.kind = "validation_request"
  /\ phase = "deliver" => replies = {} /\ \A m \in calls : m.kind = "validation_response"
  /\ phase = "update" =>
       /\ replies \subseteq FindingReplies
       /\ \A m \in calls : m.kind = "finding_update" /\ m.to \in Participants
  /\ phase \in Final => calls = {}
  /\ \A l \in log : l.round <= round

\* A message that is handled late is of a call that failed.
LateFailed == \A m \in inbox \ calls : <<m.to, m.round, m.kind>> \in failed
UpdateFailed(a) == \E k \in 0 .. MaxRounds : <<a, k, "finding_update">> \in failed
UpdateOf(a) == [kind |-> "finding_update", to |-> a, round |-> round]

\* The agents whose session is the one the incident began with.
Intact(a) == a \notin forgot

\* An agent that answered its analysis never handles it again, and holds the
\* evidence the orchestrator has of it.
AnalyzedOnce ==
  /\ \A a \in Participants : Analysis(a) \notin inbox
  /\ phase = "analysis" => \A r \in replies : Analysis(r.agent) \notin inbox
HoldsEvidence ==
  /\ \A a \in Participants : Intact(a) => session[a].own # NoFinding /\ findings[a].rows \subseteq session[a].own.rows
  /\ phase = "analysis" => \A r \in replies : Intact(r.agent) => session[r.agent].own = r.finding

\* What an agent confirmed it remembers, in the round it did.
Remembered ==
  /\ \A l \in log : l.supported /\ Intact(l.q.target) => l.q.entity \in session[l.q.target].answers[l.round]
  /\ phase = "ask" => \A r \in replies : r.supported /\ Intact(r.q.target) => r.q.entity \in session[r.q.target].answers[round]

\* A round's revised finding has it, unless the update failed.
ConfirmedIn(a, k) == {l.q.entity : l \in {x \in log : x.supported /\ x.q.target = a /\ x.round = k}}
UpdateReplies ==
  phase = "update" =>
    /\ \A a \in Participants : Intact(a) =>
         UpdateOf(a) \in calls \/ (\E r \in replies : r.agent = a) \/ <<a, round, "finding_update">> \in failed
    /\ \A r \in replies :
         /\ r.agent \in Participants /\ UpdateOf(r.agent) \notin calls
         /\ Intact(r.agent) =>
              /\ findings[r.agent].rows \subseteq r.finding.rows /\ ConfirmedIn(r.agent, round) \subseteq r.finding.rows
              /\ r.finding.rows \subseteq session[r.agent].own.rows
              /\ r.finding = session[r.agent].own \/ UpdateFailed(r.agent)
Joined ==
  \A a \in Participants, k \in Rounds : Intact(a) /\ (k < round \/ phase \in Final) =>
    ConfirmedIn(a, k) \subseteq findings[a].rows \/ <<a, k, "finding_update">> \in failed
Matches ==
  \A a \in Participants :
    /\ Intact(a) /\ ~UpdateFailed(a)
    /\ (phase = "update" => UpdateOf(a) \in calls)
    => findings[a] = session[a].own

(* The inductive invariant of the collaboration.                            *)
Inv ==
  /\ TypeOK /\ Phases /\ LateFailed /\ AnalyzedOnce /\ HoldsEvidence /\ Remembered /\ UpdateReplies
  /\ Joined /\ Matches

-----------------------------------------------------------------------------
(* Types of the parts                                                      *)

(* What a message of a kind carries.                                        *)
LEMMA MessageFacts ==
  ASSUME NEW m \in Messages
  PROVE  /\ m.to \in Agents /\ m.round \in 0 .. MaxRounds
         /\ m.kind # "analysis" => m.round \in Rounds
         /\ m.kind = "analysis" => m = Analysis(m.to)
         /\ m.kind = "finding_publish" => m.from \in Agents /\ m.rows \subseteq Entities
                                          /\ m.asked \subseteq Agents \X Entities
         /\ m.kind = "validation_request" => m.q \in Questions
         /\ m.kind = "validation_response" => m.leads \subseteq Entities
         /\ m.kind = "finding_update" => m = [kind |-> "finding_update", to |-> m.to, round |-> m.round]
BY BoundsAssumption DEF Messages, Rounds, Analysis

(* The orchestrator's messages are messages.                                *)
LEMMA MessageTypes ==
  /\ \A a \in Agents : Analysis(a) \in Messages
  /\ \A a \in Agents, k \in Rounds : [kind |-> "finding_update", to |-> a, round |-> k] \in Messages
  /\ \A q \in Questions, k \in Rounds :
       [kind |-> "validation_request", to |-> q.target, round |-> k, q |-> q] \in Messages
  /\ \A q \in Questions, k \in Rounds, L \in SUBSET Entities :
       [kind |-> "validation_response", to |-> q.asker, round |-> k, q |-> q, leads |-> L] \in Messages
BY DEF Messages, Analysis, Questions

(* A session the agent keeps has typed fields, the first one too.           *)
LEMMA SessionFacts ==
  /\ NewSession \in Sessions
  /\ \A s \in Sessions :
       /\ s.own \in Finding \cup {NoFinding}
       /\ s.answers \in [Rounds -> SUBSET Entities]
       /\ s.peers \in [Rounds -> SUBSET [from : Agents, rows : SUBSET Entities]]
       /\ s.leads \subseteq Entities /\ s.planned \subseteq Rounds /\ s.asked \subseteq Agents \X Entities
BY DEF Sessions, NewSession

(* reconsider adds a note and keeps the evidence.                           *)
LEMMA ReconsideredKeepsRows ==
  ASSUME NEW a, NEW f \in Finding, NEW peerRows
  PROVE  Reconsidered(a, f, peerRows) \in Finding /\ Reconsidered(a, f, peerRows).rows = f.rows
<1> DEFINE N == f.notes \cup {IF Anomalous(f) THEN "corroboration" ELSE "contradiction"}
<1>1. f.rows \in SUBSET Entities /\ f.notes \in SUBSET Notes /\ N \in SUBSET Notes
  BY DEF Finding, Notes
<1>2. [f EXCEPT !.notes = N] = [rows |-> f.rows, notes |-> N]
  <2> HIDE DEF N
  <2> QED BY DEF Finding
<1>3. Reconsidered(a, f, peerRows) \in {f, [f EXCEPT !.notes = N]}
  BY DEF Reconsidered
<1> HIDE DEF N
<1> QED BY <1>1, <1>2, <1>3 DEF Finding

(* revise keeps the evidence of the finding and adds that of the answers.   *)
LEMMA RevisedRows ==
  ASSUME NEW a, NEW s \in Sessions, NEW k \in Rounds, s.own # NoFinding
  PROVE  /\ Revised(a, s, k) \in Finding
         /\ Revised(a, s, k).rows = s.own.rows \cup s.answers[k]
<1> DEFINE R == s.own.rows \cup s.answers[k]
           f == [s.own EXCEPT !.rows = R]
<1>1. s.own \in Finding /\ R \in SUBSET Entities
  BY SessionFacts DEF Finding
<1>2. f = [rows |-> R, notes |-> s.own.notes]
  <2> HIDE DEF R
  <2> QED BY <1>1 DEF Finding
<1>3. f \in Finding /\ f.rows = R
  <2> HIDE DEF R
  <2> QED BY <1>1, <1>2 DEF Finding
<1>4. Revised(a, s, k) = Reconsidered(a, f, {p.rows : p \in s.peers[k]})
  BY DEF Revised
<1> HIDE DEF f
<1> QED BY <1>3, <1>4, ReconsideredKeepsRows

-----------------------------------------------------------------------------
(* What a handler does to the session of its agent                         *)

Stored(a, s) == session' = [session EXCEPT ![a] = s]

\* What a publication leaves in the session: who has been heard of in the round.
Others(a) == Participants \ {a}
PeersAfter(m) ==
  [session[m.to].peers EXCEPT ![m.round] = @ \cup {[from |-> m.from, rows |-> m.rows]}]
Plans(m) ==
  /\ Others(m.to) # {} /\ \A b \in Others(m.to) : \E p \in PeersAfter(m)[m.round] : p.from = b
  /\ m.round \notin session[m.to].planned

\* A plan leaves out no question but those asked before or covered by a publication.
Anchors(s) == s.leads \cup (IF s.own = NoFinding THEN {} ELSE s.own.rows)
Complete(a, anchors, heard, known, plan) ==
  \A c \in anchors : \A e \in Reach[c] : \A t \in Probes[e] \ {a} :
    <<t, e>> \in known \/ (\E p \in heard : p.from = t /\ e \in p.rows) \/ <<t, e>> \in Ids(plan)

(* plan_requests asks every agent that can be asked about every entity that *)
(* is close.                                                                *)
LEMMA PlanComplete ==
  ASSUME NEW a \in Agents, NEW s \in Sessions, NEW k \in Rounds
  PROVE  /\ Plan(a, s, k) \in SUBSET Questions
         /\ Complete(a, Anchors(s), s.peers[k], s.asked, Plan(a, s, k))
<1>1. Plan(a, s, k) \in SUBSET Questions
  BY DEF Plan, Questions
<1>2. Anchors(s) \subseteq Entities
  BY SessionFacts DEF Anchors, Finding
<1>3. ASSUME NEW c \in Anchors(s), NEW e \in Reach[c], NEW t \in Probes[e] \ {a},
             <<t, e>> \notin s.asked, ~Covered(s, t, e, k)
      PROVE  <<t, e>> \in Ids(Plan(a, s, k))
  <2>1. e \in Entities /\ t \in Agents
    BY <1>2, <1>3, CatalogAssumption
  <2> DEFINE q == [asker |-> a, target |-> t, entity |-> e]
  <2>2. q \in Plan(a, s, k)
    BY <1>3, <2>1 DEF Plan, Anchors
  <2> QED BY <2>2 DEF Ids
<1> QED BY <1>1, <1>3 DEF Complete, Covered

(* Publications leave the agent's finding and its answers alone; the agent  *)
(* plans when it has heard of all its peers, once a round.                  *)
LEMMA PublishEffect ==
  ASSUME TypeOK, NEW m \in inbox, HandlePublish(m)
  PROVE  /\ m.kind = "finding_publish" /\ m.to \in Agents /\ m.round \in Rounds
         /\ \E s \in Sessions, reply \in SUBSET Questions :
              /\ Stored(m.to, s) /\ Answer(m, reply)
              /\ s.own = session[m.to].own /\ s.answers = session[m.to].answers
              /\ s.context /\ s.peers = PeersAfter(m)
              /\ \/ ~Plans(m) /\ s.planned = session[m.to].planned /\ s.leads = session[m.to].leads
                 \/ /\ Plans(m) /\ s.planned = session[m.to].planned \cup {m.round}
                    /\ \/ /\ s.leads = {}
                          /\ Complete(m.to, Anchors(session[m.to]), s.peers[m.round], m.asked, reply)
                       \/ <<m.to, m.round, "topology">> \in failed'
         /\ failed \subseteq failed' /\ UNCHANGED <<orchestrator, forgot, cut>>
<1> DEFINE S == session[m.to]
           P == PeersAfter(m)
           yes == TRUE
           s == [S EXCEPT !.context = yes, !.asked = m.asked, !.peers = P]
           K == s.planned \cup {m.round}
           planned == [s EXCEPT !.planned = K]
           Left(L) == [planned EXCEPT !.leads = L]
<1>1. m.kind = "finding_publish" /\ m \in Messages
  BY DEF HandlePublish, TypeOK
<1>2. /\ m.to \in Agents /\ m.round \in Rounds /\ m.from \in Agents /\ m.rows \subseteq Entities
      /\ m.asked \in SUBSET (Agents \X Entities)
  BY <1>1, MessageFacts
<1>3. S \in Sessions
  BY <1>2 DEF TypeOK
<1>4. S.peers \in [Rounds -> SUBSET [from : Agents, rows : SUBSET Entities]] /\ yes \in BOOLEAN /\ yes
  BY <1>3, SessionFacts
<1>5. P \in [Rounds -> SUBSET [from : Agents, rows : SUBSET Entities]]
  BY <1>2, <1>4 DEF PeersAfter
<1>6. /\ s \in Sessions /\ s.own = S.own /\ s.answers = S.answers /\ s.context /\ s.peers = P
      /\ s.planned = S.planned /\ s.leads = S.leads /\ s.asked = m.asked
  <2>1. /\ s \in Sessions /\ s.own = S.own /\ s.answers = S.answers /\ s.context = yes /\ s.peers = P
        /\ s.planned = S.planned /\ s.leads = S.leads /\ s.asked = m.asked
    <3> HIDE DEF P, S, yes
    <3> QED BY <1>2, <1>3, <1>4, <1>5 DEF Sessions
  <2> HIDE DEF s
  <2> QED BY <2>1
<1>7. K \in SUBSET Rounds /\ s.leads \in SUBSET Entities /\ Anchors(s) = Anchors(S)
  <2> HIDE DEF s, P, S
  <2> QED BY <1>2, <1>6, SessionFacts DEF Anchors
<1>8. /\ planned \in Sessions /\ planned.own = S.own /\ planned.answers = S.answers
      /\ planned.context = s.context /\ planned.peers = P /\ planned.planned = K
  <2> HIDE DEF s, K, S, P
  <2> QED BY <1>6, <1>7 DEF Sessions
<1>9. \A L \in SUBSET Entities :
        /\ Left(L) \in Sessions /\ Left(L).own = S.own /\ Left(L).answers = S.answers
        /\ Left(L).context = s.context /\ Left(L).peers = P /\ Left(L).planned = K /\ Left(L).leads = L
  <2> HIDE DEF planned, S, s, P, K
  <2> QED BY <1>8 DEF Sessions
<1>10. /\ Plan(m.to, s, m.round) \in SUBSET Questions
       /\ Complete(m.to, Anchors(S), P[m.round], m.asked, Plan(m.to, s, m.round))
  <2> HIDE DEF s, S, P
  <2> QED BY <1>2, <1>6, <1>7, PlanComplete
<1>11. failed \subseteq failed' /\ UNCHANGED <<orchestrator, forgot, cut>>
  BY DEF HandlePublish, Fail
<1>12. [S EXCEPT !.context = TRUE, !.asked = m.asked, !.peers[m.round] = @ \cup {[from |-> m.from, rows |-> m.rows]}] = s
  BY DEF PeersAfter
<1>13. Plans(m) <=> /\ Others(m.to) # {} /\ Others(m.to) \subseteq {p.from : p \in s.peers[m.round]}
                    /\ m.round \notin s.planned
  <2> HIDE DEF s
  <2>1. s.peers[m.round] = PeersAfter(m)[m.round] /\ s.planned = session[m.to].planned
    BY <1>6
  <2>2. Others(m.to) \subseteq {p.from : p \in s.peers[m.round]}
          <=> \A b \in Others(m.to) : \E p \in PeersAfter(m)[m.round] : p.from = b
    BY <2>1
  <2> QED BY <2>1, <2>2 DEF Plans
<1>14. \/ ~Plans(m) /\ Stored(m.to, s) /\ Answer(m, {})
       \/ Plans(m) /\ Stored(m.to, Left({})) /\ Answer(m, Plan(m.to, s, m.round))
       \/ /\ Plans(m) /\ <<m.to, m.round, "topology">> \in failed'
          /\ \E L \in {s.leads, {}} : Stored(m.to, Left(L)) /\ Answer(m, {})
  <2> HIDE DEF s, P
  <2> QED BY <1>12, <1>13 DEF HandlePublish, Stored, Others, Fail
<1>15. {} \in SUBSET Questions /\ {} \in SUBSET Entities
  OBVIOUS
<1>16. CASE ~Plans(m) /\ Stored(m.to, s) /\ Answer(m, {})
  <2> HIDE DEF s, P
  <2> QED BY <1>1, <1>2, <1>6, <1>11, <1>15, <1>16 DEF P
<1>17. CASE Plans(m) /\ Stored(m.to, Left({})) /\ Answer(m, Plan(m.to, s, m.round))
  <2> HIDE DEF Left, s, P, K
  <2> QED BY <1>1, <1>2, <1>6, <1>9, <1>10, <1>11, <1>15, <1>17 DEF P, K
<1>18. CASE /\ Plans(m) /\ <<m.to, m.round, "topology">> \in failed'
            /\ \E L \in {s.leads, {}} : Stored(m.to, Left(L)) /\ Answer(m, {})
  <2>1. PICK L \in SUBSET Entities : Stored(m.to, Left(L)) /\ Answer(m, {})
    <3> HIDE DEF Left, s
    <3> QED BY <1>7, <1>15, <1>18
  <2> HIDE DEF Left, s, P, K
  <2> QED BY <2>1, <1>1, <1>2, <1>6, <1>9, <1>11, <1>15, <1>18 DEF P, K
<1> QED BY <1>14, <1>16, <1>17, <1>18

(* An answer that supports a question is remembered with its round.         *)
LEMMA RequestEffect ==
  ASSUME TypeOK, NEW m \in inbox, HandleRequest(m)
  PROVE  /\ m.kind = "validation_request" /\ m.q \in Questions /\ m.to = m.q.target /\ m.round \in Rounds
         /\ \E s \in Sessions, reply \in SUBSET RequestReplies :
              /\ Stored(m.to, s) /\ Answer(m, reply)
              /\ s.own = session[m.to].own
              /\ \A k \in Rounds : session[m.to].answers[k] \subseteq s.answers[k]
              /\ \A r \in reply : r.q = m.q /\ (r.supported => m.q.entity \in s.answers[m.round])
         /\ UNCHANGED <<orchestrator, failed, forgot>>
<1> DEFINE S == session[m.to]
           A(X) == [S.answers EXCEPT ![m.round] = X]
<1>1. m.kind = "validation_request" /\ m \in Messages /\ m.to = m.q.target
  BY DEF HandleRequest, TypeOK
<1>2. m.to \in Agents /\ m.round \in Rounds /\ m.q \in Questions
  BY <1>1, MessageFacts
<1>3. S \in Sessions /\ session \in [Agents -> Sessions]
  BY <1>2 DEF TypeOK
<1>4. S.answers \in [Rounds -> SUBSET Entities] /\ m.q.entity \in Entities
  BY <1>2, <1>3, SessionFacts DEF Questions
<1>5. UNCHANGED <<orchestrator, failed, forgot>>
  BY DEF HandleRequest, history
<1>6. CASE S.context
  <2> DEFINE findable == m.q.entity \in Findable[m.to]
  <2>1. PICK supported \in {FALSE, findable} :
          /\ session' = [session EXCEPT ![m.to].answers[m.round] = IF supported THEN @ \cup {m.q.entity} ELSE @]
          /\ Answer(m, {[q |-> m.q, supported |-> supported]})
    BY <1>6 DEF HandleRequest
  <2> DEFINE X == IF supported THEN S.answers[m.round] \cup {m.q.entity} ELSE S.answers[m.round]
             s == [S EXCEPT !.answers = A(X)]
  <2>2. X \in SUBSET Entities /\ S.answers[m.round] \subseteq X /\ (supported => m.q.entity \in X)
    BY <1>2, <1>4
  <2>3. Stored(m.to, s)
    BY <2>1, <1>3 DEF Stored
  <2>4. A(X) \in [Rounds -> SUBSET Entities] /\ A(X)[m.round] = X /\ \A k \in Rounds : S.answers[k] \subseteq A(X)[k]
    <3> HIDE DEF X, S
    <3> QED BY <2>2, <1>2, <1>4
  <2>5. s \in Sessions /\ s.own = S.own /\ s.answers = A(X)
    <3> HIDE DEF X, S, A
    <3> QED BY <2>4, <1>3 DEF Sessions
  <2>6. supported \in BOOLEAN
    <3>1. findable \in BOOLEAN
      OBVIOUS
    <3>2. supported \in {FALSE, findable}
      BY <2>1
    <3> HIDE DEF findable
    <3> QED BY <3>1, <3>2
  <2> DEFINE reply == {[q |-> m.q, supported |-> supported]}
  <2>7. /\ reply \in SUBSET RequestReplies
        /\ \A r \in reply : r.q = m.q /\ (r.supported => m.q.entity \in s.answers[m.round])
    <3> HIDE DEF X, S, A, s
    <3> QED BY <2>2, <2>4, <2>5, <2>6, <1>2 DEF RequestReplies
  <2>8. Answer(m, reply) /\ \A k \in Rounds : S.answers[k] \subseteq s.answers[k]
    <3> HIDE DEF X, S, A, s
    <3> QED BY <2>1, <2>4, <2>5
  <2> HIDE DEF s, reply, A, X
  <2> QED BY <2>3, <2>5, <2>7, <2>8, <1>1, <1>2, <1>5
<1>7. CASE ~S.context
  <2>1. Answer(m, {}) /\ session' = session
    BY <1>7 DEF HandleRequest
  <2>2. Stored(m.to, S)
    BY <2>1, <1>3 DEF Stored
  <2> DEFINE none == {}
  <2>3. none \in SUBSET RequestReplies /\ Answer(m, none) /\ \A r \in none : FALSE
    BY <2>1
  <2> HIDE DEF none
  <2> QED BY <2>2, <2>3, <1>1, <1>2, <1>3, <1>5
<1> QED BY <1>6, <1>7

(* Leads are kept for the next plan.                                        *)
LEMMA ResponseEffect ==
  ASSUME TypeOK, NEW m \in inbox, HandleResponse(m)
  PROVE  /\ m.kind = "validation_response"
         /\ \E s \in Sessions :
              /\ Stored(m.to, s) /\ Answer(m, {})
              /\ s.own = session[m.to].own /\ s.answers = session[m.to].answers
              /\ s.leads = session[m.to].leads \cup m.leads /\ s.context = session[m.to].context
              /\ s.peers = session[m.to].peers /\ s.planned = session[m.to].planned
         /\ UNCHANGED <<orchestrator, failed, forgot, cut>>
<1> DEFINE S == session[m.to]
           L == S.leads \cup m.leads
           s == [S EXCEPT !.leads = L]
<1>1. m.kind = "validation_response" /\ m \in Messages
  BY DEF HandleResponse, TypeOK
<1>2. m.to \in Agents /\ m.leads \subseteq Entities
  BY <1>1, MessageFacts
<1>3. S \in Sessions /\ session \in [Agents -> Sessions]
  BY <1>2 DEF TypeOK
<1>4. L \in SUBSET Entities
  BY <1>2, <1>3, SessionFacts
<1>5. /\ s \in Sessions /\ s.own = S.own /\ s.answers = S.answers /\ s.leads = L /\ s.context = S.context
      /\ s.peers = S.peers /\ s.planned = S.planned
  <2> HIDE DEF L, S
  <2> QED BY <1>3, <1>4 DEF Sessions
<1>6. Stored(m.to, s) /\ Answer(m, {}) /\ UNCHANGED <<orchestrator, failed, forgot, cut>>
  BY <1>3 DEF HandleResponse, Stored, history
<1> HIDE DEF s
<1> QED BY <1>1, <1>2, <1>5, <1>6

-----------------------------------------------------------------------------
(* Initially                                                               *)

(* Nothing is known, and every agent has been sent its analysis.            *)
LEMMA InitInv == Init => Inv
<1> SUFFICES ASSUME Init PROVE Inv
  OBVIOUS
<1>1. findings \in Findings /\ Participants = {}
  <2>1. DOMAIN findings = {} /\ findings = [a \in {} |-> NoFinding]
    BY DEF Init
  <2>2. findings \in [{} -> Finding] /\ {} \in SUBSET Agents
    BY <2>1
  <2> QED BY <2>1, <2>2 DEF Findings, Participants
<1>2. inbox \subseteq Messages /\ \A m \in inbox : m.kind = "analysis" /\ m.round = 0
  BY MessageTypes DEF Init, Analysis
<1>3. TypeOK
  BY <1>1, <1>2, SessionFacts DEF Init, TypeOK
<1>4. Phases
  BY <1>1, <1>2 DEF Init, Phases, Final
<1>5. LateFailed /\ AnalyzedOnce /\ HoldsEvidence /\ Remembered /\ UpdateReplies /\ Joined /\ Matches
  BY <1>1 DEF Init, LateFailed, AnalyzedOnce, HoldsEvidence, Remembered, UpdateReplies, Joined, Matches
<1> QED BY <1>3, <1>4, <1>5 DEF Inv

-----------------------------------------------------------------------------
(* The agents' steps                                                       *)

(* An agent that handles a message ends the call that waits for it, if any; *)
(* nothing else becomes late.                                               *)
LEMMA AnswerFacts ==
  ASSUME TypeOK, LateFailed, NEW m \in inbox, NEW reply, Answer(m, reply), failed \subseteq failed'
  PROVE  /\ calls' \subseteq calls /\ inbox' \subseteq inbox /\ calls' \subseteq inbox' /\ LateFailed'
         /\ m \notin inbox' /\ m \notin calls'
         /\ m \notin calls => replies' = replies /\ <<m.to, m.round, m.kind>> \in failed
         /\ m \in calls => replies' = replies \cup reply
         /\ \A x \in calls : x # m => x \in calls'
         /\ \A a : UpdateFailed(a) => UpdateFailed(a)'
BY DEF TypeOK, LateFailed, Answer, UpdateFailed

(* A handler that keeps its agent's finding and forgets no answer.          *)
LEMMA KeptStep ==
  ASSUME Inv, NEW m \in inbox, m.kind \in {"finding_publish", "validation_request", "validation_response"},
         NEW s \in Sessions, NEW reply, Stored(m.to, s), Answer(m, reply),
         s.own = session[m.to].own,
         \A k \in Rounds : session[m.to].answers[k] \subseteq s.answers[k],
         failed \subseteq failed', UNCHANGED <<orchestrator, forgot>>,
         m.kind = "finding_publish" => reply \subseteq Questions,
         m.kind = "validation_response" => reply = {},
         m.kind = "validation_request" =>
           /\ reply \subseteq RequestReplies
           /\ \A r \in reply : r.q.target = m.to /\ (r.supported => r.q.entity \in s.answers[m.round])
  PROVE  Inv'
<1>1. TypeOK /\ Phases /\ LateFailed /\ AnalyzedOnce /\ HoldsEvidence /\ Remembered /\ UpdateReplies
      /\ Joined /\ Matches
  BY DEF Inv
<1>2. m.to \in Agents /\ m.round \in Rounds
  BY <1>1, MessageFacts DEF TypeOK
<1>3. /\ session \in [Agents -> Sessions] /\ session' \in [Agents -> Sessions]
      /\ session'[m.to] = s /\ \A a \in Agents : a # m.to => session'[a] = session[a]
  BY <1>1, <1>2 DEF TypeOK, Stored
<1>4. /\ \A a \in Agents : session'[a].own = session[a].own
      /\ \A a \in Agents, k \in Rounds : session[a].answers[k] \subseteq session'[a].answers[k]
  BY <1>3
<1>5. /\ phase' = phase /\ round' = round /\ findings' = findings /\ asked' = asked /\ requests' = requests
      /\ log' = log /\ forgot' = forgot /\ Participants' = Participants
  BY DEF orchestrator, Participants
<1>6. phase # "analysis" /\ round \in Rounds /\ Participants \subseteq Agents
  BY <1>1 DEF TypeOK, Phases, Findings, Participants
<1>7. TypeOK'
  BY <1>1, <1>3, <1>5, AnswerFacts DEF TypeOK
<1>8. /\ m \in calls => \/ phase = "publish" /\ m.kind = "finding_publish"
                        \/ phase = "ask" /\ m.kind = "validation_request" /\ m.round = round
                        \/ phase = "deliver" /\ m.kind = "validation_response"
      /\ phase = "update" => replies' = replies
  BY <1>1, <1>6, AnswerFacts DEF TypeOK, Phases, Final
<1>9. Phases'
  <2>1. /\ phase = "publish" => replies' \subseteq Questions
        /\ phase = "ask" => replies' \subseteq RequestReplies
        /\ phase = "deliver" => replies' = {}
        /\ phase = "update" => replies' \subseteq FindingReplies
    BY <1>1, <1>8, AnswerFacts DEF Phases
  <2> QED BY <2>1, <1>1, <1>5, <1>6, AnswerFacts DEF Phases
<1>10. LateFailed' /\ AnalyzedOnce'
  BY <1>1, <1>5, <1>6, AnswerFacts DEF AnalyzedOnce
<1>11. HoldsEvidence'
  BY <1>1, <1>4, <1>5, <1>6 DEF HoldsEvidence, Intact
<1>12. Remembered'
  <2>1. \A l \in log : l.q.target \in Agents /\ l.round \in Rounds
    BY <1>1 DEF TypeOK, Logged, Questions
  <2>2. \A l \in log : l.supported /\ Intact(l.q.target)' => l.q.entity \in session'[l.q.target].answers[l.round]
    BY <2>1, <1>1, <1>4, <1>5 DEF Remembered, Intact
  <2>3. ASSUME phase = "ask", NEW r \in replies', r.supported, Intact(r.q.target)
        PROVE  r.q.entity \in session'[r.q.target].answers[round]
    <3>1. CASE r \in replies
      <4>1. r.q.target \in Agents
        BY <2>3, <3>1, <1>1 DEF Phases, RequestReplies, Questions
      <4> QED BY <2>3, <3>1, <4>1, <1>1, <1>4, <1>6 DEF Remembered
    <3>2. CASE r \notin replies
      <4>1. m \in calls /\ r \in reply /\ m.kind = "validation_request" /\ m.round = round
        BY <2>3, <3>2, <1>1, <1>8, AnswerFacts
      <4> QED BY <2>3, <4>1, <1>3
    <3> QED BY <3>1, <3>2
  <2> QED BY <2>2, <2>3, <1>5 DEF Remembered, Intact
<1>13. UpdateReplies'
  <2> SUFFICES ASSUME phase = "update" PROVE UpdateReplies'
    BY <1>5 DEF UpdateReplies
  <2>1. replies' = replies /\ m \notin calls /\ m.kind # "finding_update"
    BY <1>8
  <2>2. calls' = calls /\ \A a : ConfirmedIn(a, round)' = ConfirmedIn(a, round)
    BY <2>1, <1>5 DEF Answer, ConfirmedIn
  <2>3. \A a : UpdateOf(a)' = UpdateOf(a) /\ (UpdateFailed(a) => UpdateFailed(a)')
    BY <1>1, <1>5, AnswerFacts DEF UpdateOf
  <2> QED BY <2>1, <2>2, <2>3, <1>1, <1>4, <1>5, <1>6 DEF UpdateReplies, Intact
<1>14. Joined'
  <2>1. \A a, k : ConfirmedIn(a, k)' = ConfirmedIn(a, k)
    BY <1>5 DEF ConfirmedIn
  <2> QED BY <2>1, <1>1, <1>5 DEF Joined, Intact
<1>15. Matches'
  <2>1. \A a : UpdateOf(a)' = UpdateOf(a) /\ (UpdateFailed(a) => UpdateFailed(a)')
    BY <1>1, <1>5, AnswerFacts DEF UpdateOf
  <2>2. \A a : UpdateOf(a) \in calls' => UpdateOf(a) \in calls
    BY <1>1, AnswerFacts
  <2>3. \A a \in Participants : a \in Agents
    BY <1>6
  <2> QED BY <2>1, <2>2, <2>3, <1>1, <1>4, <1>5 DEF Matches, Intact
<1> QED BY <1>7, <1>9, <1>10, <1>11, <1>12, <1>13, <1>14, <1>15 DEF Inv

(* Publications, requests and responses keep the invariant.                 *)
LEMMA PublishInv == ASSUME Inv, NEW m \in inbox, HandlePublish(m) PROVE Inv'
<1>1. TypeOK
  BY DEF Inv
<1>2. PICK s \in Sessions, reply \in SUBSET Questions :
        /\ Stored(m.to, s) /\ Answer(m, reply)
        /\ s.own = session[m.to].own /\ s.answers = session[m.to].answers
  BY <1>1, PublishEffect
<1>3. m.kind = "finding_publish" /\ failed \subseteq failed' /\ UNCHANGED <<orchestrator, forgot>>
  BY <1>1, PublishEffect
<1> QED BY <1>2, <1>3, KeptStep

(* An answer that supports its question is remembered for the round it was   *)
(* asked in, and the finding stays.                                          *)
LEMMA RequestInv == ASSUME Inv, NEW m \in inbox, HandleRequest(m) PROVE Inv'
<1>1. TypeOK
  BY DEF Inv
<1>2. PICK s \in Sessions, reply \in SUBSET RequestReplies :
        /\ Stored(m.to, s) /\ Answer(m, reply)
        /\ s.own = session[m.to].own
        /\ \A k \in Rounds : session[m.to].answers[k] \subseteq s.answers[k]
        /\ \A r \in reply : r.q = m.q /\ (r.supported => m.q.entity \in s.answers[m.round])
  BY <1>1, RequestEffect
<1>3. m.kind = "validation_request" /\ m.to = m.q.target /\ failed \subseteq failed' /\ UNCHANGED <<orchestrator, forgot>>
  BY <1>1, RequestEffect
<1> QED BY <1>2, <1>3, KeptStep

(* An answer that comes back only leaves its leads in the session.           *)
LEMMA ResponseInv == ASSUME Inv, NEW m \in inbox, HandleResponse(m) PROVE Inv'
<1>1. TypeOK
  BY DEF Inv
<1>2. PICK s \in Sessions :
        /\ Stored(m.to, s) /\ Answer(m, {})
        /\ s.own = session[m.to].own /\ s.answers = session[m.to].answers
  BY <1>1, ResponseEffect
<1>3. m.kind = "validation_response" /\ failed \subseteq failed' /\ UNCHANGED <<orchestrator, forgot>>
  BY <1>1, ResponseEffect
<1> QED BY <1>2, <1>3, KeptStep

(* An agent is analyzed before the orchestrator has its finding.            *)
LEMMA AnalysisInv == ASSUME Inv, NEW m \in inbox, HandleAnalysis(m) PROVE Inv'
<1>1. TypeOK /\ Phases /\ LateFailed /\ AnalyzedOnce /\ HoldsEvidence /\ Remembered /\ UpdateReplies
      /\ Joined /\ Matches
  BY DEF Inv
<1>2. m.kind = "analysis" /\ m \in Messages
  BY <1>1 DEF HandleAnalysis, TypeOK
<1>3. m.to \in Agents /\ m = Analysis(m.to)
  BY <1>2, MessageFacts
<1>4. PICK rows \in {Seen[m.to], {}} :
        /\ session' = [session EXCEPT ![m.to] = [@ EXCEPT !.context = TRUE, !.own = [rows |-> rows, notes |-> {}]]]
        /\ Answer(m, {[kind |-> "finding", agent |-> m.to, finding |-> [rows |-> rows, notes |-> {}]]})
  BY DEF HandleAnalysis
<1> DEFINE f == [rows |-> rows, notes |-> {}]
           reply == {[kind |-> "finding", agent |-> m.to, finding |-> f]}
           yes == TRUE
           s == [session[m.to] EXCEPT !.context = yes, !.own = f]
<1>5. f \in Finding
  BY <1>3, CatalogAssumption DEF Finding
<1>6. session[m.to] \in Sessions /\ session \in [Agents -> Sessions] /\ yes \in BOOLEAN
  BY <1>1, <1>3 DEF TypeOK
<1>7. s \in Sessions /\ s.own = f /\ s.answers = session[m.to].answers
  <2> HIDE DEF f, yes
  <2> QED BY <1>5, <1>6 DEF Sessions
<1>8. session' = [session EXCEPT ![m.to] = s]
  BY <1>4
<1>9. /\ session' \in [Agents -> Sessions] /\ session'[m.to].own = f
      /\ \A a \in Agents : a # m.to => session'[a] = session[a]
      /\ \A a \in Agents : session'[a].answers = session[a].answers
  <2> HIDE DEF f, s
  <2> QED BY <1>3, <1>6, <1>7, <1>8
<1>10. /\ Answer(m, reply) /\ failed' = failed /\ forgot' = forgot
       /\ phase' = phase /\ round' = round /\ findings' = findings /\ asked' = asked /\ requests' = requests
       /\ log' = log /\ Participants' = Participants
  BY <1>4 DEF HandleAnalysis, orchestrator, history, Participants
<1>11. \A r \in reply : r.agent = m.to /\ r.finding = f /\ r \in FindingReplies
  <2> HIDE DEF f
  <2> QED BY <1>3, <1>5 DEF FindingReplies
<1> HIDE DEF f, s, reply
<1>12. m.to \notin Participants /\ Participants \subseteq Agents
       /\ (phase = "analysis" => \A r \in replies : r.agent # m.to)
  BY <1>1, <1>3 DEF AnalyzedOnce, TypeOK, Findings, Participants
<1>13. m \in calls => phase = "analysis"
  BY <1>1, <1>2 DEF TypeOK, Phases
<1>14. /\ calls' \subseteq calls /\ inbox' \subseteq inbox /\ calls' \subseteq inbox' /\ LateFailed' /\ m \notin inbox'
       /\ (phase # "analysis" => calls' = calls /\ replies' = replies)
       /\ \A r \in replies' : r \in replies \/ r \in reply
  <2>1. m \notin calls => calls' = calls /\ replies' = replies
    BY <1>10 DEF Answer
  <2> QED BY <2>1, <1>1, <1>10, <1>13, AnswerFacts
<1>15. TypeOK'
  BY <1>1, <1>9, <1>10, <1>14 DEF TypeOK
<1>16. Phases'
  <2>1. phase = "analysis" => replies' \subseteq FindingReplies
    BY <1>1, <1>11, <1>14 DEF Phases
  <2> QED BY <2>1, <1>1, <1>10, <1>14 DEF Phases, Final
<1>17. AnalyzedOnce'
  BY <1>1, <1>3, <1>10, <1>11, <1>14 DEF AnalyzedOnce, Analysis
<1>18. HoldsEvidence'
  <2>1. ASSUME phase = "analysis", NEW r \in replies', Intact(r.agent)
        PROVE  session'[r.agent].own = r.finding
    <3>1. CASE r \in replies
      <4>1. r.agent \in Agents /\ r.agent # m.to
        BY <2>1, <3>1, <1>1, <1>12 DEF Phases, FindingReplies
      <4> QED BY <2>1, <3>1, <4>1, <1>1, <1>9 DEF HoldsEvidence
    <3>2. CASE r \in reply
      BY <3>2, <1>9, <1>11
    <3> QED BY <3>1, <3>2, <1>14
  <2> QED BY <2>1, <1>1, <1>9, <1>10, <1>12 DEF HoldsEvidence, Intact
<1>19. Remembered'
  <2>1. \A l \in log : l.q.target \in Agents
    BY <1>1 DEF TypeOK, Logged, Questions
  <2>2. phase = "ask" => \A r \in replies : r.q.target \in Agents
    BY <1>1 DEF Phases, RequestReplies, Questions
  <2> QED BY <2>1, <2>2, <1>1, <1>9, <1>10, <1>14 DEF Remembered, Intact
<1>20. UpdateReplies'
  <2>1. \A a : UpdateOf(a)' = UpdateOf(a) /\ UpdateFailed(a)' = UpdateFailed(a)
               /\ ConfirmedIn(a, round)' = ConfirmedIn(a, round)
    BY <1>10 DEF UpdateOf, UpdateFailed, ConfirmedIn
  <2> QED BY <2>1, <1>1, <1>9, <1>10, <1>12, <1>14 DEF UpdateReplies, Intact
<1>21. Joined'
  <2>1. \A a, k : ConfirmedIn(a, k)' = ConfirmedIn(a, k)
    BY <1>10 DEF ConfirmedIn
  <2> QED BY <2>1, <1>1, <1>10 DEF Joined, Intact
<1>22. Matches'
  <2>1. \A a : UpdateOf(a)' = UpdateOf(a) /\ UpdateFailed(a)' = UpdateFailed(a)
    BY <1>10 DEF UpdateOf, UpdateFailed
  <2> QED BY <2>1, <1>1, <1>9, <1>10, <1>12, <1>14 DEF Matches, Intact
<1> QED BY <1>14, <1>15, <1>16, <1>17, <1>18, <1>19, <1>20, <1>21, <1>22 DEF Inv

(* What finding_update does: the finding grows by the answers of the round. *)
LEMMA UpdateEffect ==
  ASSUME TypeOK, NEW m \in inbox, HandleUpdate(m)
  PROVE  /\ m.to \in Agents /\ m.round \in Rounds
         /\ m = [kind |-> "finding_update", to |-> m.to, round |-> m.round]
         /\ session' \in [Agents -> Sessions]
         /\ \A a \in Agents : session'[a].answers = session[a].answers /\ (a # m.to => session'[a] = session[a])
         /\ session[m.to].own # NoFinding =>
              /\ session'[m.to].own \in Finding
              /\ session'[m.to].own.rows = session[m.to].own.rows \cup session[m.to].answers[m.round]
              /\ Answer(m, {[kind |-> "finding", agent |-> m.to, finding |-> session'[m.to].own]})
         /\ session[m.to].own = NoFinding => session' = session /\ Answer(m, {})
         /\ UNCHANGED <<orchestrator, failed, forgot>>
<1> DEFINE S == session[m.to]
           f == Revised(m.to, S, m.round)
           s == [S EXCEPT !.own = f]
<1>1. m.kind = "finding_update" /\ m \in Messages /\ session \in [Agents -> Sessions]
  BY DEF HandleUpdate, TypeOK
<1>2. m.to \in Agents /\ m.round \in Rounds /\ m = [kind |-> "finding_update", to |-> m.to, round |-> m.round]
  BY <1>1, MessageFacts
<1>3. UNCHANGED <<orchestrator, failed, forgot>>
  BY DEF HandleUpdate, history
<1>4. CASE S.own = NoFinding
  <2>1. session' = session /\ Answer(m, {})
    BY <1>4 DEF HandleUpdate
  <2> QED BY <2>1, <1>1, <1>2, <1>3, <1>4
<1>5. CASE S.own # NoFinding
  <2>1. /\ session' = [session EXCEPT ![m.to] = s]
        /\ Answer(m, {[kind |-> "finding", agent |-> m.to, finding |-> f]})
    <3> HIDE DEF f
    <3>1. /\ session' = [session EXCEPT ![m.to].own = f]
          /\ Answer(m, {[kind |-> "finding", agent |-> m.to, finding |-> f]})
      BY <1>5 DEF HandleUpdate, f
    <3> QED BY <3>1, <1>1
  <2>2. f \in Finding /\ f.rows = S.own.rows \cup S.answers[m.round] /\ S \in Sessions
    <3>1. S \in Sessions
      BY <1>1, <1>2
    <3> HIDE DEF S
    <3> QED BY <3>1, <1>2, <1>5, RevisedRows
  <2>3. s \in Sessions /\ s.own = f /\ s.answers = S.answers
    <3> HIDE DEF f, S
    <3> QED BY <2>2 DEF Sessions
  <2>4. session'[m.to] = s /\ session' \in [Agents -> Sessions] /\ \A a \in Agents : a # m.to => session'[a] = session[a]
    <3> HIDE DEF s
    <3> QED BY <2>1, <2>3, <1>1, <1>2
  <2> HIDE DEF s, f
  <2> QED BY <2>1, <2>2, <2>3, <2>4, <1>2, <1>3, <1>5
<1> QED BY <1>4, <1>5

(* A revised finding is in time, or one more of a failed update.            *)
LEMMA UpdateInv == ASSUME Inv, NEW m \in inbox, HandleUpdate(m) PROVE Inv'
<1>1. TypeOK /\ Phases /\ LateFailed /\ AnalyzedOnce /\ HoldsEvidence /\ Remembered /\ UpdateReplies
      /\ Joined /\ Matches
  BY DEF Inv
<1> DEFINE new == [kind |-> "finding", agent |-> m.to, finding |-> session'[m.to].own]
           reply == IF session[m.to].own = NoFinding THEN {} ELSE {new}
<1>2. /\ m.to \in Agents /\ m.round \in Rounds
      /\ m = [kind |-> "finding_update", to |-> m.to, round |-> m.round] /\ m.kind = "finding_update"
      /\ session' \in [Agents -> Sessions] /\ session \in [Agents -> Sessions]
      /\ \A a \in Agents : session'[a].answers = session[a].answers /\ (a # m.to => session'[a] = session[a])
      /\ session[m.to].own = NoFinding => session' = session
      /\ session[m.to].own # NoFinding =>
           /\ session'[m.to].own \in Finding
           /\ session'[m.to].own.rows = session[m.to].own.rows \cup session[m.to].answers[m.round]
  BY <1>1, UpdateEffect DEF HandleUpdate, TypeOK
<1>3. /\ Answer(m, reply) /\ failed' = failed /\ forgot' = forgot
      /\ phase' = phase /\ round' = round /\ findings' = findings /\ asked' = asked /\ requests' = requests
      /\ log' = log /\ Participants' = Participants
  BY <1>1, UpdateEffect DEF orchestrator, Participants
<1>4. /\ \A r \in reply : r.agent = m.to /\ r.finding = session'[m.to].own /\ session[m.to].own # NoFinding
      /\ reply \subseteq FindingReplies
  BY <1>2 DEF FindingReplies
<1>5. session[m.to].own # NoFinding => reply = {new}
  OBVIOUS
<1>6. new.agent = m.to
  OBVIOUS
<1> HIDE DEF reply, new
<1>7. phase # "analysis" /\ round \in Rounds /\ Participants \subseteq Agents
  BY <1>1, <1>2 DEF TypeOK, Phases, Findings, Participants
<1>8. m \in calls => phase = "update" /\ m = UpdateOf(m.to) /\ m.round = round /\ m.to \in Participants
  BY <1>1, <1>2, <1>7 DEF TypeOK, Phases, Final, UpdateOf
<1>9. m \notin calls => UpdateFailed(m.to)
  BY <1>1, <1>2, BoundsAssumption DEF LateFailed, UpdateFailed, Rounds
<1>10. /\ calls' \subseteq calls /\ inbox' \subseteq inbox /\ calls' \subseteq inbox' /\ LateFailed' /\ m \notin calls'
       /\ \A x \in calls : x # m => x \in calls'
       /\ m \notin calls => calls' = calls /\ replies' = replies
       /\ m \in calls => replies' = replies \cup reply
  BY <1>1, <1>3, AnswerFacts DEF Answer
<1>11. \A a : UpdateOf(a)' = UpdateOf(a) /\ UpdateFailed(a)' = UpdateFailed(a) /\ Intact(a)' = Intact(a)
  BY <1>3 DEF UpdateOf, UpdateFailed, Intact
<1>12. \A a, k : ConfirmedIn(a, k)' = ConfirmedIn(a, k)
  BY <1>3 DEF ConfirmedIn
<1>13. \A a \in Agents : session[a].own # NoFinding =>
         session'[a].own # NoFinding /\ session[a].own.rows \subseteq session'[a].own.rows
  BY <1>2, NoFindingAssumption
<1>14. TypeOK'
  BY <1>1, <1>2, <1>3, <1>10 DEF TypeOK
<1>15. Phases'
  <2>1. /\ phase = "publish" => replies' \subseteq Questions
        /\ phase = "ask" => replies' \subseteq RequestReplies
        /\ phase = "deliver" => replies' = {}
        /\ phase = "update" => replies' \subseteq FindingReplies
    BY <1>1, <1>4, <1>8, <1>10 DEF Phases
  <2> QED BY <2>1, <1>1, <1>3, <1>7, <1>10 DEF Phases
<1>16. AnalyzedOnce'
  BY <1>1, <1>3, <1>7, <1>10 DEF AnalyzedOnce
<1>17. HoldsEvidence'
  <2>1. \A a \in Participants : Intact(a) => session'[a].own # NoFinding /\ findings[a].rows \subseteq session'[a].own.rows
    BY <1>1, <1>7, <1>13 DEF HoldsEvidence
  <2> QED BY <2>1, <1>3, <1>7, <1>11 DEF HoldsEvidence
<1>18. Remembered'
  <2>1. \A l \in log : l.q.target \in Agents
    BY <1>1 DEF TypeOK, Logged, Questions
  <2>2. phase = "ask" => replies' = replies /\ \A r \in replies : r.q.target \in Agents
    BY <1>1, <1>8, <1>10 DEF Phases, RequestReplies, Questions
  <2> QED BY <2>1, <2>2, <1>1, <1>2, <1>3, <1>11 DEF Remembered
<1>19. UpdateReplies'
  <2> SUFFICES ASSUME phase = "update" PROVE UpdateReplies'
    BY <1>3 DEF UpdateReplies
  <2>1. ASSUME NEW a \in Participants, Intact(a)
        PROVE  \/ UpdateOf(a) \in calls' \/ (\E r \in replies' : r.agent = a)
               \/ <<a, round, "finding_update">> \in failed
    <3>1. CASE m \notin calls
      BY <3>1, <2>1, <1>1, <1>10 DEF UpdateReplies
    <3>2. CASE m \in calls /\ m.to # a
      <4>1. UpdateOf(a) # m
        BY <3>2 DEF UpdateOf
      <4> QED BY <4>1, <3>2, <2>1, <1>1, <1>10 DEF UpdateReplies
    <3>3. CASE m \in calls /\ m.to = a
      <4>1. session[a].own # NoFinding
        BY <2>1, <1>1 DEF HoldsEvidence
      <4> QED BY <4>1, <3>3, <1>5, <1>6, <1>10
    <3> QED BY <3>1, <3>2, <3>3
  <2>2. ASSUME NEW r \in replies'
        PROVE  /\ r.agent \in Participants /\ UpdateOf(r.agent) \notin calls'
               /\ Intact(r.agent) =>
                    /\ findings[r.agent].rows \subseteq r.finding.rows
                    /\ ConfirmedIn(r.agent, round) \subseteq r.finding.rows
                    /\ r.finding.rows \subseteq session'[r.agent].own.rows
                    /\ r.finding = session'[r.agent].own \/ UpdateFailed(r.agent)
    <3>1. CASE r \in replies
      <4>1. /\ r.agent \in Participants /\ UpdateOf(r.agent) \notin calls
            /\ Intact(r.agent) =>
                 /\ findings[r.agent].rows \subseteq r.finding.rows
                 /\ ConfirmedIn(r.agent, round) \subseteq r.finding.rows
                 /\ r.finding.rows \subseteq session[r.agent].own.rows
                 /\ r.finding = session[r.agent].own \/ UpdateFailed(r.agent)
        BY <3>1, <1>1 DEF UpdateReplies
      <4>2. Intact(r.agent) => session[r.agent].own # NoFinding
        BY <4>1, <1>1 DEF HoldsEvidence
      <4>3. m.to = r.agent => UpdateFailed(r.agent)
        BY <4>1, <1>8, <1>9
      <4> QED BY <4>1, <4>2, <4>3, <1>2, <1>7, <1>10, <1>13
    <3>2. CASE r \notin replies
      <4>1. m \in calls /\ r \in reply
        BY <3>2, <1>10
      <4>2. /\ r.agent = m.to /\ r.finding = session'[m.to].own /\ m.to \in Participants /\ m = UpdateOf(m.to)
            /\ r.finding.rows = session[m.to].own.rows \cup session[m.to].answers[round]
        BY <4>1, <1>2, <1>4, <1>8
      <4>3. Intact(m.to) => findings[m.to].rows \subseteq session[m.to].own.rows
        BY <4>2, <1>1 DEF HoldsEvidence
      <4>4. Intact(m.to) => ConfirmedIn(m.to, round) \subseteq session[m.to].answers[round]
        BY <1>1 DEF Remembered, ConfirmedIn
      <4> QED BY <4>2, <4>3, <4>4, <1>10
    <3> QED BY <3>1, <3>2
  <2> QED BY <2>1, <2>2, <1>3, <1>11, <1>12 DEF UpdateReplies
<1>20. Joined'
  BY <1>1, <1>3, <1>11, <1>12 DEF Joined
<1>21. Matches'
  <2>1. ASSUME NEW a \in Participants, Intact(a), ~UpdateFailed(a), phase = "update" => UpdateOf(a) \in calls'
        PROVE  findings[a] = session'[a].own
    <3>1. phase = "update" => UpdateOf(a) \in calls
      BY <2>1, <1>10
    <3>2. m.to # a
      BY <2>1, <1>8, <1>9, <1>10
    <3> QED BY <2>1, <3>1, <3>2, <1>1, <1>2, <1>7 DEF Matches
  <2> QED BY <2>1, <1>3, <1>11 DEF Matches
<1> QED BY <1>10, <1>14, <1>15, <1>16, <1>17, <1>18, <1>19, <1>20, <1>21 DEF Inv

(* A call that expires leaves its message to be handled late.               *)
LEMMA ExpireInv == ASSUME Inv, NEW m \in calls, Expire(m) PROVE Inv'
<1>1. TypeOK /\ Phases /\ LateFailed /\ AnalyzedOnce /\ HoldsEvidence /\ Remembered /\ UpdateReplies
      /\ Joined /\ Matches
  BY DEF Inv
<1>2. /\ calls' = calls \ {m} /\ failed' = failed \cup {<<m.to, m.round, m.kind>>}
      /\ phase' = phase /\ round' = round /\ findings' = findings /\ asked' = asked /\ requests' = requests
      /\ log' = log /\ Participants' = Participants /\ replies' = replies /\ inbox' = inbox /\ session' = session
      /\ forgot' = forgot
  BY DEF Expire, Fail, orchestrator, Participants
<1>3. \A a : /\ UpdateOf(a)' = UpdateOf(a) /\ (UpdateFailed(a) => UpdateFailed(a)') /\ Intact(a)' = Intact(a)
             /\ \A k : ConfirmedIn(a, k)' = ConfirmedIn(a, k)
  BY <1>2 DEF UpdateOf, UpdateFailed, Intact, ConfirmedIn
<1>4. TypeOK'
  BY <1>1, <1>2 DEF TypeOK
<1>5. Phases' /\ LateFailed' /\ AnalyzedOnce'
  BY <1>1, <1>2 DEF Phases, LateFailed, AnalyzedOnce
<1>6. HoldsEvidence' /\ Remembered'
  BY <1>1, <1>2, <1>3 DEF HoldsEvidence, Remembered
<1>7. UpdateReplies'
  <2>1. \A a : UpdateOf(a) = m => <<a, round, "finding_update">> \in failed'
    BY <1>2 DEF UpdateOf
  <2> QED BY <2>1, <1>1, <1>2, <1>3 DEF UpdateReplies
<1>8. Joined' /\ Matches'
  BY <1>1, <1>2, <1>3 DEF Joined, Matches
<1> QED BY <1>4, <1>5, <1>6, <1>7, <1>8 DEF Inv

(* An agent that loses its session is no longer intact.                     *)
LEMMA ForgetInv == ASSUME Inv, NEW a \in Agents, Forget(a) PROVE Inv'
<1>1. TypeOK /\ Phases /\ LateFailed /\ AnalyzedOnce /\ HoldsEvidence /\ Remembered /\ UpdateReplies
      /\ Joined /\ Matches
  BY DEF Inv
<1>2. /\ session' = [session EXCEPT ![a] = NewSession] /\ forgot' = forgot \cup {a}
      /\ phase' = phase /\ round' = round /\ findings' = findings /\ asked' = asked /\ requests' = requests
      /\ log' = log /\ Participants' = Participants /\ replies' = replies /\ inbox' = inbox /\ calls' = calls
      /\ failed' = failed
  BY DEF Forget, orchestrator, network, Participants
<1>3. \A b : /\ UpdateOf(b)' = UpdateOf(b) /\ UpdateFailed(b)' = UpdateFailed(b)
             /\ (Intact(b)' => Intact(b) /\ b # a)
             /\ \A k : ConfirmedIn(b, k)' = ConfirmedIn(b, k)
  BY <1>2 DEF UpdateOf, UpdateFailed, Intact, ConfirmedIn
<1>4. \A b \in Agents : b # a => session'[b] = session[b]
  BY <1>1, <1>2 DEF TypeOK
<1>5. /\ Participants \subseteq Agents
      /\ \A l \in log : l.q.target \in Agents
      /\ phase = "ask" => \A r \in replies : r.q.target \in Agents
      /\ phase = "analysis" => \A r \in replies : r.agent \in Agents
  BY <1>1 DEF TypeOK, Findings, Participants, Logged, Questions, Phases, RequestReplies, FindingReplies
<1>6. TypeOK'
  BY <1>1, <1>2, SessionFacts DEF TypeOK
<1>7. Phases' /\ LateFailed' /\ AnalyzedOnce'
  BY <1>1, <1>2 DEF Phases, LateFailed, AnalyzedOnce
<1>8. HoldsEvidence' /\ Remembered'
  BY <1>1, <1>2, <1>3, <1>4, <1>5 DEF HoldsEvidence, Remembered
<1>9. UpdateReplies'
  BY <1>1, <1>2, <1>3, <1>4, <1>5 DEF UpdateReplies
<1>10. Joined' /\ Matches'
  BY <1>1, <1>2, <1>3, <1>4, <1>5 DEF Joined, Matches
<1> QED BY <1>6, <1>7, <1>8, <1>9, <1>10 DEF Inv

-----------------------------------------------------------------------------
(* The orchestrator's steps                                                *)

(* New calls wait for new messages; what is late is what was late before.   *)
LEMMA SendFacts ==
  ASSUME TypeOK, LateFailed, calls = {}, NEW M \in SUBSET Messages, Send(M), failed' = failed,
         \A m \in M : m.kind = "validation_request" => m.to = m.q.target
  PROVE  /\ calls' = M /\ inbox' = inbox \cup M /\ replies' = {}
         /\ calls' \subseteq inbox' /\ inbox' \subseteq Messages
         /\ \A m \in inbox' : m.kind = "validation_request" => m.to = m.q.target
         /\ LateFailed'
         /\ (\A m \in M : m.kind # "analysis") =>
              \A a : Analysis(a) \notin inbox => Analysis(a) \notin inbox'
BY DEF TypeOK, LateFailed, Send, Analysis

(* Publications are of the round and of no other kind.                      *)
LEMMA PublicationFacts ==
  ASSUME NEW F, NEW k \in Rounds, NEW known \in SUBSET (Agents \X Entities)
  PROVE  /\ Publications(F, k, known) \in SUBSET Messages
         /\ \A m \in Publications(F, k, known) : m.kind = "finding_publish" /\ m.round = k
BY DEF Publications, Messages

(* The findings the orchestrator starts from are the agents' own.           *)
LEMMA AnalysisDoneInv == ASSUME Inv, AnalysisDone PROVE Inv'
<1>1. TypeOK /\ Phases /\ LateFailed /\ AnalyzedOnce /\ HoldsEvidence
  BY DEF Inv
<1> DEFINE F == [a \in {r.agent : r \in replies} |-> (CHOOSE r \in replies : r.agent = a).finding]
<1>2. phase = "analysis" /\ calls = {} /\ replies \subseteq FindingReplies /\ log = {}
  BY <1>1 DEF AnalysisDone, Phases
<1>3. /\ findings' = F /\ round' = 1 /\ asked' = asked /\ requests' = requests /\ log' = log /\ session' = session
      /\ failed' = failed /\ forgot' = forgot
  BY DEF AnalysisDone, history
<1>4. ASSUME NEW a \in DOMAIN F
      PROVE  \E r \in replies : r.agent = a /\ F[a] = r.finding
  <2>1. \E r \in replies : r.agent = a
    BY <1>4
  <2> QED BY <2>1
<1>5. Participants' = DOMAIN F
  BY <1>3 DEF Participants
<1>6. \E M \in SUBSET Messages :
        /\ Send(M) /\ \A m \in M : m.kind = "finding_publish" /\ m.round = 1
        /\ \/ phase' = "publish"
           \/ phase' = "short_circuit" /\ M = {}
  <2>1. 1 \in Rounds /\ asked \in SUBSET (Agents \X Entities)
    BY <1>1, BoundsAssumption DEF Rounds, TypeOK
  <2>2. \/ phase' = "short_circuit" /\ Send({})
        \/ phase' = "publish" /\ Send(Publications(F, 1, asked))
    <3> HIDE DEF F
    <3> QED BY DEF AnalysisDone, Goto, F
  <2> HIDE DEF F
  <2>3. CASE phase' = "short_circuit" /\ Send({})
    <3> DEFINE none == {}
    <3>1. none \in SUBSET Messages /\ Send(none) /\ \A m \in none : FALSE
      BY <2>3
    <3> QED BY <3>1, <2>3
  <2>4. CASE phase' = "publish" /\ Send(Publications(F, 1, asked))
    BY <2>1, <2>4, PublicationFacts
  <2> QED BY <2>2, <2>3, <2>4
<1>7. F \in Findings
  <2>1. DOMAIN F \in SUBSET Agents
    BY <1>2 DEF FindingReplies
  <2>2. \A a \in DOMAIN F : F[a] \in Finding
    BY <1>2, <1>4 DEF FindingReplies
  <2>3. F \in [DOMAIN F -> Finding]
    BY <2>2
  <2> HIDE DEF F
  <2> QED BY <2>1, <2>3 DEF Findings
<1>8. \A a \in DOMAIN F : /\ F[a] \in Finding /\ Analysis(a) \notin inbox
                          /\ Intact(a) => session[a].own = F[a]
  <2> TAKE a \in DOMAIN F
  <2>1. PICK r \in replies : r.agent = a /\ F[a] = r.finding
    BY <1>4
  <2> HIDE DEF F
  <2> QED BY <2>1, <1>1, <1>2 DEF FindingReplies, AnalyzedOnce, HoldsEvidence
<1> HIDE DEF F
<1>9. PICK M \in SUBSET Messages :
        /\ Send(M) /\ \A m \in M : m.kind = "finding_publish" /\ m.round = 1
        /\ \/ phase' = "publish"
           \/ phase' = "short_circuit" /\ M = {}
  BY <1>6
<1>10. /\ calls' = M /\ replies' = {} /\ calls' \subseteq inbox' /\ inbox' \subseteq Messages /\ LateFailed'
       /\ \A m \in inbox' : m.kind = "validation_request" => m.to = m.q.target
       /\ \A a : Analysis(a) \notin inbox => Analysis(a) \notin inbox'
  BY <1>1, <1>2, <1>3, <1>9, SendFacts
<1>11. phase' \in {"publish", "short_circuit"}
  BY <1>9
<1>12. TypeOK'
  BY <1>1, <1>3, <1>7, <1>10, <1>11, BoundsAssumption DEF TypeOK, Rounds, Final
<1>13. Phases'
  BY <1>2, <1>3, <1>9, <1>10 DEF Phases, Final
<1>14. AnalyzedOnce' /\ HoldsEvidence' /\ Matches'
  BY <1>3, <1>5, <1>8, <1>10, <1>11, NoFindingAssumption DEF AnalyzedOnce, HoldsEvidence, Matches, Intact
<1>15. Remembered' /\ UpdateReplies' /\ Joined'
  BY <1>2, <1>3, <1>10, <1>11 DEF Remembered, UpdateReplies, Joined, ConfirmedIn
<1> QED BY <1>10, <1>12, <1>13, <1>14, <1>15 DEF Inv

(* The round's updates go to the agents that were analyzed.                 *)
LEMMA UpdatesFacts ==
  ASSUME TypeOK, round \in Rounds
  PROVE  /\ Updates \in SUBSET Messages
         /\ \A m \in Updates : m.kind = "finding_update" /\ m.round = round /\ m.to \in Participants
         /\ \A a \in Participants : UpdateOf(a) \in Updates
<1>1. Participants \subseteq Agents
  BY DEF TypeOK, Findings, Participants
<1> QED BY <1>1, MessageTypes DEF Updates, UpdateOf

(* A step to another phase of the same round: the findings, the log and the *)
(* sessions stay, and so does what they say of each other.                  *)
LEMMA SamePhaseFacts ==
  ASSUME Inv, calls = {}, phase \in {"publish", "deliver"}, NEW M \in SUBSET Messages, Send(M),
         UNCHANGED <<round, findings, log, session, failed, forgot>>,
         asked' \subseteq Agents \X Entities, requests' \subseteq Questions,
         \/ /\ phase' = "update" /\ M = Updates
         \/ /\ phase' = "ask"
            /\ \A m \in M : m.kind = "validation_request" /\ m.to = m.q.target /\ m.round = round
  PROVE  Inv'
<1>1. TypeOK /\ Phases /\ LateFailed /\ AnalyzedOnce /\ HoldsEvidence /\ Remembered /\ Joined /\ Matches
  BY DEF Inv
<1>2. round \in Rounds /\ Participants' = Participants /\ Participants \subseteq Agents
  BY <1>1 DEF TypeOK, Participants, Findings
<1>3. \A m \in M : m.round = round /\ m.kind # "analysis" /\ (m.kind = "validation_request" => m.to = m.q.target)
  BY <1>1, <1>2, UpdatesFacts
<1>4. /\ calls' = M /\ replies' = {} /\ calls' \subseteq inbox' /\ inbox' \subseteq Messages /\ LateFailed'
      /\ \A m \in inbox' : m.kind = "validation_request" => m.to = m.q.target
      /\ \A a : Analysis(a) \notin inbox => Analysis(a) \notin inbox'
  BY <1>1, <1>3, SendFacts
<1>5. \A a : /\ UpdateOf(a)' = UpdateOf(a) /\ UpdateFailed(a)' = UpdateFailed(a) /\ Intact(a)' = Intact(a)
             /\ \A k : ConfirmedIn(a, k)' = ConfirmedIn(a, k)
  BY DEF UpdateOf, UpdateFailed, Intact, ConfirmedIn
<1>6. TypeOK'
  BY <1>1, <1>2, <1>4 DEF TypeOK
<1>7. Phases'
  BY <1>1, <1>2, <1>3, <1>4, UpdatesFacts DEF Phases, Final
<1>8. AnalyzedOnce' /\ HoldsEvidence' /\ Remembered'
  BY <1>1, <1>2, <1>4, <1>5 DEF AnalyzedOnce, HoldsEvidence, Remembered
<1>9. UpdateReplies' /\ Matches'
  BY <1>1, <1>2, <1>4, <1>5, UpdatesFacts DEF UpdateReplies, Matches
<1>10. Joined'
  BY <1>1, <1>2, <1>5 DEF Joined, Final
<1> QED BY <1>4, <1>6, <1>7, <1>8, <1>9, <1>10 DEF Inv

(* The questions that were planned go out.                                  *)
LEMMA AskInv == ASSUME Inv, Ask PROVE Inv'
<1> DEFINE R == {[kind |-> "validation_request", to |-> q.target, round |-> round, q |-> q] : q \in requests'}
<1>1. TypeOK /\ Phases
  BY DEF Inv
<1>2. /\ phase = "publish" /\ calls = {} /\ requests' \in Selections /\ asked' = asked \cup Marked(requests')
      /\ UNCHANGED <<round, findings, log, session, failed, forgot>>
  BY DEF Ask
<1>3. requests' \subseteq Questions /\ round \in Rounds
  BY <1>1, <1>2 DEF Selections, Phases, TypeOK
<1>4. asked' \subseteq Agents \X Entities
  BY <1>1, <1>2, <1>3 DEF Marked, Ids, TypeOK, Questions
<1>5. R \in SUBSET Messages /\ \A m \in R : m.kind = "validation_request" /\ m.to = m.q.target /\ m.round = round
  BY <1>3, MessageTypes
<1>6. Updates \in SUBSET Messages
  BY <1>1, <1>3, UpdatesFacts
<1>7. \/ phase' = "update" /\ Send(Updates)
      \/ phase' = "ask" /\ Send(R)
  BY DEF Ask, Goto
<1> HIDE DEF R
<1> QED BY <1>2, <1>3, <1>4, <1>5, <1>6, <1>7, SamePhaseFacts

(* The answers have been delivered, and the findings are revised.           *)
LEMMA UpdateRoundInv == ASSUME Inv, Update PROVE Inv'
<1>1. TypeOK /\ Phases
  BY DEF Inv
<1>2. /\ phase = "deliver" /\ calls = {} /\ phase' = "update" /\ Send(Updates)
      /\ UNCHANGED <<round, findings, log, session, failed, forgot>> /\ asked' = asked /\ requests' = requests
  BY DEF Update, Goto, history
<1>3. Updates \in SUBSET Messages /\ asked' \subseteq Agents \X Entities /\ requests' \subseteq Questions
  BY <1>1, <1>2, UpdatesFacts DEF TypeOK
<1> QED BY <1>2, <1>3, SamePhaseFacts

(* Answers are logged with their round and sent back to who asked.          *)
LEMMA DeliverInv == ASSUME Inv, Deliver PROVE Inv'
<1> DEFINE L == {[q |-> r.q, round |-> round, supported |-> r.supported, leads |-> Leads(r)] : r \in replies}
           M == {[kind |-> "validation_response", to |-> r.q.asker, round |-> round, q |-> r.q, leads |-> Leads(r)] :
                   r \in replies}
<1>1. TypeOK /\ Phases /\ LateFailed /\ AnalyzedOnce /\ HoldsEvidence /\ Remembered /\ Joined /\ Matches
  BY DEF Inv
<1>2. /\ phase = "ask" /\ calls = {} /\ phase' = "deliver" /\ log' = log \cup L /\ Send(M)
      /\ UNCHANGED <<round, findings, session, failed, forgot>> /\ asked' = asked /\ requests' = requests
  BY DEF Deliver, Goto, history
<1>3. replies \subseteq RequestReplies /\ round \in Rounds
  BY <1>1, <1>2 DEF Phases, TypeOK
<1>4. \A r \in replies : r.q \in Questions /\ r.supported \in BOOLEAN /\ Leads(r) \in SUBSET Entities
  BY <1>3, CatalogAssumption DEF RequestReplies, Leads, Questions
<1>5. L \in SUBSET Logged
  BY <1>3, <1>4 DEF Logged
<1>6. M \in SUBSET Messages /\ \A m \in M : m.kind = "validation_response" /\ m.round = round
  BY <1>3, <1>4, MessageTypes
<1>7. \A l \in L : /\ l.round = round
                   /\ \E r \in replies : r.q = l.q /\ r.supported = l.supported
  OBVIOUS
<1> HIDE DEF L, M
<1>8. /\ calls' = M /\ replies' = {} /\ calls' \subseteq inbox' /\ inbox' \subseteq Messages /\ LateFailed'
      /\ \A m \in inbox' : m.kind = "validation_request" => m.to = m.q.target
      /\ \A a : Analysis(a) \notin inbox => Analysis(a) \notin inbox'
  BY <1>1, <1>2, <1>6, SendFacts
<1>9. \A a : /\ UpdateFailed(a)' = UpdateFailed(a) /\ Intact(a)' = Intact(a)
             /\ \A k : k # round => ConfirmedIn(a, k)' = ConfirmedIn(a, k)
  BY <1>2, <1>7 DEF UpdateFailed, Intact, ConfirmedIn
<1>10. Participants' = Participants /\ round \in Int
  BY <1>2, <1>3 DEF Participants, Rounds
<1>11. TypeOK'
  BY <1>1, <1>2, <1>3, <1>5, <1>8 DEF TypeOK
<1>12. Phases'
  BY <1>1, <1>2, <1>3, <1>6, <1>7, <1>8, <1>10 DEF Phases, Final
<1>13. AnalyzedOnce' /\ HoldsEvidence' /\ Matches'
  BY <1>1, <1>2, <1>8, <1>9, <1>10 DEF AnalyzedOnce, HoldsEvidence, Matches
<1>14. Remembered'
  <2>1. \A l \in L : l.supported /\ Intact(l.q.target) => l.q.entity \in session[l.q.target].answers[l.round]
    BY <1>1, <1>2, <1>7 DEF Remembered
  <2> QED BY <2>1, <1>1, <1>2, <1>9 DEF Remembered
<1>15. UpdateReplies'
  BY <1>2 DEF UpdateReplies
<1>16. Joined'
  <2>1. \A k \in Rounds : k < round => k # round
    BY <1>10 DEF Rounds
  <2> QED BY <2>1, <1>1, <1>2, <1>9, <1>10 DEF Joined, Final
<1> QED BY <1>8, <1>11, <1>12, <1>13, <1>14, <1>15, <1>16 DEF Inv

(* A new finding is what the agent sent, or its old one revised locally.    *)
LEMMA NewFindingsFacts ==
  ASSUME TypeOK, replies \subseteq FindingReplies, NEW a \in Participants
  PROVE  /\ NewFindings[a] \in Finding
         /\ \/ \E r \in replies : r.agent = a /\ NewFindings[a] = r.finding
            \/ (\A r \in replies : r.agent # a) /\ NewFindings[a].rows = findings[a].rows
<1>1. findings[a] \in Finding
  BY DEF TypeOK, Findings, Participants
<1>2. CASE \E r \in replies : r.agent = a
  <2>1. NewFindings[a] = (CHOOSE r \in replies : r.agent = a).finding
    BY <1>2 DEF NewFindings
  <2>2. \E r \in replies : r.agent = a /\ NewFindings[a] = r.finding
    BY <2>1, <1>2
  <2> QED BY <2>2 DEF FindingReplies
<1>3. CASE ~ \E r \in replies : r.agent = a
  <2>1. NewFindings[a] = LocallyRevised(a)
    BY <1>3 DEF NewFindings
  <2> QED BY <2>1, <1>1, <1>3, ReconsideredKeepsRows DEF LocallyRevised
<1> QED BY <1>2, <1>3

(* What an intact agent is reported to have found when a round closes: no   *)
(* less than before, no more than it holds, and what it confirmed.          *)
LEMMA ClosedFindings ==
  ASSUME Inv, phase = "update", calls = {}, NEW a \in Participants, Intact(a)
  PROVE  /\ findings[a].rows \subseteq NewFindings[a].rows
         /\ NewFindings[a].rows \subseteq session[a].own.rows
         /\ session[a].own # NoFinding
         /\ ConfirmedIn(a, round) \subseteq NewFindings[a].rows \/ <<a, round, "finding_update">> \in failed
         /\ NewFindings[a] = session[a].own \/ UpdateFailed(a)
<1>1. TypeOK /\ HoldsEvidence /\ UpdateReplies /\ replies \subseteq FindingReplies /\ round \in Rounds
  BY DEF Inv, Phases, TypeOK
<1>2. session[a].own # NoFinding /\ findings[a].rows \subseteq session[a].own.rows
  BY <1>1 DEF HoldsEvidence
<1>3. CASE \E r \in replies : r.agent = a /\ NewFindings[a] = r.finding
  BY <1>1, <1>2, <1>3 DEF UpdateReplies
<1>4. CASE (\A r \in replies : r.agent # a) /\ NewFindings[a].rows = findings[a].rows
  <2>1. <<a, round, "finding_update">> \in failed
    BY <1>1, <1>4 DEF UpdateReplies
  <2>2. UpdateFailed(a)
    BY <2>1, <1>1, BoundsAssumption DEF UpdateFailed, Rounds
  <2> QED BY <1>2, <1>4, <2>1, <2>2
<1> QED BY <1>1, <1>3, <1>4, NewFindingsFacts

(* A round that closes has every confirmed answer of an intact agent in its *)
(* finding, unless the agent's update failed.                               *)
LEMMA CloseRoundInv == ASSUME Inv, CloseRound PROVE Inv'
<1>1. TypeOK /\ Phases /\ LateFailed /\ AnalyzedOnce /\ HoldsEvidence /\ Remembered /\ UpdateReplies
      /\ Joined /\ Matches
  BY DEF Inv
<1>2. /\ phase = "update" /\ calls = {} /\ findings' = NewFindings /\ requests' = {}
      /\ UNCHANGED <<log, session, failed, forgot>> /\ asked' = asked
  BY DEF CloseRound, history
<1>3. round \in Rounds /\ replies \subseteq FindingReplies /\ Participants \subseteq Agents
      /\ asked \in SUBSET (Agents \X Entities)
  BY <1>1, <1>2 DEF TypeOK, Phases, Findings, Participants
<1>4. Participants' = Participants
  BY <1>2 DEF Participants, NewFindings
<1>5. \A a \in Participants :
        /\ NewFindings[a] \in Finding
        /\ \/ \E r \in replies : r.agent = a /\ NewFindings[a] = r.finding
           \/ (\A r \in replies : r.agent # a) /\ NewFindings[a].rows = findings[a].rows
  BY <1>1, <1>3, NewFindingsFacts
<1>6. NewFindings \in Findings
  <2>1. NewFindings \in [Participants -> Finding]
    BY <1>5 DEF NewFindings
  <2> QED BY <2>1, <1>3 DEF Findings
<1>7. \E M \in SUBSET Messages :
        /\ Send(M) /\ \A m \in M : m.kind = "finding_publish" /\ m.round = round'
        /\ \/ phase' = "publish" /\ round < MaxRounds /\ round' = round + 1
           \/ phase' \in {"converged", "max_rounds"} /\ round' = round /\ M = {}
  <2>1. CASE phase' \in {"converged", "max_rounds"} /\ round' = round /\ Send({})
    <3> DEFINE none == {}
    <3>1. none \in SUBSET Messages /\ Send(none) /\ \A m \in none : FALSE
      BY <2>1
    <3> QED BY <3>1, <2>1
  <2>2. CASE phase' = "publish" /\ round < MaxRounds /\ round' = round + 1
             /\ Send(Publications(NewFindings, round + 1, asked))
    <3>1. round + 1 \in Rounds
      BY <2>2, <1>3, BoundsAssumption DEF Rounds
    <3> QED BY <3>1, <2>2, <1>3, PublicationFacts
  <2>3. \/ phase' \in {"converged", "max_rounds"} /\ round' = round /\ Send({})
        \/ phase' = "publish" /\ round < MaxRounds /\ round' = round + 1
           /\ Send(Publications(NewFindings, round + 1, asked))
    BY DEF CloseRound, Goto
  <2> QED BY <2>1, <2>2, <2>3
<1>8. PICK M \in SUBSET Messages :
        /\ Send(M) /\ \A m \in M : m.kind = "finding_publish" /\ m.round = round'
        /\ \/ phase' = "publish" /\ round < MaxRounds /\ round' = round + 1
           \/ phase' \in {"converged", "max_rounds"} /\ round' = round /\ M = {}
  BY <1>7
<1>9. /\ calls' = M /\ replies' = {} /\ calls' \subseteq inbox' /\ inbox' \subseteq Messages /\ LateFailed'
      /\ \A m \in inbox' : m.kind = "validation_request" => m.to = m.q.target
      /\ \A a : Analysis(a) \notin inbox => Analysis(a) \notin inbox'
  BY <1>1, <1>2, <1>8, SendFacts
<1>10. \A a : /\ UpdateFailed(a)' = UpdateFailed(a) /\ Intact(a)' = Intact(a)
              /\ \A k : ConfirmedIn(a, k)' = ConfirmedIn(a, k)
  BY <1>2 DEF UpdateFailed, Intact, ConfirmedIn
<1>11. round' \in Rounds /\ round \in Int /\ round' \in Int /\ round <= round'
       /\ phase' \in {"publish", "converged", "max_rounds"}
  BY <1>3, <1>8, BoundsAssumption DEF Rounds
<1>12. TypeOK'
  BY <1>1, <1>2, <1>6, <1>9, <1>11 DEF TypeOK, Final
<1>13. Phases'
  <2>1. \A l \in log : l.round \in Int
    BY <1>1 DEF TypeOK, Logged, Rounds
  <2> QED BY <2>1, <1>1, <1>2, <1>8, <1>9, <1>11 DEF Phases, Final
<1>14. AnalyzedOnce'
  BY <1>1, <1>4, <1>9, <1>11 DEF AnalyzedOnce
<1>15. \A a \in Participants : Intact(a) =>
         /\ findings[a].rows \subseteq NewFindings[a].rows
         /\ NewFindings[a].rows \subseteq session[a].own.rows
         /\ session[a].own # NoFinding
         /\ ConfirmedIn(a, round) \subseteq NewFindings[a].rows \/ <<a, round, "finding_update">> \in failed
         /\ NewFindings[a] = session[a].own \/ UpdateFailed(a)
  BY <1>2, ClosedFindings
<1>16. HoldsEvidence'
  BY <1>2, <1>4, <1>10, <1>11, <1>15 DEF HoldsEvidence
<1>17. Remembered'
  BY <1>1, <1>2, <1>10, <1>11 DEF Remembered
<1>18. UpdateReplies'
  BY <1>11 DEF UpdateReplies
<1>19. Joined'
  <2> SUFFICES ASSUME NEW a \in Participants, NEW k \in Rounds, Intact(a), k < round' \/ phase' \in Final
               PROVE  ConfirmedIn(a, k) \subseteq NewFindings[a].rows \/ <<a, k, "finding_update">> \in failed
    BY <1>2, <1>4, <1>10 DEF Joined
  <2>1. k \in Int
    BY DEF Rounds
  <2>2. CASE k < round
    BY <2>2, <1>1, <1>15 DEF Joined
  <2>3. CASE k = round
    BY <2>3, <1>15
  <2>4. CASE k > round
    <3>1. phase' \in Final
      BY <2>1, <2>4, <1>8, <1>11
    <3>2. ConfirmedIn(a, k) = {}
      BY <2>4, <2>1, <1>1, <1>11 DEF ConfirmedIn, Phases, TypeOK, Logged, Rounds
    <3> QED BY <3>2
  <2> QED BY <2>1, <2>2, <2>3, <2>4, <1>11
<1>20. Matches'
  BY <1>2, <1>4, <1>10, <1>11, <1>15 DEF Matches
<1> QED BY <1>9, <1>12, <1>13, <1>14, <1>16, <1>17, <1>18, <1>19, <1>20 DEF Inv

-----------------------------------------------------------------------------
(* The theorems                                                            *)

(* Every step of the agents, the router and the orchestrator keeps it.      *)
LEMMA NextInv == Inv /\ [Next]_vars => Inv'
<1> SUFFICES ASSUME Inv, [Next]_vars PROVE Inv'
  OBVIOUS
<1>1. CASE \E m \in inbox : Handle(m)
  BY <1>1, AnalysisInv, PublishInv, RequestInv, ResponseInv, UpdateInv DEF Handle
<1>2. CASE \E m \in calls : Expire(m)
  BY <1>2, ExpireInv
<1>3. CASE \E a \in Agents : Forget(a)
  BY <1>3, ForgetInv
<1>4. CASE Orchestrate
  BY <1>4, AnalysisDoneInv, AskInv, DeliverInv, UpdateRoundInv, CloseRoundInv DEF Orchestrate
<1>5. CASE UNCHANGED vars
  <2>1. /\ phase' = phase /\ round' = round /\ findings' = findings /\ asked' = asked /\ requests' = requests
        /\ log' = log /\ calls' = calls /\ replies' = replies /\ inbox' = inbox /\ session' = session
        /\ failed' = failed /\ forgot' = forgot
    BY <1>5 DEF vars, orchestrator, network, history
  <2> QED BY <2>1 DEF Inv, TypeOK, Phases, LateFailed, AnalyzedOnce, HoldsEvidence, Remembered, UpdateReplies,
                      Joined, Matches, UpdateOf, UpdateFailed, Intact, ConfirmedIn, Participants
<1> QED BY <1>1, <1>2, <1>3, <1>4, <1>5 DEF Next

(* Types, and what the orchestrator waits for, are as they should be.       *)
THEOREM CollaborationInv == Spec => []Inv
BY InitInv, NextInv, PTL DEF Spec

(* "Their evidence joins `evidence`" (absorb): what an intact agent         *)
(* confirmed to a peer is in its reported finding, or its update failed.    *)
THEOREM EvidenceReachesReport == Spec => []EvidenceKept
<1>1. Inv => EvidenceKept
  <2> SUFFICES ASSUME Inv, phase \in Final, NEW r \in log, r.supported, r.q.target \in Participants,
                      r.q.target \notin forgot
               PROVE  \/ r.q.entity \in findings[r.q.target].rows
                      \/ <<r.q.target, r.round, "finding_update">> \in failed
    BY DEF EvidenceKept
  <2>1. TypeOK /\ Joined
    BY DEF Inv
  <2>2. r.round \in Rounds
    BY <2>1 DEF TypeOK, Logged
  <2>3. r.q.entity \in ConfirmedIn(r.q.target, r.round)
    BY DEF ConfirmedIn
  <2> QED BY <2>1, <2>2, <2>3 DEF Joined, Intact
<1> QED BY <1>1, CollaborationInv, PTL

(* The finding in the report is the one its agent holds, unless the agent   *)
(* lost its session or did not answer an update in time.                    *)
THEOREM ReportIsTheAgents == Spec => []ReportMatchesAgents
<1>1. Inv => ReportMatchesAgents
  <2> SUFFICES ASSUME Inv, phase \in Final, NEW a \in Participants, a \notin forgot,
                      ~HasFailed(a, {"analysis", "finding_update"})
               PROVE  findings[a] = session[a].own
    BY DEF ReportMatchesAgents
  <2>1. ~UpdateFailed(a)
    BY DEF HasFailed, UpdateFailed
  <2> QED BY <2>1 DEF Inv, Matches, Intact, Final
<1> QED BY <1>1, CollaborationInv, PTL

-----------------------------------------------------------------------------
(* What was asked, and what was left to ask                                *)

\* Nothing arrives from a round that has not begun.
NoFuture ==
  /\ \A m \in inbox : m.round <= round
  /\ \A a \in Agents, k \in Rounds : k > round => session[a].peers[k] = {} /\ k \notin session[a].planned

\* A publication says what its sender found and what had been asked.
Published ==
  \A m \in calls : m.kind = "finding_publish" =>
    m.from \in Others(m.to) /\ m.rows = findings[m.from].rows /\ m.asked = asked

\* An agent has heard of a peer or will; when it has heard of all it has planned.
Heard(a, b) == \E p \in session[a].peers[round] : p.from = b
Hears(a) ==
  /\ \A p \in session[a].peers[round] : p.from \in Participants /\ p.rows = findings[p.from].rows
  /\ \A b \in Others(a) : Heard(a, b) \/ \E m \in calls : m.kind = "finding_publish" /\ m.to = a /\ m.from = b
  /\ Others(a) # {} /\ (\A b \in Others(a) : Heard(a, b)) => round \in session[a].planned
PeersHeard == phase = "publish" => \A a \in Participants : Faultless(a) => Hears(a)

\* All that can be asked about an anchor is asked, planned in this round, or known.
Known(t, e) == t \in forgot \/ (t \in Participants /\ e \in findings[t].rows)
Planned == IF phase = "publish" THEN asked \cup Ids(replies) ELSE asked
Addressed(a, c) == \A e \in Reach[c] : \A t \in Probes[e] \ {a} : <<t, e>> \in Planned \/ Known(t, e)

\* The round's plan is complete, as far as a round's budget allows.
HasPlanned(a) ==
  \/ phase = "publish" /\ round \in session[a].planned
  \/ phase \in {"update", "converged"} /\ requests = {}
EvidenceAddressed ==
  \A a \in Participants : Faultless(a) /\ Others(a) # {} /\ HasPlanned(a) =>
    \A c \in findings[a].rows : Addressed(a, c)
LeadsCleared ==
  \A a \in Participants : Faultless(a) /\ Others(a) # {} /\ HasPlanned(a) => session[a].leads = {}
LeadsAddressed ==
  ~cut => \A a \in Participants : Faultless(a) =>
    \A c \in LeadsOf(a) :
      \/ c \in session[a].leads
      \/ \E m \in calls : m.kind = "validation_response" /\ m.to = a /\ c \in m.leads
      \/ Addressed(a, c)

\* What was asked is answered, lost, or on its way.
Lost(t) == t \in forgot \/ HasFailed(t, {"analysis", "validation_request"})
Asking(t, e) ==
  \/ \E m \in calls : m.kind = "validation_request" /\ m.q.target = t /\ m.q.entity = e
  \/ \E r \in replies : r.q.target = t /\ r.q.entity = e
Answered(t, e) == \E r \in log : r.q.target = t /\ r.q.entity = e
AskedIsSettled ==
  \A x \in asked : Answered(x[1], x[2]) \/ Lost(x[1]) \/ (phase = "ask" /\ Asking(x[1], x[2]))
Requested ==
  /\ phase \in {"ask", "deliver"} => requests # {}
  /\ phase = "converged" => requests = {}
Contexts == \A a \in Agents : session[a].context \/ a \in forgot \/ Analysis(a) \in inbox

(* The inductive invariant of the questions.                                *)
Follow ==
  /\ NoFuture /\ Published /\ PeersHeard /\ EvidenceAddressed /\ LeadsCleared /\ LeadsAddressed
  /\ AskedIsSettled /\ Requested /\ Contexts

-----------------------------------------------------------------------------
(* The agents' steps and the questions                                     *)

SamePlan(s, t) == s.peers = t.peers /\ s.planned = t.planned /\ s.leads = t.leads

(* Analyses, requests and updates have no part in what an agent plans.      *)
LEMMA PlanUntouched ==
  ASSUME TypeOK, NEW m \in inbox, HandleAnalysis(m) \/ HandleRequest(m) \/ HandleUpdate(m),
         NEW a \in Agents
  PROVE  SamePlan(session'[a], session[a]) /\ (session[a].context => session'[a].context)
<1>1. session \in [Agents -> Sessions] /\ session[a] \in Sessions /\ m.to \in Agents
  BY MessageFacts DEF TypeOK
<1>2. CASE HandleAnalysis(m)
  <2>1. PICK rows : session' = [session EXCEPT ![m.to] = [@ EXCEPT !.context = TRUE, !.own = [rows |-> rows, notes |-> {}]]]
    BY <1>2 DEF HandleAnalysis
  <2> DEFINE yes == TRUE
             f == [rows |-> rows, notes |-> {}]
             s == [session[m.to] EXCEPT !.context = yes, !.own = f]
  <2>2. yes \in BOOLEAN /\ yes
    OBVIOUS
  <2>3. SamePlan(s, session[m.to]) /\ s.context = yes
    <3> HIDE DEF f, yes
    <3>1. session[m.to] \in Sessions
      BY <1>1
    <3> QED BY <3>1, <1>1, <2>2 DEF Sessions, SamePlan
  <2>4. session' = [session EXCEPT ![m.to] = s]
    BY <2>1
  <2> HIDE DEF s, yes
  <2> QED BY <2>2, <2>3, <2>4, <1>1 DEF SamePlan
<1>3. CASE HandleRequest(m)
  <2>1. PICK X : session' = session \/ session' = [session EXCEPT ![m.to] = [@ EXCEPT !.answers = X]]
    BY <1>1, <1>3 DEF HandleRequest
  <2> DEFINE s == [session[m.to] EXCEPT !.answers = X]
  <2>2. SamePlan(s, session[m.to]) /\ s.context = session[m.to].context
    <3>1. session[m.to] \in Sessions
      BY <1>1
    <3> QED BY <3>1 DEF Sessions, SamePlan
  <2>3. session' = session \/ session' = [session EXCEPT ![m.to] = s]
    BY <2>1
  <2> HIDE DEF s
  <2> QED BY <2>2, <2>3, <1>1 DEF SamePlan
<1>4. CASE HandleUpdate(m)
  <2>1. PICK X : session' = session \/ session' = [session EXCEPT ![m.to] = [@ EXCEPT !.own = X]]
    BY <1>1, <1>4 DEF HandleUpdate
  <2> DEFINE s == [session[m.to] EXCEPT !.own = X]
  <2>2. SamePlan(s, session[m.to]) /\ s.context = session[m.to].context
    <3>1. session[m.to] \in Sessions
      BY <1>1
    <3> QED BY <3>1 DEF Sessions, SamePlan
  <2>3. session' = session \/ session' = [session EXCEPT ![m.to] = s]
    BY <2>1
  <2> HIDE DEF s
  <2> QED BY <2>2, <2>3, <1>1 DEF SamePlan
<1> QED BY <1>2, <1>3, <1>4

(* What is known, asked or lost while the orchestrator waits stays so.      *)
LEMMA Monotone ==
  ASSUME UNCHANGED <<orchestrator, cut>>, failed \subseteq failed', forgot \subseteq forgot', replies \subseteq replies'
  PROVE  /\ phase' = phase /\ round' = round /\ findings' = findings /\ asked' = asked /\ requests' = requests
         /\ log' = log /\ cut' = cut /\ Participants' = Participants
         /\ \A a : /\ Faultless(a)' => Faultless(a) /\ a \notin forgot'
                   /\ Others(a)' = Others(a) /\ LeadsOf(a)' = LeadsOf(a)
                   /\ Lost(a) => Lost(a)'
                   /\ \A c : Addressed(a, c) => Addressed(a, c)'
         /\ \A t, e : Answered(t, e)' = Answered(t, e)
<1>1. /\ phase' = phase /\ round' = round /\ findings' = findings /\ asked' = asked /\ requests' = requests
      /\ log' = log /\ cut' = cut /\ Participants' = Participants
  BY DEF orchestrator, Participants
<1>2. \A a, K : HasFailed(a, K) => HasFailed(a, K)'
  BY DEF HasFailed
<1>3. \A a : /\ Faultless(a)' => Faultless(a) /\ a \notin forgot'
             /\ Lost(a) => Lost(a)'
  BY <1>2 DEF Faultless, Lost
<1>4. \A a : Others(a)' = Others(a) /\ LeadsOf(a)' = LeadsOf(a)
  BY <1>1 DEF Others, LeadsOf
<1>5. \A t, e : (Known(t, e) => Known(t, e)') /\ Answered(t, e)' = Answered(t, e)
  BY <1>1 DEF Known, Answered
<1>6. Planned \subseteq Planned'
  BY <1>1 DEF Planned, Ids
<1>7. \A a, c : Addressed(a, c) => Addressed(a, c)'
  BY <1>5, <1>6 DEF Addressed
<1> QED BY <1>1, <1>3, <1>4, <1>5, <1>7

(* A message an agent handles late, or one it answers, is never an open     *)
(* question of a faultless agent.                                           *)
LEMMA FaultlessWaits ==
  ASSUME TypeOK, LateFailed, NEW m \in inbox, Faultless(m.to),
         m.kind \in {"analysis", "finding_publish", "validation_response", "finding_update"}
  PROVE  m \in calls
<1>1. m \notin calls => <<m.to, m.round, m.kind>> \in failed
  BY DEF LateFailed
<1>2. m.round \in 0 .. MaxRounds
  BY MessageFacts DEF TypeOK
<1> QED BY <1>1, <1>2 DEF Faultless, HasFailed

(* A step of the agents or the router that leaves the plans alone.          *)
LEMMA QuietStep ==
  ASSUME Inv, Follow,
         UNCHANGED <<orchestrator, cut>>, failed \subseteq failed', forgot \subseteq forgot', replies \subseteq replies',
         calls' \subseteq calls, inbox' \subseteq inbox,
         \A a \in Agents : a \notin forgot' => SamePlan(session'[a], session[a]),
         \A a \in Agents : SamePlan(session'[a], session[a]) \/ SamePlan(session'[a], NewSession),
         \A m \in calls \ calls' :
           /\ m.kind \in {"finding_publish", "validation_response"} => ~Faultless(m.to)'
           /\ m.kind = "validation_request" => Lost(m.q.target)' \/ \E r \in replies' : r.q = m.q,
         Contexts'
  PROVE  Follow'
<1>1. /\ TypeOK /\ Phases /\ NoFuture /\ Published /\ PeersHeard /\ EvidenceAddressed /\ LeadsCleared /\ LeadsAddressed
      /\ AskedIsSettled /\ Requested
  BY DEF Inv, Follow
<1>2. /\ phase' = phase /\ round' = round /\ findings' = findings /\ asked' = asked /\ requests' = requests
      /\ log' = log /\ cut' = cut /\ Participants' = Participants
      /\ \A a : /\ Faultless(a)' => Faultless(a) /\ a \notin forgot'
                /\ Others(a)' = Others(a) /\ LeadsOf(a)' = LeadsOf(a)
                /\ Lost(a) => Lost(a)'
                /\ \A c : Addressed(a, c) => Addressed(a, c)'
      /\ \A t, e : Answered(t, e)' = Answered(t, e)
  BY Monotone
<1>3. Participants \subseteq Agents
  BY <1>1 DEF TypeOK, Findings, Participants
<1>4. \A a \in Participants : Faultless(a)' =>
        /\ SamePlan(session'[a], session[a]) /\ Faultless(a)
        /\ HasPlanned(a)' => HasPlanned(a)
  BY <1>2, <1>3 DEF SamePlan, HasPlanned
<1>5. NoFuture'
  <2>1. \A k \in Rounds : NewSession.peers[k] = {} /\ k \notin NewSession.planned
    BY DEF NewSession
  <2> QED BY <2>1, <1>1, <1>2 DEF NoFuture, SamePlan
<1>6. Published' /\ Requested'
  BY <1>1, <1>2 DEF Published, Requested
<1>7. PeersHeard'
  <2> SUFFICES ASSUME phase = "publish", NEW a \in Participants, Faultless(a)' PROVE Hears(a)'
    BY <1>2 DEF PeersHeard
  <2>1. Hears(a) /\ SamePlan(session'[a], session[a])
    BY <1>1, <1>4 DEF PeersHeard
  <2>2. \A b : Heard(a, b)' = Heard(a, b)
    BY <2>1, <1>2 DEF Heard, SamePlan
  <2>3. \A m \in calls : m.kind = "finding_publish" /\ m.to = a => m \in calls'
    OBVIOUS
  <2> QED BY <2>1, <2>2, <2>3, <1>2 DEF Hears, SamePlan
<1>8. EvidenceAddressed'
  BY <1>1, <1>2, <1>4 DEF EvidenceAddressed
<1>9. LeadsCleared'
  BY <1>1, <1>2, <1>4 DEF LeadsCleared, SamePlan
<1>10. LeadsAddressed'
  <2> SUFFICES ASSUME ~cut, NEW a \in Participants, Faultless(a)', NEW c \in LeadsOf(a)
               PROVE  \/ c \in session'[a].leads
                      \/ \E m \in calls' : m.kind = "validation_response" /\ m.to = a /\ c \in m.leads
                      \/ Addressed(a, c)'
    BY <1>2 DEF LeadsAddressed
  <2>1. \A m \in calls : m.kind = "validation_response" /\ m.to = a => m \in calls'
    OBVIOUS
  <2> QED BY <2>1, <1>1, <1>2, <1>4 DEF LeadsAddressed, SamePlan
<1>11. AskedIsSettled'
  <2> SUFFICES ASSUME NEW x \in asked, ~Answered(x[1], x[2]), ~Lost(x[1])'
               PROVE  phase = "ask" /\ Asking(x[1], x[2])'
    BY <1>2 DEF AskedIsSettled
  <2>1. phase = "ask" /\ Asking(x[1], x[2])
    BY <1>1, <1>2 DEF AskedIsSettled
  <2>2. \A m \in calls : m.kind = "validation_request" /\ m.q.target = x[1] =>
          m \in calls' \/ \E r \in replies' : r.q = m.q
    OBVIOUS
  <2> QED BY <2>1, <2>2 DEF Asking
<1> QED BY <1>5, <1>6, <1>7, <1>8, <1>9, <1>10, <1>11 DEF Follow

(* Analyses, revisions and answers to questions are quiet.                  *)
LEMMA QuietHandlers ==
  ASSUME Inv, Follow, NEW m \in inbox, HandleAnalysis(m) \/ HandleRequest(m) \/ HandleUpdate(m)
  PROVE  Follow'
<1>1. TypeOK /\ LateFailed /\ Phases /\ Contexts /\ m \in Messages
  BY DEF Inv, Follow, TypeOK
<1>2. /\ UNCHANGED <<orchestrator, cut>> /\ failed' = failed /\ forgot' = forgot
      /\ m.kind \in {"analysis", "validation_request", "finding_update"}
      /\ m.kind = "analysis" => HandleAnalysis(m)
      /\ m.kind = "validation_request" => HandleRequest(m)
      /\ \E reply : Answer(m, reply)
  <2>1. UNCHANGED <<orchestrator, cut>> /\ failed' = failed /\ forgot' = forgot
    BY DEF HandleAnalysis, HandleRequest, HandleUpdate, history
  <2>2. \E reply : Answer(m, reply)
    BY DEF HandleAnalysis, HandleRequest, HandleUpdate
  <2> QED BY <2>1, <2>2 DEF HandleAnalysis, HandleRequest, HandleUpdate
<1>3. PICK reply : Answer(m, reply)
  BY <1>2
<1>4. /\ replies \subseteq replies' /\ calls' = calls \ {m} /\ inbox' = inbox \ {m}
  BY <1>3 DEF Answer
<1>5. \A a \in Agents : SamePlan(session'[a], session[a]) /\ (session[a].context => session'[a].context)
  BY <1>1, PlanUntouched
<1>6. Contexts'
  <2>1. ASSUME m.kind = "analysis"
        PROVE  session'[m.to].context
    <3>1. PICK rows : session' = [session EXCEPT ![m.to] = [@ EXCEPT !.context = TRUE, !.own = [rows |-> rows, notes |-> {}]]]
      BY <1>2, <2>1 DEF HandleAnalysis
    <3>2. m.to \in Agents /\ session \in [Agents -> Sessions] /\ session[m.to] \in Sessions
      BY <1>1, MessageFacts DEF TypeOK
    <3>3. session'[m.to] = [session[m.to] EXCEPT !.context = TRUE, !.own = [rows |-> rows, notes |-> {}]]
      BY <3>1, <3>2
    <3> QED BY <3>2, <3>3 DEF Sessions
  <2>2. \A a : Analysis(a) = m => m.kind = "analysis" /\ m.to = a
    BY DEF Analysis
  <2> QED BY <2>1, <2>2, <1>1, <1>2, <1>4, <1>5 DEF Contexts, Analysis
<1>7. ASSUME m \in calls, m.kind = "validation_request"
      PROVE  Lost(m.q.target)' \/ \E r \in replies' : r.q = m.q
  <2>1. m.to \in Agents /\ m.to = m.q.target
    BY <1>1, <1>7, MessageFacts DEF TypeOK
  <2>2. CASE session[m.to].context
    <3>1. PICK supported : Answer(m, {[q |-> m.q, supported |-> supported]})
      BY <2>2, <1>2, <1>7 DEF HandleRequest
    <3> DEFINE r == [q |-> m.q, supported |-> supported]
    <3>2. r.q = m.q /\ r \in replies'
      BY <3>1, <1>7 DEF Answer
    <3> QED BY <3>2
  <2>3. CASE ~session[m.to].context
    <3>1. m.to \in forgot \/ Analysis(m.to) \in inbox
      BY <2>1, <2>3, <1>1 DEF Contexts
    <3>2. phase = "ask"
      BY <1>1, <1>7 DEF TypeOK, Phases
    <3>3. Analysis(m.to) \notin calls
      BY <3>2, <1>1 DEF Phases, Analysis
    <3>4. Analysis(m.to) \in inbox => <<m.to, 0, "analysis">> \in failed
      BY <3>3, <1>1 DEF LateFailed, Analysis
    <3>5. 0 \in 0 .. MaxRounds
      BY BoundsAssumption
    <3>6. Analysis(m.to) \in inbox => HasFailed(m.to, {"analysis", "validation_request"})'
      BY <3>4, <3>5, <1>2 DEF HasFailed
    <3> QED BY <3>1, <3>6, <2>1, <1>2 DEF Lost
  <2> QED BY <2>2, <2>3
<1> QED BY <1>1, <1>2, <1>4, <1>5, <1>6, <1>7, QuietStep

(* What a timeout loses is lost by its agent.                               *)
LEMMA ExpireFollow == ASSUME Inv, Follow, NEW m \in calls, Expire(m) PROVE Follow'
<1>1. TypeOK /\ Contexts /\ m \in Messages
  BY DEF Inv, Follow, TypeOK
<1>2. /\ UNCHANGED <<orchestrator, cut>> /\ failed' = failed \cup {<<m.to, m.round, m.kind>>} /\ forgot' = forgot
      /\ calls' = calls \ {m} /\ inbox' = inbox /\ replies' = replies /\ session' = session
  BY DEF Expire, Fail
<1>3. m.round \in 0 .. MaxRounds /\ (m.kind = "validation_request" => m.to = m.q.target)
  BY <1>1, MessageFacts DEF TypeOK
<1>4. \A K : m.kind \in K => HasFailed(m.to, K)'
  BY <1>2, <1>3 DEF HasFailed
<1>5. /\ m.kind \in {"finding_publish", "validation_response"} => ~Faultless(m.to)'
      /\ m.kind = "validation_request" => Lost(m.q.target)'
  BY <1>3, <1>4 DEF Faultless, Lost
<1>6. Contexts' /\ \A a \in Agents : SamePlan(session'[a], session[a])
  BY <1>1, <1>2 DEF Contexts, SamePlan
<1> QED BY <1>2, <1>5, <1>6, QuietStep

(* An agent that loses its session plans no more, and has lost its answers. *)
LEMMA ForgetFollow == ASSUME Inv, Follow, NEW a \in Agents, Forget(a) PROVE Follow'
<1>1. TypeOK /\ Contexts
  BY DEF Inv, Follow
<1>2. /\ UNCHANGED <<orchestrator, cut>> /\ failed' = failed /\ forgot' = forgot \cup {a}
      /\ calls' = calls /\ inbox' = inbox /\ replies' = replies /\ session' = [session EXCEPT ![a] = NewSession]
  BY DEF Forget, network
<1>3. \A b \in Agents : b # a => session'[b] = session[b]
  BY <1>1, <1>2 DEF TypeOK
<1>4. session'[a] = NewSession
  BY <1>1, <1>2 DEF TypeOK
<1>5. Contexts'
  BY <1>1, <1>2, <1>3 DEF Contexts
<1>6. /\ \A b \in Agents : b \notin forgot' => SamePlan(session'[b], session[b])
      /\ \A b \in Agents : SamePlan(session'[b], session[b]) \/ SamePlan(session'[b], NewSession)
  BY <1>2, <1>3, <1>4 DEF SamePlan
<1> QED BY <1>2, <1>5, <1>6, QuietStep

(* Leads that are handed to an agent wait for its next plan.                *)
LEMMA ResponseFollow == ASSUME Inv, Follow, NEW m \in inbox, HandleResponse(m) PROVE Follow'
<1>1. /\ TypeOK /\ Phases /\ LateFailed /\ NoFuture /\ Published /\ PeersHeard /\ EvidenceAddressed /\ LeadsCleared
      /\ LeadsAddressed /\ AskedIsSettled /\ Requested /\ Contexts
  BY DEF Inv, Follow
<1>2. PICK s \in Sessions :
        /\ Stored(m.to, s) /\ Answer(m, {})
        /\ s.leads = session[m.to].leads \cup m.leads /\ s.context = session[m.to].context
        /\ s.peers = session[m.to].peers /\ s.planned = session[m.to].planned
  BY <1>1, ResponseEffect
<1>3. m.kind = "validation_response" /\ UNCHANGED <<orchestrator, failed, forgot, cut>> /\ m.to \in Agents
  BY <1>1, ResponseEffect, MessageFacts DEF TypeOK
<1>4. /\ calls' = calls \ {m} /\ inbox' = inbox \ {m} /\ replies' = replies
  BY <1>2 DEF Answer
<1>5. /\ \A a \in Agents : session'[a].peers = session[a].peers /\ session'[a].planned = session[a].planned
                           /\ session[a].leads \subseteq session'[a].leads
                           /\ (session[a].context => session'[a].context)
                           /\ (a # m.to => session'[a].leads = session[a].leads)
      /\ m.leads \subseteq session'[m.to].leads
  BY <1>1, <1>2, <1>3 DEF Stored, TypeOK
<1>6. /\ phase' = phase /\ round' = round /\ findings' = findings /\ asked' = asked /\ requests' = requests
      /\ log' = log /\ cut' = cut /\ Participants' = Participants
      /\ \A a : /\ Faultless(a)' => Faultless(a) /\ a \notin forgot'
                /\ Others(a)' = Others(a) /\ LeadsOf(a)' = LeadsOf(a)
                /\ Lost(a) => Lost(a)'
                /\ \A c : Addressed(a, c) => Addressed(a, c)'
      /\ \A t, e : Answered(t, e)' = Answered(t, e)
  BY <1>3, <1>4, Monotone
<1>7. Participants \subseteq Agents
  BY <1>1 DEF TypeOK, Findings, Participants
<1>8. \A a \in Participants : HasPlanned(a)' = HasPlanned(a)
  BY <1>5, <1>6, <1>7 DEF HasPlanned
<1>9. Faultless(m.to) => phase = "deliver"
  BY <1>1, <1>3, FaultlessWaits DEF TypeOK, Phases, Final
<1>10. NoFuture' /\ Published' /\ Requested' /\ Contexts'
  BY <1>1, <1>3, <1>4, <1>5, <1>6 DEF NoFuture, Published, Requested, Contexts, Analysis
<1>11. PeersHeard'
  <2> SUFFICES ASSUME phase = "publish", NEW a \in Participants, Faultless(a)' PROVE Hears(a)'
    BY <1>6 DEF PeersHeard
  <2>1. Hears(a)
    BY <1>1, <1>6 DEF PeersHeard
  <2> QED BY <2>1, <1>3, <1>4, <1>5, <1>6, <1>7 DEF Hears, Heard
<1>12. EvidenceAddressed'
  BY <1>1, <1>6, <1>8 DEF EvidenceAddressed
<1>13. LeadsCleared'
  <2>1. \A a \in Participants : Faultless(a) /\ HasPlanned(a) => a # m.to
    BY <1>9 DEF HasPlanned
  <2> QED BY <2>1, <1>1, <1>5, <1>6, <1>7, <1>8 DEF LeadsCleared
<1>14. LeadsAddressed'
  <2> SUFFICES ASSUME ~cut, NEW a \in Participants, Faultless(a), NEW c \in LeadsOf(a)
               PROVE  \/ c \in session'[a].leads
                      \/ \E x \in calls' : x.kind = "validation_response" /\ x.to = a /\ c \in x.leads
                      \/ Addressed(a, c)'
    BY <1>6 DEF LeadsAddressed
  <2> QED BY <1>1, <1>4, <1>5, <1>6, <1>7 DEF LeadsAddressed
<1>15. AskedIsSettled'
  <2>1. \A t, e : Asking(t, e) => Asking(t, e)'
    BY <1>3, <1>4 DEF Asking
  <2> QED BY <2>1, <1>1, <1>6 DEF AskedIsSettled
<1> QED BY <1>10, <1>11, <1>12, <1>13, <1>14, <1>15 DEF Follow

(* An agent that has heard of all its peers plans for all it knows of.      *)
LEMMA PublishFollow == ASSUME Inv, Follow, NEW m \in inbox, HandlePublish(m) PROVE Follow'
<1>1. /\ TypeOK /\ Phases /\ LateFailed /\ HoldsEvidence
      /\ NoFuture /\ Published /\ PeersHeard /\ EvidenceAddressed /\ LeadsCleared
      /\ LeadsAddressed /\ AskedIsSettled /\ Requested /\ Contexts
  BY DEF Inv, Follow
<1> DEFINE a == m.to
           S == session[m.to]
<1>2. PICK s \in Sessions, reply \in SUBSET Questions :
        /\ Stored(m.to, s) /\ Answer(m, reply)
        /\ s.context /\ s.peers = PeersAfter(m)
        /\ \/ ~Plans(m) /\ s.planned = session[m.to].planned /\ s.leads = session[m.to].leads
           \/ /\ Plans(m) /\ s.planned = session[m.to].planned \cup {m.round}
              /\ \/ /\ s.leads = {}
                    /\ Complete(m.to, Anchors(session[m.to]), s.peers[m.round], m.asked, reply)
                 \/ <<m.to, m.round, "topology">> \in failed'
  BY <1>1, PublishEffect
<1>3. /\ m.kind = "finding_publish" /\ UNCHANGED <<orchestrator, forgot, cut>> /\ failed \subseteq failed'
      /\ m.to \in Agents /\ m.round \in Rounds /\ m.round <= round /\ round \in Int
  <2>1. round \in Int
    BY <1>1, BoundsAssumption DEF TypeOK, Rounds
  <2>2. m.round <= round
    BY <1>1 DEF NoFuture
  <2> QED BY <2>1, <2>2, <1>1, PublishEffect
<1>4. /\ calls' = calls \ {m} /\ inbox' = inbox \ {m} /\ replies \subseteq replies'
      /\ (m \in calls => replies' = replies \cup reply)
  BY <1>2 DEF Answer
<1>5. /\ session'[m.to] = s /\ S \in Sessions /\ \A b \in Agents : b # m.to => session'[b] = session[b]
  BY <1>1, <1>2, <1>3 DEF Stored, TypeOK
<1>6. /\ phase' = phase /\ round' = round /\ findings' = findings /\ asked' = asked /\ requests' = requests
      /\ log' = log /\ cut' = cut /\ Participants' = Participants
      /\ \A b : /\ Faultless(b)' => Faultless(b) /\ b \notin forgot'
                /\ Others(b)' = Others(b) /\ LeadsOf(b)' = LeadsOf(b)
                /\ Lost(b) => Lost(b)'
                /\ \A c : Addressed(b, c) => Addressed(b, c)'
      /\ \A t, e : Answered(t, e)' = Answered(t, e)
  BY <1>3, <1>4, Monotone
<1>7. Participants \subseteq Agents
  BY <1>1 DEF TypeOK, Findings, Participants
<1>8. /\ S.peers \in [Rounds -> SUBSET [from : Agents, rows : SUBSET Entities]]
      /\ s.peers[m.round] = S.peers[m.round] \cup {[from |-> m.from, rows |-> m.rows]}
      /\ \A k \in Rounds : k # m.round => s.peers[k] = S.peers[k]
  BY <1>2, <1>3, <1>5, SessionFacts DEF PeersAfter
<1>9. NoFuture'
  <2>1. ASSUME NEW k \in Rounds, k > round
        PROVE  s.peers[k] = {} /\ k \notin s.planned
    <3>1. k # m.round
      BY <2>1, <1>3 DEF Rounds
    <3>2. S.peers[k] = {} /\ k \notin S.planned
      BY <2>1, <1>1, <1>3 DEF NoFuture
    <3> QED BY <3>1, <3>2, <1>2, <1>8
  <2> QED BY <2>1, <1>1, <1>4, <1>5, <1>6 DEF NoFuture
<1>10. Published' /\ Requested' /\ Contexts'
  BY <1>1, <1>2, <1>3, <1>4, <1>5, <1>6 DEF Published, Requested, Contexts, Analysis
<1>11. AskedIsSettled'
  <2>1. \A t, e : Asking(t, e) => Asking(t, e)'
    BY <1>3, <1>4 DEF Asking
  <2> QED BY <2>1, <1>1, <1>6 DEF AskedIsSettled

\* The agent is faultless, so the message is of this round and up to date.
<1>12. ASSUME Faultless(m.to)'
       PROVE  /\ Faultless(m.to) /\ m \in calls /\ phase = "publish" /\ m.round = round
              /\ m.from \in Others(m.to) /\ m.rows = findings[m.from].rows /\ m.asked = asked
              /\ <<m.to, m.round, "topology">> \notin failed'
              /\ replies' = replies \cup reply /\ m.to \notin forgot
  <2>1. Faultless(m.to) /\ m \in calls
    BY <1>1, <1>3, <1>6, <1>12, FaultlessWaits
  <2>2. phase = "publish" /\ m.round = round
    BY <2>1, <1>1, <1>3 DEF TypeOK, Phases, Final
  <2>3. m.round \in 0 .. MaxRounds
    BY <1>3, BoundsAssumption DEF Rounds
  <2>4. <<m.to, m.round, "topology">> \notin failed'
    BY <2>3, <1>12 DEF Faultless, HasFailed
  <2> QED BY <2>1, <2>2, <2>4, <1>1, <1>3, <1>4 DEF Published, Faultless
<1>13. ASSUME m.to \in Participants, Faultless(m.to)'
       PROVE  Hears(m.to)'
  <2>1. Hears(m.to)
    BY <1>1, <1>12, <1>13 DEF PeersHeard
  <2>2. \A p \in s.peers[round] : p.from \in Participants /\ p.rows = findings[p.from].rows
    BY <2>1, <1>8, <1>12, <1>13 DEF Hears, Others
  <2>3. \A b : (Heard(m.to, b) \/ b = m.from) <=> \E p \in s.peers[round] : p.from = b
    <3> DEFINE q == [from |-> m.from, rows |-> m.rows]
    <3>1. s.peers[round] = S.peers[round] \cup {q} /\ q.from = m.from
      BY <1>8, <1>12, <1>13
    <3> HIDE DEF q
    <3> QED BY <3>1 DEF Heard
  <2>4. \A b \in Others(m.to) : \/ \E p \in s.peers[round] : p.from = b
                                \/ \E x \in calls' : x.kind = "finding_publish" /\ x.to = m.to /\ x.from = b
    BY <2>1, <2>3, <1>4 DEF Hears
  <2>5. Others(m.to) # {} /\ (\A b \in Others(m.to) : \E p \in s.peers[round] : p.from = b)
          => round \in s.planned
    BY <1>2, <1>12, <1>13 DEF Plans
  <2> QED BY <2>2, <2>4, <2>5, <1>5, <1>6 DEF Hears, Heard
<1>14. PeersHeard'
  <2> SUFFICES ASSUME phase = "publish", NEW b \in Participants, Faultless(b)', b # m.to PROVE Hears(b)'
    BY <1>6, <1>13 DEF PeersHeard
  <2>1. Hears(b) /\ session'[b] = session[b]
    BY <1>1, <1>5, <1>6, <1>7 DEF PeersHeard
  <2> QED BY <2>1, <1>4, <1>6 DEF Hears, Heard
<1>15. ASSUME m.to \in Participants, Faultless(m.to)', Plans(m), NEW c \in Anchors(S)
       PROVE  Addressed(m.to, c)'
  <2>1. Complete(m.to, Anchors(S), s.peers[round], asked, reply)
    BY <1>2, <1>12, <1>15
  <2>2. \A p \in s.peers[round] : p.from \in Participants /\ p.rows = findings[p.from].rows
    BY <1>5, <1>6, <1>13, <1>15 DEF Hears
  <2>3. Planned' = asked \cup Ids(replies')
    BY <1>6, <1>12, <1>15 DEF Planned
  <2>4. Ids(reply) \subseteq Planned'
    BY <2>3, <1>12, <1>15 DEF Ids
  <2>5. \A t, e : (\E p \in s.peers[round] : p.from = t /\ e \in p.rows) => Known(t, e)'
    BY <2>2, <1>6 DEF Known
  <2> QED BY <2>1, <2>3, <2>4, <2>5, <1>15 DEF Complete, Addressed
<1>16. EvidenceAddressed'
  <2> SUFFICES ASSUME NEW b \in Participants, Faultless(b)', Others(b) # {}, HasPlanned(b)', NEW c \in findings[b].rows
               PROVE  Addressed(b, c)'
    BY <1>6 DEF EvidenceAddressed
  <2>1. CASE HasPlanned(b)
    BY <2>1, <1>1, <1>6 DEF EvidenceAddressed
  <2>2. CASE ~HasPlanned(b)
    <3>1. b = m.to
      BY <2>2, <1>5, <1>6, <1>7 DEF HasPlanned
    <3>2. Plans(m)
      BY <2>2, <3>1, <1>2, <1>5, <1>6 DEF HasPlanned
    <3>3. c \in Anchors(S)
      BY <3>1, <1>1, <1>12 DEF HoldsEvidence, Intact, Anchors
    <3> QED BY <3>1, <3>2, <3>3, <1>15
  <2> QED BY <2>1, <2>2
<1>17. LeadsCleared'
  <2> SUFFICES ASSUME NEW b \in Participants, Faultless(b)', Others(b) # {}, HasPlanned(b)'
               PROVE  session'[b].leads = {}
    BY <1>6 DEF LeadsCleared
  <2>1. CASE b # m.to
    <3>1. session'[b] = session[b]
      BY <2>1, <1>5, <1>7
    <3> QED BY <3>1, <1>1, <1>6 DEF LeadsCleared, HasPlanned
  <2>2. CASE b = m.to
    <3>1. Plans(m) => s.leads = {}
      BY <2>2, <1>2, <1>12
    <3>2. ~Plans(m) => HasPlanned(b) /\ s.leads = S.leads
      BY <2>2, <1>2, <1>5, <1>6 DEF HasPlanned
    <3> QED BY <2>2, <3>1, <3>2, <1>1, <1>5, <1>6 DEF LeadsCleared
  <2> QED BY <2>1, <2>2
<1>18. LeadsAddressed'
  <2> SUFFICES ASSUME ~cut, NEW b \in Participants, Faultless(b)', NEW c \in LeadsOf(b)
               PROVE  \/ c \in session'[b].leads
                      \/ \E x \in calls' : x.kind = "validation_response" /\ x.to = b /\ c \in x.leads
                      \/ Addressed(b, c)'
    BY <1>6 DEF LeadsAddressed
  <2>1. \/ c \in session[b].leads
        \/ \E x \in calls : x.kind = "validation_response" /\ x.to = b /\ c \in x.leads
        \/ Addressed(b, c)
    BY <1>1, <1>6 DEF LeadsAddressed
  <2>2. CASE c \in session[b].leads
    <3>1. CASE b # m.to
      BY <3>1, <2>2, <1>5, <1>7
    <3>2. CASE b = m.to /\ ~Plans(m)
      BY <3>2, <2>2, <1>2, <1>5
    <3>3. CASE b = m.to /\ Plans(m)
      <4>1. c \in Anchors(S)
        BY <3>3, <2>2 DEF Anchors
      <4> QED BY <4>1, <3>3, <1>15
    <3> QED BY <3>1, <3>2, <3>3
  <2> QED BY <2>1, <2>2, <1>3, <1>4, <1>6
<1> QED BY <1>9, <1>10, <1>11, <1>14, <1>16, <1>17, <1>18 DEF Follow

-----------------------------------------------------------------------------
(* The orchestrator's steps and the questions                              *)

(* Every finding is published to every other agent, with what was asked.    *)
LEMMA PublicationsReachAll ==
  ASSUME NEW F \in Findings, NEW k \in Rounds, NEW known
  PROVE  /\ \A m \in Publications(F, k, known) :
              /\ m.kind = "finding_publish" /\ m.round = k
              /\ m.from \in DOMAIN F /\ m.from # m.to /\ m.rows = F[m.from].rows /\ m.asked = known
         /\ \A b \in DOMAIN F, a \in Agents : a # b =>
              \E m \in Publications(F, k, known) : m.kind = "finding_publish" /\ m.to = a /\ m.from = b
<1>1. DOMAIN F \subseteq Agents /\ \A b \in DOMAIN F : F[b].rows \in SUBSET Entities
  BY DEF Findings, Finding
<1>2. \A m \in Publications(F, k, known) :
        /\ m.kind = "finding_publish" /\ m.round = k
        /\ m.from \in DOMAIN F /\ m.from # m.to /\ m.rows = F[m.from].rows /\ m.asked = known
  BY DEF Publications
<1>3. ASSUME NEW b \in DOMAIN F, NEW a \in Agents, a # b
      PROVE  \E m \in Publications(F, k, known) : m.kind = "finding_publish" /\ m.to = a /\ m.from = b
  <2> DEFINE m == [kind |-> "finding_publish", from |-> b, to |-> a, round |-> k, rows |-> F[b].rows, asked |-> known]
  <2>1. m \in Publications(F, k, known)
    BY <1>1, <1>3 DEF Publications
  <2>2. m.kind = "finding_publish" /\ m.to = a /\ m.from = b
    OBVIOUS
  <2> HIDE DEF m
  <2> QED BY <2>1, <2>2
<1> QED BY <1>2, <1>3

(* A round begins with everybody to hear of and nothing planned.            *)
LEMMA RoundBegins ==
  ASSUME Inv, Inv', Follow, phase' = "publish", round' > round, Send(Publications(findings', round', asked)),
         UNCHANGED <<asked, session, failed, forgot>>
  PROVE  /\ NoFuture' /\ Published' /\ PeersHeard' /\ Contexts'
         /\ \A a \in Participants' : ~HasPlanned(a)'
<1>1. TypeOK /\ TypeOK' /\ NoFuture /\ Contexts
  BY DEF Inv, Follow
<1>2. round' \in Rounds /\ round \in Int /\ findings' \in Findings /\ Participants' \subseteq Agents
  BY <1>1, BoundsAssumption DEF TypeOK, Rounds, Findings, Participants
<1> DEFINE M == Publications(findings', round', asked)
<1>3. /\ \A m \in M :
           /\ m.kind = "finding_publish" /\ m.round = round'
           /\ m.from \in Participants' /\ m.from # m.to /\ m.rows = findings'[m.from].rows /\ m.asked = asked
      /\ \A b \in Participants', a \in Agents : a # b =>
           \E m \in M : m.kind = "finding_publish" /\ m.to = a /\ m.from = b
  BY <1>2, PublicationsReachAll DEF Participants
<1>4. calls' = M /\ inbox' = inbox \cup M /\ replies' = {}
  BY DEF Send
<1> HIDE DEF M
<1>5. round' \in Int /\ \A m \in inbox : m.round \in Int
  BY <1>1, <1>2, BoundsAssumption, MessageFacts DEF TypeOK, Rounds
<1>6. NoFuture'
  <2>1. \A m \in inbox' : m.round <= round'
    BY <1>1, <1>2, <1>3, <1>4, <1>5 DEF NoFuture
  <2>2. \A k \in Rounds : k > round' => k > round
    BY <1>2, <1>5 DEF Rounds
  <2> QED BY <2>1, <2>2, <1>1 DEF NoFuture
<1>7. Published'
  BY <1>3, <1>4 DEF Published, Others
<1>8. \A a \in Agents : session[a].peers[round'] = {} /\ round' \notin session[a].planned
  BY <1>1, <1>2 DEF NoFuture
<1>9. PeersHeard'
  <2> SUFFICES ASSUME NEW a \in Participants' PROVE Hears(a)'
    BY DEF PeersHeard
  <2>1. \A b : ~Heard(a, b)'
    BY <1>2, <1>8 DEF Heard
  <2>2. \A b \in Others(a)' : \E m \in calls' : m.kind = "finding_publish" /\ m.to = a /\ m.from = b
    BY <1>2, <1>3, <1>4 DEF Others
  <2> QED BY <2>1, <2>2, <1>2, <1>8 DEF Hears
<1>10. Contexts' /\ \A a \in Participants' : ~HasPlanned(a)'
  BY <1>1, <1>2, <1>4, <1>8 DEF Contexts, HasPlanned, Analysis
<1> QED BY <1>6, <1>7, <1>9, <1>10

(* Nothing has been asked when the first round begins.                      *)
LEMMA AnalysisDoneFollow == ASSUME Inv, Inv', Follow, AnalysisDone PROVE Follow'
<1>1. TypeOK /\ Phases /\ NoFuture /\ AskedIsSettled /\ Contexts /\ TypeOK'
  BY DEF Inv, Follow
<1>2. /\ phase = "analysis" /\ round = 0 /\ log = {} /\ calls = {}
      /\ round' = 1 /\ log' = {} /\ UNCHANGED <<asked, requests, session, failed, forgot, cut>>
  BY <1>1 DEF AnalysisDone, TypeOK, Phases, history
<1>3. \/ phase' = "short_circuit" /\ Send({})
      \/ phase' = "publish" /\ Send(Publications(findings', round', asked))
  BY DEF AnalysisDone, Goto
<1>4. AskedIsSettled'
  BY <1>1, <1>2 DEF AskedIsSettled, Answered, Lost, HasFailed
<1>5. LeadsAddressed'
  BY <1>2 DEF LeadsAddressed, LeadsOf
<1>6. Requested'
  BY <1>3 DEF Requested
<1>7. CASE phase' = "publish" /\ Send(Publications(findings', round', asked))
  <2>1. NoFuture' /\ Published' /\ PeersHeard' /\ Contexts' /\ \A a \in Participants' : ~HasPlanned(a)'
    BY <1>2, <1>7, RoundBegins
  <2> QED BY <2>1, <1>4, <1>5, <1>6 DEF Follow, EvidenceAddressed, LeadsCleared
<1>8. CASE phase' = "short_circuit" /\ Send({})
  <2>1. calls' = {} /\ inbox' = inbox
    BY <1>8 DEF Send
  <2>2. NoFuture'
    <3>1. \A m \in inbox : m.round \in Int
      BY <1>1, BoundsAssumption, MessageFacts DEF TypeOK, Rounds
    <3>2. \A k \in Rounds : k > 1 => k > 0
      BY DEF Rounds
    <3> QED BY <3>1, <3>2, <2>1, <1>1, <1>2 DEF NoFuture
  <2>3. Published' /\ PeersHeard' /\ Contexts' /\ \A a : ~HasPlanned(a)'
    BY <2>1, <1>1, <1>2, <1>8 DEF Published, PeersHeard, Contexts, HasPlanned, Analysis
  <2> QED BY <2>2, <2>3, <1>4, <1>5, <1>6 DEF Follow, EvidenceAddressed, LeadsCleared
<1> QED BY <1>3, <1>7, <1>8

(* Only a round in which nobody asks anything new sends no question.        *)
LEMMA NothingSelected ==
  ASSUME replies \subseteq Questions, {} \in Selections
  PROVE  Ids(replies) \subseteq asked
<1> DEFINE fresh == {q \in replies : <<q.target, q.entity>> \notin asked}
           n == Cardinality(Ids(fresh))
<1>1. IsFiniteSet(Ids(fresh))
  <2>1. Ids(fresh) \subseteq Agents \X Entities
    <3>1. fresh \subseteq Questions
      OBVIOUS
    <3> HIDE DEF fresh
    <3>2. \A q \in Questions : <<q.target, q.entity>> \in Agents \X Entities
      BY DEF Questions
    <3> QED BY <3>1, <3>2 DEF Ids
  <2>2. IsFiniteSet(Agents \X Entities)
    BY CatalogAssumption, FS_Product
  <2> HIDE DEF fresh
  <2> QED BY <2>1, <2>2, FS_Subset
<1>2. n \in Nat /\ (n = 0 <=> Ids(fresh) = {})
  <2> HIDE DEF fresh
  <2> QED BY <1>1, FS_CardinalityType, FS_EmptySet
<1>3. Cardinality({}) = 0
  BY FS_EmptySet
<1>4. Cardinality({}) = IF n <= Budget THEN n ELSE Budget
  BY DEF Selections
<1>5. Ids(fresh) = {}
  <2> HIDE DEF n, fresh
  <2> QED BY <1>2, <1>3, <1>4, BoundsAssumption
<1> QED BY <1>5 DEF Ids

(* The questions that go out are asked; the budget may have cut others.     *)
LEMMA AskFollow == ASSUME Inv, Inv', Follow, Ask PROVE Follow'
<1>1. /\ TypeOK /\ Phases /\ NoFuture /\ PeersHeard /\ EvidenceAddressed /\ LeadsCleared
      /\ LeadsAddressed /\ AskedIsSettled /\ Contexts
  BY DEF Inv, Follow
<1> DEFINE R == {[kind |-> "validation_request", to |-> q.target, round |-> round, q |-> q] : q \in requests'}
<1>2. /\ phase = "publish" /\ calls = {} /\ requests' \in Selections /\ asked' = asked \cup Ids(requests')
      /\ cut' = (cut \/ ~(Ids(replies) \subseteq asked \cup Ids(requests')))
      /\ round' = round /\ findings' = findings /\ log' = log /\ session' = session /\ failed' = failed
      /\ forgot' = forgot /\ Participants' = Participants
  BY DEF Ask, Marked, Ids, Participants
<1>3. replies \subseteq Questions /\ round \in Rounds /\ Participants \subseteq Agents
  BY <1>1, <1>2 DEF Phases, TypeOK, Findings, Participants
<1>4. \/ phase' = "update" /\ requests' = {} /\ Send(Updates)
      \/ phase' = "ask" /\ requests' # {} /\ Send(R)
  BY DEF Ask, Goto
<1>5. /\ calls' = Updates \/ calls' = R
      /\ inbox' = inbox \cup calls' /\ replies' = {} /\ (phase' = "ask" => calls' = R)
  BY <1>4 DEF Send
<1>6. \A m \in calls' : m.kind \in {"finding_update", "validation_request"} /\ m.round = round
  BY <1>5 DEF Updates
<1>7. \A a : /\ Faultless(a)' = Faultless(a) /\ Others(a)' = Others(a) /\ LeadsOf(a)' = LeadsOf(a)
             /\ Lost(a)' = Lost(a)
             /\ \A e : Known(a, e)' = Known(a, e) /\ Answered(a, e)' = Answered(a, e)
  BY <1>2 DEF Faultless, HasFailed, Others, LeadsOf, Lost, Known, Answered
<1>8. Planned = asked \cup Ids(replies) /\ Planned' = asked \cup Ids(requests')
  BY <1>2, <1>4 DEF Planned
<1>9. ASSUME NEW a, NEW c, Addressed(a, c), Ids(replies) \subseteq asked \cup Ids(requests')
      PROVE  Addressed(a, c)'
  BY <1>7, <1>8, <1>9 DEF Addressed
<1>10. NoFuture'
  <2>1. \A m \in inbox' : m.round <= round
    BY <1>1, <1>3, <1>5, <1>6 DEF NoFuture, Rounds
  <2> QED BY <2>1, <1>1, <1>2 DEF NoFuture
<1>11. Published' /\ PeersHeard' /\ Requested' /\ Contexts'
  BY <1>1, <1>2, <1>4, <1>5, <1>6 DEF Published, PeersHeard, Requested, Contexts, Analysis
<1>12. ASSUME NEW a \in Participants, Faultless(a), Others(a) # {}
       PROVE  HasPlanned(a)
  BY <1>1, <1>2, <1>12 DEF PeersHeard, Hears, HasPlanned
<1>13. EvidenceAddressed' /\ LeadsCleared'
  <2> SUFFICES ASSUME NEW a \in Participants, Faultless(a), Others(a) # {}, HasPlanned(a)'
               PROVE  session[a].leads = {} /\ \A c \in findings[a].rows : Addressed(a, c)'
    BY <1>2, <1>7 DEF EvidenceAddressed, LeadsCleared
  <2>1. requests' = {}
    BY <1>4 DEF HasPlanned
  <2>2. Ids(replies) \subseteq asked
    BY <2>1, <1>2, <1>3, NothingSelected
  <2>3. HasPlanned(a)
    BY <1>12
  <2> QED BY <2>2, <2>3, <1>1, <1>9 DEF EvidenceAddressed, LeadsCleared
<1>14. LeadsAddressed'
  <2> SUFFICES ASSUME ~cut', NEW a \in Participants, Faultless(a), NEW c \in LeadsOf(a), c \notin session[a].leads
               PROVE  Addressed(a, c)'
    BY <1>2, <1>7 DEF LeadsAddressed
  <2>1. ~cut /\ Ids(replies) \subseteq asked \cup Ids(requests')
    BY <1>2
  <2> QED BY <2>1, <1>1, <1>2, <1>9 DEF LeadsAddressed
<1>15. AskedIsSettled'
  <2> SUFFICES ASSUME NEW x \in asked'
               PROVE  Answered(x[1], x[2]) \/ Lost(x[1]) \/ (phase' = "ask" /\ Asking(x[1], x[2])')
    BY <1>7 DEF AskedIsSettled
  <2>1. CASE x \in asked
    BY <2>1, <1>1, <1>2 DEF AskedIsSettled
  <2>2. CASE x \in Ids(requests')
    <3>1. PICK q \in requests' : x = <<q.target, q.entity>>
      BY <2>2 DEF Ids
    <3>2. phase' = "ask" /\ calls' = R
      BY <1>4, <1>5
    <3> DEFINE m == [kind |-> "validation_request", to |-> q.target, round |-> round, q |-> q]
    <3>3. m \in calls' /\ m.kind = "validation_request" /\ m.q = q
      BY <3>2
    <3> HIDE DEF m
    <3> QED BY <3>1, <3>2, <3>3 DEF Asking
  <2> QED BY <2>1, <2>2, <1>2
<1> QED BY <1>10, <1>11, <1>13, <1>14, <1>15 DEF Follow

(* An answer is in the log, and its leads are on their way to who asked.    *)
LEMMA DeliverFollow == ASSUME Inv, Inv', Follow, Deliver PROVE Follow'
<1>1. /\ TypeOK /\ Phases /\ NoFuture /\ LeadsAddressed /\ AskedIsSettled /\ Requested /\ Contexts
  BY DEF Inv, Follow
<1> DEFINE L == {[q |-> r.q, round |-> round, supported |-> r.supported, leads |-> Leads(r)] : r \in replies}
           M == {[kind |-> "validation_response", to |-> r.q.asker, round |-> round, q |-> r.q, leads |-> Leads(r)] :
                   r \in replies}
<1>2. /\ phase = "ask" /\ calls = {} /\ phase' = "deliver" /\ log' = log \cup L
      /\ calls' = M /\ inbox' = inbox \cup M /\ replies' = {}
      /\ round' = round /\ findings' = findings /\ asked' = asked /\ requests' = requests /\ session' = session
      /\ failed' = failed /\ forgot' = forgot /\ cut' = cut /\ Participants' = Participants
  BY DEF Deliver, Goto, Send, history, Participants
<1>3. round \in Rounds /\ \A m \in M : m.kind = "validation_response" /\ m.round = round
  BY <1>1, <1>2 DEF TypeOK
<1> DEFINE Entry(r) == [q |-> r.q, round |-> round, supported |-> r.supported, leads |-> Leads(r)]
           Response(r) == [kind |-> "validation_response", to |-> r.q.asker, round |-> round, q |-> r.q, leads |-> Leads(r)]
<1>4. \A l \in L : \E m \in M : m.to = l.q.asker /\ m.leads = l.leads
  <2> TAKE l \in L
  <2>1. PICK r \in replies : l = Entry(r)
    OBVIOUS
  <2>2. Response(r) \in M /\ Response(r).to = l.q.asker /\ Response(r).leads = l.leads
    BY <2>1
  <2> HIDE DEF Response, M
  <2> QED BY <2>2
<1>5. \A r \in replies : \E l \in L : l.q = r.q
  <2> TAKE r \in replies
  <2>1. Entry(r) \in L /\ Entry(r).q = r.q
    OBVIOUS
  <2> HIDE DEF Entry, L
  <2> QED BY <2>1
<1> HIDE DEF L, M
<1>6. \A a : Faultless(a)' = Faultless(a) /\ Lost(a)' = Lost(a) /\ \A c : Addressed(a, c)' = Addressed(a, c)
  BY <1>2 DEF Faultless, HasFailed, Lost, Addressed, Known, Planned
<1>7. NoFuture'
  <2>1. \A m \in inbox' : m.round <= round
    BY <1>1, <1>2, <1>3 DEF NoFuture, Rounds
  <2> QED BY <2>1, <1>1, <1>2 DEF NoFuture
<1>8. Published' /\ PeersHeard' /\ Requested' /\ Contexts' /\ EvidenceAddressed' /\ LeadsCleared'
  BY <1>1, <1>2, <1>3 DEF Published, PeersHeard, Requested, Contexts, Analysis, EvidenceAddressed, LeadsCleared, HasPlanned
<1>9. LeadsAddressed'
  <2> SUFFICES ASSUME ~cut, NEW a \in Participants, Faultless(a), NEW c \in LeadsOf(a)',
                      c \notin session[a].leads, ~Addressed(a, c)
               PROVE  \E m \in M : m.kind = "validation_response" /\ m.to = a /\ c \in m.leads
    BY <1>2, <1>6 DEF LeadsAddressed
  <2>1. c \notin LeadsOf(a)
    BY <1>1, <1>2 DEF LeadsAddressed
  <2>2. PICK l \in L : l.q.asker = a /\ c \in l.leads
    BY <2>1, <1>2 DEF LeadsOf
  <2> QED BY <2>2, <1>3, <1>4
<1>10. AskedIsSettled'
  <2>1. \A t, e : Asking(t, e) \/ Answered(t, e) => Answered(t, e)'
    BY <1>2, <1>5 DEF Asking, Answered
  <2> QED BY <2>1, <1>1, <1>2, <1>6 DEF AskedIsSettled
<1> QED BY <1>7, <1>8, <1>9, <1>10 DEF Follow

(* Every lead has reached its agent when the findings are revised.          *)
LEMMA UpdateRoundFollow == ASSUME Inv, Inv', Follow, Update PROVE Follow'
<1>1. /\ TypeOK /\ NoFuture /\ LeadsAddressed /\ AskedIsSettled /\ Requested /\ Contexts
  BY DEF Inv, Follow
<1>2. /\ phase = "deliver" /\ calls = {} /\ phase' = "update" /\ log' = log
      /\ calls' = Updates /\ inbox' = inbox \cup Updates /\ replies' = {}
      /\ round' = round /\ findings' = findings /\ asked' = asked /\ requests' = requests /\ session' = session
      /\ failed' = failed /\ forgot' = forgot /\ cut' = cut /\ Participants' = Participants
  BY DEF Update, Goto, Send, history, Participants
<1>3. round \in Rounds /\ \A m \in Updates : m.kind = "finding_update" /\ m.round = round
  BY <1>1, <1>2 DEF TypeOK, Updates
<1>4. \A a : /\ Faultless(a)' = Faultless(a) /\ Lost(a)' = Lost(a) /\ LeadsOf(a)' = LeadsOf(a)
             /\ \A c : Addressed(a, c)' = Addressed(a, c)
             /\ \A e : Answered(a, e)' = Answered(a, e)
  BY <1>2 DEF Faultless, HasFailed, Lost, Addressed, Known, Planned, LeadsOf, Answered
<1>5. NoFuture'
  <2>1. \A m \in inbox' : m.round <= round
    BY <1>1, <1>2, <1>3 DEF NoFuture, Rounds
  <2> QED BY <2>1, <1>1, <1>2 DEF NoFuture
<1>6. Published' /\ PeersHeard' /\ Requested' /\ Contexts' /\ EvidenceAddressed' /\ LeadsCleared'
  BY <1>1, <1>2, <1>3 DEF Published, PeersHeard, Requested, Contexts, Analysis, EvidenceAddressed, LeadsCleared, HasPlanned
<1>7. LeadsAddressed' /\ AskedIsSettled'
  BY <1>1, <1>2, <1>4 DEF LeadsAddressed, AskedIsSettled
<1> QED BY <1>5, <1>6, <1>7 DEF Follow

(* What is known when a round closes is known in the next; collaboration    *)
(* converges only if nobody had anything left to ask.                       *)
LEMMA CloseRoundFollow == ASSUME Inv, Inv', Follow, CloseRound PROVE Follow'
<1>1. /\ TypeOK /\ NoFuture /\ EvidenceAddressed /\ LeadsCleared /\ LeadsAddressed /\ AskedIsSettled /\ Contexts
  BY DEF Inv, Follow
<1>2. /\ phase = "update" /\ calls = {} /\ findings' = NewFindings /\ requests' = {} /\ replies' = {}
      /\ asked' = asked /\ log' = log /\ session' = session /\ failed' = failed /\ forgot' = forgot /\ cut' = cut
  BY DEF CloseRound, history, Send
<1>3. Participants' = Participants /\ Participants \subseteq Agents /\ round \in Int
  BY <1>1, <1>2, BoundsAssumption DEF Participants, NewFindings, TypeOK, Findings, Rounds
<1>4. \/ phase' = "converged" /\ findings' = findings /\ requests = {} /\ round' = round /\ Send({})
      \/ phase' = "max_rounds" /\ round' = round /\ Send({})
      \/ phase' = "publish" /\ round' = round + 1 /\ Send(Publications(findings', round', asked))
  BY DEF CloseRound, Goto, Converged
<1>5. \A t, e : Known(t, e) => Known(t, e)'
  BY <1>2, <1>3, ClosedFindings DEF Known, Intact
<1>6. Planned = asked /\ Planned' = asked
  BY <1>2 DEF Planned, Ids
<1>7. \A a : /\ Faultless(a)' = Faultless(a) /\ Lost(a)' = Lost(a) /\ LeadsOf(a)' = LeadsOf(a)
             /\ Others(a)' = Others(a)
             /\ \A c : Addressed(a, c) => Addressed(a, c)'
             /\ \A e : Answered(a, e)' = Answered(a, e)
  BY <1>2, <1>3, <1>5, <1>6 DEF Faultless, HasFailed, Lost, Addressed, LeadsOf, Answered, Others
<1>8. LeadsAddressed' /\ AskedIsSettled'
  BY <1>1, <1>2, <1>3, <1>7 DEF LeadsAddressed, AskedIsSettled
<1>9. Requested'
  BY <1>2, <1>4 DEF Requested
<1>10. CASE phase' = "publish" /\ round' = round + 1 /\ Send(Publications(findings', round', asked))
  <2>1. round' > round
    BY <1>3, <1>10
  <2>2. NoFuture' /\ Published' /\ PeersHeard' /\ Contexts' /\ \A a \in Participants' : ~HasPlanned(a)'
    BY <2>1, <1>2, <1>10, RoundBegins
  <2> QED BY <2>2, <1>8, <1>9 DEF Follow, EvidenceAddressed, LeadsCleared
<1>11. CASE phase' # "publish"
  <2>1. calls' = {} /\ inbox' = inbox /\ round' = round
    BY <1>4, <1>11 DEF Send
  <2>2. NoFuture' /\ Published' /\ PeersHeard' /\ Contexts'
    BY <2>1, <1>1, <1>2, <1>11 DEF NoFuture, Published, PeersHeard, Contexts, Analysis
  <2>3. \A a : HasPlanned(a)' => HasPlanned(a) /\ findings' = findings
    BY <1>2, <1>4, <1>11 DEF HasPlanned
  <2>4. EvidenceAddressed' /\ LeadsCleared'
    BY <2>3, <1>1, <1>2, <1>3, <1>7 DEF EvidenceAddressed, LeadsCleared
  <2> QED BY <2>2, <2>4, <1>8, <1>9 DEF Follow
<1> QED BY <1>4, <1>10, <1>11

-----------------------------------------------------------------------------
(* The theorems about questions                                            *)

(* The two invariants are kept together.                                    *)
LEMMA FollowInv == Spec => [](Inv /\ Follow)
<1>1. Init => Follow
  <2> SUFFICES ASSUME Init PROVE Follow
    OBVIOUS
  <2>1. \A a \in Agents : session[a] = NewSession /\ Analysis(a) \in inbox
    BY DEF Init
  <2>2. NoFuture
    BY <2>1 DEF Init, NoFuture, NewSession, Analysis
  <2>3. Published /\ PeersHeard /\ EvidenceAddressed /\ LeadsCleared /\ LeadsAddressed /\ AskedIsSettled /\ Requested
    BY DEF Init, Published, PeersHeard, EvidenceAddressed, LeadsCleared, LeadsAddressed, LeadsOf, AskedIsSettled,
           Requested, HasPlanned, Analysis
  <2> QED BY <2>1, <2>2, <2>3 DEF Follow, Contexts
<1>2. Inv /\ Follow /\ [Next]_vars => Follow'
  <2> SUFFICES ASSUME Inv, Inv', Follow, [Next]_vars PROVE Follow'
    BY NextInv
  <2>1. CASE \E m \in inbox : Handle(m)
    BY <2>1, QuietHandlers, PublishFollow, ResponseFollow DEF Handle
  <2>2. CASE \E m \in calls : Expire(m)
    BY <2>2, ExpireFollow
  <2>3. CASE \E a \in Agents : Forget(a)
    BY <2>3, ForgetFollow
  <2>4. CASE Orchestrate
    BY <2>4, AnalysisDoneFollow, AskFollow, DeliverFollow, UpdateRoundFollow, CloseRoundFollow DEF Orchestrate
  <2>5. CASE UNCHANGED vars
    <3>1. /\ UNCHANGED <<orchestrator, cut>> /\ failed' = failed /\ forgot' = forgot /\ replies' = replies
          /\ calls' = calls /\ inbox' = inbox /\ session' = session
      BY <2>5 DEF vars, orchestrator, network, history
    <3>2. Contexts'
      BY <3>1 DEF Follow, Contexts
    <3> QED BY <3>1, <3>2, QuietStep DEF SamePlan
  <2> QED BY <2>1, <2>2, <2>3, <2>4, <2>5 DEF Next
<1> QED BY <1>1, <1>2, InitInv, NextInv, PTL DEF Spec

(* What has been addressed when collaboration converged is settled.         *)
LEMMA ConvergedSettled ==
  ASSUME Inv, Follow, phase = "converged", NEW a, NEW c, Addressed(a, c)
  PROVE  \A e \in Reach[c] : Settled(a, e)
<1>1. /\ \A x \in asked : Answered(x[1], x[2]) \/ Lost(x[1])
      /\ Planned = asked
  BY DEF Follow, AskedIsSettled, Planned
<1> SUFFICES ASSUME NEW e \in Reach[c], NEW t \in Probes[e] \ {a} PROVE Answered(t, e) \/ Lost(t) \/ Known(t, e)
  BY DEF Settled, Answered, Lost, Known
<1>2. <<t, e>> \in asked \/ Known(t, e)
  BY <1>1 DEF Addressed
<1> QED BY <1>1, <1>2

(* More than one participant: everybody has a peer.                         *)
LEMMA HasPeers ==
  ASSUME Inv, Cardinality(Participants) > 1, NEW a \in Participants
  PROVE  Others(a) # {}
<1>1. Cardinality({a}) = 1
  BY FS_Singleton
<1>2. Participants # {a}
  BY <1>1
<1> QED BY <1>2 DEF Others

(* "Stops when nothing changed and nobody asked anything": a round          *)
(* converges only when all that a faultless agent would ask about its own   *)
(* evidence is answered, known, or lost by the agent to ask.                *)
THEOREM EvidenceIsFollowed == Spec => []EvidenceFollowed
<1>1. Inv /\ Follow => EvidenceFollowed
  <2> SUFFICES ASSUME Inv, Follow, phase = "converged", Cardinality(Participants) > 1,
                      NEW a \in Participants, Faultless(a), NEW c \in findings[a].rows
               PROVE  \A e \in Reach[c] : Settled(a, e)
    BY DEF EvidenceFollowed, NothingLeftToAsk
  <2>1. Others(a) # {} /\ HasPlanned(a)
    BY HasPeers DEF Follow, Requested, HasPlanned
  <2>2. Addressed(a, c)
    BY <2>1 DEF Follow, EvidenceAddressed
  <2> QED BY <2>2, ConvergedSettled
<1> QED BY <1>1, FollowInv, PTL

(* "Its leads seed the next round's questions": nothing is left open about  *)
(* a lead a faultless agent was handed, unless the budget cut a question.   *)
THEOREM LeadsAreFollowed == Spec => []LeadsFollowed
<1>1. Inv /\ Follow => LeadsFollowed
  <2> SUFFICES ASSUME Inv, Follow, phase = "converged", Cardinality(Participants) > 1, ~cut,
                      NEW a \in Participants, Faultless(a), NEW c \in findings[a].rows \cup LeadsOf(a)
               PROVE  \A e \in Reach[c] : Settled(a, e)
    BY DEF LeadsFollowed, NothingLeftToAsk
  <2>1. Others(a) # {} /\ HasPlanned(a)
    BY HasPeers DEF Follow, Requested, HasPlanned
  <2>2. calls = {} /\ session[a].leads = {}
    BY <2>1 DEF Inv, Phases, Final, Follow, LeadsCleared
  <2>3. Addressed(a, c)
    BY <2>1, <2>2 DEF Follow, EvidenceAddressed, LeadsAddressed
  <2> QED BY <2>3, ConvergedSettled
<1> QED BY <1>1, FollowInv, PTL
=============================================================================
