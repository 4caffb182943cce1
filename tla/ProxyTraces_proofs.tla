------------------------- MODULE ProxyTraces_proofs -------------------------
(***************************************************************************)
(* Proofs about ProxyTraces, for any calls, texts, reviewers and callers,  *)
(* and any number of failures, crashes and retries.                        *)
(*                                                                         *)
(* None of the properties is inductive.  Each follows from what a call has *)
(* done when it stands at a given place of its analysis: Began (its run    *)
(* and its judgement), EventStands and CallStands (its alerts and its      *)
(* trace), and from what the rows of the session say of each other (Owned, *)
(* Told, Escalation, Counts).                                              *)
(***************************************************************************)
EXTENDS ProxyTraces, OperatorLemmas, FiniteSetTheorems

Decisions == {None, "alert", "allow", "review"}
Rows      == [row : {"none", "orphan", "session"}, error : BOOLEAN, decision : Decisions,
              pipeline : {None, "pending", "processing", "completed"}]
Runs      == [decision : Decisions, risk : Levels]
Segments  == [call : Calls, assessment : Assessments, alert : Nat]
Alerts    == [event : Calls \cup {NoCall}, call : Calls \cup {NoCall},
              stage : {"rules", "pipeline", "event", "session_risk"}]

Stages == {"none", "rule", "review", "completed", "failed_rule", "failed_review"}
Events == [stage : Stages, retries : Nat]

EventPlaces == {"idle", "rule", "rule_commit", "rule_project", "rule_done", "review", "assess",
                "update", "project", "review_done"}
CallPlaces  == {"idle", "rules", "assess", "record", "llm", "done", "gone"}
Tasks == [at : EventPlaces \cup CallPlaces, llm : LlmResults, previous : Nat]

Typed ==
  /\ way \in Ways /\ input \in Inputs
  /\ trace \in [Calls -> Rows]
  /\ run \in [Calls -> Runs]
  /\ session \in [allow : Int, alerts : Int, max_risk : Severities]
  /\ segments \in Seq(Segments)
  /\ latest \in 0 .. Len(segments)
  /\ alerts \in Seq(Alerts)
  /\ event \in [Calls -> Events]
  /\ task \in [Calls -> Tasks]
  /\ \A c \in Calls : task[c].previous <= Len(segments)

\* Where a call has no run yet, and where its text has not been judged.  Behind
\* the event worker both outlive the attempt that made them.
Unrun(c) ==
  \/ way = "event" /\ event[c].stage = "none"
  \/ way = "gateway" /\ task[c].at \in {"idle", "rules", "llm"}
  \/ way = "engine" /\ task[c].at \notin {"done", "gone"}

Unjudged(c) ==
  \/ way = "event" /\ task[c].at = "assess"
  \/ way = "gateway" /\ task[c].at \in {"idle", "rules", "llm", "assess"}
  \/ way = "engine" /\ task[c].at \in {"idle", "rules", "assess", "record"}

Began(c) ==
  /\ Unrun(c) => run[c] = NoRun
  /\ Unjudged(c) => ~Judged(c)
  /\ task[c].at \in {"assess", "record"} => HasText(c)
  /\ task[c].at = "record" => way = "engine"
  /\ way # "event" => event[c].stage = "none" /\ task[c].at \in CallPlaces
  /\ way = "event" =>
       /\ task[c].at \in EventPlaces
       /\ trace[c].decision = run[c].decision
       /\ event[c].stage \notin {"rule", "review"} => task[c].at = "idle"

WasJudged(c) ==
  HasText(c) => /\ trace[c].row = "session"
                /\ \E i \in DOMAIN segments : segments[i].assessment \in Assess(input[c].text)

\* The trace and the alerts of an event are as ProjectionComplete wants them.
Shown(c) ==
  /\ trace[c].row # "none" /\ trace[c].pipeline = "completed"
  /\ trace[c].decision = "alert" => EventAlerted(c)
  /\ \A i \in DOMAIN alerts : alerts[i].event = c => alerts[i].call = c

\* What the event worker has done where the event's task stands.
EventStands(c) ==
  way = "event" =>
    /\ task[c].at \in {"rule_commit", "rule_project"} /\ input[c].rule # None => EventAlerted(c)
    /\ task[c].at = "rule_done" /\ ~ForReviewer(c) => Shown(c)
    /\ task[c].at = "assess" => trace[c].row # "none"
    /\ task[c].at \in {"assess", "update", "project", "review_done"} =>
         task[c].llm \in LlmOutcomes(c)
    /\ task[c].at \in {"update", "project", "review_done"} => WasJudged(c)
    /\ task[c].at = "project" /\ Verdict(c, task[c].llm).alert => EventAlerted(c)
    /\ task[c].at = "review_done" => Shown(c)
    /\ event[c].stage = "completed" => Shown(c) /\ WasJudged(c)

\* What the other callers have done where the call stands: without an event, a
\* rule hit has the first alert of its call to itself until the verdict.
CallStands(c) ==
  /\ way = "gateway" /\ task[c].at \in {"idle", "rules", "llm"} => RiskAlertsOf(c) = {}
  /\ way = "engine" /\ task[c].at \in {"idle", "rules"} => AlertsOf(c) = {}
  /\ way = "engine" /\ task[c].at \in {"assess", "record", "llm"} /\ input[c].rule # None =>
       \E j \in AlertsOf(c) : alerts[j].stage = "rules" /\ \A i \in AlertsOf(c) : j <= i

\* Whose the segments are.
Owned ==
  /\ \A i \in DOMAIN segments :
       /\ segments[i].assessment \in Assess(input[segments[i].call].text)
       /\ way = "event" => trace[segments[i].call].row = "session"
       /\ segments[i].alert <= Len(alerts)
  /\ \A i, j \in DOMAIN segments : segments[i].call = segments[j].call => i = j

\* Which alerts tell a segment's risk.
Told ==
  /\ SessionAlertKept
  /\ \A i \in Alerted : alerts[segments[i].alert].call \in Calls
  /\ \A j \in DOMAIN alerts :
       alerts[j].stage = "session_risk" => \E i \in Alerted : segments[i].alert = j

Escalation == EscalationAlerted /\ (way # "engine" => latest = Len(segments))

Counts == CountersMatch /\ \A d \in {"allow", "alert"} : IsFiniteSet(RunsWith(d))

AllBegan == \A c \in Calls : Began(c)
AllStand == \A c \in Calls : EventStands(c) /\ CallStands(c)

IInv == Typed /\ AllBegan /\ AllStand /\ Owned /\ Told /\ Escalation /\ Counts

-----------------------------------------------------------------------------
(* What the calls are made of. *)

LEMMA InputOf ==
  ASSUME Typed, NEW c \in Calls
  PROVE  /\ input[c].rule \in Levels /\ input[c].ask \in BOOLEAN
         /\ HasText(c) => input[c].text \in Texts
         /\ input[c].rule # None => input[c].ask
BY TracesAssumption DEF Typed, HasText

LEMMA Assessed ==
  ASSUME NEW text \in Texts
  PROVE  Assess(text) \subseteq Assessments
<1>1. text.purpose \in Purposes
  BY DEF Texts
<1>2. LocalSeverity(text.purpose) \in Severities
  BY <1>1 DEF LocalSeverity, Purposes, Severities
<1>. QED BY <1>2, TracesAssumption DEF Assess, Assessments, Assessment, Severities

LEMMA SomeAssessment ==
  ASSUME NEW a \in Assessments
  PROVE  a # NoAssessment /\ a.severity \in Severities /\ a.severity # None
BY DEF Assessments, NoAssessment, Assessment, Severities, None

\* The same assessment again is no escalation; another is one exactly when it
\* raises the risk.
LEMMA EscalationRaises ==
  ASSUME NEW a \in Assessments, NEW p \in Assessments \cup {NoAssessment}
  PROVE  /\ Escalates(a, p) => a # p
         /\ Escalates(a, p) <=> Raises(a, p)
<1>1. /\ a.severity \in Severities /\ p.severity \in Levels
      /\ p = NoAssessment => p.severity = None
  BY SomeAssessment DEF Assessments, NoAssessment, Assessment, Levels
<1>2. SEVERITY_ORDER[a.severity] \in Nat /\ SEVERITY_ORDER[p.severity] \in Nat
  BY <1>1, OrderValues DEF Levels, Severities, None
<1>3. AtLeast(a.severity, "high") <=> a.severity \in {"high", "critical"}
  BY <1>1, OrderValues DEF AtLeast, Severities
<1>4. p = NoAssessment => SEVERITY_ORDER[a.severity] > SEVERITY_ORDER[p.severity]
  BY <1>1, OrderValues DEF Severities, None
<1>5. AtLeast(p.severity, a.severity) <=> ~(SEVERITY_ORDER[a.severity] > SEVERITY_ORDER[p.severity])
  BY <1>2 DEF AtLeast
<1>6. Escalates(a, p) => a # p
  BY <1>2, SomeAssessment DEF Escalates
<1>. QED BY <1>3, <1>4, <1>5, <1>6 DEF Escalates, Raises

\* The verdict of a call.
LEMMA VerdictOf ==
  ASSUME Typed, NEW c \in Calls, NEW llm \in LlmResults
  PROVE  /\ Verdict(c, llm) \in Verdicts
         /\ Verdict(c, llm).alert <=> Verdict(c, llm).final_decision = "alert"
         /\ input[c].rule # None => Verdict(c, llm).alert
         /\ input[c].rule = None => (Verdict(c, llm).alert <=> Confirmed(llm))
         /\ Verdict(c, llm).llm_status = llm.status
<1>1. input[c].rule \in Levels
  BY InputOf
<1>2. Verdict(c, llm) \in Verdicts
  BY <1>1, AggregateType DEF Verdict
<1>3. CASE input[c].rule # None
  BY <1>2, <1>3 DEF Verdict, aggregate_dual_channel, AggregateHit
<1>4. CASE input[c].rule = None
  <2>1. Verdict(c, llm) = AggregateMiss(llm)
    BY <1>4 DEF Verdict, aggregate_dual_channel
  <2>2. /\ AggregateMiss(llm).alert <=> Confirmed(llm)
        /\ AggregateMiss(llm).final_decision = "alert" <=> Confirmed(llm)
        /\ AggregateMiss(llm).llm_status = llm.status
    <3>1. /\ AggregateMiss(llm).alert = Confirmed(llm)
          /\ AggregateMiss(llm).llm_status = llm.status
      BY DEF AggregateMiss
    <3>2. CASE Confirmed(llm)
      BY <3>1, <3>2 DEF AggregateMiss, Confirmed, Denied
    <3>3. CASE ~Confirmed(llm)
      BY <3>1, <3>3 DEF AggregateMiss
    <3>. QED BY <3>1, <3>2, <3>3
  <2>. QED BY <1>2, <1>4, <2>1, <2>2
<1>. QED BY <1>3, <1>4

LEMMA RiskType ==
  ASSUME NEW s \in Levels
  PROVE  RiskOrLow(s) \in Severities
BY DEF RiskOrLow, Levels, Severities, None

\* The higher of two risks is a risk, and no lower than either or than what
\* was below the first.
LEMMA HigherRisk ==
  ASSUME NEW s \in Severities, NEW t \in Severities
  PROVE  /\ max_severity(s, t) \in Severities
         /\ AtLeast(max_severity(s, t), t)
         /\ \A u \in Severities : AtLeast(s, u) => AtLeast(max_severity(s, t), u)
<1>1. SEVERITY_ORDER[s] \in Nat /\ SEVERITY_ORDER[t] \in Nat
  BY OrderValues DEF Severities
<1>2. \A u \in Severities : SEVERITY_ORDER[u] \in Nat
  BY OrderValues DEF Severities
<1>3. s # None /\ t # None
  BY DEF Severities, None
<1>4. max_severity(s, t) = IF SEVERITY_ORDER[s] >= SEVERITY_ORDER[t] THEN s ELSE t
  BY <1>3 DEF max_severity
<1>. QED BY <1>1, <1>2, <1>4 DEF AtLeast

LEMMA OutcomesTyped ==
  ASSUME NEW c \in Calls
  PROVE  LlmOutcomes(c) \subseteq LlmResults /\ \A llm \in LlmOutcomes(c) : llm.status # "pending"
BY DEF LlmOutcomes, LlmResults, LlmResult, LlmStatuses, Severities

\* The places of the two kinds of call.
LEMMA PlacesOf ==
  ASSUME AllBegan, NEW c \in Calls
  PROVE  /\ way = "event"   => task[c].at \in EventPlaces
         /\ way # "event" => task[c].at \in CallPlaces /\ event[c].stage = "none"
BY DEF AllBegan, Began

-----------------------------------------------------------------------------
(* What a step does to the store: one of six things, for one call. *)

\* The row of a trace is made, or an error noted on it.
Rowed(c) ==
  /\ UNCHANGED <<run, session, segments, latest, alerts>>
  /\ trace' \in [Calls -> Rows]
  /\ \A d \in Calls : d # c => trace'[d] = trace[d]
  /\ trace'[c].decision = trace[c].decision
  /\ \/ way # "event" /\ trace'[c].row = trace[c].row
     \/ trace[c].row = "none" /\ trace'[c].row = "orphan"
     \/ Unrun(c) /\ trace'[c].row = "session"

EventAlerting(c) ==
  /\ way = "event" /\ ~EventAlerted(c)
  /\ alerts' = Append(alerts, Alert(c, NoCall, "event"))
  /\ UNCHANGED <<trace, run, session, segments, latest>>

RuleAlerting(c) ==
  /\ way # "event" /\ AlertsOf(c) = {}
  /\ alerts' = Append(alerts, Alert(NoCall, c, "rules"))
  /\ trace' \in [Calls -> Rows] /\ \A d \in Calls : trace'[d].row = trace[d].row
  /\ UNCHANGED <<run, session, segments, latest>>

Saving(c) ==
  /\ way # "event" /\ task[c].at = "llm"
  /\ \E v \in Verdicts : SavePipeline(c, v)
  /\ UNCHANGED <<segments, latest>>

Projecting(c) ==
  /\ way = "event" /\ trace[c].row # "none" /\ ~Unrun(c)
  /\ \E llm \in LlmResults : Projected(c, llm)
  /\ UNCHANGED <<segments, latest>>

Recording(c) ==
  /\ Unjudged(c) /\ HasText(c)
  /\ way = "event" => trace[c].row # "orphan"
  /\ \E a \in Assess(input[c].text), p \in 0 .. Len(segments) :
       Recorded(c, a, p) /\ (way # "engine" => p = latest)
  /\ UNCHANGED <<trace, run>>

Stored(c) ==
  Rowed(c) \/ EventAlerting(c) \/ RuleAlerting(c) \/ Saving(c) \/ Projecting(c) \/ Recording(c)

LEMMA CreateRows ==
  ASSUME Typed, NEW c \in Calls, Create(c), Unrun(c),
         UNCHANGED <<run, session, segments, latest, alerts>>
  PROVE  Rowed(c)
<1>. DEFINE r == [trace[c] EXCEPT !.row = "session", !.pipeline = "pending"]
<1>1. trace[c] \in Rows /\ trace \in [Calls -> Rows]
  BY DEF Typed
<1>2. r \in Rows /\ r.row = "session" /\ r.decision = trace[c].decision
  BY <1>1 DEF Rows
<1>3. trace' = [trace EXCEPT ![c] = r]
  BY <1>1 DEF Create
<1>. HIDE DEF r
<1>. QED BY <1>1, <1>2, <1>3 DEF Rowed

LEMMA AlertEventStores ==
  ASSUME Typed, NEW c \in Calls, way = "event", AlertEvent(c),
         UNCHANGED <<trace, run, session, segments, latest>>
  PROVE  UNCHANGED store \/ EventAlerting(c)
BY DEF AlertEvent, EventAlerting, store

\* What the steps of the event worker store.
LEMMA EventStores ==
  ASSUME Typed, AllBegan, NEW c \in Calls,
         \/ Accept(c) \/ Take(c) \/ RuleAlert(c) \/ RuleCommit(c) \/ RuleProject(c) \/ RuleDone(c)
         \/ EventReview(c) \/ EventAssess(c) \/ EventUpdate(c) \/ EventProject(c) \/ EventDone(c)
         \/ Retry(c)
  PROVE  UNCHANGED <<way, input>> /\ (UNCHANGED store \/ Stored(c))
<1>1. Began(c)
  BY DEF AllBegan
<1>2. CASE Accept(c)
  <2>1. Unrun(c)
    BY <1>2 DEF Accept, Unrun
  <2>. QED BY <1>2, <2>1, CreateRows DEF Accept, Stored, store
<1>3. CASE Take(c) \/ RuleCommit(c) \/ RuleDone(c) \/ EventReview(c) \/ EventDone(c) \/ Retry(c)
  BY <1>3 DEF Take, RuleCommit, RuleDone, EventReview, EventDone, Retry, store
<1>4. CASE RuleAlert(c) \/ EventUpdate(c)
  <2>1. way = "event"
    BY <1>1, <1>4 DEF RuleAlert, EventUpdate, At, Began, CallPlaces
  <2>. QED BY <1>4, <2>1, AlertEventStores DEF RuleAlert, EventUpdate, Stored, store
<1>5. CASE RuleProject(c) \/ EventProject(c)
  <2>1. way = "event" /\ task[c].at # "idle" /\ UNCHANGED <<way, input>>
    BY <1>1, <1>5 DEF RuleProject, EventProject, At, Began, CallPlaces
  <2>2. ~Unrun(c)
    BY <1>1, <2>1 DEF Began, Unrun
  <2>3. CASE trace[c].row = "none"
    BY <1>5, <2>1, <2>3 DEF RuleProject, EventProject, store
  <2>4. CASE trace[c].row # "none"
    <3>1. LlmResult(IF ForReviewer(c) THEN "pending" ELSE "not_needed", None, None) \in LlmResults
      BY DEF LlmResults, LlmStatuses
    <3>2. task[c].llm \in LlmResults
      BY DEF Typed, Tasks
    <3>. QED BY <1>5, <2>1, <2>2, <2>4, <3>1, <3>2 DEF RuleProject, EventProject, Projecting, Stored
  <2>. QED BY <2>3, <2>4
<1>6. CASE EventAssess(c)
  <2>1. way = "event" /\ task[c].at = "assess" /\ UNCHANGED <<way, input>>
    BY <1>6 DEF EventAssess, At
  <2>2. Unjudged(c) /\ HasText(c)
    BY <1>1, <2>1 DEF Began, Unjudged
  <2>3. CASE trace[c].row = "orphan"
    BY <1>6, <2>1, <2>3 DEF EventAssess, store
  <2>4. CASE trace[c].row # "orphan"
    BY <1>6, <2>1, <2>2, <2>4 DEF EventAssess, Recording, Stored, Typed
  <2>. QED BY <2>3, <2>4
<1>. QED BY <1>2, <1>3, <1>4, <1>5, <1>6

\* What the steps of the other callers store.
LEMMA CallStores ==
  ASSUME Typed, AllBegan, NEW c \in Calls,
         \/ Respond(c) \/ Begin(c) \/ Immediate(c) \/ Save(c) \/ Unreviewed(c) \/ ReadPrevious(c)
         \/ EngineRecord(c) \/ GatewayRecord(c) \/ Fail(c)
  PROVE  UNCHANGED <<way, input>> /\ (UNCHANGED store \/ Stored(c))
<1>1. Began(c)
  BY DEF AllBegan
<1>2. CASE Respond(c)
  <2>. DEFINE r == [trace[c] EXCEPT !.row = "orphan", !.pipeline = "completed"]
  <2>1. trace[c] \in Rows /\ trace \in [Calls -> Rows]
    BY DEF Typed
  <2>2. r \in Rows /\ r.row = "orphan" /\ r.decision = trace[c].decision
    BY <2>1 DEF Rows
  <2>3. trace' = [trace EXCEPT ![c] = r]
    BY <1>2, <2>1 DEF Respond
  <2>. HIDE DEF r
  <2>. QED BY <1>2, <2>1, <2>2, <2>3 DEF Respond, Rowed, Stored
<1>3. CASE Begin(c)
  <2>1. Unrun(c)
    BY <1>3, TracesAssumption DEF Begin, At, Unrun, Typed
  <2>. QED BY <1>3, <2>1, CreateRows DEF Begin, Stored, store
<1>4. CASE Immediate(c)
  <2>1. way # "event" /\ UNCHANGED <<way, input>>
    BY <1>1, <1>4 DEF Immediate, At, Began, EventPlaces
  <2>2. CASE UNCHANGED <<alerts, trace>>
    BY <1>4, <2>1, <2>2 DEF Immediate, store
  <2>3. CASE ImmediateAlert(c) /\ AlertsOf(c) = {}
    <3>1. trace' = [trace EXCEPT ![c].pipeline = "processing", ![c].decision = "alert"]
      BY <2>3 DEF ImmediateAlert
    <3>2. trace' \in [Calls -> Rows] /\ \A d \in Calls : trace'[d].row = trace[d].row
      <4>. DEFINE r == [trace[c] EXCEPT !.pipeline = "processing", !.decision = "alert"]
      <4>1. trace[c] \in Rows /\ trace \in [Calls -> Rows]
        BY DEF Typed
      <4>2. r \in Rows /\ r.row = trace[c].row
        BY <4>1 DEF Rows, Decisions
      <4>3. trace' = [trace EXCEPT ![c] = r]
        BY <3>1, <4>1
      <4>. HIDE DEF r
      <4>. QED BY <4>1, <4>2, <4>3
    <3>. QED BY <1>4, <2>1, <2>3, <3>2 DEF Immediate, ImmediateAlert, RuleAlerting, Stored
  <2>. QED BY <1>4, <2>2, <2>3 DEF Immediate, ImmediateAlert
<1>5. CASE Save(c)
  <2>1. way # "event" /\ task[c].at = "llm" /\ UNCHANGED <<way, input, segments, latest>>
    BY <1>1, <1>5 DEF Save, At, Began, EventPlaces
  <2>2. PICK llm \in LlmOutcomes(c) : SavePipeline(c, Verdict(c, llm))
    BY <1>5 DEF Save
  <2>3. Verdict(c, llm) \in Verdicts
    BY <2>2, OutcomesTyped, VerdictOf
  <2>. QED BY <2>1, <2>2, <2>3 DEF Saving, Stored
<1>6. CASE Unreviewed(c) \/ ReadPrevious(c)
  BY <1>6 DEF Unreviewed, ReadPrevious, store
<1>7. CASE EngineRecord(c)
  <2>1. way = "engine" /\ task[c].at = "record" /\ UNCHANGED <<way, input>>
    BY <1>1, <1>7 DEF EngineRecord, At, Began
  <2>2. Unjudged(c) /\ HasText(c) /\ task[c].previous \in 0 .. Len(segments)
    BY <1>1, <2>1 DEF Began, Unjudged, Typed, Tasks
  <2>. QED BY <1>7, <2>1, <2>2 DEF EngineRecord, Recording, Stored
<1>8. CASE GatewayRecord(c)
  <2>1. way = "gateway" /\ task[c].at = "assess" /\ UNCHANGED <<way, input>>
    BY <1>8 DEF GatewayRecord, At
  <2>2. Unjudged(c) /\ HasText(c) /\ latest \in 0 .. Len(segments)
    BY <1>1, <2>1 DEF Began, Unjudged, Typed
  <2>. QED BY <1>8, <2>1, <2>2 DEF GatewayRecord, Recording, Stored
<1>9. CASE Fail(c)
  <2>1. way # "event" /\ UNCHANGED <<way, input, run, session, segments, latest, alerts>>
    BY <1>9 DEF Fail
  <2>2. UNCHANGED trace \/ NoteError(c)
    BY <1>9, Zenon DEF Fail
  <2>3. CASE NoteError(c)
    <3>. DEFINE r == [trace[c] EXCEPT !.error = TRUE]
    <3>1. trace[c] \in Rows /\ trace \in [Calls -> Rows]
      BY DEF Typed
    <3>2. r \in Rows /\ r.row = trace[c].row /\ r.decision = trace[c].decision
      BY <3>1 DEF Rows
    <3>3. trace' = [trace EXCEPT ![c] = r]
      BY <2>3, <3>1 DEF NoteError
    <3>. HIDE DEF r
    <3>. QED BY <2>1, <3>1, <3>2, <3>3 DEF Rowed, Stored
  <2>. QED BY <2>1, <2>2, <2>3 DEF store
<1>. QED BY <1>2, <1>3, <1>4, <1>5, <1>6, <1>7, <1>8, <1>9

LEMMA StepStores ==
  ASSUME Typed, AllBegan, [Next]_vars
  PROVE  UNCHANGED <<way, input>> /\ (UNCHANGED store \/ \E c \in Calls : Stored(c))
<1>1. CASE Crash \/ UNCHANGED vars
  BY <1>1 DEF Crash, vars, store
<1>2. CASE \E c \in Calls : Accept(c) \/ Begin(c) \/ Respond(c) \/ Step(c) \/ Retry(c) \/ Fail(c)
  BY <1>2, EventStores, CallStores DEF Step
<1>. QED BY <1>1, <1>2 DEF Next

-----------------------------------------------------------------------------
(* What the six things leave of each table. *)

LEMMA LeastOf ==
  ASSUME NEW S \in SUBSET Nat, S # {}
  PROVE  Min(S) \in S /\ \A i \in S : Min(S) <= i
<1>1. PICK m \in S : \A i \in S : ~(<<i, m>> \in OpToRel(<, Nat))
  <2>1. IsWellFoundedOn(OpToRel(<, Nat), Nat)
    BY NatLessThanWellFounded
  <2>. QED BY <2>1, WFMin, Zenon
<1>2. \A i \in S : ~(i < m)
  <2>1. ASSUME NEW i \in Nat, NEW k \in Nat, i < k PROVE <<i, k>> \in OpToRel(<, Nat)
    BY <2>1, Zenon DEF OpToRel
  <2>. QED BY <1>1, <2>1
<1>3. \A i \in S : m <= i
  BY <1>2
<1>. QED BY <1>3 DEF Min

\* One more alert, at the end.
OneMore(alert) ==
  /\ alert \in Alerts /\ alerts' \in Seq(Alerts)
  /\ Len(alerts') = Len(alerts) + 1
  /\ \A i \in DOMAIN alerts : alerts'[i] = alerts[i]
  /\ alerts'[Len(alerts) + 1] = alert

\* The tables' lengths and domains.
Sized ==
  /\ Len(alerts) \in Nat /\ Len(segments) \in Nat
  /\ DOMAIN alerts = 1 .. Len(alerts) /\ DOMAIN segments = 1 .. Len(segments)

LEMMA SizedTables == Typed => Sized
BY DEF Typed, Sized

LEMMA AlertAppended ==
  ASSUME Typed, NEW alert \in Alerts, alerts' = Append(alerts, alert)
  PROVE  OneMore(alert)
BY DEF Typed, OneMore

LEMMA AlertTypes ==
  ASSUME NEW c \in Calls
  PROVE  /\ Alert(c, NoCall, "event") \in Alerts
         /\ \A stage \in {"rules", "pipeline", "session_risk"} : Alert(NoCall, c, stage) \in Alerts
BY DEF Alert, Alerts

\* Alerts' that keep their number and what they are about.
SameAlerts ==
  /\ alerts' \in Seq(Alerts)
  /\ Len(alerts') = Len(alerts)
  /\ \A i \in DOMAIN alerts : alerts'[i].event = alerts[i].event

Rewritten(c) ==
  /\ SameAlerts
  /\ \E j \in AlertsOf(c) :
       /\ \A i \in AlertsOf(c) : j <= i
       /\ alerts'[j].stage = "pipeline" /\ alerts'[j].call = c
       /\ \A i \in DOMAIN alerts : i # j => alerts'[i] = alerts[i]

\* The two counts and the risk of the session, after Accounted.
LEMMA AccountedTyped ==
  ASSUME Typed, NEW c \in Calls, NEW m \in Int, NEW n \in Int, NEW risk \in Severities,
         Accounted(c, m, n, risk)
  PROVE  session' \in [allow : Int, alerts : Int, max_risk : Severities]
BY HigherRisk DEF Typed, Accounted

\* And after an alert of record_session_risk.
LEMMA RiskAlerted ==
  ASSUME NEW s \in [allow : Int, alerts : Int, max_risk : Severities], NEW m \in Severities,
         NEW t, t = [s EXCEPT !.alerts = @ + 1, !.max_risk = m]
  PROVE  t = [allow |-> s.allow, alerts |-> s.alerts + 1, max_risk |-> m]
OBVIOUS

LEMMA SavingGives ==
  ASSUME Typed, AllBegan, NEW c \in Calls, Saving(c)
  PROVE  /\ run[c] = NoRun /\ UNCHANGED <<segments, latest>>
         /\ trace' \in [Calls -> Rows] /\ \A d \in Calls : trace'[d].row = trace[d].row
         /\ session' \in [allow : Int, alerts : Int, max_risk : Severities]
         /\ \E r \in Runs :
              /\ run' = [run EXCEPT ![c] = r]
              /\ r.risk \in Severities /\ r.decision # None
              /\ Accounted(c, Count(r.decision, "allow"), Count(r.decision, "alert"), r.risk)
              /\ \/ r.decision # "alert" /\ UNCHANGED alerts
                 \/ /\ r.decision = "alert" /\ AlertsOf(c) = {}
                    /\ OneMore(Alert(NoCall, c, "pipeline"))
                 \/ r.decision = "alert" /\ Rewritten(c)
<1>1. Began(c) /\ way # "event" /\ task[c].at = "llm" /\ way \in {"gateway", "engine"}
  BY TracesAssumption DEF AllBegan, Saving, Typed
<1>2. run[c] = NoRun
  BY <1>1 DEF Began, Unrun
<1>3. PICK v \in Verdicts : SavePipeline(c, v)
  BY DEF Saving
<1>. DEFINE r == [decision |-> v.final_decision, risk |-> RiskOrLow(v.severity)]
            t == [trace[c] EXCEPT !.pipeline = "completed", !.decision = v.final_decision]
<1>4. v.final_decision \in Decisions \ {None} /\ v.severity \in Levels
  BY DEF Verdicts, Decisions, None
<1>5. r \in Runs /\ r.risk \in Severities /\ r.decision = v.final_decision /\ r.decision # None
  BY <1>4, RiskType DEF Runs, Levels
<1>6. run' = [run EXCEPT ![c] = r]
  BY <1>3 DEF SavePipeline
<1>7. Accounted(c, Count(r.decision, "allow"), Count(r.decision, "alert"), r.risk)
  BY <1>3 DEF SavePipeline
<1>8. session' \in [allow : Int, alerts : Int, max_risk : Severities]
  <2>1. Count(r.decision, "allow") \in Int /\ Count(r.decision, "alert") \in Int
    BY DEF Count
  <2>. HIDE DEF r
  <2>. QED BY <1>5, <1>7, <2>1, AccountedTyped
<1>9. trace' \in [Calls -> Rows] /\ \A d \in Calls : trace'[d].row = trace[d].row
  <2>1. trace[c] \in Rows /\ trace \in [Calls -> Rows]
    BY DEF Typed
  <2>2. t \in Rows /\ t.row = trace[c].row
    BY <1>4, <2>1 DEF Rows
  <2>3. trace' = [trace EXCEPT ![c] = t]
    BY <1>3, <2>1 DEF SavePipeline
  <2>. HIDE DEF t
  <2>. QED BY <2>1, <2>2, <2>3
<1>10. \/ r.decision # "alert" /\ UNCHANGED alerts
       \/ r.decision = "alert" /\ AlertsOf(c) = {} /\ OneMore(Alert(NoCall, c, "pipeline"))
       \/ r.decision = "alert" /\ Rewritten(c)
  <2>1. CASE r.decision # "alert"
    BY <1>3, <2>1 DEF SavePipeline
  <2>2. CASE r.decision = "alert" /\ AlertsOf(c) = {}
    <3>1. alerts' = Append(alerts, Alert(NoCall, c, "pipeline"))
      BY <1>3, <2>2 DEF SavePipeline
    <3>. QED BY <2>2, <3>1, AlertTypes, AlertAppended
  <2>3. CASE r.decision = "alert" /\ AlertsOf(c) # {}
    <3>. DEFINE j == Min(AlertsOf(c))
    <3>1. alerts' = [alerts EXCEPT ![j].stage = "pipeline"]
      BY <1>3, <2>3 DEF SavePipeline
    <3>2. alerts \in Seq(Alerts) /\ DOMAIN alerts = 1 .. Len(alerts) /\ AlertsOf(c) \subseteq Nat
      BY DEF Typed, AlertsOf
    <3>3. j \in AlertsOf(c) /\ \A i \in AlertsOf(c) : j <= i
      BY <2>3, <3>2, LeastOf
    <3>. HIDE DEF j
    <3>. DEFINE x == [alerts[j] EXCEPT !.stage = "pipeline"]
    <3>4. j \in DOMAIN alerts /\ alerts[j] \in Alerts /\ alerts[j].call = c
      BY <3>2, <3>3 DEF AlertsOf
    <3>5. x \in Alerts /\ x.stage = "pipeline" /\ x.call = c /\ x.event = alerts[j].event
      BY <3>4 DEF Alerts
    <3>6. alerts' = [alerts EXCEPT ![j] = x]
      BY <3>1, <3>4
    <3>. HIDE DEF x
    <3>7. /\ alerts' \in Seq(Alerts) /\ Len(alerts') = Len(alerts)
          /\ alerts'[j] = x /\ \A i \in DOMAIN alerts : i # j => alerts'[i] = alerts[i]
      BY <3>2, <3>4, <3>5, <3>6
    <3>. QED BY <2>3, <3>3, <3>4, <3>5, <3>7 DEF Rewritten, SameAlerts
  <2>. QED BY <2>1, <2>2, <2>3
<1>. QED BY <1>2, <1>5, <1>6, <1>7, <1>8, <1>9, <1>10 DEF Saving

LEMMA ProjectingGives ==
  ASSUME Typed, NEW c \in Calls, Projecting(c)
  PROVE  /\ way = "event" /\ UNCHANGED <<segments, latest>>
         /\ trace' \in [Calls -> Rows] /\ \A d \in Calls : trace'[d].row = trace[d].row
         /\ trace[c].row # "none" /\ ~Unrun(c)
         /\ session' \in [allow : Int, alerts : Int, max_risk : Severities]
         /\ SameAlerts
         /\ \A i \in DOMAIN alerts :
              /\ alerts'[i].stage = alerts[i].stage
              /\ alerts[i].event # c => alerts'[i] = alerts[i]
              /\ alerts[i].event = c => alerts'[i].call = c
         /\ \E r \in Runs :
              /\ run' = [run EXCEPT ![c] = r]
              /\ r.risk \in Severities /\ trace'[c].decision = r.decision
              /\ \A d \in Calls : d # c => trace'[d] = trace[d]
              /\ Accounted(c, ProjectedCount(c, r.decision, "allow"),
                           ProjectedCount(c, r.decision, "alert"), r.risk)
<1>1. PICK llm \in LlmResults : Projected(c, llm)
  BY DEF Projecting
<1>. DEFINE v == Verdict(c, llm)
            r == [decision |-> v.final_decision, risk |-> RiskOrLow(v.severity)]
            status == IF v.llm_status = "pending" THEN "processing" ELSE "completed"
            t == [trace[c] EXCEPT !.decision = v.final_decision, !.pipeline = status]
<1>2. v \in Verdicts
  BY VerdictOf
<1>3. v.final_decision \in Decisions \ {None} /\ v.severity \in Levels
  BY <1>2 DEF Verdicts, Decisions, None
<1>4. /\ run' = [run EXCEPT ![c] = r]
      /\ trace' = [trace EXCEPT ![c].decision = v.final_decision, ![c].pipeline = status]
      /\ Accounted(c, ProjectedCount(c, r.decision, "allow"),
                   ProjectedCount(c, r.decision, "alert"), r.risk)
      /\ alerts' = Linked(c)
  BY <1>1 DEF Projected
<1>. HIDE DEF v
<1>5. r \in Runs /\ r.risk \in Severities /\ r.decision = v.final_decision
  BY <1>3, RiskType DEF Runs, Levels
<1>6. /\ trace' \in [Calls -> Rows] /\ \A d \in Calls : trace'[d].row = trace[d].row
      /\ trace'[c].decision = r.decision /\ \A d \in Calls : d # c => trace'[d] = trace[d]
  <2>1. trace[c] \in Rows /\ trace \in [Calls -> Rows]
    BY DEF Typed
  <2>2. t \in Rows /\ t.row = trace[c].row /\ t.decision = v.final_decision
    BY <1>3, <2>1 DEF Rows
  <2>3. trace' = [trace EXCEPT ![c] = t]
    BY <1>4, <2>1
  <2>. HIDE DEF t
  <2>. QED BY <2>1, <2>2, <2>3
<1>7. session' \in [allow : Int, alerts : Int, max_risk : Severities]
  <2>1. \A d \in {"allow", "alert"} : ProjectedCount(c, r.decision, d) \in Int
    BY DEF ProjectedCount, Count
  <2>. HIDE DEF r
  <2>. QED BY <1>4, <1>5, <2>1, AccountedTyped
<1>8. /\ SameAlerts
      /\ \A i \in DOMAIN alerts :
           /\ alerts'[i].stage = alerts[i].stage
           /\ alerts[i].event # c => alerts'[i] = alerts[i]
           /\ alerts[i].event = c => alerts'[i].call = c
  <2>1. alerts \in Seq(Alerts) /\ DOMAIN alerts = 1 .. Len(alerts) /\ Len(alerts) \in Nat
    BY DEF Typed
  <2>2. \A i \in DOMAIN alerts : alerts[i] \in Alerts
    BY <2>1
  <2>3. alerts' = [i \in 1 .. Len(alerts) |->
                     IF alerts[i].event = c THEN [alerts[i] EXCEPT !.call = c] ELSE alerts[i]]
    BY <1>4, <2>1 DEF Linked
  <2>4. ASSUME NEW i \in 1 .. Len(alerts)
        PROVE  /\ alerts'[i] \in Alerts
               /\ alerts'[i].stage = alerts[i].stage /\ alerts'[i].event = alerts[i].event
               /\ alerts[i].event # c => alerts'[i] = alerts[i]
               /\ alerts[i].event = c => alerts'[i].call = c
    BY <2>1, <2>2, <2>3 DEF Alerts
  <2>5. alerts' \in [1 .. Len(alerts) -> Alerts]
    BY <2>3, <2>4
  <2>6. alerts' \in Seq(Alerts) /\ Len(alerts') = Len(alerts)
    BY <2>1, <2>5
  <2>. QED BY <2>1, <2>4, <2>6 DEF SameAlerts
<1>. HIDE DEF r
<1>. QED BY <1>4, <1>5, <1>6, <1>7, <1>8 DEF Projecting

\* The segment that was last is prolonged and moved to the call, or a new one
\* follows it, with an alert if the risk has been raised.
Preceding(p) == IF p = 0 THEN NoAssessment ELSE segments[p].assessment

Prolonged(c, a, p) ==
  /\ p \in DOMAIN segments /\ Preceding(p) = a
  /\ segments' \in Seq(Segments) /\ Len(segments') = Len(segments)
  /\ \A i \in DOMAIN segments :
       /\ segments'[i].assessment = segments[i].assessment
       /\ segments'[i].alert = segments[i].alert
       /\ i # p => segments'[i] = segments[i]
  /\ segments'[p].call = c /\ latest' = p
  /\ UNCHANGED <<alerts, session>>

Followed(c, a, p) ==
  LET i == Len(segments) + 1 IN
  /\ Preceding(p) # a
  /\ segments' \in Seq(Segments) /\ Len(segments') = i
  /\ \A j \in DOMAIN segments : segments'[j] = segments[j]
  /\ segments'[i].call = c /\ segments'[i].assessment = a
  /\ segments'[i].alert = IF Raises(a, Preceding(p)) THEN Len(alerts) + 1 ELSE 0
  /\ latest' = i
  /\ IF Raises(a, Preceding(p))
     THEN /\ OneMore(Alert(NoCall, c, "session_risk"))
          /\ session' = [session EXCEPT !.alerts = @ + 1,
                           !.max_risk = max_severity(@, a.severity)]
     ELSE UNCHANGED <<alerts, session>>

LEMMA RecordingGives ==
  ASSUME Typed, NEW c \in Calls, Recording(c)
  PROVE  /\ UNCHANGED <<trace, run>> /\ Unjudged(c) /\ HasText(c)
         /\ way = "event" => trace[c].row # "orphan"
         /\ \E a \in Assess(input[c].text), p \in 0 .. Len(segments) :
              /\ a \in Assessments
              /\ way # "engine" => p = latest
              /\ Prolonged(c, a, p) \/ Followed(c, a, p)
<1>1. PICK a \in Assess(input[c].text), p \in 0 .. Len(segments) :
        Recorded(c, a, p) /\ (way # "engine" => p = latest)
  BY DEF Recording
<1>. DEFINE q == IF p = 0 THEN NoAssessment ELSE segments[p].assessment
            n == Len(alerts) + 1
<1>2. /\ segments \in Seq(Segments) /\ alerts \in Seq(Alerts)
      /\ Len(segments) \in Nat /\ Len(alerts) \in Nat
      /\ DOMAIN segments = 1 .. Len(segments) /\ DOMAIN alerts = 1 .. Len(alerts)
      /\ \A i \in DOMAIN segments : segments[i] \in Segments
  BY DEF Typed
<1>3. a \in Assessments
  BY InputOf, Assessed DEF Recording
<1>4. q \in Assessments \cup {NoAssessment} /\ q = Preceding(p)
  BY <1>2 DEF Segments, Preceding
<1>5. Escalates(a, q) <=> Raises(a, q)
  BY <1>3, <1>4, EscalationRaises
<1>6. CASE q = a
  <2>1. ~Escalates(a, q) /\ p # 0 /\ p \in DOMAIN segments
    BY <1>2, <1>3, <1>4, <1>6, EscalationRaises, SomeAssessment
  <2>. DEFINE x == [segments[p] EXCEPT !.call = c]
  <2>2. x \in Segments /\ x.assessment = segments[p].assessment /\ x.alert = segments[p].alert
        /\ x.call = c
    BY <1>2, <2>1 DEF Segments
  <2>3. /\ segments' = [segments EXCEPT ![p].call = c, ![p].alert = @]
        /\ latest' = p /\ UNCHANGED <<alerts, session>>
    BY <1>1, <1>6, <2>1 DEF Recorded
  <2>4. segments' = [segments EXCEPT ![p] = x]
    BY <1>2, <2>1, <2>3 DEF Segments
  <2>. HIDE DEF x
  <2>5. /\ segments' \in Seq(Segments) /\ Len(segments') = Len(segments)
        /\ segments'[p] = x /\ \A i \in DOMAIN segments : i # p => segments'[i] = segments[i]
    BY <1>2, <2>1, <2>2, <2>4
  <2>6. Prolonged(c, a, p)
    BY <1>4, <1>6, <2>1, <2>2, <2>3, <2>5 DEF Prolonged
  <2>. QED BY <1>1, <1>3, <2>6 DEF Recording
<1>7. CASE q # a
  <2>. DEFINE x == [call |-> c, assessment |-> a, alert |-> IF Escalates(a, q) THEN n ELSE 0]
  <2>1. segments' = Append(segments, x) /\ latest' = Len(segments) + 1
    BY <1>1, <1>7 DEF Recorded
  <2>2. x \in Segments
    BY <1>2, <1>3 DEF Segments
  <2>3. /\ segments' \in Seq(Segments) /\ Len(segments') = Len(segments) + 1
        /\ \A j \in DOMAIN segments : segments'[j] = segments[j]
        /\ segments'[Len(segments) + 1] = x
    <3>. HIDE DEF x
    <3>. QED BY <1>2, <2>1, <2>2
  <2>4. /\ Escalates(a, q) =>
             /\ alerts' = Append(alerts, Alert(NoCall, c, "session_risk"))
             /\ session' = [session EXCEPT !.alerts = @ + 1,
                              !.max_risk = max_severity(@, a.severity)]
        /\ ~Escalates(a, q) => UNCHANGED <<alerts, session>>
    BY <1>1 DEF Recorded
  <2>5. Followed(c, a, p)
    <3>1. Escalates(a, q) => OneMore(Alert(NoCall, c, "session_risk"))
      BY <2>4, AlertTypes, AlertAppended
    <3>. HIDE DEF q
    <3>. QED BY <1>4, <1>5, <1>7, <2>1, <2>3, <2>4, <3>1 DEF Followed
  <2>. QED BY <1>1, <1>3, <2>5 DEF Recording
<1>. QED BY <1>6, <1>7

\* What any of the six leaves of the alerts.
LEMMA AlertsAfter ==
  ASSUME Typed, AllBegan, NEW c \in Calls, Stored(c)
  PROVE  /\ alerts' \in Seq(Alerts) /\ Len(alerts') \in {Len(alerts), Len(alerts) + 1}
         /\ \A i \in DOMAIN alerts : alerts'[i].event = alerts[i].event
         /\ \A d \in Calls \ {c}, i \in DOMAIN alerts' :
              alerts'[i].call = d \/ (way = "event" /\ alerts'[i].event = d) =>
                i \in DOMAIN alerts /\ alerts'[i] = alerts[i]
         /\ way # "event" =>
              \A i \in DOMAIN alerts : alerts[i].call # c => alerts'[i] = alerts[i]
<1>1. Sized /\ alerts \in Seq(Alerts) /\ NoCall \notin Calls
  BY SizedTables, TracesAssumption DEF Typed
<1>2. ASSUME NEW alert \in Alerts, OneMore(alert), alert.event \in {c, NoCall},
             alert.call \in {c, NoCall}
      PROVE  /\ alerts' \in Seq(Alerts) /\ Len(alerts') \in {Len(alerts), Len(alerts) + 1}
             /\ \A i \in DOMAIN alerts : alerts'[i] = alerts[i]
             /\ \A i \in DOMAIN alerts' : i \in DOMAIN alerts
                  \/ (alerts'[i].event \in {c, NoCall} /\ alerts'[i].call \in {c, NoCall})
  <2>1. DOMAIN alerts' = 1 .. (Len(alerts) + 1)
    BY <1>1, <1>2 DEF OneMore
  <2>. QED BY <1>1, <1>2, <2>1 DEF OneMore, Sized
<1>3. CASE UNCHANGED alerts
  BY <1>1, <1>3
<1>4. CASE EventAlerting(c)
  BY <1>1, <1>2, <1>4, AlertTypes, AlertAppended DEF EventAlerting, Alert
<1>5. CASE RuleAlerting(c)
  BY <1>1, <1>2, <1>5, AlertTypes, AlertAppended DEF RuleAlerting, Alert
<1>6. CASE Saving(c)
  <2>1. way # "event"
    BY <1>6 DEF Saving
  <2>2. UNCHANGED alerts \/ OneMore(Alert(NoCall, c, "pipeline")) \/ Rewritten(c)
    BY <1>6, SavingGives
  <2>3. CASE OneMore(Alert(NoCall, c, "pipeline"))
    BY <1>1, <1>2, <2>3, AlertTypes DEF Alert
  <2>4. CASE Rewritten(c)
    <3>1. DOMAIN alerts' = DOMAIN alerts
      BY <1>1, <2>4 DEF Rewritten, SameAlerts, Sized
    <3>. QED BY <1>1, <2>1, <2>4, <3>1 DEF Rewritten, SameAlerts, AlertsOf
  <2>. QED BY <1>3, <2>2, <2>3, <2>4
<1>7. CASE Projecting(c)
  <2>1. DOMAIN alerts' = DOMAIN alerts
    BY <1>1, <1>7, ProjectingGives DEF SameAlerts, Sized
  <2>. QED BY <1>1, <1>7, <2>1, ProjectingGives DEF SameAlerts
<1>8. CASE Recording(c)
  <2>1. UNCHANGED alerts \/ OneMore(Alert(NoCall, c, "session_risk"))
    BY <1>8, RecordingGives DEF Prolonged, Followed
  <2>2. CASE OneMore(Alert(NoCall, c, "session_risk"))
    BY <1>1, <1>2, <2>2, AlertTypes DEF Alert
  <2>. QED BY <1>3, <2>1, <2>2
<1>. QED BY <1>3, <1>4, <1>5, <1>6, <1>7, <1>8 DEF Stored, Rowed

\* Of the segments.
LEMMA SegmentsAfter ==
  ASSUME Typed, AllBegan, NEW c \in Calls, Stored(c)
  PROVE  /\ segments' \in Seq(Segments) /\ Len(segments) <= Len(segments')
         /\ latest' \in 0 .. Len(segments')
         /\ \A i \in DOMAIN segments : segments'[i].assessment = segments[i].assessment
         /\ \A d \in Calls \ {c}, i \in DOMAIN segments' :
              segments'[i].call = d => i \in DOMAIN segments /\ segments'[i] = segments[i]
<1>1. Sized /\ segments \in Seq(Segments) /\ latest \in 0 .. Len(segments)
  BY SizedTables DEF Typed
<1>2. CASE UNCHANGED <<segments, latest>>
  BY <1>1, <1>2 DEF Sized
<1>3. CASE Recording(c)
  <2>1. PICK a \in Assess(input[c].text), p \in 0 .. Len(segments) :
          Prolonged(c, a, p) \/ Followed(c, a, p)
    BY <1>3, RecordingGives
  <2>2. CASE Prolonged(c, a, p)
    <3>1. DOMAIN segments' = DOMAIN segments
      BY <1>1, <2>2 DEF Prolonged, Sized
    <3>. QED BY <1>1, <2>2, <3>1 DEF Prolonged, Sized
  <2>3. CASE Followed(c, a, p)
    <3>1. DOMAIN segments' = 1 .. (Len(segments) + 1)
      BY <1>1, <2>3 DEF Followed
    <3>. QED BY <1>1, <2>3, <3>1 DEF Followed, Sized
  <2>. QED BY <2>1, <2>2, <2>3
<1>. QED BY <1>2, <1>3, SavingGives, ProjectingGives
     DEF Stored, Rowed, EventAlerting, RuleAlerting

\* Of the other rows.
LEMMA RowsAfter ==
  ASSUME Typed, AllBegan, NEW c \in Calls, Stored(c)
  PROVE  /\ trace' \in [Calls -> Rows] /\ run' \in [Calls -> Runs]
         /\ session' \in [allow : Int, alerts : Int, max_risk : Severities]
         /\ \A d \in Calls : /\ trace[d].row # "none" => trace'[d].row # "none"
                             /\ trace[d].row = "session" => trace'[d].row = "session"
         /\ \A d \in Calls \ {c} : /\ run'[d] = run[d] /\ trace'[d].row = trace[d].row
                                   /\ way = "event" => trace'[d] = trace[d]
<1>1. /\ trace \in [Calls -> Rows] /\ run \in [Calls -> Runs]
      /\ session \in [allow : Int, alerts : Int, max_risk : Severities]
  BY DEF Typed
<1>2. CASE Rowed(c)
  BY <1>1, <1>2 DEF Rowed
<1>3. CASE EventAlerting(c) \/ RuleAlerting(c)
  BY <1>1, <1>3 DEF EventAlerting, RuleAlerting
<1>4. CASE Saving(c)
  BY <1>1, <1>4, SavingGives DEF Saving
<1>5. CASE Projecting(c)
  BY <1>1, <1>5, ProjectingGives
<1>6. CASE Recording(c)
  <2>1. PICK a \in Assessments, p \in 0 .. Len(segments) : Prolonged(c, a, p) \/ Followed(c, a, p)
    BY <1>6, RecordingGives
  <2>2. session' \in [allow : Int, alerts : Int, max_risk : Severities]
    <3>. DEFINE m == max_severity(session.max_risk, a.severity)
    <3>1. m \in Severities
      BY <1>1, SomeAssessment, HigherRisk
    <3>2. UNCHANGED session \/ session' = [session EXCEPT !.alerts = @ + 1, !.max_risk = m]
      BY <2>1 DEF Prolonged, Followed
    <3>3. UNCHANGED session
          \/ session' = [allow |-> session.allow, alerts |-> session.alerts + 1, max_risk |-> m]
      BY <1>1, <3>1, <3>2, RiskAlerted
    <3>. HIDE DEF m
    <3>. QED BY <1>1, <3>1, <3>3
  <2>. QED BY <1>1, <1>6, <2>2 DEF Recording
<1>. QED BY <1>2, <1>3, <1>4, <1>5, <1>6 DEF Stored

\* What stays true of a call whoever writes.
LEMMA Lasting ==
  ASSUME Typed, AllBegan, NEW c \in Calls, Stored(c), UNCHANGED input, NEW d \in Calls
  PROVE  /\ EventAlerted(d) => EventAlerted(d)'
         /\ WasJudged(d) => WasJudged(d)'
<1>1. EventAlerted(d) => EventAlerted(d)'
  <2>1. DOMAIN alerts \subseteq DOMAIN alerts'
    BY AlertsAfter, SizedTables DEF Sized
  <2>. QED BY <2>1, AlertsAfter DEF EventAlerted
<1>2. WasJudged(d) => WasJudged(d)'
  <2>1. DOMAIN segments \subseteq DOMAIN segments'
    BY SegmentsAfter, SizedTables DEF Sized
  <2>. QED BY <2>1, SegmentsAfter, RowsAfter DEF WasJudged, HasText
<1>. QED BY <1>1, <1>2

\* What stays true of a call while another one writes.
LEMMA Undisturbed ==
  ASSUME Typed, AllBegan, NEW c \in Calls, Stored(c), UNCHANGED <<way, input>>,
         NEW d \in Calls \ {c}
  PROVE  /\ Judged(d)' => Judged(d)
         /\ way = "event" /\ Shown(d) => Shown(d)'
         /\ way # "event" => AlertsOf(d)' = AlertsOf(d)
                             /\ \A i \in AlertsOf(d) : alerts'[i] = alerts[i]
<1>1. DOMAIN alerts \subseteq DOMAIN alerts' /\ DOMAIN alerts' \subseteq Nat
  BY AlertsAfter, SizedTables DEF Sized
<1>2. Judged(d)' => Judged(d)
  BY SegmentsAfter DEF Judged
<1>3. way = "event" /\ Shown(d) => Shown(d)'
  BY AlertsAfter, RowsAfter, Lasting DEF Shown
<1>4. way # "event" => AlertsOf(d)' = AlertsOf(d)
                       /\ \A i \in AlertsOf(d) : alerts'[i] = alerts[i]
  BY <1>1, AlertsAfter DEF AlertsOf
<1>. QED BY <1>2, <1>3, <1>4

\* The step of one call leaves another's control where it stands.
LEMMA OthersStand ==
  ASSUME Typed, AllBegan, AllStand, NEW c \in Calls, UNCHANGED store \/ Stored(c),
         UNCHANGED <<way, input>>, NEW d \in Calls \ {c},
         task'[d] = task[d], event'[d] = event[d]
  PROVE  Began(d)' /\ EventStands(d)' /\ CallStands(d)'
<1>1. Began(d) /\ EventStands(d) /\ CallStands(d)
  BY DEF AllBegan, AllStand
<1>2. CASE UNCHANGED store
  <2>1. UNCHANGED <<way, input, trace, run, segments, alerts, task[d], event[d]>>
    BY <1>2 DEF store
  <2>. QED BY <1>1, <2>1 DEF Began, EventStands, CallStands, Unrun, Unjudged, Judged, Shown,
         WasJudged, EventAlerted, ForReviewer, HasText, Verdict, LlmOutcomes, RiskAlertsOf, AlertsOf
<1>3. CASE Stored(c)
  <2>1. /\ Unrun(d)' <=> Unrun(d)
        /\ Unjudged(d)' <=> Unjudged(d)
        /\ HasText(d)' <=> HasText(d)
        /\ ForReviewer(d)' <=> ForReviewer(d)
        /\ LlmOutcomes(d)' = LlmOutcomes(d)
        /\ Verdict(d, task[d].llm)' = Verdict(d, task[d].llm)
    BY DEF Unrun, Unjudged, HasText, ForReviewer, LlmOutcomes, Verdict
  <2>2. Began(d)'
    BY <1>1, <1>3, <2>1, Undisturbed, RowsAfter DEF Began
  <2>3. EventStands(d)'
    BY <1>1, <1>3, <2>1, Undisturbed, RowsAfter, Lasting DEF EventStands
  <2>4. CallStands(d)'
    BY <1>1, <1>3, <2>1, Undisturbed DEF CallStands, RiskAlertsOf
  <2>. QED BY <2>2, <2>3, <2>4
<1>. QED BY <1>2, <1>3

-----------------------------------------------------------------------------
(* What the rows of the session say of each other. *)

\* A call is judged once while its segment is its own, and no orphan is.
LEMMA JudgedOnce ==
  ASSUME IInv, NEW c \in Calls, Recording(c)
  PROVE  /\ ~Judged(c)
         /\ way = "event" => trace[c].row = "session"
<1>1. Began(c) /\ EventStands(c) /\ trace[c] \in Rows
  BY DEF IInv, AllBegan, AllStand, Typed
<1>2. Unjudged(c) /\ (way = "event" => trace[c].row # "orphan")
  BY DEF Recording
<1>. QED BY <1>1, <1>2 DEF Began, EventStands, Unjudged, Rows

LEMMA OwnedAfter ==
  ASSUME IInv, NEW c \in Calls, Stored(c), UNCHANGED <<way, input>>
  PROVE  Owned'
<1>1. Typed /\ AllBegan /\ Owned /\ Sized
  BY SizedTables DEF IInv
<1>2. \A i \in DOMAIN segments : segments[i] \in Segments
  BY DEF IInv, Typed
<1>3. Len(alerts) <= Len(alerts')
  BY <1>1, AlertsAfter DEF Sized
<1>4. CASE UNCHANGED segments
  BY <1>1, <1>2, <1>3, <1>4, RowsAfter DEF Owned, Sized, Segments
<1>5. CASE Recording(c)
  <2>1. PICK a \in Assess(input[c].text), p \in 0 .. Len(segments) :
          Prolonged(c, a, p) \/ Followed(c, a, p)
    BY <1>1, <1>5, RecordingGives
  <2>2. UNCHANGED trace
    BY <1>5 DEF Recording
  <2>3. \A i \in DOMAIN segments : segments[i].call # c
    BY <1>5, JudgedOnce DEF Judged
  <2>4. CASE Prolonged(c, a, p)
    <3>1. DOMAIN segments' = DOMAIN segments
      BY <1>1, <2>4 DEF Prolonged, Sized
    <3>2. /\ \A i \in DOMAIN segments : segments'[i].call = IF i = p THEN c ELSE segments[i].call
          /\ segments[p].assessment = a
      BY <1>1, <2>4 DEF Prolonged, Preceding, Sized
    <3>3. ASSUME NEW i \in DOMAIN segments'
          PROVE  /\ segments'[i].assessment \in Assess(input'[segments'[i].call].text)
                 /\ way' = "event" => trace'[segments'[i].call].row = "session"
                 /\ segments'[i].alert <= Len(alerts')
      <4>1. segments'[i].assessment = segments[i].assessment
            /\ segments'[i].alert = segments[i].alert
        BY <2>4, <3>1 DEF Prolonged
      <4>2. segments'[i].alert <= Len(alerts')
        BY <1>1, <1>2, <1>3, <3>1, <4>1 DEF Owned, Sized, Segments
      <4>3. CASE i = p
        BY <1>5, <2>1, <2>2, <3>1, <3>2, <4>1, <4>2, <4>3, JudgedOnce
      <4>4. CASE i # p
        BY <1>1, <2>2, <3>1, <3>2, <4>1, <4>2, <4>4 DEF Owned
      <4>. QED BY <4>3, <4>4
    <3>4. ASSUME NEW i \in DOMAIN segments', NEW j \in DOMAIN segments',
                 segments'[i].call = segments'[j].call
          PROVE  i = j
      BY <1>1, <2>3, <3>1, <3>2, <3>4 DEF Owned
    <3>. QED BY <3>3, <3>4 DEF Owned
  <2>5. CASE Followed(c, a, p)
    <3>1. DOMAIN segments' = 1 .. (Len(segments) + 1)
      BY <1>1, <2>5 DEF Followed, Sized
    <3>2. segments'[Len(segments) + 1].alert <= Len(alerts')
      BY <1>1, <2>5 DEF Followed, OneMore, Sized
    <3>3. ASSUME NEW i \in DOMAIN segments'
          PROVE  /\ segments'[i].assessment \in Assess(input'[segments'[i].call].text)
                 /\ way' = "event" => trace'[segments'[i].call].row = "session"
                 /\ segments'[i].alert <= Len(alerts')
      <4>1. CASE i \in DOMAIN segments
        BY <1>1, <1>2, <1>3, <2>2, <2>5, <4>1 DEF Owned, Followed, Sized, Segments
      <4>2. CASE i = Len(segments) + 1
        BY <1>5, <2>2, <2>5, <3>2, <4>2, JudgedOnce DEF Followed
      <4>. QED BY <1>1, <3>1, <4>1, <4>2 DEF Sized
    <3>4. ASSUME NEW i \in DOMAIN segments', NEW j \in DOMAIN segments',
                 segments'[i].call = segments'[j].call
          PROVE  i = j
      BY <1>1, <2>3, <2>5, <3>1, <3>4 DEF Owned, Followed, Sized
    <3>. QED BY <3>3, <3>4 DEF Owned
  <2>. QED BY <2>1, <2>4, <2>5
<1>. QED BY <1>1, <1>4, <1>5, SavingGives, ProjectingGives
     DEF Stored, Rowed, EventAlerting, RuleAlerting

\* A verdict that is saved does not rewrite the alert of a segment, but for an
\* LLM-only verdict of analyze_request.
LEMMA RewritesOther ==
  ASSUME IInv, NEW c \in Calls, Saving(c), Rewritten(c),
         NEW i \in Alerted, alerts'[segments[i].alert] # alerts[segments[i].alert]
  PROVE  /\ way = "engine" /\ input[c].rule = None
         /\ alerts'[segments[i].alert].call = c
<1>1. Sized /\ Owned /\ Told /\ CallStands(c) /\ segments[i] \in Segments /\ i \in DOMAIN segments
  BY SizedTables DEF IInv, AllStand, Typed, Alerted
<1>2. way \in {"gateway", "engine"} /\ task[c].at = "llm"
  BY TracesAssumption DEF IInv, Typed, Saving
<1>. DEFINE k == segments[i].alert
<1>3. k \in DOMAIN alerts
  BY <1>1 DEF Alerted, Owned, Sized, Segments
<1>4. PICK j \in AlertsOf(c) :
        /\ \A m \in AlertsOf(c) : j <= m
        /\ alerts'[j].call = c
        /\ \A m \in DOMAIN alerts : m # j => alerts'[m] = alerts[m]
  BY DEF Rewritten
<1>5. k = j /\ k \in AlertsOf(c) /\ alerts[k].call = c
  BY <1>3, <1>4 DEF AlertsOf
<1>6. \/ alerts[k].stage = "session_risk"
      \/ way = "engine" /\ input[c].rule = None
  BY <1>1, <1>5 DEF Told, SessionAlertKept
<1>7. CASE way = "gateway"
  BY <1>1, <1>2, <1>5, <1>6, <1>7 DEF CallStands, RiskAlertsOf
<1>8. CASE way = "engine" /\ input[c].rule # None
  <2>1. PICK n \in AlertsOf(c) : alerts[n].stage = "rules" /\ \A m \in AlertsOf(c) : n <= m
    BY <1>1, <1>2, <1>8 DEF CallStands
  <2>2. n = j
    BY <1>1, <1>4, <2>1 DEF AlertsOf, Sized
  <2>. QED BY <1>5, <1>6, <1>8, <2>1, <2>2
<1>. QED BY <1>2, <1>4, <1>5, <1>7, <1>8

LEMMA ToldAfter ==
  ASSUME IInv, NEW c \in Calls, Stored(c), UNCHANGED <<way, input>>
  PROVE  Told'
<1>1. Typed /\ AllBegan /\ Owned /\ Told /\ Sized /\ NoCall \notin Calls
  BY SizedTables, TracesAssumption DEF IInv
<1>2. ASSUME NEW i \in Alerted
      PROVE  /\ i \in DOMAIN segments /\ segments[i].alert \in DOMAIN alerts
             /\ alerts[segments[i].alert].event = NoCall
             /\ alerts[segments[i].alert].call \in Calls
             /\ \/ alerts[segments[i].alert].stage = "session_risk"
                \/ /\ way = "engine" /\ input[alerts[segments[i].alert].call].rule = None
                   /\ run[alerts[segments[i].alert].call].decision = "alert"
  <2>1. segments[i] \in Segments /\ i \in DOMAIN segments /\ segments[i].alert # 0
    BY <1>1 DEF Typed, Alerted
  <2>. QED BY <1>1, <2>1 DEF Owned, Told, SessionAlertKept, Sized, Segments
<1>3. DOMAIN alerts \subseteq DOMAIN alerts'
  BY <1>1, AlertsAfter DEF Sized
\* Any step that leaves the segments' alerts as they are.
<1>4. ASSUME /\ DOMAIN segments' = DOMAIN segments
             /\ \A i \in DOMAIN segments : segments'[i].alert = segments[i].alert,
             \A i \in Alerted :
               LET k == segments[i].alert IN
               /\ alerts'[k].call \in Calls
               /\ \/ alerts'[k].stage = "session_risk"
                  \/ /\ way = "engine" /\ input[alerts'[k].call].rule = None
                     /\ run'[alerts'[k].call].decision = "alert",
             \A j \in DOMAIN alerts' : alerts'[j].stage = "session_risk" =>
               j \in DOMAIN alerts /\ alerts[j].stage = "session_risk"
      PROVE  Told'
  <2>1. Alerted' = Alerted
    BY <1>4 DEF Alerted
  <2>2. ASSUME NEW i \in Alerted
        PROVE  /\ segments'[i].alert = segments[i].alert
               /\ alerts'[segments[i].alert].event = NoCall
    BY <1>1, <1>2, <1>4, AlertsAfter
  <2>3. SessionAlertKept'
    BY <1>1, <1>4, <2>1, <2>2 DEF Told, SessionAlertKept
  <2>. QED BY <1>1, <1>4, <2>1, <2>2, <2>3 DEF Told
<1>5. CASE Rowed(c)
  <2>1. UNCHANGED <<segments, alerts, run>>
    BY <1>5 DEF Rowed
  <2>. QED BY <1>2, <1>4, <2>1
<1>6. ASSUME NEW stage \in {"event", "rules", "pipeline"}, NEW alert \in Alerts,
             alert.stage = stage, OneMore(alert), UNCHANGED segments,
             \A d \in Calls : run[d].decision = "alert" => run'[d] = run[d]
      PROVE  Told'
  <2>1. DOMAIN alerts' = 1 .. (Len(alerts) + 1)
    BY <1>1, <1>6 DEF OneMore, Sized
  <2>2. \A j \in DOMAIN alerts' : alerts'[j].stage = "session_risk" =>
           j \in DOMAIN alerts /\ alerts[j].stage = "session_risk"
    BY <1>1, <1>6, <2>1 DEF OneMore, Sized
  <2>3. \A i \in Alerted : alerts'[segments[i].alert] = alerts[segments[i].alert]
    BY <1>2, <1>6 DEF OneMore
  <2>. QED BY <1>2, <1>4, <1>6, <2>2, <2>3
<1>7. CASE EventAlerting(c) \/ RuleAlerting(c)
  <2>1. UNCHANGED <<segments, run>>
    BY <1>7 DEF EventAlerting, RuleAlerting
  <2>2. \/ OneMore(Alert(c, NoCall, "event"))
        \/ OneMore(Alert(NoCall, c, "rules"))
    BY <1>1, <1>7, AlertTypes, AlertAppended DEF EventAlerting, RuleAlerting
  <2>. QED BY <1>6, <2>1, <2>2, AlertTypes DEF Alert
<1>8. CASE Saving(c)
  <2>1. PICK r \in Runs :
          /\ run' = [run EXCEPT ![c] = r]
          /\ \/ UNCHANGED alerts
             \/ OneMore(Alert(NoCall, c, "pipeline"))
             \/ r.decision = "alert" /\ Rewritten(c)
    BY <1>1, <1>8, SavingGives
  <2>2. run[c] = NoRun /\ UNCHANGED segments /\ run \in [Calls -> Runs]
    BY <1>1, <1>8, SavingGives DEF Typed
  <2>3. \A d \in Calls : run[d].decision = "alert" => run'[d] = run[d]
    BY <2>1, <2>2 DEF NoRun, None
  <2>4. CASE UNCHANGED alerts
    BY <1>2, <1>4, <2>2, <2>3, <2>4
  <2>5. CASE OneMore(Alert(NoCall, c, "pipeline"))
    BY <1>6, <2>2, <2>3, <2>5, AlertTypes DEF Alert
  <2>6. CASE r.decision = "alert" /\ Rewritten(c)
    <3>1. \A j \in DOMAIN alerts' : alerts'[j].stage = "session_risk" =>
            j \in DOMAIN alerts /\ alerts[j].stage = "session_risk"
      <4>1. DOMAIN alerts' = DOMAIN alerts
        BY <1>1, <2>6 DEF Rewritten, SameAlerts, Sized
      <4>. QED BY <2>6, <4>1 DEF Rewritten
    <3>2. ASSUME NEW i \in Alerted
          PROVE  LET k == segments[i].alert IN
                 /\ alerts'[k].call \in Calls
                 /\ \/ alerts'[k].stage = "session_risk"
                    \/ /\ way = "engine" /\ input[alerts'[k].call].rule = None
                       /\ run'[alerts'[k].call].decision = "alert"
      <4>1. CASE alerts'[segments[i].alert] = alerts[segments[i].alert]
        BY <1>2, <2>3, <4>1
      <4>2. CASE alerts'[segments[i].alert] # alerts[segments[i].alert]
        <5>1. way = "engine" /\ input[c].rule = None /\ alerts'[segments[i].alert].call = c
          BY <1>8, <2>6, <4>2, RewritesOther
        <5>. QED BY <2>1, <2>2, <2>6, <5>1
      <4>. QED BY <4>1, <4>2
    <3>. QED BY <1>4, <2>2, <3>1, <3>2
  <2>. QED BY <2>1, <2>4, <2>5, <2>6
<1>9. CASE Projecting(c)
  <2>1. way = "event" /\ UNCHANGED segments
    BY <1>9, <1>1, ProjectingGives
  <2>2. DOMAIN alerts' = DOMAIN alerts
    BY <1>1, <1>9, ProjectingGives DEF SameAlerts, Sized
  <2>3. \A i \in Alerted : alerts'[segments[i].alert] = alerts[segments[i].alert]
    BY <1>1, <1>2, <1>9, ProjectingGives
  <2>4. \A j \in DOMAIN alerts : alerts'[j].stage = alerts[j].stage
    BY <1>1, <1>9, ProjectingGives
  <2>. QED BY <1>2, <1>4, <2>1, <2>2, <2>3, <2>4
<1>10. CASE Recording(c)
  <2>1. PICK a \in Assess(input[c].text), p \in 0 .. Len(segments) :
          Prolonged(c, a, p) \/ Followed(c, a, p)
    BY <1>1, <1>10, RecordingGives
  <2>2. UNCHANGED run
    BY <1>10 DEF Recording
  <2>3. CASE Prolonged(c, a, p)
    <3>1. DOMAIN segments' = DOMAIN segments /\ UNCHANGED alerts
      BY <1>1, <2>3 DEF Prolonged, Sized
    <3>2. \A i \in DOMAIN segments : segments'[i].alert = segments[i].alert
      BY <2>3 DEF Prolonged
    <3>3. ASSUME NEW i \in Alerted
          PROVE  LET k == segments[i].alert IN
                 /\ alerts'[k].call \in Calls
                 /\ \/ alerts'[k].stage = "session_risk"
                    \/ /\ way = "engine" /\ input[alerts'[k].call].rule = None
                       /\ run'[alerts'[k].call].decision = "alert"
      BY <1>2, <2>2, <3>1
    <3>. QED BY <1>4, <3>1, <3>2, <3>3
  <2>4. CASE Followed(c, a, p)
    <3>. DEFINE n == Len(segments) + 1
                m == Len(alerts) + 1
    <3>1. DOMAIN segments' = 1 .. n /\ n \notin DOMAIN segments
      BY <1>1, <2>4 DEF Followed, Sized
    <3>2. CASE Raises(a, Preceding(p))
      <4>1. OneMore(Alert(NoCall, c, "session_risk")) /\ segments'[n].alert = m
        BY <2>4, <3>2 DEF Followed
      <4>2. DOMAIN alerts' = 1 .. m /\ m \notin DOMAIN alerts
        BY <1>1, <4>1 DEF OneMore, Sized
      <4>3. /\ alerts'[m].event = NoCall /\ alerts'[m].call = c
            /\ alerts'[m].stage = "session_risk"
            /\ \A i \in DOMAIN alerts : alerts'[i] = alerts[i]
        BY <4>1 DEF OneMore, Alert
      <4>4. Alerted' = Alerted \cup {n} /\ n \notin Alerted
        BY <1>1, <2>4, <3>1, <4>1 DEF Alerted, Followed, Sized
      <4>5. \A i \in Alerted : segments'[i].alert = segments[i].alert
        BY <1>2, <2>4 DEF Followed
      <4>6. ASSUME NEW i \in Alerted'
            PROVE  LET alert == alerts'[segments'[i].alert] IN
                   /\ alert.event = NoCall /\ alert.call \in Calls
                   /\ \/ alert.stage = "session_risk"
                      \/ way = "engine" /\ input[alert.call].rule = None
                         /\ run[alert.call].decision = "alert"
                   /\ \A j \in Alerted' : segments'[j].alert = segments'[i].alert => i = j
        <5>1. CASE i = n
          BY <1>2, <4>1, <4>2, <4>3, <4>4, <4>5, <5>1
        <5>2. CASE i \in Alerted
          BY <1>1, <1>2, <4>1, <4>2, <4>3, <4>4, <4>5, <5>2 DEF Told, SessionAlertKept
        <5>. QED BY <4>4, <5>1, <5>2
      <4>7. SessionAlertKept'
        BY <2>2, <4>6 DEF SessionAlertKept
      <4>8. ASSUME NEW j \in DOMAIN alerts', alerts'[j].stage = "session_risk"
            PROVE  \E i \in Alerted' : segments'[i].alert = j
        <5>1. CASE j = m
          BY <4>1, <4>4, <5>1
        <5>2. CASE j \in DOMAIN alerts
          BY <1>1, <4>3, <4>4, <4>5, <4>8, <5>2 DEF Told
        <5>. QED BY <1>1, <4>2, <5>1, <5>2 DEF Sized
      <4>. QED BY <4>6, <4>7, <4>8 DEF Told
    <3>3. CASE ~Raises(a, Preceding(p))
      <4>1. UNCHANGED alerts /\ segments'[n].alert = 0
        BY <2>4, <3>3 DEF Followed
      <4>2. Alerted' = Alerted
        BY <1>1, <2>4, <3>1, <4>1 DEF Alerted, Followed, Sized
      <4>3. \A i \in Alerted : segments'[i].alert = segments[i].alert
        BY <1>2, <2>4 DEF Followed
      <4>. QED BY <1>1, <2>2, <4>1, <4>2, <4>3 DEF Told, SessionAlertKept
    <3>. QED BY <3>2, <3>3
  <2>. QED BY <2>1, <2>3, <2>4
<1>. QED BY <1>5, <1>7, <1>8, <1>9, <1>10 DEF Stored

LEMMA EscalationAfter ==
  ASSUME IInv, NEW c \in Calls, Stored(c), UNCHANGED <<way, input>>
  PROVE  Escalation'
<1>1. Typed /\ AllBegan /\ Escalation /\ Sized
  BY SizedTables DEF IInv
<1>2. CASE UNCHANGED <<segments, latest>>
  BY <1>1, <1>2 DEF Escalation, EscalationAlerted, Alerted, Before
<1>3. CASE Recording(c) /\ way # "engine"
  <2>1. PICK a \in Assess(input[c].text), p \in 0 .. Len(segments) :
          p = latest /\ (Prolonged(c, a, p) \/ Followed(c, a, p))
    BY <1>1, <1>3, RecordingGives
  <2>2. p = Len(segments)
    BY <1>1, <1>3, <2>1 DEF Escalation
  <2>3. \A i \in DOMAIN segments :
          /\ segments[i].assessment # Before(i)
          /\ i \in Alerted <=> Raises(segments[i].assessment, Before(i))
    BY <1>1, <1>3 DEF Escalation, EscalationAlerted
  <2>4. CASE Prolonged(c, a, p)
    <3>1. DOMAIN segments' = DOMAIN segments
      BY <1>1, <2>4 DEF Prolonged, Sized
    <3>2. Alerted' = Alerted
      BY <2>4, <3>1 DEF Alerted, Prolonged
    <3>3. \A i \in DOMAIN segments : Before(i)' = Before(i)
                                     /\ segments'[i].assessment = segments[i].assessment
      BY <1>1, <2>4 DEF Before, Prolonged, Sized
    <3>4. latest' = Len(segments')
      BY <2>2, <2>4 DEF Prolonged
    <3>. QED BY <2>3, <3>1, <3>2, <3>3, <3>4 DEF Escalation, EscalationAlerted
  <2>5. CASE Followed(c, a, p)
    <3>. PICK n \in Nat : n = Len(segments) + 1
      BY <1>1 DEF Sized
    <3>1. DOMAIN segments' = 1 .. n /\ n \notin DOMAIN segments
      BY <1>1, <2>5 DEF Followed, Sized
    <3>2. \A i \in DOMAIN segments : i \in Alerted' <=> i \in Alerted
      BY <1>1, <2>5, <3>1 DEF Alerted, Followed, Sized
    <3>3. \A i \in DOMAIN segments : Before(i)' = Before(i)
                                     /\ segments'[i].assessment = segments[i].assessment
      BY <1>1, <2>5 DEF Before, Followed, Sized
    <3>4. Before(n)' = Preceding(p)
      BY <1>1, <2>2, <2>5 DEF Before, Followed, Preceding, Sized
    <3>5. segments'[n].assessment # Before(n)'
          /\ (n \in Alerted' <=> Raises(segments'[n].assessment, Before(n)'))
      BY <1>1, <2>5, <3>1, <3>4 DEF Alerted, Followed, Sized
    <3>6. latest' = Len(segments')
      BY <2>5 DEF Followed
    <3>7. ASSUME NEW i \in DOMAIN segments'
          PROVE  segments'[i].assessment # Before(i)'
                 /\ (i \in Alerted' <=> Raises(segments'[i].assessment, Before(i)'))
      <4>1. CASE i = n
        BY <3>5, <4>1
      <4>2. CASE i \in DOMAIN segments
        BY <2>3, <3>2, <3>3, <4>2
      <4>. QED BY <1>1, <3>1, <4>1, <4>2 DEF Sized
    <3>. QED BY <3>6, <3>7 DEF Escalation, EscalationAlerted
  <2>. QED BY <2>1, <2>4, <2>5
<1>4. CASE way = "engine"
  BY <1>4 DEF Escalation, EscalationAlerted
<1>. QED BY <1>1, <1>2, <1>3, <1>4, SavingGives, ProjectingGives
     DEF Stored, Rowed, EventAlerting, RuleAlerting

\* One more run, or one that is projected again.
LEMMA RunsCounted ==
  ASSUME Typed, NEW c \in Calls, NEW r \in Runs, trace[c].row = "session",
         run' = [run EXCEPT ![c] = r], \A e \in Calls : trace'[e].row = trace[e].row,
         NEW d \in {"allow", "alert"}, IsFiniteSet(RunsWith(d))
  PROVE  /\ IsFiniteSet(RunsWith(d)')
         /\ Cardinality(RunsWith(d)')
              = Cardinality(RunsWith(d)) + Count(r.decision, d) - Count(run[c].decision, d)
<1>. DEFINE Others == RunsWith(d) \ {c}
<1>1. run \in [Calls -> Runs]
  BY DEF Typed
<1>2. /\ RunsWith(d) = IF run[c].decision = d THEN Others \cup {c} ELSE Others
      /\ RunsWith(d)' = IF r.decision = d THEN Others \cup {c} ELSE Others
  BY <1>1 DEF RunsWith
<1>3. IsFiniteSet(Others) /\ c \notin Others
  BY FS_Subset
<1>4. /\ IsFiniteSet(Others \cup {c})
      /\ Cardinality(Others) \in Nat /\ Cardinality(Others \cup {c}) = Cardinality(Others) + 1
  BY <1>3, FS_AddElement, FS_CardinalityType
<1>. HIDE DEF Others
<1>. QED BY <1>2, <1>3, <1>4 DEF Count

LEMMA CountsAfter ==
  ASSUME IInv, NEW c \in Calls, Stored(c), UNCHANGED <<way, input>>
  PROVE  Counts'
<1>1. Typed /\ AllBegan /\ Counts /\ Sized /\ Began(c)
  BY SizedTables DEF IInv, AllBegan
<1>2. /\ trace \in [Calls -> Rows] /\ run \in [Calls -> Runs] /\ run' \in [Calls -> Runs]
      /\ session \in [allow : Int, alerts : Int, max_risk : Severities]
      /\ segments \in Seq(Segments) /\ \A i \in DOMAIN segments : segments[i] \in Segments
  BY <1>1, RowsAfter DEF Typed
<1>3. \A d \in {"allow", "alert"} :
        IsFiniteSet(RunsWith(d)) /\ Cardinality(RunsWith(d)) \in Nat
  BY <1>1, FS_CardinalityType DEF Counts
<1>4. IsFiniteSet(Alerted) /\ Cardinality(Alerted) \in Nat
  <2>1. Alerted \subseteq 1 .. Len(segments) /\ IsFiniteSet(1 .. Len(segments))
    BY <1>1, FS_Interval DEF Alerted, Sized
  <2>. QED BY <2>1, FS_Subset, FS_CardinalityType
<1>5. CASE Rowed(c)
  <2>1. /\ UNCHANGED <<run, session, segments>>
        /\ \A d \in Calls : trace'[d].row = "session" =>
             trace[d].row = "session" \/ run[d] = NoRun
        /\ \A d \in Calls : trace[d].row = "session" => trace'[d].row = "session"
    BY <1>1, <1>5, RowsAfter DEF Rowed, Began
  <2>2. \A d \in {"allow", "alert"} : RunsWith(d)' = RunsWith(d)
    BY <2>1 DEF RunsWith, NoRun, None
  <2>3. Alerted' = Alerted
    BY <2>1 DEF Alerted
  <2>4. AtLeast(session.max_risk, RiskOrLow(NoRun.risk))
    BY <1>2, OrderValues DEF AtLeast, RiskOrLow, NoRun, Severities
  <2>. QED BY <1>1, <2>1, <2>2, <2>3, <2>4 DEF Counts, CountersMatch
<1>6. CASE EventAlerting(c) \/ RuleAlerting(c)
  <2>1. UNCHANGED <<run, session, segments>> /\ \A d \in Calls : trace'[d].row = trace[d].row
    BY <1>6 DEF EventAlerting, RuleAlerting
  <2>2. /\ \A d \in {"allow", "alert"} : RunsWith(d)' = RunsWith(d)
        /\ Alerted' = Alerted
    BY <2>1 DEF RunsWith, Alerted
  <2>. QED BY <1>1, <2>1, <2>2 DEF Counts, CountersMatch
\* A verdict, saved or projected: the counts take back what the run said.
<1>7. ASSUME NEW r \in Runs, r.risk \in Severities, run' = [run EXCEPT ![c] = r],
             UNCHANGED segments, \A d \in Calls : trace'[d].row = trace[d].row,
             Accounted(c, Count(r.decision, "allow") - Count(run[c].decision, "allow"),
                       Count(r.decision, "alert") - Count(run[c].decision, "alert"), r.risk)
      PROVE  Counts'
  <2>1. Alerted' = Alerted /\ \A d \in Calls : d # c => run'[d] = run[d]
    BY <1>2, <1>7 DEF Alerted
  <2>2. CASE trace[c].row # "session"
    <3>1. UNCHANGED session /\ \A d \in {"allow", "alert"} : RunsWith(d)' = RunsWith(d)
      BY <1>7, <2>1, <2>2 DEF Accounted, RunsWith
    <3>. QED BY <1>1, <1>7, <2>1, <2>2, <3>1 DEF Counts, CountersMatch
  <2>3. CASE trace[c].row = "session"
    <3>. DEFINE dAllow == Count(r.decision, "allow") - Count(run[c].decision, "allow")
                dAlert == Count(r.decision, "alert") - Count(run[c].decision, "alert")
                m == max_severity(session.max_risk, r.risk)
    <3>1. session' = [allow |-> session.allow + dAllow, alerts |-> session.alerts + dAlert,
                      max_risk |-> m]
      BY <1>7, <2>3 DEF Accounted
    <3>2. \A d \in {"allow", "alert"} :
            /\ IsFiniteSet(RunsWith(d)')
            /\ Cardinality(RunsWith(d)')
                 = Cardinality(RunsWith(d)) + Count(r.decision, d) - Count(run[c].decision, d)
      BY <1>1, <1>3, <1>7, <2>3, RunsCounted
    <3>3. \A d, e : Count(d, e) \in Int
      BY DEF Count
    <3>4. session'.allow = Cardinality(RunsWith("allow")')
      BY <1>1, <1>2, <1>3, <3>1, <3>2, <3>3 DEF Counts, CountersMatch
    <3>5. session'.alerts = Cardinality(RunsWith("alert")') + Cardinality(Alerted')
      BY <1>1, <1>2, <1>3, <1>4, <2>1, <3>1, <3>2, <3>3 DEF Counts, CountersMatch
    <3>6. /\ AtLeast(m, r.risk)
          /\ \A u \in Severities : AtLeast(session.max_risk, u) => AtLeast(m, u)
      BY <1>2, <1>7, HigherRisk
    <3>7. session'.max_risk = m
      BY <3>1
    <3>. HIDE DEF m
    <3>8. ASSUME NEW d \in Calls, trace'[d].row = "session"
          PROVE  AtLeast(session'.max_risk, RiskOrLow(run'[d].risk))
      <4>1. CASE d = c
        BY <1>2, <1>7, <3>6, <3>7, <4>1 DEF RiskOrLow, Severities, None
      <4>2. CASE d # c
        <5>1. RiskOrLow(run[d].risk) \in Severities
          BY <1>2, RiskType DEF Runs
        <5>2. AtLeast(session.max_risk, RiskOrLow(run[d].risk))
          BY <1>1, <1>7, <3>8 DEF Counts, CountersMatch
        <5>. QED BY <2>1, <3>6, <3>7, <4>2, <5>1, <5>2
      <4>. QED BY <4>1, <4>2
    <3>9. ASSUME NEW i \in Alerted
          PROVE  AtLeast(session'.max_risk, segments'[i].assessment.severity)
      <4>1. segments[i].assessment.severity \in Severities
        BY <1>2 DEF Alerted, Segments, Assessments
      <4>. QED BY <1>1, <1>7, <3>6, <3>7, <4>1 DEF Counts, CountersMatch
    <3>. QED BY <2>1, <3>2, <3>4, <3>5, <3>8, <3>9 DEF Counts, CountersMatch
  <2>. QED BY <2>2, <2>3
<1>8. CASE Saving(c)
  <2>1. PICK r \in Runs :
          /\ run' = [run EXCEPT ![c] = r] /\ r.risk \in Severities
          /\ Accounted(c, Count(r.decision, "allow"), Count(r.decision, "alert"), r.risk)
    BY <1>1, <1>8, SavingGives
  <2>2. run[c] = NoRun /\ UNCHANGED segments /\ \A d \in Calls : trace'[d].row = trace[d].row
    BY <1>1, <1>8, SavingGives
  <2>3. \A d \in {"allow", "alert"} :
          Count(r.decision, d) - Count(run[c].decision, d) = Count(r.decision, d)
    BY <2>2 DEF Count, NoRun, None
  <2>. QED BY <1>7, <2>1, <2>2, <2>3
<1>9. CASE Projecting(c)
  <2>1. PICK r \in Runs :
          /\ run' = [run EXCEPT ![c] = r] /\ r.risk \in Severities
          /\ Accounted(c, ProjectedCount(c, r.decision, "allow"),
                       ProjectedCount(c, r.decision, "alert"), r.risk)
    BY <1>1, <1>9, ProjectingGives
  <2>2. trace[c].decision = run[c].decision /\ UNCHANGED segments
        /\ \A d \in Calls : trace'[d].row = trace[d].row
    BY <1>1, <1>9, ProjectingGives DEF Began
  <2>3. \A d \in {"allow", "alert"} :
          ProjectedCount(c, r.decision, d) = Count(r.decision, d) - Count(run[c].decision, d)
    BY <2>2 DEF ProjectedCount
  <2>. QED BY <1>7, <2>1, <2>2, <2>3
<1>10. CASE Recording(c)
  <2>1. PICK a \in Assessments, p \in 0 .. Len(segments) : Prolonged(c, a, p) \/ Followed(c, a, p)
    BY <1>1, <1>10, RecordingGives
  <2>2. UNCHANGED <<trace, run>> /\ \A d \in {"allow", "alert"} : RunsWith(d)' = RunsWith(d)
    BY <1>10 DEF Recording, RunsWith
  <2>3. CASE Prolonged(c, a, p)
    <3>1. DOMAIN segments' = DOMAIN segments /\ UNCHANGED session
      BY <1>1, <2>3 DEF Prolonged, Sized
    <3>2. Alerted' = Alerted
      BY <2>3, <3>1 DEF Alerted, Prolonged
    <3>3. \A i \in Alerted : segments'[i].assessment = segments[i].assessment
      BY <2>3 DEF Alerted, Prolonged
    <3>. QED BY <1>1, <2>2, <3>1, <3>2, <3>3 DEF Counts, CountersMatch
  <2>4. CASE Followed(c, a, p)
    <3>. DEFINE n == Len(segments) + 1
    <3>1. DOMAIN segments' = 1 .. n /\ n \notin DOMAIN segments
      BY <1>1, <2>4 DEF Followed, Sized
    <3>2. \A i \in Alerted :
            segments'[i] = segments[i] /\ segments[i].assessment.severity \in Severities
      BY <1>2, <2>4 DEF Alerted, Followed, Segments, Assessments
    <3>3. CASE Raises(a, Preceding(p))
      <4>. DEFINE m == max_severity(session.max_risk, a.severity)
      <4>1. /\ session' = [session EXCEPT !.alerts = @ + 1, !.max_risk = m]
            /\ segments'[n].alert # 0 /\ segments'[n].assessment = a
        BY <1>1, <2>4, <3>3 DEF Followed, Sized
      <4>2. /\ m \in Severities /\ AtLeast(m, a.severity)
            /\ \A u \in Severities : AtLeast(session.max_risk, u) => AtLeast(m, u)
        BY <1>2, SomeAssessment, HigherRisk
      <4>3. session' = [allow |-> session.allow, alerts |-> session.alerts + 1, max_risk |-> m]
        BY <1>2, <4>1, <4>2, RiskAlerted
      <4>4. session'.allow = session.allow /\ session'.alerts = session.alerts + 1
            /\ session'.max_risk = m
        BY <4>3
      <4>. HIDE DEF m
      <4>5. Alerted' = Alerted \cup {n} /\ n \notin Alerted
        BY <1>1, <2>4, <3>1, <4>1 DEF Alerted, Followed, Sized
      <4>6. Cardinality(Alerted') = Cardinality(Alerted) + 1
        BY <1>4, <4>5, FS_AddElement
      <4>7. \A d \in Calls : RiskOrLow(run[d].risk) \in Severities
        BY <1>2, RiskType DEF Runs
      <4>8. \A d \in Calls : trace'[d].row = "session" =>
              AtLeast(session'.max_risk, RiskOrLow(run'[d].risk))
        BY <1>1, <2>2, <4>2, <4>4, <4>7 DEF Counts, CountersMatch
      <4>9. \A i \in Alerted' : AtLeast(session'.max_risk, segments'[i].assessment.severity)
        BY <1>1, <3>2, <4>1, <4>2, <4>4, <4>5 DEF Counts, CountersMatch
      <4>10. session'.alerts = Cardinality(RunsWith("alert")') + Cardinality(Alerted')
        BY <1>1, <1>2, <1>3, <1>4, <2>2, <4>4, <4>6 DEF Counts, CountersMatch
      <4>. QED BY <1>1, <2>2, <4>4, <4>8, <4>9, <4>10 DEF Counts, CountersMatch
    <3>4. CASE ~Raises(a, Preceding(p))
      <4>1. UNCHANGED session /\ segments'[n].alert = 0
        BY <2>4, <3>4 DEF Followed
      <4>2. Alerted' = Alerted
        BY <1>1, <2>4, <3>1, <4>1 DEF Alerted, Followed, Sized
      <4>. QED BY <1>1, <2>2, <3>2, <4>1, <4>2 DEF Counts, CountersMatch
    <3>. QED BY <3>3, <3>4
  <2>. QED BY <2>1, <2>3, <2>4
<1>. QED BY <1>5, <1>6, <1>8, <1>9, <1>10 DEF Stored

-----------------------------------------------------------------------------
(* Where the step of a call leaves the call. *)

\* The control of one call has moved.
Moved(c) ==
  /\ task' \in [Calls -> Tasks] /\ event' \in [Calls -> Events]
  /\ \A d \in Calls \ {c} : task'[d] = task[d] /\ event'[d] = event[d]
  /\ task'[c].previous <= Len(segments')

LEMMA GoingTo ==
  ASSUME Typed, NEW c \in Calls, NEW l \in EventPlaces \cup CallPlaces, Goto(c, l)
  PROVE  /\ task' \in [Calls -> Tasks] /\ \A d \in Calls \ {c} : task'[d] = task[d]
         /\ task'[c].at = l /\ task'[c].llm = task[c].llm
         /\ task'[c].previous = task[c].previous
<1>. DEFINE t == [task[c] EXCEPT !.at = l]
<1>1. task \in [Calls -> Tasks] /\ task[c] \in Tasks
  BY DEF Typed
<1>2. t \in Tasks /\ t.at = l /\ t.llm = task[c].llm /\ t.previous = task[c].previous
  BY <1>1 DEF Tasks
<1>3. task' = [task EXCEPT ![c] = t]
  BY <1>1 DEF Goto
<1>. HIDE DEF t
<1>. QED BY <1>1, <1>2, <1>3

LEMMA Idled ==
  ASSUME Typed, NEW c \in Calls, task' = [task EXCEPT ![c] = Idle]
  PROVE  /\ task' \in [Calls -> Tasks] /\ \A d \in Calls \ {c} : task'[d] = task[d]
         /\ task'[c].at = "idle" /\ task'[c].previous = 0
<1>1. task \in [Calls -> Tasks]
  BY DEF Typed
<1>2. Idle \in Tasks /\ Idle.at = "idle" /\ Idle.previous = 0
  BY DEF Idle, Tasks, EventPlaces, LlmResults, LlmStatuses
<1>. QED BY <1>1, <1>2

LEMMA Staged ==
  ASSUME Typed, NEW c \in Calls, NEW e \in Events, event' = [event EXCEPT ![c] = e]
  PROVE  /\ event' \in [Calls -> Events] /\ event'[c] = e
         /\ \A d \in Calls \ {c} : event'[d] = event[d]
BY DEF Typed

\* The stage alone is set.
LEMMA StageSet ==
  ASSUME Typed, NEW c \in Calls, NEW s \in Stages, event' = [event EXCEPT ![c].stage = s]
  PROVE  /\ event' \in [Calls -> Events] /\ event'[c].stage = s
         /\ \A d \in Calls \ {c} : event'[d] = event[d]
<1>. DEFINE e == [event[c] EXCEPT !.stage = s]
<1>1. event \in [Calls -> Events] /\ event[c] \in Events
  BY DEF Typed
<1>2. e \in Events /\ e.stage = s
  BY <1>1 DEF Events
<1>3. event' = [event EXCEPT ![c] = e]
  BY <1>1
<1>. HIDE DEF e
<1>. QED BY <1>2, <1>3, Staged

LEMMA FailureGives ==
  ASSUME Typed, NEW c \in Calls, NEW stage \in {"rule", "review"}, HandleFailure(c, stage),
         Len(segments') \in Nat
  PROVE  /\ Moved(c) /\ task'[c].at = "idle"
         /\ event'[c].stage \in {"rule", "review", "failed_rule", "failed_review"}
         /\ event'[c].stage \in {"failed_rule", "failed_review"} \/ event'[c].stage = stage
<1>. DEFINE n == event[c].retries + 1
            e == [stage |-> IF n < MAX_RETRIES THEN stage ELSE Failed(stage), retries |-> n]
<1>1. n \in Nat
  BY DEF Typed, Events
<1>2. e \in Events /\ e.stage \in {stage, Failed(stage)}
  BY <1>1 DEF Events, Stages, Failed
<1>3. event' = [event EXCEPT ![c] = e] /\ task' = [task EXCEPT ![c] = Idle]
  BY DEF HandleFailure
<1>. HIDE DEF e
<1>4. event' \in [Calls -> Events] /\ event'[c] = e /\ \A d \in Calls \ {c} : event'[d] = event[d]
  BY <1>2, <1>3, Staged
<1>5. /\ task' \in [Calls -> Tasks] /\ \A d \in Calls \ {c} : task'[d] = task[d]
      /\ task'[c].at = "idle" /\ task'[c].previous = 0
  BY <1>3, Idled
<1>. QED BY <1>2, <1>4, <1>5 DEF Moved, Failed

LEMMA AlertEventAlerts ==
  ASSUME Typed, NEW c \in Calls, AlertEvent(c)
  PROVE  EventAlerted(c)'
<1>1. CASE EventAlerted(c) /\ UNCHANGED alerts
  BY <1>1 DEF EventAlerted
<1>2. CASE alerts' = Append(alerts, Alert(c, NoCall, "event"))
  <2>1. alerts'[Len(alerts) + 1].event = c /\ Len(alerts) + 1 \in DOMAIN alerts'
    BY <1>2 DEF Typed, Alert
  <2>. QED BY <2>1 DEF EventAlerted
<1>. QED BY <1>1, <1>2 DEF AlertEvent

\* What the projection of a finished review, or of rules that ask for none,
\* leaves in the trace.
LEMMA ProjectionShows ==
  ASSUME Typed, NEW c \in Calls, NEW llm \in LlmResults, Projected(c, llm),
         trace[c].row # "none", llm.status # "pending", Verdict(c, llm).alert => EventAlerted(c)
  PROVE  Shown(c)'
<1>. DEFINE v == Verdict(c, llm)
<1>1. v.alert = (v.final_decision = "alert") /\ v.llm_status # "pending"
  BY VerdictOf DEF Verdicts
<1>2. /\ trace' = [trace EXCEPT ![c].decision = v.final_decision, ![c].pipeline = "completed"]
      /\ alerts' = Linked(c)
  BY <1>1 DEF Projected
<1>. HIDE DEF v
<1>3. trace'[c].row = trace[c].row /\ trace'[c].pipeline = "completed"
      /\ trace'[c].decision = v.final_decision
  <2>. DEFINE t == [trace[c] EXCEPT !.decision = v.final_decision, !.pipeline = "completed"]
  <2>1. trace[c] \in Rows /\ trace \in [Calls -> Rows]
    BY DEF Typed
  <2>2. t.row = trace[c].row /\ t.decision = v.final_decision /\ t.pipeline = "completed"
    BY <2>1 DEF Rows
  <2>3. trace' = [trace EXCEPT ![c] = t]
    BY <1>2, <2>1
  <2>. HIDE DEF t
  <2>. QED BY <2>1, <2>2, <2>3
<1>4. /\ DOMAIN alerts' = DOMAIN alerts
      /\ \A i \in DOMAIN alerts : alerts'[i].event = alerts[i].event
                                  /\ (alerts[i].event = c => alerts'[i].call = c)
  <2>1. \A i \in DOMAIN alerts : alerts[i] \in Alerts
    BY DEF Typed
  <2>. QED BY <1>2, <2>1 DEF Linked, Alerts
<1>5. v.alert => EventAlerted(c)
  BY DEF v
<1>. QED BY <1>1, <1>3, <1>4, <1>5 DEF Shown, EventAlerted

\* What the step of an event's task leaves of its rows.
LEMMA EventKept ==
  ASSUME IInv, NEW c \in Calls, way = "event", UNCHANGED <<way, input>>,
         UNCHANGED store \/ Stored(c)
  PROVE  /\ trace'[c].decision = run'[c].decision
         /\ trace[c].row # "none" => trace'[c].row # "none"
         /\ EventAlerted(c) => EventAlerted(c)'
         /\ WasJudged(c) => WasJudged(c)'
         /\ UNCHANGED store /\ Shown(c) => Shown(c)'
         /\ UNCHANGED segments => (Judged(c)' <=> Judged(c))
<1>1. Typed /\ AllBegan /\ trace[c].decision = run[c].decision
  BY DEF IInv, AllBegan, Began
<1>2. UNCHANGED segments => (Judged(c)' <=> Judged(c))
  BY DEF Judged
<1>3. CASE UNCHANGED store
  BY <1>1, <1>2, <1>3 DEF store, EventAlerted, WasJudged, HasText, Shown
<1>4. CASE Stored(c)
  <2>1. trace'[c].decision = run'[c].decision
    <3>1. CASE Projecting(c)
      <4>1. run \in [Calls -> Runs]
        BY <1>1 DEF Typed
      <4>. QED BY <1>1, <3>1, <4>1, ProjectingGives
    <3>2. CASE ~Projecting(c)
      BY <1>1, <1>4, <3>2 DEF Stored, Rowed, EventAlerting, RuleAlerting, Saving, Recording
    <3>. QED BY <3>1, <3>2
  <2>2. UNCHANGED store /\ Shown(c) => Shown(c)'
    BY DEF store, Shown, EventAlerted
  <2>. QED BY <1>1, <1>2, <1>4, <2>1, <2>2, RowsAfter, Lasting
<1>. QED BY <1>3, <1>4

LEMMA Lengthened ==
  ASSUME IInv, NEW c \in Calls, UNCHANGED store \/ Stored(c)
  PROVE  /\ Len(segments') \in Nat /\ Len(segments) <= Len(segments')
         /\ \A d \in Calls : task[d].previous \in Nat /\ task[d].previous <= Len(segments')
<1>1. Typed /\ AllBegan /\ Sized
  BY SizedTables DEF IInv
<1>2. Len(segments') \in Nat /\ Len(segments) <= Len(segments')
  <2>1. CASE UNCHANGED store
    BY <1>1, <2>1 DEF store, Sized
  <2>2. CASE Stored(c)
    BY <1>1, <2>2, SegmentsAfter
  <2>. QED BY <2>1, <2>2
<1>3. \A d \in Calls : task[d].previous \in Nat /\ task[d].previous <= Len(segments)
  BY <1>1 DEF Typed, Tasks
<1>. QED BY <1>1, <1>2, <1>3 DEF Sized

LEMMA EventBegins ==
  ASSUME IInv, NEW c \in Calls, way = "event", UNCHANGED <<way, input>>,
         UNCHANGED store \/ Stored(c),
         event'[c].stage # "none", task'[c].at \in EventPlaces,
         task'[c].at = "assess" => ~Judged(c)' /\ HasText(c),
         task'[c].at = "idle" \/ event'[c].stage \in {"rule", "review"}
  PROVE  Began(c)'
<1>1. ~Unrun(c)' /\ (Unjudged(c)' => ~Judged(c)')
  BY DEF Unrun, Unjudged
<1>2. task'[c].at # "record"
  BY DEF EventPlaces
<1>. QED BY <1>1, <1>2, EventKept DEF Began, HasText

\* A failed stage leaves nothing in memory.
LEMMA FailureStands ==
  ASSUME IInv, NEW c \in Calls, NEW stage \in {"rule", "review"}, way = "event",
         UNCHANGED <<way, input>>, HandleFailure(c, stage), UNCHANGED store
  PROVE  Moved(c) /\ Began(c)' /\ EventStands(c)' /\ CallStands(c)'
<1>1. /\ Moved(c) /\ task'[c].at = "idle"
      /\ event'[c].stage \in {"rule", "review", "failed_rule", "failed_review"}
  BY Lengthened, FailureGives DEF IInv
<1>2. Began(c)'
  BY <1>1, EventBegins DEF EventPlaces
<1>. QED BY <1>1, <1>2 DEF EventStands, CallStands

\* The rule channel.
LEMMA RuleSteps ==
  ASSUME IInv, NEW c \in Calls, UNCHANGED <<way, input>>, UNCHANGED store \/ Stored(c),
         \/ Accept(c) \/ Take(c) \/ RuleAlert(c) \/ RuleCommit(c) \/ RuleProject(c) \/ RuleDone(c)
         \/ Retry(c)
  PROVE  Moved(c) /\ Began(c)' /\ EventStands(c)' /\ CallStands(c)'
<1>1. /\ Typed /\ AllBegan /\ Began(c) /\ EventStands(c)
      /\ task[c].at \in EventPlaces \cup CallPlaces
      /\ task \in [Calls -> Tasks] /\ event \in [Calls -> Events] /\ event[c].stage \in Stages
  BY DEF IInv, AllBegan, AllStand, Typed, Tasks, Events
<1>2. way = "event"
  BY <1>1 DEF Accept, Take, RuleAlert, RuleCommit, RuleProject, RuleDone, Retry, At, Began,
              CallPlaces, Failed
<1>3. CallStands(c)'
  BY <1>2 DEF CallStands
<1>4. CASE Accept(c)
  <2>1. event' = [event EXCEPT ![c].stage = "rule"] /\ UNCHANGED task /\ task[c].at = "idle"
    BY <1>1, <1>2, <1>4 DEF Accept, Began
  <2>2. event' \in [Calls -> Events] /\ event'[c].stage = "rule"
        /\ \A d \in Calls \ {c} : event'[d] = event[d]
    BY <1>1, <2>1, StageSet DEF Stages
  <2>3. Began(c)'
    BY <1>1, <1>2, <2>1, <2>2, EventBegins DEF EventPlaces
  <2>. QED BY <1>1, <1>3, <2>1, <2>2, <2>3, Lengthened DEF Moved, EventStands
<1>5. CASE Take(c)
  <2>1. Goto(c, event[c].stage) /\ event[c].stage \in {"rule", "review"} /\ UNCHANGED event
    BY <1>5 DEF Take
  <2>2. /\ task' \in [Calls -> Tasks] /\ \A d \in Calls \ {c} : task'[d] = task[d]
        /\ task'[c].at = event[c].stage /\ task'[c].previous = task[c].previous
    BY <1>1, <2>1, GoingTo DEF EventPlaces
  <2>3. Began(c)'
    BY <1>2, <2>1, <2>2, EventBegins DEF EventPlaces
  <2>. QED BY <1>1, <1>3, <2>1, <2>2, <2>3, Lengthened DEF Moved, EventStands
<1>6. CASE RuleAlert(c)
  <2>1. /\ Goto(c, "rule_commit") /\ UNCHANGED event /\ event[c].stage \in {"rule", "review"}
        /\ input[c].rule # None => EventAlerted(c)'
    BY <1>1, <1>2, <1>6, AlertEventAlerts DEF RuleAlert, Began, At
  <2>2. /\ task' \in [Calls -> Tasks] /\ \A d \in Calls \ {c} : task'[d] = task[d]
        /\ task'[c].at = "rule_commit" /\ task'[c].previous = task[c].previous
    BY <1>1, <2>1, GoingTo DEF EventPlaces
  <2>3. Began(c)'
    BY <1>2, <2>1, <2>2, EventBegins DEF EventPlaces
  <2>. QED BY <1>1, <1>3, <2>1, <2>2, <2>3, Lengthened DEF Moved, EventStands
<1>7. CASE RuleCommit(c)
  <2>1. /\ Goto(c, "rule_project") /\ UNCHANGED store
        /\ event' = [event EXCEPT ![c].stage = "review"]
        /\ input[c].rule # None => EventAlerted(c)
    BY <1>1, <1>2, <1>7 DEF RuleCommit, EventStands, At
  <2>2. /\ task' \in [Calls -> Tasks] /\ \A d \in Calls \ {c} : task'[d] = task[d]
        /\ task'[c].at = "rule_project" /\ task'[c].previous = task[c].previous
    BY <1>1, <2>1, GoingTo DEF EventPlaces
  <2>3. event' \in [Calls -> Events] /\ event'[c].stage = "review"
        /\ \A d \in Calls \ {c} : event'[d] = event[d]
    BY <1>1, <2>1, StageSet DEF Stages
  <2>4. Began(c)'
    BY <1>2, <2>2, <2>3, EventBegins DEF EventPlaces
  <2>5. EventAlerted(c) => EventAlerted(c)'
    BY <1>2, EventKept
  <2>. QED BY <1>1, <1>3, <2>1, <2>2, <2>3, <2>4, <2>5, Lengthened DEF Moved, EventStands
<1>8. CASE RuleProject(c)
  <2>1. CASE trace[c].row = "none"
    BY <1>2, <1>8, <2>1, FailureStands DEF RuleProject
  <2>2. CASE trace[c].row # "none"
    <3>. DEFINE llm == LlmResult(IF ForReviewer(c) THEN "pending" ELSE "not_needed", None, None)
    <3>1. /\ Projected(c, llm) /\ Goto(c, "rule_done")
          /\ UNCHANGED event /\ task[c].at = "rule_project"
      BY <1>8, <2>2 DEF RuleProject, At
    <3>2. llm \in LlmResults /\ ~Confirmed(llm) /\ (~ForReviewer(c) => llm.status # "pending")
      BY DEF LlmResults, LlmResult, LlmStatuses, Confirmed
    <3>. HIDE DEF llm
    <3>3. Verdict(c, llm).alert => EventAlerted(c)
      BY <1>1, <1>2, <3>1, <3>2, VerdictOf DEF EventStands
    <3>4. ~ForReviewer(c) => Shown(c)'
      BY <1>1, <2>2, <3>1, <3>2, <3>3, ProjectionShows
    <3>5. /\ task' \in [Calls -> Tasks] /\ \A d \in Calls \ {c} : task'[d] = task[d]
          /\ task'[c].at = "rule_done" /\ task'[c].previous = task[c].previous
      BY <1>1, <3>1, GoingTo DEF EventPlaces
    <3>6. event[c].stage \in {"rule", "review"} /\ (ForReviewer(c)' <=> ForReviewer(c))
      BY <1>1, <1>2, <3>1 DEF Began, ForReviewer, HasText
    <3>7. Began(c)'
      BY <1>2, <3>1, <3>5, <3>6, EventBegins DEF EventPlaces
    <3>. QED BY <1>1, <1>3, <3>1, <3>4, <3>5, <3>6, <3>7, Lengthened DEF Moved, EventStands
  <2>. QED BY <2>1, <2>2
<1>9. CASE RuleDone(c)
  <2>. DEFINE e == [stage |-> IF ForReviewer(c) THEN "review" ELSE "completed", retries |-> 0]
  <2>1. /\ task' = [task EXCEPT ![c] = Idle] /\ event' = [event EXCEPT ![c] = e]
        /\ UNCHANGED store /\ task[c].at = "rule_done"
    BY <1>9 DEF RuleDone, At
  <2>2. e \in Events /\ e.stage = IF ForReviewer(c) THEN "review" ELSE "completed"
    BY DEF Events, Stages
  <2>. HIDE DEF e
  <2>3. /\ task' \in [Calls -> Tasks] /\ \A d \in Calls \ {c} : task'[d] = task[d]
        /\ task'[c].at = "idle" /\ task'[c].previous = 0
    BY <1>1, <2>1, Idled
  <2>4. event' \in [Calls -> Events] /\ event'[c] = e /\ \A d \in Calls \ {c} : event'[d] = event[d]
    BY <1>1, <2>1, <2>2, Staged
  <2>5. e.stage = "completed" => Shown(c)' /\ WasJudged(c)'
    <3>1. e.stage = "completed" => ~ForReviewer(c)
      BY <2>2
    <3>2. ~ForReviewer(c) => Shown(c) /\ WasJudged(c)
      BY <1>1, <1>2, <2>1 DEF EventStands, ForReviewer, WasJudged
    <3>. QED BY <1>2, <2>1, <3>1, <3>2, EventKept
  <2>6. Began(c)'
    BY <1>2, <2>2, <2>3, <2>4, EventBegins DEF EventPlaces
  <2>. QED BY <1>1, <1>3, <2>3, <2>4, <2>5, <2>6, Lengthened DEF Moved, EventStands
<1>10. CASE Retry(c)
  <2>1. PICK stage \in {"rule", "review"} :
          event[c].stage = Failed(stage) /\ event' = [event EXCEPT ![c].stage = stage]
    BY <1>10 DEF Retry
  <2>2. UNCHANGED task /\ task[c].at = "idle"
    BY <1>1, <1>2, <1>10, <2>1 DEF Retry, Began, Failed
  <2>3. event' \in [Calls -> Events] /\ event'[c].stage = stage
        /\ \A d \in Calls \ {c} : event'[d] = event[d]
    BY <1>1, <2>1, StageSet DEF Stages
  <2>4. Began(c)'
    BY <1>2, <2>2, <2>3, EventBegins DEF EventPlaces
  <2>. QED BY <1>1, <1>3, <2>2, <2>3, <2>4, Lengthened DEF Moved, EventStands
<1>. QED BY <1>4, <1>5, <1>6, <1>7, <1>8, <1>9, <1>10

\* The review.
LEMMA ReviewSteps ==
  ASSUME IInv, NEW c \in Calls, UNCHANGED <<way, input>>, UNCHANGED store \/ Stored(c),
         EventReview(c) \/ EventAssess(c) \/ EventUpdate(c) \/ EventProject(c) \/ EventDone(c)
  PROVE  Moved(c) /\ Began(c)' /\ EventStands(c)' /\ CallStands(c)'
<1>1. /\ Typed /\ AllBegan /\ Owned /\ Began(c) /\ EventStands(c)
      /\ task \in [Calls -> Tasks] /\ event \in [Calls -> Events] /\ task[c] \in Tasks
      /\ trace[c] \in Rows /\ LlmOutcomes(c)' = LlmOutcomes(c)
  BY DEF IInv, AllBegan, AllStand, Typed, LlmOutcomes
<1>2. way = "event"
  BY <1>1 DEF EventReview, EventAssess, EventUpdate, EventProject, EventDone, At, Began, CallPlaces
<1>3. CallStands(c)'
  BY <1>2 DEF CallStands
<1>4. task[c].at # "idle" => event[c].stage \in {"rule", "review"}
  BY <1>1, <1>2 DEF Began
\* The task goes on to l, with the same event and its answer.
<1>5. ASSUME NEW l \in {"update", "project", "review_done"}, Goto(c, l), UNCHANGED event,
             task[c].at # "idle", task[c].llm \in LlmOutcomes(c), WasJudged(c)',
             l = "project" /\ Verdict(c, task[c].llm).alert => EventAlerted(c)',
             l = "review_done" => Shown(c)'
      PROVE  Moved(c) /\ Began(c)' /\ EventStands(c)'
  <2>1. /\ task' \in [Calls -> Tasks] /\ \A d \in Calls \ {c} : task'[d] = task[d]
        /\ task'[c].at = l /\ task'[c].llm = task[c].llm /\ task'[c].previous = task[c].previous
    BY <1>1, <1>5, GoingTo DEF EventPlaces
  <2>2. Began(c)'
    BY <1>2, <1>4, <1>5, <2>1, EventBegins DEF EventPlaces
  <2>3. Verdict(c, task[c].llm)' = Verdict(c, task[c].llm)
    BY <2>1 DEF Verdict
  <2>. QED BY <1>1, <1>4, <1>5, <2>1, <2>2, <2>3, Lengthened DEF Moved, EventStands
<1>6. CASE EventReview(c)
  <2>1. UNCHANGED store /\ task[c].at = "review" /\ event[c].stage \in {"rule", "review"}
    BY <1>4, <1>6 DEF EventReview, At
  <2>2. PICK llm \in LlmOutcomes(c) :
          \/ /\ ~HasText(c) \/ Judged(c)
             /\ task' = [task EXCEPT ![c].at = "update", ![c].llm = llm] /\ UNCHANGED event
          \/ HandleFailure(c, "review")
          \/ /\ HasText(c) /\ ~Judged(c) /\ trace[c].row # "none"
             /\ task' = [task EXCEPT ![c].at = "assess", ![c].llm = llm] /\ UNCHANGED event
    BY <1>6, Zenon DEF EventReview
  <2>3. CASE HandleFailure(c, "review")
    BY <1>2, <2>1, <2>3, FailureStands
  <2>4. ASSUME NEW l \in {"update", "assess"}, UNCHANGED event,
               task' = [task EXCEPT ![c].at = l, ![c].llm = llm],
               l = "update" => ~HasText(c) \/ Judged(c),
               l = "assess" => HasText(c) /\ ~Judged(c) /\ trace[c].row # "none"
        PROVE  Moved(c) /\ Began(c)' /\ EventStands(c)'
    <3>. DEFINE t == [task[c] EXCEPT !.at = l, !.llm = llm]
    <3>1. llm \in LlmResults
      BY <2>2, OutcomesTyped
    <3>2. t \in Tasks /\ t.at = l /\ t.llm = llm /\ t.previous = task[c].previous
      BY <1>1, <3>1 DEF Tasks, EventPlaces
    <3>3. task' = [task EXCEPT ![c] = t]
      BY <1>1, <2>4
    <3>. HIDE DEF t
    <3>4. task' \in [Calls -> Tasks] /\ task'[c] = t /\ \A d \in Calls \ {c} : task'[d] = task[d]
      BY <1>1, <3>2, <3>3
    <3>5. Judged(c)' <=> Judged(c)
      BY <1>2, <2>1, EventKept DEF store
    <3>6. Began(c)'
      BY <1>2, <2>1, <2>4, <3>2, <3>4, <3>5, EventBegins DEF EventPlaces
    <3>7. l = "update" => WasJudged(c)'
      <4>1. Judged(c) => WasJudged(c)
        BY <1>1, <1>2 DEF Judged, WasJudged, Owned
      <4>. QED BY <1>2, <2>4, <4>1, EventKept DEF WasJudged, HasText
    <3>8. l = "assess" => trace'[c].row # "none"
      BY <2>1, <2>4 DEF store
    <3>. QED BY <1>1, <2>1, <2>2, <2>4, <3>2, <3>4, <3>6, <3>7, <3>8, Lengthened
         DEF Moved, EventStands
  <2>. QED BY <1>3, <2>2, <2>3, <2>4
<1>7. CASE EventAssess(c)
  <2>1. CASE trace[c].row = "orphan"
    BY <1>2, <1>7, <2>1, FailureStands DEF EventAssess
  <2>2. CASE trace[c].row # "orphan"
    <3>1. /\ \E a \in Assess(input[c].text) : Recorded(c, a, latest)
          /\ Goto(c, "update") /\ UNCHANGED <<trace, run, event>> /\ task[c].at = "assess"
      BY <1>7, <2>2 DEF EventAssess, At
    <3>2. trace[c].row = "session" /\ task[c].llm \in LlmOutcomes(c) /\ HasText(c)
      BY <1>1, <1>2, <2>2, <3>1 DEF EventStands, Began, Rows
    <3>3. Recording(c)
      BY <1>1, <1>2, <3>1, <3>2 DEF Recording, Unjudged, Typed
    <3>4. PICK a \in Assess(input[c].text), p \in 0 .. Len(segments) :
            Prolonged(c, a, p) \/ Followed(c, a, p)
      BY <1>1, <3>3, RecordingGives
    <3>5. \E i \in DOMAIN segments' : segments'[i].assessment = a
      <4>1. CASE Prolonged(c, a, p)
        <5>1. p \in DOMAIN segments' /\ segments'[p].assessment = a
          BY <1>1, <4>1, SizedTables DEF Prolonged, Preceding, Sized
        <5>. QED BY <5>1
      <4>2. CASE Followed(c, a, p)
        <5>1. Len(segments) + 1 \in DOMAIN segments' /\ segments'[Len(segments) + 1].assessment = a
          BY <1>1, <4>2, SizedTables DEF Followed, Sized
        <5>. QED BY <5>1
      <4>. QED BY <3>4, <4>1, <4>2
    <3>6. WasJudged(c)'
      BY <3>1, <3>2, <3>5 DEF WasJudged
    <3>. QED BY <1>3, <1>5, <3>1, <3>2, <3>6
  <2>. QED BY <2>1, <2>2
<1>8. CASE EventUpdate(c)
  <2>1. /\ Goto(c, "project") /\ UNCHANGED event /\ task[c].at = "update"
        /\ Verdict(c, task[c].llm).alert => AlertEvent(c)
    BY <1>8 DEF EventUpdate, At
  <2>2. task[c].llm \in LlmOutcomes(c) /\ WasJudged(c)'
    BY <1>1, <1>2, <2>1, EventKept DEF EventStands
  <2>. QED BY <1>1, <1>3, <1>5, <2>1, <2>2, AlertEventAlerts
<1>9. CASE EventProject(c)
  <2>1. CASE trace[c].row = "none"
    BY <1>2, <1>9, <2>1, FailureStands DEF EventProject
  <2>2. CASE trace[c].row # "none"
    <3>1. Projected(c, task[c].llm) /\ Goto(c, "review_done") /\ UNCHANGED event
          /\ task[c].at = "project"
      BY <1>9, <2>2 DEF EventProject, At
    <3>2. /\ task[c].llm \in LlmOutcomes(c) /\ WasJudged(c)'
          /\ Verdict(c, task[c].llm).alert => EventAlerted(c)
      BY <1>1, <1>2, <3>1, EventKept DEF EventStands
    <3>3. Shown(c)'
      BY <1>1, <2>2, <3>1, <3>2, OutcomesTyped, ProjectionShows
    <3>. QED BY <1>3, <1>5, <3>1, <3>2, <3>3
  <2>. QED BY <2>1, <2>2
<1>10. CASE EventDone(c)
  <2>. DEFINE s == IF task[c].llm.status = "failed" THEN "failed_review" ELSE "completed"
  <2>1. /\ task' = [task EXCEPT ![c] = Idle] /\ event' = [event EXCEPT ![c].stage = s]
        /\ UNCHANGED store /\ task[c].at = "review_done"
    BY <1>10 DEF EventDone, At
  <2>2. s \in {"failed_review", "completed"}
    OBVIOUS
  <2>. HIDE DEF s
  <2>3. /\ task' \in [Calls -> Tasks] /\ \A d \in Calls \ {c} : task'[d] = task[d]
        /\ task'[c].at = "idle" /\ task'[c].previous = 0
    BY <1>1, <2>1, Idled
  <2>4. event' \in [Calls -> Events] /\ event'[c].stage = s
        /\ \A d \in Calls \ {c} : event'[d] = event[d]
    BY <1>1, <2>1, <2>2, StageSet DEF Stages
  <2>5. Shown(c)' /\ WasJudged(c)'
    BY <1>1, <1>2, <2>1, EventKept DEF EventStands
  <2>6. Began(c)'
    BY <1>2, <2>2, <2>3, <2>4, EventBegins DEF EventPlaces
  <2>. QED BY <1>1, <1>3, <2>3, <2>4, <2>5, <2>6, Lengthened DEF Moved, EventStands
<1>. QED BY <1>6, <1>7, <1>8, <1>9, <1>10

\* A call of the other callers goes on to l.
LEMMA CallMoves ==
  ASSUME IInv, NEW c \in Calls, way # "event", UNCHANGED <<way, input, event>>,
         UNCHANGED store \/ Stored(c), NEW l \in CallPlaces, Goto(c, l),
         Unrun(c)' => Unrun(c) /\ UNCHANGED run,
         Unjudged(c)' => Unjudged(c) /\ UNCHANGED segments,
         l \in {"assess", "record"} => HasText(c), l = "record" => way = "engine"
  PROVE  Moved(c) /\ task'[c].at = l /\ Began(c)' /\ EventStands(c)'
<1>1. Typed /\ Began(c) /\ event \in [Calls -> Events]
  BY DEF IInv, AllBegan, Typed
<1>2. /\ task' \in [Calls -> Tasks] /\ \A d \in Calls \ {c} : task'[d] = task[d]
      /\ task'[c].at = l /\ task'[c].previous = task[c].previous
  BY <1>1, GoingTo
<1>3. Unrun(c)' => run'[c] = NoRun
  BY <1>1 DEF Began
<1>4. Unjudged(c)' => ~Judged(c)'
  BY <1>1 DEF Began, Judged
<1>5. Began(c)'
  BY <1>1, <1>2, <1>3, <1>4 DEF Began, HasText
<1>. QED BY <1>1, <1>2, <1>5, Lengthened DEF Moved, EventStands

\* A response is stored beside the analysis.
LEMMA RespondSteps ==
  ASSUME IInv, NEW c \in Calls, UNCHANGED <<way, input>>, UNCHANGED store \/ Stored(c), Respond(c)
  PROVE  Moved(c) /\ Began(c)' /\ EventStands(c)' /\ CallStands(c)'
<1>1. /\ Typed /\ Began(c) /\ EventStands(c) /\ CallStands(c)
      /\ task \in [Calls -> Tasks] /\ event \in [Calls -> Events] /\ trace \in [Calls -> Rows]
  BY DEF IInv, AllBegan, AllStand, Typed
<1>2. UNCHANGED <<run, segments, alerts, task, event>> /\ trace[c].row = "none"
  BY DEF Respond
<1>. DEFINE t == [trace[c] EXCEPT !.row = "orphan", !.pipeline = "completed"]
<1>3. trace'[c] = t /\ t.decision = trace[c].decision /\ t.row = "orphan"
  BY <1>1 DEF Respond, Rows
<1>. HIDE DEF t
<1>4. /\ Unrun(c)' <=> Unrun(c)
      /\ Unjudged(c)' <=> Unjudged(c)
      /\ Judged(c)' <=> Judged(c)
      /\ HasText(c)' <=> HasText(c)
      /\ EventAlerted(c)' <=> EventAlerted(c)
      /\ ForReviewer(c)' <=> ForReviewer(c)
      /\ LlmOutcomes(c)' = LlmOutcomes(c)
      /\ Verdict(c, task[c].llm)' = Verdict(c, task[c].llm)
      /\ WasJudged(c) => WasJudged(c)'
  BY <1>2 DEF Unrun, Unjudged, Judged, HasText, EventAlerted, ForReviewer, LlmOutcomes, Verdict,
              WasJudged
<1>5. Began(c)'
  BY <1>1, <1>2, <1>3, <1>4 DEF Began
<1>6. EventStands(c)'
  BY <1>1, <1>2, <1>3, <1>4 DEF EventStands, Shown
<1>7. CallStands(c)'
  BY <1>1, <1>2 DEF CallStands, RiskAlertsOf, AlertsOf
<1>. QED BY <1>1, <1>2, <1>5, <1>6, <1>7, Lengthened DEF Moved

\* The classification of a trace by the other callers.
LEMMA CallSteps ==
  ASSUME IInv, NEW c \in Calls, UNCHANGED <<way, input>>, UNCHANGED store \/ Stored(c),
         \/ Begin(c) \/ Immediate(c) \/ Save(c) \/ Unreviewed(c) \/ ReadPrevious(c)
         \/ EngineRecord(c) \/ GatewayRecord(c) \/ Fail(c)
  PROVE  Moved(c) /\ Began(c)' /\ EventStands(c)' /\ CallStands(c)'
<1>1. /\ Typed /\ AllBegan /\ Sized /\ Began(c) /\ CallStands(c) /\ NoCall \notin Calls
      /\ task \in [Calls -> Tasks] /\ event \in [Calls -> Events] /\ task[c] \in Tasks
  BY SizedTables, TracesAssumption DEF IInv, AllBegan, AllStand, Typed
<1>2. way # "event"
  BY <1>1 DEF Begin, Immediate, Save, Unreviewed, ReadPrevious, EngineRecord, GatewayRecord, Fail,
              At, Began, EventPlaces
<1>3. way \in {"gateway", "engine"} /\ task[c].at \in CallPlaces
  BY <1>1, <1>2, TracesAssumption DEF Typed, Began
<1>4. CASE Begin(c)
  <2>1. /\ task[c].at = "idle" /\ UNCHANGED <<run, segments, alerts, event>>
        /\ Goto(c, "rules") \/ Goto(c, "gone")
    BY <1>4 DEF Begin, At
  <2>2. ASSUME NEW l \in {"rules", "gone"}, Goto(c, l)
        PROVE  Moved(c) /\ Began(c)' /\ EventStands(c)' /\ CallStands(c)'
    <3>1. Unrun(c) /\ Unjudged(c)
      BY <1>3, <2>1 DEF Unrun, Unjudged
    <3>2. Moved(c) /\ task'[c].at = l /\ Began(c)' /\ EventStands(c)'
      BY <1>2, <2>1, <2>2, <3>1, CallMoves DEF CallPlaces
    <3>. QED BY <1>1, <2>1, <3>2 DEF CallStands, RiskAlertsOf, AlertsOf
  <2>. QED BY <2>1, <2>2
<1>5. CASE Immediate(c)
  <2>. DEFINE l == AfterRules(c)
  <2>1. /\ task[c].at = "rules" /\ UNCHANGED <<run, segments, event>> /\ Goto(c, l)
        /\ UNCHANGED alerts \/ (AlertsOf(c) = {} /\ OneMore(Alert(NoCall, c, "rules")))
        /\ input[c].rule # None /\ AlertsOf(c) = {} => OneMore(Alert(NoCall, c, "rules"))
    BY <1>1, <1>5, AlertTypes, AlertAppended DEF Immediate, ImmediateAlert, At
  <2>2. /\ l \in {"assess", "llm"}
        /\ l = "assess" => way = "engine" /\ HasText(c)
        /\ l = "llm" /\ way = "engine" => ~HasText(c)
    BY <1>3 DEF AfterRules
  <2>. HIDE DEF l
  <2>3. /\ Unrun(c) /\ Unjudged(c)
    BY <1>3, <2>1 DEF Unrun, Unjudged
  <2>4. Moved(c) /\ task'[c].at = l /\ Began(c)' /\ EventStands(c)'
    BY <1>2, <2>1, <2>2, <2>3, CallMoves DEF CallPlaces
  <2>5. ASSUME OneMore(Alert(NoCall, c, "rules")), AlertsOf(c) = {}
        PROVE  /\ AlertsOf(c)' = {Len(alerts) + 1}
               /\ alerts'[Len(alerts) + 1].stage = "rules"
    <3>1. /\ DOMAIN alerts' = 1 .. (Len(alerts) + 1)
          /\ alerts'[Len(alerts) + 1].call = c /\ alerts'[Len(alerts) + 1].stage = "rules"
          /\ \A i \in DOMAIN alerts : alerts'[i] = alerts[i]
      BY <1>1, <2>5 DEF OneMore, Alert, Sized
    <3>. QED BY <1>1, <2>5, <3>1 DEF AlertsOf, Sized
  <2>6. CASE way = "gateway"
    <3>1. RiskAlertsOf(c)' = {}
      BY <1>1, <2>1, <2>5, <2>6 DEF CallStands, RiskAlertsOf, AlertsOf
    <3>. QED BY <2>4, <2>6, <3>1 DEF CallStands
  <2>7. CASE way = "engine"
    <3>1. AlertsOf(c) = {}
      BY <1>1, <2>1, <2>7 DEF CallStands
    <3>2. input[c].rule # None =>
            \E j \in AlertsOf(c)' : alerts'[j].stage = "rules" /\ \A i \in AlertsOf(c)' : j <= i
      BY <1>1, <2>1, <2>5, <3>1 DEF Sized
    <3>. QED BY <2>2, <2>4, <2>7, <3>2 DEF CallStands
  <2>. QED BY <1>3, <2>4, <2>6, <2>7
<1>6. CASE Save(c)
  <2>1. /\ task[c].at = "llm" /\ UNCHANGED <<segments, event>>
        /\ \E l \in {"assess", "done"} :
             Goto(c, l) /\ (l = "assess" => way = "gateway" /\ HasText(c))
    BY <1>6 DEF Save, AfterSave, At
  <2>2. PICK l \in {"assess", "done"} :
          Goto(c, l) /\ (l = "assess" => way = "gateway" /\ HasText(c))
    BY <2>1
  <2>3. task'[c].at = l
    BY <1>1, <2>2, GoingTo DEF CallPlaces
  <2>4. ~Unrun(c)' /\ (Unjudged(c)' => Unjudged(c))
    BY <1>2, <1>3, <2>1, <2>2, <2>3 DEF Unrun, Unjudged
  <2>5. Moved(c) /\ Began(c)' /\ EventStands(c)'
    BY <1>2, <2>1, <2>2, <2>4, CallMoves DEF CallPlaces
  <2>. QED BY <2>2, <2>3, <2>5 DEF CallStands
<1>7. CASE Unreviewed(c)
  <2>1. Goto(c, "done") /\ UNCHANGED event /\ way = "engine"
    BY <1>7 DEF Unreviewed
  <2>2. task'[c].at = "done"
    BY <1>1, <2>1, GoingTo DEF CallPlaces
  <2>3. ~Unrun(c)' /\ ~Unjudged(c)'
    BY <2>1, <2>2 DEF Unrun, Unjudged
  <2>4. Moved(c) /\ Began(c)' /\ EventStands(c)'
    BY <1>2, <2>1, <2>3, CallMoves DEF CallPlaces
  <2>. QED BY <2>1, <2>2, <2>4 DEF CallStands
<1>8. CASE ReadPrevious(c)
  <2>. DEFINE t == [task[c] EXCEPT !.at = "record", !.previous = latest]
  <2>1. /\ way = "engine" /\ task[c].at = "assess" /\ UNCHANGED <<store, event>>
        /\ task' = [task EXCEPT ![c].at = "record", ![c].previous = latest]
        /\ latest \in Nat /\ latest <= Len(segments)
    BY <1>1, <1>8 DEF ReadPrevious, At, Typed, Sized
  <2>2. t \in Tasks /\ t.at = "record" /\ t.previous = latest
    BY <1>1, <2>1 DEF Tasks, CallPlaces
  <2>3. task' = [task EXCEPT ![c] = t]
    BY <1>1, <2>1
  <2>. HIDE DEF t
  <2>4. task' \in [Calls -> Tasks] /\ task'[c] = t /\ \A d \in Calls \ {c} : task'[d] = task[d]
    BY <1>1, <2>2, <2>3
  <2>5. UNCHANGED <<run, segments, alerts>>
    BY <2>1 DEF store
  <2>6. HasText(c) /\ ~Judged(c) /\ run[c] = NoRun
    BY <1>1, <2>1 DEF Began, Unrun, Unjudged
  <2>7. Began(c)'
    BY <1>1, <2>1, <2>2, <2>4, <2>5, <2>6 DEF Began, Judged, HasText, CallPlaces
  <2>8. CallStands(c)'
    BY <1>1, <2>1, <2>2, <2>4, <2>5 DEF CallStands, AlertsOf
  <2>9. Moved(c)
    BY <1>1, <2>1, <2>2, <2>4, <2>5 DEF Moved
  <2>. QED BY <2>1, <2>7, <2>8, <2>9 DEF EventStands
<1>9. CASE EngineRecord(c)
  <2>1. /\ way = "engine" /\ task[c].at = "record" /\ Goto(c, "llm")
        /\ UNCHANGED <<trace, run, event>>
        /\ \E a \in Assess(input[c].text) : Recorded(c, a, task[c].previous)
    BY <1>1, <1>9 DEF EngineRecord, At, AfterAssess, Began
  <2>2. task'[c].at = "llm"
    BY <1>1, <2>1, GoingTo DEF CallPlaces
  <2>3. Unrun(c) /\ ~Unjudged(c)'
    BY <2>1, <2>2 DEF Unrun, Unjudged
  <2>4. Moved(c) /\ Began(c)' /\ EventStands(c)'
    BY <1>2, <2>1, <2>3, CallMoves DEF CallPlaces
  <2>5. Recording(c)
    BY <1>1, <2>1 DEF Recording, Unjudged, Began, Typed, Tasks
  <2>6. UNCHANGED alerts \/ OneMore(Alert(NoCall, c, "session_risk"))
    BY <1>1, <2>5, RecordingGives DEF Prolonged, Followed
  <2>7. ASSUME input[c].rule # None
        PROVE  \E j \in AlertsOf(c)' : alerts'[j].stage = "rules" /\ \A i \in AlertsOf(c)' : j <= i
    <3>1. PICK j \in AlertsOf(c) : alerts[j].stage = "rules" /\ \A i \in AlertsOf(c) : j <= i
      BY <1>1, <2>1, <2>7 DEF CallStands
    <3>2. CASE UNCHANGED alerts
      BY <3>1, <3>2 DEF AlertsOf
    <3>3. CASE OneMore(Alert(NoCall, c, "session_risk"))
      <4>1. /\ DOMAIN alerts' = 1 .. (Len(alerts) + 1)
            /\ \A i \in DOMAIN alerts : alerts'[i] = alerts[i]
        BY <1>1, <3>3 DEF OneMore, Sized
      <4>. QED BY <1>1, <3>1, <4>1 DEF AlertsOf, Sized
    <3>. QED BY <2>6, <3>2, <3>3
  <2>. QED BY <2>1, <2>2, <2>4, <2>7 DEF CallStands
<1>10. CASE GatewayRecord(c)
  <2>1. way = "gateway" /\ Goto(c, "done") /\ UNCHANGED event
    BY <1>10 DEF GatewayRecord, AfterAssess
  <2>2. task'[c].at = "done"
    BY <1>1, <2>1, GoingTo DEF CallPlaces
  <2>3. ~Unrun(c)' /\ ~Unjudged(c)'
    BY <2>1, <2>2 DEF Unrun, Unjudged
  <2>4. Moved(c) /\ Began(c)' /\ EventStands(c)'
    BY <1>2, <2>1, <2>3, CallMoves DEF CallPlaces
  <2>. QED BY <2>1, <2>2, <2>4 DEF CallStands
<1>11. CASE Fail(c)
  <2>1. UNCHANGED <<run, segments, alerts, event>>
    BY <1>11 DEF Fail
  <2>2. \/ /\ task[c].at \in {"rules", "llm"} /\ way = "gateway"
           /\ \E l \in {"assess", "done"} : Goto(c, l) /\ (l = "assess" => HasText(c))
        \/ way # "gateway" /\ Goto(c, "gone")
        \/ task[c].at \in {"assess", "record"} /\ way = "engine" /\ Goto(c, "llm")
        \/ way # "engine" /\ Goto(c, "done")
    <3>1. \/ /\ At(c, "rules") \/ At(c, "llm")
             /\ IF way = "gateway" THEN AfterSave(c) ELSE Goto(c, "gone")
          \/ (At(c, "assess") \/ At(c, "record")) /\ AfterAssess(c)
      BY <1>11, Zenon DEF Fail
    <3>. QED BY <3>1 DEF At, AfterSave, AfterAssess
  <2>3. ASSUME NEW l \in CallPlaces, Goto(c, l), l # "record", l = "assess" => HasText(c),
               \/ l = "assess" /\ way = "gateway" /\ task[c].at \in {"rules", "llm"}
               \/ l = "llm" /\ way = "engine" /\ task[c].at \in {"assess", "record"}
               \/ l \in {"gone", "done"}
        PROVE  Moved(c) /\ Began(c)' /\ EventStands(c)' /\ CallStands(c)'
    <3>1. task'[c].at = l
      BY <1>1, <2>3, GoingTo
    <3>2. /\ Unrun(c)' => Unrun(c)
          /\ Unjudged(c)' => Unjudged(c)
      BY <1>3, <2>3, <3>1 DEF Unrun, Unjudged
    <3>3. Moved(c) /\ Began(c)' /\ EventStands(c)'
      BY <1>2, <2>1, <2>3, <3>2, CallMoves
    <3>. QED BY <1>1, <2>1, <2>3, <3>1, <3>3 DEF CallStands, AlertsOf
  <2>. QED BY <1>3, <2>2, <2>3 DEF CallPlaces
<1>. QED BY <1>4, <1>5, <1>6, <1>7, <1>8, <1>9, <1>10, <1>11

\* The process is killed: nothing is stored, and what was in memory is idle
\* again, done or gone.
LEMMA CrashStands ==
  ASSUME IInv, Crash
  PROVE  /\ task' \in [Calls -> Tasks] /\ \A c \in Calls : task'[c].previous <= Len(segments')
         /\ AllBegan' /\ AllStand'
<1>1. /\ Typed /\ AllBegan /\ AllStand /\ Sized /\ task \in [Calls -> Tasks]
      /\ UNCHANGED <<way, input, trace, run, segments, alerts, event>>
  BY SizedTables DEF IInv, Typed, Crash, store
<1>. DEFINE At2(c) == IF At(c, "done") THEN "done" ELSE "idle"
            t(c) == IF way = "event" \/ At(c, "idle") \/ At(c, "done")
                    THEN [task[c] EXCEPT !.at = At2(c)] ELSE [task[c] EXCEPT !.at = "gone"]
<1>2. task' = [c \in Calls |-> t(c)]
  BY DEF Crash
<1>3. ASSUME NEW c \in Calls
      PROVE  /\ t(c) \in Tasks /\ t(c).previous = task[c].previous
             /\ \/ t(c).at = "idle" /\ (way = "event" \/ task[c].at = "idle")
                \/ t(c).at = "done" /\ way # "event"
                \/ t(c).at = "gone" /\ way # "event"
  <2>1. way = "event" => task[c].at # "done"
    BY <1>1 DEF AllBegan, Began, EventPlaces
  <2>2. task[c] \in Tasks /\ {"idle", "done", "gone"} \subseteq EventPlaces \cup CallPlaces
    BY <1>1 DEF CallPlaces
  <2>3. \A l \in {"idle", "done", "gone"} :
          LET u == [task[c] EXCEPT !.at = l] IN
          u \in Tasks /\ u.at = l /\ u.previous = task[c].previous
    BY <2>2 DEF Tasks
  <2>4. t(c) = [task[c] EXCEPT !.at = IF way = "event" \/ At(c, "idle") \/ At(c, "done")
                                      THEN At2(c) ELSE "gone"]
    OBVIOUS
  <2>. QED BY <2>1, <2>3, <2>4 DEF At
<1>. HIDE DEF t
<1>4. \A c \in Calls : task'[c] = t(c)
  BY <1>2
<1>5. task' \in [Calls -> Tasks] /\ \A c \in Calls : task'[c].previous <= Len(segments')
  BY <1>1, <1>2, <1>3 DEF Typed
<1>6. ASSUME NEW c \in Calls
      PROVE  Began(c)' /\ EventStands(c)' /\ CallStands(c)'
  <2>1. Began(c) /\ EventStands(c) /\ CallStands(c) /\ way \in {"event", "gateway", "engine"}
    BY <1>1, TracesAssumption DEF AllBegan, AllStand, Typed
  <2>2. \/ task'[c].at = "idle" /\ (way = "event" \/ task[c].at = "idle")
        \/ task'[c].at \in {"done", "gone"} /\ way # "event"
    BY <1>3, <1>4
  <2>3. /\ Judged(c)' <=> Judged(c)
        /\ Shown(c)' <=> Shown(c)
        /\ WasJudged(c)' <=> WasJudged(c)
        /\ AlertsOf(c)' = AlertsOf(c) /\ RiskAlertsOf(c)' = RiskAlertsOf(c)
    BY <1>1 DEF Judged, Shown, WasJudged, EventAlerted, HasText, AlertsOf, RiskAlertsOf
  <2>4. /\ Unrun(c)' => Unrun(c)
        /\ Unjudged(c)' => Unjudged(c)
    BY <1>1, <2>1, <2>2 DEF Unrun, Unjudged
  <2>5. Began(c)'
    BY <1>1, <2>1, <2>2, <2>3, <2>4 DEF Began, EventPlaces, CallPlaces
  <2>6. EventStands(c)'
    BY <1>1, <2>1, <2>2, <2>3 DEF EventStands
  <2>7. CallStands(c)'
    BY <1>1, <2>1, <2>2, <2>3 DEF CallStands
  <2>. QED BY <2>5, <2>6, <2>7
<1>. QED BY <1>5, <1>6 DEF AllBegan, AllStand

-----------------------------------------------------------------------------
(* The invariant. *)

LEMMA InitInv == Init => IInv
<1>. SUFFICES ASSUME Init PROVE IInv
  OBVIOUS
<1>1. /\ NoTrace \in Rows /\ NoTrace.row = "none" /\ NoTrace.decision = None
      /\ NoRun \in Runs /\ NoRun.decision = None
      /\ Idle \in Tasks /\ Idle.at = "idle" /\ Idle.previous = 0
  BY DEF NoTrace, NoRun, Idle, Rows, Runs, Tasks, Decisions, Levels, EventPlaces, LlmResults,
         LlmStatuses, None
<1>2. Typed
  BY <1>1 DEF Init, Typed, Events, Stages, Severities
<1>3. alerts = << >> /\ segments = << >> /\ DOMAIN alerts = {} /\ DOMAIN segments = {}
      /\ latest = 0 /\ Len(segments) = 0
  BY DEF Init
<1>4. \A c \in Calls : /\ trace[c] = NoTrace /\ run[c] = NoRun /\ task[c] = Idle
                       /\ event[c].stage = "none"
  BY DEF Init
<1>5. AllBegan
  BY <1>1, <1>3, <1>4 DEF AllBegan, Began, Judged, EventPlaces, CallPlaces
<1>6. AllStand
  BY <1>1, <1>3, <1>4 DEF AllStand, EventStands, CallStands, RiskAlertsOf, AlertsOf
<1>7. Owned
  BY <1>3 DEF Owned
<1>8. Alerted = {}
  BY <1>3 DEF Alerted
<1>9. Told /\ Escalation
  BY <1>3, <1>8 DEF Told, SessionAlertKept, Escalation, EscalationAlerted
<1>10. Counts
  <2>1. \A d \in {"allow", "alert"} : RunsWith(d) = {}
    BY <1>1, <1>4 DEF RunsWith, None
  <2>2. IsFiniteSet({}) /\ Cardinality({}) = 0
    BY FS_EmptySet
  <2>3. \A c \in Calls : trace[c].row # "session"
    BY <1>1, <1>4
  <2>4. session.allow = 0 /\ session.alerts = 0
    BY DEF Init
  <2>5. CountersMatch
    BY <1>8, <2>1, <2>2, <2>3, <2>4 DEF CountersMatch
  <2>. QED BY <2>1, <2>2, <2>5 DEF Counts
<1>. QED BY <1>2, <1>5, <1>6, <1>7, <1>9, <1>10 DEF IInv

LEMMA StepInv == IInv /\ [Next]_vars => IInv'
<1>. SUFFICES ASSUME IInv, [Next]_vars PROVE IInv'
  OBVIOUS
<1>1. /\ Typed /\ AllBegan /\ AllStand
      /\ UNCHANGED <<way, input>> /\ (UNCHANGED store \/ \E c \in Calls : Stored(c))
  BY StepStores DEF IInv
\* The rows of the session.
<1>2. Owned' /\ Told' /\ Escalation' /\ Counts'
  <2>1. CASE UNCHANGED store
    <3>1. /\ UNCHANGED <<way, input, trace, run, session, segments, latest, alerts>>
          /\ Owned /\ Told /\ Escalation /\ Counts
      BY <1>1, <2>1 DEF store, IInv
    <3>. QED BY <3>1 DEF Owned, Told, SessionAlertKept, Escalation, EscalationAlerted, Counts,
           CountersMatch, RunsWith, Alerted, Before
  <2>2. CASE \E c \in Calls : Stored(c)
    BY <1>1, <2>2, OwnedAfter, ToldAfter, EscalationAfter, CountsAfter
  <2>. QED BY <1>1, <2>1, <2>2
\* The tables' types.
<1>3. /\ trace' \in [Calls -> Rows] /\ run' \in [Calls -> Runs]
      /\ session' \in [allow : Int, alerts : Int, max_risk : Severities]
      /\ segments' \in Seq(Segments) /\ latest' \in 0 .. Len(segments')
      /\ alerts' \in Seq(Alerts)
  <2>1. CASE UNCHANGED store
    BY <1>1, <2>1 DEF store, Typed
  <2>2. CASE \E c \in Calls : Stored(c)
    BY <1>1, <2>2, RowsAfter, SegmentsAfter, AlertsAfter
  <2>. QED BY <1>1, <2>1, <2>2
\* The control of the calls.
<1>4. /\ event' \in [Calls -> Events] /\ task' \in [Calls -> Tasks]
      /\ \A c \in Calls : task'[c].previous <= Len(segments')
      /\ AllBegan' /\ AllStand'
  <2>1. ASSUME NEW c \in Calls,
               Accept(c) \/ Begin(c) \/ Respond(c) \/ Step(c) \/ Retry(c) \/ Fail(c)
        PROVE  /\ UNCHANGED store \/ Stored(c)
               /\ Moved(c) /\ Began(c)' /\ EventStands(c)' /\ CallStands(c)'
    <3>1. UNCHANGED store \/ Stored(c)
      BY <1>1, <2>1, EventStores, CallStores DEF Step
    <3>. QED BY <1>1, <2>1, <3>1, RuleSteps, ReviewSteps, CallSteps, RespondSteps DEF Step
  <2>2. CASE \E c \in Calls :
               Accept(c) \/ Begin(c) \/ Respond(c) \/ Step(c) \/ Retry(c) \/ Fail(c)
    <3>1. PICK c \in Calls : /\ UNCHANGED store \/ Stored(c)
                             /\ Moved(c) /\ Began(c)' /\ EventStands(c)' /\ CallStands(c)'
      BY <2>1, <2>2
    <3>2. \A d \in Calls \ {c} : Began(d)' /\ EventStands(d)' /\ CallStands(d)'
      BY <1>1, <3>1, OthersStand DEF Moved
    <3>3. \A d \in Calls \ {c} : task'[d].previous <= Len(segments')
      BY <3>1, Lengthened DEF Moved
    <3>. QED BY <3>1, <3>2, <3>3 DEF Moved, AllBegan, AllStand
  <2>3. CASE Crash
    BY <1>1, <2>3, CrashStands DEF Crash, Typed
  <2>4. CASE UNCHANGED vars
    <3>1. UNCHANGED <<way, input, trace, run, segments, alerts, event, task>>
      BY <2>4 DEF vars
    <3>. QED BY <1>1, <3>1 DEF Typed, AllBegan, AllStand, Began, EventStands, CallStands, Unrun,
           Unjudged, Judged, Shown, WasJudged, EventAlerted, ForReviewer, HasText, Verdict,
           LlmOutcomes, RiskAlertsOf, AlertsOf
  <2>. QED BY <2>2, <2>3, <2>4 DEF Next
<1>. QED BY <1>1, <1>2, <1>3, <1>4 DEF IInv, Typed

\* In every state of every behaviour: the tables have their types, every call
\* has done what its place says, and the rows of the session agree.
THEOREM Invariant == Spec => []IInv
<1>1. Init => IInv
  BY InitInv
<1>2. IInv /\ [Next]_vars => IInv'
  BY StepInv
<1>. QED BY <1>1, <1>2, PTL DEF Spec

-----------------------------------------------------------------------------
(* The properties. *)

\* The counters of a session are exactly those of the last verdicts of its
\* traces and of its risk alerts, whatever is projected again, saved late,
\* retried or lost, and its risk is no lower than any of theirs.
THEOREM CountersExact == Spec => []CountersMatch
<1>1. IInv => CountersMatch
  BY DEF IInv, Counts
<1>. QED BY <1>1, Invariant, PTL

\* Behind the proxy a segment has an alert exactly when it raises the
\* session's risk, or changes its kind at high risk, against the one before.
THEOREM EveryEscalationAlerted == Spec => []EscalationAlerted
<1>1. IInv => EscalationAlerted
  BY DEF IInv, Escalation
<1>. QED BY <1>1, Invariant, PTL

\* The alert of a segment is its own and stays a session risk alert, but for
\* an LLM-only verdict of analyze_request.
THEOREM SessionAlertStays == Spec => []SessionAlertKept
<1>1. IInv => SessionAlertKept
  BY DEF IInv, Told
<1>. QED BY <1>1, Invariant, PTL

\* A completed event has reached its trace, its run, its alerts and, with a
\* user text, its session, over any number of crashes, failures and retries.
THEOREM CompletedIsProjected == Spec => []ProjectionComplete
<1>1. IInv => ProjectionComplete
  <2>. SUFFICES ASSUME IInv, NEW c \in Calls, event[c].stage = "completed"
                PROVE  /\ Shown(c) /\ WasJudged(c) /\ trace[c].decision = run[c].decision
    BY DEF ProjectionComplete, Shown, WasJudged, EventAlerted
  <2>1. Began(c) /\ EventStands(c)
    BY DEF IInv, AllBegan, AllStand
  <2>2. way = "event"
    BY <2>1 DEF Began
  <2>. QED BY <2>1, <2>2 DEF Began, EventStands
<1>. QED BY <1>1, Invariant, PTL

\* A call has told the session's risk twice only where another call has taken
\* one of the segments over: a call has one segment, and every risk alert that
\* stands is the alert of one.
THEOREM RetoldMoved == Spec => []RetoldOnlyIfMoved
<1>1. IInv => RetoldOnlyIfMoved
  <2>. SUFFICES ASSUME IInv, NEW c \in Calls,
                       \A k \in Alerted :
                         segments[k].alert \in RiskAlertsOf(c) => segments[k].call = c
                PROVE  ~(Cardinality(RiskAlertsOf(c)) > 1)
    BY DEF RetoldOnlyIfMoved
  <2>1. ASSUME NEW j \in RiskAlertsOf(c)
        PROVE  \E k \in DOMAIN segments : segments[k].call = c /\ segments[k].alert = j
    BY DEF IInv, Told, RiskAlertsOf, AlertsOf, Alerted
  <2>2. \A i, j \in RiskAlertsOf(c) : i = j
    BY <2>1 DEF IInv, Owned
  <2>3. CASE RiskAlertsOf(c) = {}
    BY <2>3, FS_EmptySet
  <2>4. CASE RiskAlertsOf(c) # {}
    <3>1. PICK j \in RiskAlertsOf(c) : RiskAlertsOf(c) = {j}
      BY <2>2, <2>4
    <3>2. Cardinality({j}) = 1
      BY FS_Singleton
    <3>. QED BY <3>1, <3>2
  <2>. QED BY <2>3, <2>4
<1>. QED BY <1>1, Invariant, PTL
=============================================================================
