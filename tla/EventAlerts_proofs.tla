-------------------------- MODULE EventAlerts_proofs --------------------------
(***************************************************************************)
(* Proofs about EventAlerts, for any events, envelopes and rule outcomes,  *)
(* and any number of retries, restarts and dispositions.                   *)
(*                                                                         *)
(* That an observation has one alert is not inductive by itself: AlertFor  *)
(* searches created, so the invariant says that created lists exactly the  *)
(* events that own an alert, each once.                                    *)
(***************************************************************************)
EXTENDS EventAlerts, OperatorLemmas

\* created lists the owners of the alerts.
CreatedLists == \A e \in Events : Exists(e) <=> \E i \in 1..Len(created) : created[i] = e

\* No event is listed twice.
CreatedOnce == \A i, j \in 1..Len(created) : created[i] = created[j] => i = j

\* Some alert stands for the observation of e.
Covered(e) == \E a \in Events : Exists(a) /\ Overlaps(a, e)

\* From the moment the rules are evaluated, a hit is covered.
HitsCovered ==
  \A e \in Events : stage[e] # "rule" /\ rule[e].severity # None => Covered(e)

IInv ==
  /\ TypeOK
  /\ CreatedLists
  /\ CreatedOnce
  /\ OneAlertPerObservation
  /\ HitsCovered

-----------------------------------------------------------------------------
(* The alerts table. *)

\* Overlapping is being the same observation.
LEMMA OverlapsIsEquivalence ==
  ASSUME NEW a \in Events, NEW b \in Events, NEW c \in Events
  PROVE  /\ Overlaps(a, a)
         /\ Overlaps(a, b) => Overlaps(b, a)
         /\ Overlaps(a, b) /\ Overlaps(b, c) => Overlaps(a, c)
BY DEF Overlaps

\* A row of the table is not the absence of one.
LEMMA RowIsNoAlert == NoAlert \notin AlertRows
<1>1. \A r \in AlertRows : "status" \in DOMAIN r
  BY DEF AlertRows
<1>2. "status" \notin DOMAIN NoAlert
  BY DEF NoAlert
<1>. QED BY <1>1, <1>2

\* create_event_alert finds the alert of the observation if there is one.
LEMMA AlertForFinds ==
  ASSUME TypeOK, CreatedLists, CreatedOnce, OneAlertPerObservation, NEW e \in Events
  PROVE  /\ AlertFor(e) \in Events
         /\ Covered(e) => Exists(AlertFor(e)) /\ Overlaps(AlertFor(e), e)
         /\ ~Covered(e) => AlertFor(e) = e /\ ~Exists(e)
<1>. DEFINE overlapping == {i \in 1..Len(created) : Overlaps(created[i], e)}
<1>1. \A i \in 1..Len(created) : created[i] \in Events /\ Exists(created[i])
  BY DEF TypeOK, CreatedLists
<1>2. Exists(e) => Covered(e)
  BY OverlapsIsEquivalence DEF Covered
<1>3. CASE Exists(e)
  BY <1>2, <1>3, OverlapsIsEquivalence DEF AlertFor
<1>4. CASE ~Exists(e) /\ overlapping = {}
  <2>1. AlertFor(e) = e
    BY <1>4 DEF AlertFor
  <2>2. ~Covered(e)
    BY <1>4 DEF Covered, CreatedLists
  <2>. QED BY <1>4, <2>1, <2>2
<1>5. CASE ~Exists(e) /\ overlapping # {}
  <2>1. PICK i \in overlapping : TRUE
    BY <1>5
  <2>2. \A j \in overlapping : j = i
    BY <2>1, <1>1, OverlapsIsEquivalence DEF OneAlertPerObservation, CreatedOnce
  <2>3. \E k \in overlapping : \A j \in overlapping : k <= j
    BY <2>1, <2>2
  <2>4. (CHOOSE k \in overlapping : \A j \in overlapping : k <= j) \in overlapping
    BY <2>3
  <2>5. AlertFor(e) = created[i]
    BY <1>5, <2>2, <2>4 DEF AlertFor
  <2>. QED BY <2>1, <2>5, <1>1 DEF Covered
<1>. QED BY <1>3, <1>4, <1>5

\* A step of the alerts table for e: nothing, a row over the observation's alert,
\* or a new alert of e when the observation has none.
TableStep(e) ==
  \/ UNCHANGED <<alerts, created>>
  \/ /\ Covered(e) /\ UNCHANGED created
     /\ \E row \in AlertRows : alerts' = [alerts EXCEPT ![AlertFor(e)] = row]
  \/ /\ ~Covered(e) /\ created' = Append(created, e)
     /\ \E row \in AlertRows : alerts' = [alerts EXCEPT ![e] = row]

\* create_event_alert takes a step of the table, and leaves e covered.
LEMMA CreatedSteps ==
  ASSUME IInv, NEW e \in Events, NEW row \in AlertRows, Created(e, row)
  PROVE  TableStep(e) /\ (Covered(e) => UNCHANGED <<alerts, created>>)
BY AlertForFinds DEF IInv, Created, TableStep

\* The alert of a hit is a row of the table.
LEMMA RuleAlertIsRow ==
  ASSUME NEW s \in Severities
  PROVE  RuleAlert(s) \in AlertRows
BY DEF RuleAlert, AlertRows, Statuses, LlmStatuses, Levels, None

\* A verdict that alerts is a row of the table.
LEMMA VerdictAlertIsRow ==
  ASSUME NEW r \in Levels, NEW l \in LlmResults, NEW status \in Statuses,
         aggregate_dual_channel(r, l).alert
  PROVE  VerdictAlert(aggregate_dual_channel(r, l), status) \in AlertRows
BY AggregateType, AlertingVerdict DEF VerdictAlert, AlertRows, Verdicts

\* update_event_alert takes a step of the table.
LEMMA UpdatedSteps ==
  ASSUME IInv, NEW e \in Events, NEW r \in Levels, NEW l \in LlmResults,
         Updated(e, aggregate_dual_channel(r, l))
  PROVE  TableStep(e)
<1>. DEFINE v == aggregate_dual_channel(r, l)
            a == AlertFor(e)
            status == IF Exists(a) THEN alerts[a].status ELSE "open"
<1>1. CASE ~v.alert
  BY <1>1 DEF Updated, TableStep
<1>2. CASE v.alert
  <2>1. a \in Events /\ (Exists(a) <=> Covered(e)) /\ (~Covered(e) => a = e)
    BY AlertForFinds DEF IInv
  <2>2. status \in Statuses
    BY <2>1 DEF IInv, TypeOK, AlertRows, Exists, Statuses
  <2>3. VerdictAlert(v, status) \in AlertRows
    BY <1>2, <2>2, VerdictAlertIsRow
  <2>4. /\ alerts' = [alerts EXCEPT ![a] = VerdictAlert(v, status)]
        /\ created' = IF Exists(a) THEN created ELSE Append(created, e)
    BY <1>2 DEF Updated
  <2>. QED BY <2>1, <2>3, <2>4 DEF TableStep
<1>. QED BY <1>1, <1>2

\* A step of the table keeps what the invariant says of it, and uncovers nothing.
LEMMA TableKept ==
  ASSUME IInv, NEW e \in Events, TableStep(e), UNCHANGED envelope
  PROVE  /\ alerts' \in [Events -> AlertRows \cup {NoAlert}]
         /\ created' \in Seq(Events)
         /\ CreatedLists' /\ CreatedOnce' /\ OneAlertPerObservation'
         /\ \A a \in Events : Covered(a) => Covered(a)'
         /\ \A a \in Events : Exists(a) => Exists(a)'
<1>0. alerts \in [Events -> AlertRows \cup {NoAlert}] /\ created \in Seq(Events)
  BY DEF IInv, TypeOK
<1>1. \A a, b \in Events : Overlaps(a, b)' <=> Overlaps(a, b)
  BY DEF Overlaps, BodyHash
<1>2. CASE UNCHANGED <<alerts, created>>
  BY <1>0, <1>1, <1>2 DEF IInv, CreatedLists, CreatedOnce, OneAlertPerObservation, Covered, Exists
<1>3. ASSUME Covered(e), UNCHANGED created, NEW row \in AlertRows,
             alerts' = [alerts EXCEPT ![AlertFor(e)] = row]
      PROVE  /\ alerts' \in [Events -> AlertRows \cup {NoAlert}]
             /\ \A a \in Events : Exists(a)' <=> Exists(a)
  BY <1>0, <1>3, AlertForFinds, RowIsNoAlert DEF IInv, Exists
<1>4. ASSUME ~Covered(e), created' = Append(created, e), NEW row \in AlertRows,
             alerts' = [alerts EXCEPT ![e] = row]
      PROVE  /\ alerts' \in [Events -> AlertRows \cup {NoAlert}]
             /\ created' \in Seq(Events)
             /\ \A a \in Events : Exists(a)' <=> Exists(a) \/ a = e
             /\ CreatedLists' /\ CreatedOnce' /\ OneAlertPerObservation'
  <2>1. alerts' \in [Events -> AlertRows \cup {NoAlert}] /\ created' \in Seq(Events)
    BY <1>0, <1>4
  <2>2. \A a \in Events : Exists(a)' <=> Exists(a) \/ a = e
    BY <1>0, <1>4, RowIsNoAlert DEF Exists
  <2>3. /\ Len(created') = Len(created) + 1 /\ Len(created) \in Nat
        /\ \A i \in 1..Len(created) : created'[i] = created[i]
        /\ created'[Len(created) + 1] = e
    BY <1>0, <1>4
  <2>4. \A i \in 1..Len(created) : created[i] # e
    BY <1>4, AlertForFinds DEF IInv, CreatedLists
  <2>5. CreatedLists'
    <3>. SUFFICES ASSUME NEW a \in Events
                 PROVE  Exists(a)' <=> \E i \in 1..Len(created') : created'[i] = a
      BY DEF CreatedLists
    <3>1. Exists(a) <=> \E i \in 1..Len(created) : created[i] = a
      BY DEF IInv, CreatedLists
    <3>2. (\E i \in 1..Len(created') : created'[i] = a)
            <=> (\E i \in 1..Len(created) : created[i] = a) \/ a = e
      BY <2>3
    <3>. QED BY <2>2, <3>1, <3>2
  <2>6. CreatedOnce'
    BY <2>3, <2>4 DEF IInv, CreatedOnce
  <2>7. OneAlertPerObservation'
    BY <1>1, <1>4, <2>2, OverlapsIsEquivalence DEF IInv, OneAlertPerObservation, Covered
  <2>. QED BY <2>1, <2>2, <2>5, <2>6, <2>7
<1>5. CASE Covered(e) /\ UNCHANGED created
           /\ \E row \in AlertRows : alerts' = [alerts EXCEPT ![AlertFor(e)] = row]
  BY <1>0, <1>1, <1>3, <1>5
  DEF IInv, CreatedLists, CreatedOnce, OneAlertPerObservation, Covered
<1>6. CASE ~Covered(e) /\ created' = Append(created, e)
           /\ \E row \in AlertRows : alerts' = [alerts EXCEPT ![e] = row]
  BY <1>1, <1>4, <1>6 DEF Covered
<1>. QED BY <1>2, <1>5, <1>6 DEF TableStep

-----------------------------------------------------------------------------
(* The invariant. *)

LEMMA InitEstablishes == Init => IInv
BY DEF Init, IInv, TypeOK, CreatedLists, CreatedOnce, OneAlertPerObservation, HitsCovered,
       Exists, Stages, RuleResults, Unruled, Pending, LlmResult, LlmResults, LlmStatuses, Levels, None

\* The rest of an action: where the events are does not uncover a hit.
LEMMA StepKept ==
  ASSUME IInv, NEW e \in Events, TableStep(e), UNCHANGED envelope,
         NEW s \in Stages, stage' = [stage EXCEPT ![e] = s],
         NEW r \in RuleResults, rule' = [rule EXCEPT ![e] = r],
         NEW l \in LlmResults, llm' = [llm EXCEPT ![e] = l],
         s # "rule" /\ r.severity # None => Covered(e)'
  PROVE  IInv'
<1>1. TypeOK'
  BY TableKept DEF IInv, TypeOK
<1>2. HitsCovered'
  BY TableKept DEF IInv, TypeOK, HitsCovered
<1>. QED BY <1>1, <1>2, TableKept DEF IInv

\* What is said of an event between its commits is of its type.
LEMMA EventTypes ==
  ASSUME TypeOK, NEW e \in Events
  PROVE  /\ rule[e] \in RuleResults /\ llm[e] \in LlmResults
         /\ rule = [rule EXCEPT ![e] = rule[e]]
         /\ llm = [llm EXCEPT ![e] = llm[e]]
BY DEF TypeOK

LEMMA EvaluateRuleKeeps ==
  ASSUME IInv, NEW e \in Events, EvaluateRule(e)
  PROVE  IInv'
<1>1. PICK r \in RuleOutcomes[e] :
        /\ rule' = [rule EXCEPT ![e] = r]
        /\ IF r.severity # None THEN Created(e, RuleAlert(r.severity))
                                ELSE UNCHANGED <<alerts, created>>
  BY DEF EvaluateRule
<1>2. stage' = [stage EXCEPT ![e] = "alerted"] /\ UNCHANGED <<envelope, llm>>
  BY DEF EvaluateRule, Goto
<1>3. r \in RuleResults
  BY OutcomesAssumption
<1>4. CASE r.severity = None
  BY <1>1, <1>2, <1>3, <1>4, StepKept, EventTypes DEF IInv, TableStep, Stages
<1>5. CASE r.severity # None
  <2>1. RuleAlert(r.severity) \in AlertRows
    BY <1>3, <1>5, RuleAlertIsRow DEF RuleResults, Levels
  <2>2. TableStep(e) /\ Created(e, RuleAlert(r.severity))
    BY <1>1, <1>5, <2>1, CreatedSteps
  <2>3. Covered(e)'
    <3>1. CASE Covered(e)
      BY <1>2, <2>2, <3>1, TableKept
    <3>2. CASE ~Covered(e)
      <4>1. alerts' = [alerts EXCEPT ![e] = RuleAlert(r.severity)]
        BY <2>2, <3>2, AlertForFinds DEF IInv, Created
      <4>2. Exists(e)'
        BY <4>1, <2>1, RowIsNoAlert DEF Exists, IInv, TypeOK
      <4>. QED BY <4>2 DEF Covered, Overlaps
    <3>. QED BY <3>1, <3>2
  <2>. QED BY <1>1, <1>2, <1>3, <2>2, <2>3, StepKept, EventTypes DEF IInv, Stages
<1>. QED BY <1>4, <1>5

LEMMA ReviewKeeps ==
  ASSUME IInv, NEW e \in Events, Review(e)
  PROVE  IInv'
<1>1. PICK l \in ReviewOutcomes :
        /\ llm' = [llm EXCEPT ![e] = l]
        /\ Updated(e, aggregate_dual_channel(rule[e].severity, l))
  BY DEF Review
<1>2. stage[e] = "review" /\ stage' = [stage EXCEPT ![e] = "updated"] /\ UNCHANGED <<envelope, rule>>
  BY DEF Review, Goto
<1>3. l \in LlmResults /\ rule[e].severity \in Levels
  BY EventTypes DEF ReviewOutcomes, IInv, RuleResults
<1>4. TableStep(e)
  BY <1>1, <1>3, UpdatedSteps
<1>5. rule[e].severity # None => Covered(e)'
  BY <1>2, <1>4, TableKept DEF IInv, HitsCovered
<1>. QED BY <1>1, <1>2, <1>3, <1>4, <1>5, StepKept, EventTypes DEF IInv, Stages

\* The commits that leave the table alone.
LEMMA CommitsKeep ==
  ASSUME IInv, NEW e \in Events,
         CommitRule(e) \/ CommitReview(e) \/ Retry(e) \/ Rerun(e)
  PROVE  IInv'
<1>1. PICK s \in Stages : stage' = [stage EXCEPT ![e] = s]
  BY DEF IInv, TypeOK, CommitRule, CommitReview, Retry, Rerun, Goto, Stages
<1>2. PICK l \in LlmResults : llm' = [llm EXCEPT ![e] = l]
  <2>1. Pending \in LlmResults /\ LlmResult("not_needed", None, None) \in LlmResults
    BY DEF Pending, LlmResults, LlmStatuses
  <2>. QED BY <2>1, EventTypes DEF IInv, CommitRule, CommitReview, Retry, Rerun
<1>3. UNCHANGED <<envelope, alerts, created, rule>> /\ stage[e] # "rule"
  BY DEF CommitRule, CommitReview, Retry, Rerun
<1>4. rule[e].severity # None => Covered(e)'
  BY <1>3 DEF IInv, HitsCovered, Covered, Exists, Overlaps, BodyHash
<1>5. TableStep(e) /\ rule[e] \in RuleResults /\ rule' = [rule EXCEPT ![e] = rule[e]]
  BY <1>3, EventTypes DEF IInv, TableStep
<1>. QED BY <1>1, <1>2, <1>3, <1>4, <1>5, StepKept

LEMMA OperateKeeps ==
  ASSUME IInv, NEW e \in Events, Operate(e)
  PROVE  IInv'
<1>1. PICK s \in Statuses : alerts' = [alerts EXCEPT ![e].status = s]
  BY DEF Operate
<1>2. UNCHANGED <<envelope, created, stage, rule, llm>> /\ Exists(e) /\ alerts[e] \in AlertRows
  BY DEF Operate, IInv, TypeOK, Exists
<1>3. [alerts[e] EXCEPT !.status = s] \in AlertRows
  BY <1>2 DEF AlertRows
<1>4. alerts' \in [Events -> AlertRows \cup {NoAlert}] /\ \A a \in Events : Exists(a)' <=> Exists(a)
  BY <1>1, <1>2, <1>3, RowIsNoAlert DEF IInv, TypeOK, Exists
<1>. QED BY <1>2, <1>4
     DEF IInv, TypeOK, CreatedLists, CreatedOnce, OneAlertPerObservation, HitsCovered,
         Covered, Overlaps, BodyHash

LEMMA StepKeeps == IInv /\ [Next]_vars => IInv'
<1>. SUFFICES ASSUME IInv, [Next]_vars PROVE IInv'
  OBVIOUS
<1>1. ASSUME NEW e \in Events, Work(e) PROVE IInv'
  BY <1>1, EvaluateRuleKeeps, ReviewKeeps, CommitsKeep DEF Work
<1>2. CASE UNCHANGED vars
  BY <1>2 DEF vars, IInv, TypeOK, CreatedLists, CreatedOnce, OneAlertPerObservation, HitsCovered,
              Covered, Exists, Overlaps, BodyHash
<1>. QED BY <1>1, <1>2, OperateKeeps DEF Next

LEMMA Invariance == Spec => []IInv
BY InitEstablishes, StepKeeps, PTL DEF Spec

\* The tables keep their types.
THEOREM TypeCorrect == Spec => []TypeOK
<1>1. IInv => TypeOK
  BY DEF IInv
<1>. QED BY <1>1, Invariance, PTL

\* A committed hit has exactly one alert that stands for its observation, through
\* retries, restarts, changed policies and overlapping events.
\* (create_event_alert, update_event_alert)
THEOREM AlertedOnce == Spec => []HitsAlertedOnce
<1>1. IInv => HitsAlertedOnce
  <2>. SUFFICES ASSUME IInv PROVE CommittedHitAlerted
    BY DEF IInv, HitsAlertedOnce
  <2>. QED BY AlertForFinds DEF IInv, HitsCovered, CommittedHitAlerted
<1>. QED BY <1>1, Invariance, PTL

\* No stage removes an alert or touches an operator's disposition of it.
\* (update_event_alert, update_alert)
THEOREM DispositionsKept == Spec => DispositionKept
<1>1. ASSUME IInv, NEW e \in Events, Work(e), NEW a \in Events, Exists(a)
      PROVE  alerts'[a] # NoAlert /\ alerts'[a].status = alerts[a].status
  <2>1. alerts \in [Events -> AlertRows \cup {NoAlert}] /\ alerts[a] \in AlertRows
    BY <1>1 DEF IInv, TypeOK, Exists
  <2>2. AlertFor(e) \in Events /\ (~Exists(AlertFor(e)) => AlertFor(e) = e)
    BY <1>1, AlertForFinds DEF IInv
  <2>3. CASE EvaluateRule(e)
    <3>1. UNCHANGED alerts \/ (~Exists(e) /\ \E row : alerts' = [alerts EXCEPT ![e] = row])
      BY <2>2, <2>3 DEF EvaluateRule, Created
    <3>. QED BY <1>1, <2>1, <3>1 DEF Exists
  <2>4. CASE Review(e)
    <3>1. PICK l \in ReviewOutcomes : Updated(e, aggregate_dual_channel(rule[e].severity, l))
      BY <2>4 DEF Review
    <3>. DEFINE v == aggregate_dual_channel(rule[e].severity, l)
                status == IF Exists(AlertFor(e)) THEN alerts[AlertFor(e)].status ELSE "open"
    <3>2. UNCHANGED alerts \/ alerts' = [alerts EXCEPT ![AlertFor(e)] = VerdictAlert(v, status)]
      BY <3>1 DEF Updated
    <3>3. VerdictAlert(v, status) # NoAlert /\ VerdictAlert(v, status).status = status
      <4>1. "status" \in DOMAIN VerdictAlert(v, status) /\ "status" \notin DOMAIN NoAlert
        BY DEF VerdictAlert, NoAlert
      <4>. QED BY <4>1 DEF VerdictAlert
    <3>. HIDE DEF v
    <3>. QED BY <1>1, <2>1, <2>2, <3>2, <3>3 DEF Exists
  <2>5. CASE UNCHANGED alerts
    BY <1>1, <2>5 DEF Exists
  <2>. QED BY <1>1, <2>3, <2>4, <2>5 DEF Work, CommitRule, CommitReview, Retry, Rerun
<1>2. IInv /\ [Next]_vars =>
        [(\E e \in Events : Work(e)) =>
           \A a \in Events :
             Exists(a) => alerts'[a] # NoAlert /\ alerts'[a].status = alerts[a].status]_vars
  BY <1>1
<1>. QED BY <1>2, Invariance, PTL DEF Spec, DispositionKept

-----------------------------------------------------------------------------
(* The verdict an alert shows. *)

\* The alert of e shows the verdict of e.
Shows(e) ==
  LET a == alerts[e]
      v == FinalVerdict(e)
  IN /\ a.severity = v.severity
     /\ a.rule_severity = v.rule_severity
     /\ a.review_status = v.review_status
     /\ a.divergence = v.divergence
     /\ a.hit_source = v.hit_source

\* From the moment its review is written, the alert of an event that is Alone
\* shows its verdict, and a hit is not finished without a review.
VerdictShown ==
  \A e \in Events :
    stage[e] \in {"updated", "failed", "done"} /\ FinalVerdict(e).alert /\ Alone(e)
      => Exists(e) /\ Shows(e)

HitsReviewed == \A e \in Events : rule[e].severity # None => rule[e].needs_llm_review

\* Nobody but an event that is Alone touches its alert.
LEMMA AloneIsLeft ==
  ASSUME IInv, NEW b \in Events, TableStep(b), NEW e \in Events, e # b, Alone(e)
  PROVE  alerts'[e] = alerts[e]
<1>1. Covered(b) => AlertFor(b) # e
  BY AlertForFinds, OverlapsIsEquivalence DEF IInv, Alone
<1>. QED BY <1>1 DEF TableStep, IInv, TypeOK

\* What the review of an event that is Alone writes is shown.
LEMMA ReviewShows ==
  ASSUME IInv, NEW e \in Events, Review(e), FinalVerdict(e)'.alert, Alone(e)'
  PROVE  Exists(e)' /\ Shows(e)'
<1>1. PICK l \in ReviewOutcomes :
        /\ llm' = [llm EXCEPT ![e] = l]
        /\ Updated(e, aggregate_dual_channel(rule[e].severity, l))
  BY DEF Review
<1>. DEFINE v == aggregate_dual_channel(rule[e].severity, l)
<1>2. UNCHANGED <<envelope, rule>> /\ llm'[e] = l
  BY <1>1 DEF Review, IInv, TypeOK
<1>3. FinalVerdict(e)' = v /\ v.alert
  BY <1>2 DEF FinalVerdict
<1>4. AlertFor(e) = e
  <2>1. Alone(e)
    BY <1>2 DEF Alone, Overlaps, BodyHash
  <2>. QED BY <2>1, AlertForFinds DEF IInv, Alone
<1>5. PICK status : alerts' = [alerts EXCEPT ![e] = VerdictAlert(v, status)]
  BY <1>1, <1>3, <1>4 DEF Updated
<1>6. alerts'[e] = VerdictAlert(v, status)
  BY <1>5 DEF IInv, TypeOK
<1>7. VerdictAlert(v, status) # NoAlert
  <2>1. "status" \in DOMAIN VerdictAlert(v, status) /\ "status" \notin DOMAIN NoAlert
    BY DEF VerdictAlert, NoAlert
  <2>. QED BY <2>1
<1>. HIDE DEF v
<1>. QED BY <1>3, <1>6, <1>7 DEF Exists, Shows, VerdictAlert

LEMMA WorkShows ==
  ASSUME IInv, HitsReviewed, VerdictShown, NEW b \in Events, Work(b)
  PROVE  VerdictShown'
<1>. SUFFICES ASSUME NEW e \in Events, stage'[e] \in {"updated", "failed", "done"},
                     FinalVerdict(e)'.alert, Alone(e)'
             PROVE  Exists(e)' /\ Shows(e)'
  BY DEF VerdictShown
<1>1. UNCHANGED envelope /\ Alone(e)
  BY DEF Work, EvaluateRule, CommitRule, Review, CommitReview, Retry, Rerun, Alone, Overlaps, BodyHash
<1>2. CASE e # b
  <2>1. alerts'[e] = alerts[e]
    <3>1. CASE EvaluateRule(b)
      <4>1. PICK r \in RuleOutcomes[b] :
              IF r.severity # None THEN Created(b, RuleAlert(r.severity))
                                   ELSE UNCHANGED <<alerts, created>>
        BY <3>1 DEF EvaluateRule
      <4>2. r.severity # None => RuleAlert(r.severity) \in AlertRows
        BY OutcomesAssumption, RuleAlertIsRow DEF RuleResults, Levels
      <4>3. TableStep(b)
        BY <4>1, <4>2, CreatedSteps DEF TableStep
      <4>. QED BY <1>1, <1>2, <4>3, AloneIsLeft
    <3>2. CASE Review(b)
      <4>1. PICK l \in ReviewOutcomes : Updated(b, aggregate_dual_channel(rule[b].severity, l))
        BY <3>2 DEF Review
      <4>2. TableStep(b)
        BY <4>1, EventTypes, UpdatedSteps DEF ReviewOutcomes, IInv, RuleResults
      <4>. QED BY <1>1, <1>2, <4>2, AloneIsLeft
    <3>. QED BY <3>1, <3>2 DEF Work, CommitRule, CommitReview, Retry, Rerun
  <2>2. stage'[e] = stage[e] /\ rule'[e] = rule[e] /\ llm'[e] = llm[e]
    BY <1>2 DEF Work, EvaluateRule, CommitRule, Review, CommitReview, Retry, Rerun, Goto, IInv, TypeOK
  <2>. QED BY <1>1, <2>1, <2>2 DEF VerdictShown, FinalVerdict, Exists, Shows
<1>3. CASE e = b
  <2>1. CASE Review(e)
    BY <2>1, ReviewShows
  <2>2. CASE CommitReview(e)
    <3>1. stage[e] = "updated" /\ UNCHANGED <<alerts, rule, llm>>
      BY <2>2 DEF CommitReview
    <3>. QED BY <1>1, <3>1 DEF VerdictShown, FinalVerdict, Exists, Shows
  <2>3. CASE CommitRule(e)
    <3>1. ~rule[e].needs_llm_review /\ rule'[e].severity = None
      BY <2>3 DEF CommitRule, Goto, IInv, TypeOK, HitsReviewed
    <3>2. llm'[e] = LlmResult("not_needed", None, None)
      BY <2>3, <3>1 DEF CommitRule, IInv, TypeOK
    <3>3. FinalVerdict(e)' = aggregate_dual_channel(None, LlmResult("not_needed", None, None))
      BY <3>1, <3>2 DEF FinalVerdict
    <3>4. ~aggregate_dual_channel(None, LlmResult("not_needed", None, None)).alert
      BY DEF aggregate_dual_channel, AggregateMiss, Confirmed, LlmResult
    <3>. QED BY <3>3, <3>4
  <2>4. CASE EvaluateRule(e) \/ Retry(e) \/ Rerun(e)
    BY <2>4 DEF EvaluateRule, Retry, Rerun, Goto, IInv, TypeOK
  <2>. QED BY <1>3, <2>1, <2>2, <2>3, <2>4 DEF Work
<1>. QED BY <1>2, <1>3

LEMMA OperateShows ==
  ASSUME IInv, VerdictShown, NEW a \in Events, Operate(a)
  PROVE  VerdictShown'
<1>1. PICK s \in Statuses : alerts' = [alerts EXCEPT ![a].status = s]
  BY DEF Operate
<1>2. UNCHANGED <<envelope, stage, rule, llm>> /\ alerts[a] \in AlertRows
  BY DEF Operate, IInv, TypeOK, Exists
<1>3. \A e \in Events :
        /\ Exists(e) => Exists(e)'
        /\ Exists(e) => /\ alerts'[e].severity = alerts[e].severity
                        /\ alerts'[e].rule_severity = alerts[e].rule_severity
                        /\ alerts'[e].review_status = alerts[e].review_status
                        /\ alerts'[e].divergence = alerts[e].divergence
                        /\ alerts'[e].hit_source = alerts[e].hit_source
  <2>1. [alerts[a] EXCEPT !.status = s] \in AlertRows
    BY <1>2 DEF AlertRows
  <2>. QED BY <1>1, <1>2, <2>1, RowIsNoAlert DEF Exists, IInv, TypeOK, AlertRows
<1>. QED BY <1>2, <1>3 DEF VerdictShown, FinalVerdict, Shows, Alone, Overlaps, BodyHash

LEMMA ReviewedKept == TypeOK /\ HitsReviewed /\ [Next]_vars => HitsReviewed'
<1>. SUFFICES ASSUME TypeOK, HitsReviewed, [Next]_vars PROVE HitsReviewed'
  OBVIOUS
<1>1. ASSUME NEW e \in Events, EvaluateRule(e) PROVE HitsReviewed'
  BY <1>1, OutcomesAssumption DEF EvaluateRule, TypeOK, HitsReviewed
<1>2. CASE UNCHANGED rule
  BY <1>2 DEF HitsReviewed
<1>. QED BY <1>1, <1>2
     DEF Next, Work, CommitRule, Review, CommitReview, Retry, Rerun, Operate, vars

\* The alert of a finished event that shares its observation with no other shows
\* that event's own verdict, never one pieced together from several attempts.
\* (update_event_alert)
THEOREM VerdictsShown == Spec => []AlertIsOwnVerdict
<1>1. Init => HitsReviewed /\ VerdictShown
  BY DEF Init, HitsReviewed, VerdictShown, Unruled
<1>2. IInv /\ HitsReviewed /\ VerdictShown /\ [Next]_vars => VerdictShown'
  <2>. SUFFICES ASSUME IInv, HitsReviewed, VerdictShown, [Next]_vars PROVE VerdictShown'
    OBVIOUS
  <2>1. CASE UNCHANGED vars
    BY <2>1 DEF vars, VerdictShown, FinalVerdict, Exists, Shows, Alone, Overlaps, BodyHash
  <2>. QED BY <2>1, WorkShows, OperateShows DEF Next
<1>3. IInv => TypeOK
  BY DEF IInv
<1>4. VerdictShown => AlertIsOwnVerdict
  BY DEF VerdictShown, AlertIsOwnVerdict, Shows
<1>. QED BY <1>1, <1>2, <1>3, <1>4, ReviewedKept, Invariance, PTL DEF Spec

-----------------------------------------------------------------------------
(* No alert is left waiting. *)

\* The rules of e find the same in every attempt.
Fixed(e) == \A r, s \in RuleOutcomes[e] : r = s

\* A result between the commits is one the rules gave.
RuleIsOutcome == \A e \in Events : stage[e] # "rule" => rule[e] \in RuleOutcomes[e]

\* An alert that waits for a review belongs to a hit whose review is to come.
WaitingIsDue ==
  \A e \in Events :
    Exists(e) /\ alerts[e].review_status = "pending" /\ Fixed(e) =>
      /\ stage[e] \in {"rule", "alerted", "review"}
      /\ \A r \in RuleOutcomes[e] : r.severity # None

\* A verdict of a review does not wait for one.
LEMMA ReviewIsFinal ==
  ASSUME NEW r \in Levels, NEW l \in ReviewOutcomes
  PROVE  aggregate_dual_channel(r, l).review_status # "pending"
<1>1. l \in LlmResults /\ l.status \in {"completed", "failed"}
  BY DEF ReviewOutcomes
<1>2. HitReviewStatus(l) # "pending"
  BY <1>1 DEF HitReviewStatus
<1>3. AggregateMiss(l).review_status # "pending"
  BY <1>1 DEF AggregateMiss
<1>. QED BY <1>2, <1>3 DEF aggregate_dual_channel, AggregateHit

LEMMA ReviewLeavesNoneWaiting ==
  ASSUME IInv, RuleIsOutcome, WaitingIsDue, NEW b \in Events, Review(b)
  PROVE  WaitingIsDue'
<1>1. PICK l \in ReviewOutcomes : Updated(b, aggregate_dual_channel(rule[b].severity, l))
  BY DEF Review
<1>. DEFINE v == aggregate_dual_channel(rule[b].severity, l)
            status == IF Exists(AlertFor(b)) THEN alerts[AlertFor(b)].status ELSE "open"
<1>2. /\ v.review_status # "pending"
      /\ ~v.alert => rule[b].severity = None
  BY EventTypes, ReviewIsFinal, AlertingVerdict DEF IInv, RuleResults, ReviewOutcomes
<1>3. \/ ~v.alert /\ UNCHANGED alerts
      \/ v.alert /\ alerts' = [alerts EXCEPT ![AlertFor(b)] = VerdictAlert(v, status)]
  BY <1>1 DEF Updated
<1>4. VerdictAlert(v, status).review_status # "pending"
  BY <1>2 DEF VerdictAlert
<1>. HIDE DEF v, status
<1>. SUFFICES ASSUME NEW e \in Events, Exists(e)', alerts'[e].review_status = "pending", Fixed(e)
             PROVE  /\ stage'[e] \in {"rule", "alerted", "review"}
                    /\ \A r \in RuleOutcomes[e] : r.severity # None
  BY DEF WaitingIsDue, Fixed
<1>5. alerts'[e] = alerts[e]
  BY <1>3, <1>4 DEF IInv, TypeOK
<1>6. \A r \in RuleOutcomes[e] : r.severity # None
  BY <1>5 DEF WaitingIsDue, Exists
<1>7. e # b
  <2>. SUFFICES ASSUME e = b PROVE FALSE
    OBVIOUS
  <2>1. rule[b] \in RuleOutcomes[b]
    BY DEF Review, RuleIsOutcome
  <2>2. AlertFor(b) = b
    BY <1>5 DEF AlertFor, Exists
  <2>. QED BY <1>2, <1>3, <1>4, <1>6, <2>1, <2>2 DEF IInv, TypeOK
<1>8. stage'[e] = stage[e]
  BY <1>7 DEF Review, Goto, IInv, TypeOK
<1>. QED BY <1>5, <1>6, <1>8 DEF WaitingIsDue, Exists

LEMMA EvaluateRuleIsDue ==
  ASSUME IInv, WaitingIsDue, NEW b \in Events, EvaluateRule(b)
  PROVE  WaitingIsDue'
<1>1. PICK r \in RuleOutcomes[b] :
        IF r.severity # None THEN Created(b, RuleAlert(r.severity))
                             ELSE UNCHANGED <<alerts, created>>
  BY DEF EvaluateRule
<1>2. stage' = [stage EXCEPT ![b] = "alerted"] /\ stage[b] = "rule"
  BY DEF EvaluateRule, Goto
<1>3. \/ UNCHANGED alerts
      \/ r.severity # None /\ \E row : alerts' = [alerts EXCEPT ![b] = row]
  BY <1>1 DEF Created
<1>. SUFFICES ASSUME NEW e \in Events, Exists(e)', alerts'[e].review_status = "pending", Fixed(e)
             PROVE  /\ stage'[e] \in {"rule", "alerted", "review"}
                    /\ \A s \in RuleOutcomes[e] : s.severity # None
  BY DEF WaitingIsDue, Fixed
<1>4. CASE alerts'[e] = alerts[e]
  BY <1>2, <1>4 DEF WaitingIsDue, Exists, IInv, TypeOK
<1>5. CASE alerts'[e] # alerts[e]
  BY <1>2, <1>3, <1>5 DEF Fixed, IInv, TypeOK
<1>. QED BY <1>4, <1>5

LEMMA CommitsAreDue ==
  ASSUME IInv, RuleIsOutcome, HitsReviewed, WaitingIsDue, NEW b \in Events,
         CommitRule(b) \/ CommitReview(b) \/ Retry(b) \/ Rerun(b)
  PROVE  WaitingIsDue'
<1>. SUFFICES ASSUME NEW e \in Events, Exists(e)', alerts'[e].review_status = "pending", Fixed(e)
             PROVE  /\ stage'[e] \in {"rule", "alerted", "review"}
                    /\ \A s \in RuleOutcomes[e] : s.severity # None
  BY DEF WaitingIsDue, Fixed
<1>1. alerts'[e] = alerts[e]
  BY DEF CommitRule, CommitReview, Retry, Rerun
<1>2. /\ stage[e] \in {"rule", "alerted", "review"}
      /\ \A s \in RuleOutcomes[e] : s.severity # None
  BY <1>1 DEF WaitingIsDue, Exists
<1>3. stage[e] = "alerted" => rule[e].needs_llm_review
  BY <1>2 DEF RuleIsOutcome, HitsReviewed
<1>. QED BY <1>2, <1>3 DEF CommitRule, CommitReview, Retry, Rerun, Goto, IInv, TypeOK

LEMMA OperateIsDue ==
  ASSUME IInv, WaitingIsDue, NEW a \in Events, Operate(a)
  PROVE  WaitingIsDue'
<1>1. PICK s \in Statuses : alerts' = [alerts EXCEPT ![a].status = s]
  BY DEF Operate
<1>2. UNCHANGED stage /\ Exists(a) /\ alerts[a] \in AlertRows
  BY DEF Operate, IInv, TypeOK, Exists
<1>3. \A e \in Events : Exists(e)' => Exists(e) /\ alerts'[e].review_status = alerts[e].review_status
  BY <1>1, <1>2 DEF Exists, IInv, TypeOK, AlertRows
<1>. QED BY <1>2, <1>3 DEF WaitingIsDue, Fixed

LEMMA OutcomeKept == TypeOK /\ RuleIsOutcome /\ [Next]_vars => RuleIsOutcome'
<1>. SUFFICES ASSUME TypeOK, RuleIsOutcome, [Next]_vars PROVE RuleIsOutcome'
  OBVIOUS
<1>1. ASSUME NEW e \in Events, Work(e) PROVE RuleIsOutcome'
  BY <1>1 DEF Work, EvaluateRule, CommitRule, Review, CommitReview, Retry, Rerun, Goto,
              TypeOK, RuleIsOutcome
<1>2. CASE UNCHANGED <<stage, rule>>
  BY <1>2 DEF RuleIsOutcome
<1>. QED BY <1>1, <1>2 DEF Next, Operate, vars

\* An event whose rules find the same in every attempt leaves no alert of its own
\* that waits for a review.  (update_event_alert, _process_reviewer_event)
THEOREM NoneLeftWaiting == Spec => []DoneReviewed
<1>1. Init => RuleIsOutcome /\ WaitingIsDue /\ HitsReviewed
  BY DEF Init, RuleIsOutcome, WaitingIsDue, HitsReviewed, Exists, Unruled
<1>2. IInv /\ RuleIsOutcome /\ HitsReviewed /\ WaitingIsDue /\ [Next]_vars => WaitingIsDue'
  <2>. SUFFICES ASSUME IInv, RuleIsOutcome, HitsReviewed, WaitingIsDue, [Next]_vars
               PROVE  WaitingIsDue'
    OBVIOUS
  <2>1. CASE UNCHANGED vars
    BY <2>1 DEF vars, WaitingIsDue, Exists, Fixed
  <2>. QED BY <2>1, ReviewLeavesNoneWaiting, EvaluateRuleIsDue, CommitsAreDue, OperateIsDue
       DEF Next, Work
<1>3. IInv => TypeOK
  BY DEF IInv
<1>4. WaitingIsDue => DoneReviewed
  BY DEF WaitingIsDue, DoneReviewed, Fixed
<1>. QED BY <1>1, <1>2, <1>3, <1>4, OutcomeKept, ReviewedKept, Invariance, PTL DEF Spec
===============================================================================
