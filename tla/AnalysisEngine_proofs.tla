------------------------ MODULE AnalysisEngine_proofs ------------------------
(***************************************************************************)
(* Proofs about the verdict of one request (AnalysisEngine), for every     *)
(* finding, policy, reviewer set and reviewer answer: the machine's        *)
(* verdict is the aggregation OperatorLemmas is about, and hard data       *)
(* alerts.                                                                 *)
(***************************************************************************)
EXTENDS AnalysisEngine, OperatorLemmas

-----------------------------------------------------------------------------
(* The rule channel. *)

\* A set of levels has a highest one.
LEMMA HighestIsUpperBound ==
  ASSUME NEW S \in SUBSET Levels, S # {}
  PROVE  Highest(S) \in S /\ \A t \in S : AtLeast(Highest(S), t)
<1>1. \E s \in S : \A t \in S : AtLeast(s, t)
  <2>1. CASE "critical" \in S
    BY <2>1, OrderValues DEF AtLeast, Levels, Severities, None
  <2>2. CASE "critical" \notin S /\ "high" \in S
    BY <2>2, OrderValues DEF AtLeast, Levels, Severities, None
  <2>3. CASE "critical" \notin S /\ "high" \notin S /\ "medium" \in S
    BY <2>3, OrderValues DEF AtLeast, Levels, Severities, None
  <2>4. CASE S \cap {"critical", "high", "medium"} = {} /\ "low" \in S
    BY <2>4, OrderValues DEF AtLeast, Levels, Severities, None
  <2>5. CASE S \cap {"critical", "high", "medium", "low"} = {}
    <3>1. S = {"none"}
      BY <2>5 DEF Levels, Severities, None
    <3>. QED BY <3>1, OrderValues DEF AtLeast
  <2>. QED BY <2>1, <2>2, <2>3, <2>4, <2>5
<1>. QED BY <1>1 DEF Highest

\* The rule channel returns a result of the declared type, whose level is at
\* least that of the built-in rule.
LEMMA RuleChannel ==
  ASSUME NEW q \in Requests
  PROVE  /\ evaluate_rule_channel(q) \in RuleResults
         /\ AtLeast(evaluate_rule_channel(q).severity, BuiltinSeverity(q))
<1>. DEFINE matched == {p \in q.policies : PolicyMatches(p, q)}
            levels  == {BuiltinSeverity(q)} \cup {PolicySeverity(p) : p \in matched}
<1>1. BuiltinSeverity(q) \in Levels
  BY DEF BuiltinSeverity, Levels, Severities, None
<1>2. \A p \in matched : PolicySeverity(p) \in Levels
  BY RequestsAssumption DEF PolicySeverity, Policies, Levels, Severities, None
<1>3. levels \in SUBSET Levels /\ levels # {}
  BY <1>1, <1>2
<1>4. Highest(levels) \in Levels /\ AtLeast(Highest(levels), BuiltinSeverity(q))
  BY <1>3, HighestIsUpperBound
<1>. QED BY <1>4 DEF evaluate_rule_channel, RuleResults

\* The built-in rule gives a credential or personal data on its way to an
\* external target its level, approved schema or not.
LEMMA BuiltinFindsHardData ==
  ASSUME NEW q \in Requests, q.trust = "external",
         NEW f \in q.findings, f.category \in {"credential", "pii"}
  PROVE  AtLeast(BuiltinSeverity(q),
                 IF f.category = "credential" THEN "critical" ELSE "high")
<1>1. f \in Unapproved(q)
  BY DEF Unapproved, Approved
<1>2. BuiltinSeverity(q) =
        IF "credential" \in CategoriesOf(Unapproved(q)) THEN "critical" ELSE "high"
  BY <1>1 DEF BuiltinSeverity
<1>3. f.category = "credential" => "credential" \in CategoriesOf(Unapproved(q))
  BY <1>1 DEF CategoriesOf
<1>. QED BY <1>2, <1>3, OrderValues DEF AtLeast

-----------------------------------------------------------------------------
(* The machine. *)

\* A step of the machine keeps the types: one case for each action.
LEMMA TypeInductive == TypeOK /\ [Next]_vars => TypeOK'
<1>. SUFFICES ASSUME TypeOK, [Next]_vars PROVE TypeOK'
  OBVIOUS
<1>. USE DEF TypeOK
<1>1. CASE EvaluateRules
  <2>1. rule' \in RuleResults /\ rule' # Null
    BY <1>1, RuleChannel DEF EvaluateRules, RuleResults, Null
  <2>. QED BY <1>1, <2>1 DEF EvaluateRules
<1>2. /\ Failed \in LlmResults
      /\ LlmResult("not_needed", None, None) \in LlmResults
  BY DEF Failed, LlmResults, LlmStatuses
<1>3. ASSUME NEW o \in Outcomes, o.status = "completed"
      PROVE  ConclusionOf(o) \in LlmResults
  <2>1. CASE o.verdict = "reject"
    <3>1. o.risk \in Severities
      BY <2>1, <1>3 DEF Outcomes
    <3>2. ConclusionOf(o) = LlmResult("completed", "reject", o.risk)
      BY <2>1 DEF ConclusionOf
    <3>. QED BY <3>1, <3>2 DEF LlmResults
  <2>2. CASE o.verdict # "reject"
    <3>1. o.verdict \in {"allow", "uncertain"}
      BY <2>2, <1>3 DEF Outcomes
    <3>2. ConclusionOf(o) = LlmResult("completed", o.verdict, None)
      BY <2>2 DEF ConclusionOf
    <3>. QED BY <3>1, <3>2 DEF LlmResults
  <2>. QED BY <2>1, <2>2
<1>4. \A l \in LlmResults : l # Null
  <2>1. \A st, v, s : LlmResult(st, v, s) # Null
    BY DEF LlmResult, Null
  <2>. QED BY <2>1 DEF LlmResults
<1>5. CASE WithoutReviewer
  <2>1. llm' \in LlmResults
    BY <1>5, <1>2 DEF WithoutReviewer, Settle
  <2>. QED BY <1>5, <2>1, <1>4 DEF WithoutReviewer, Settle
<1>6. CASE AskFast
  <2>1. PICK o \in Outcomes :
          /\ consulted' = Append(consulted, [stage |-> "fast", outcome |-> o])
          /\ IF Concludes(o) THEN Settle(ConclusionOf(o))
                             ELSE pc' = "deep" /\ UNCHANGED llm
    BY <1>6 DEF AskFast
  <2>2. consulted' \in Seq([stage : {"fast", "deep"}, outcome : Outcomes])
    BY <2>1
  <2>3. CASE Concludes(o)
    BY <1>6, <2>1, <2>2, <2>3, <1>3, <1>4 DEF AskFast, Settle, Concludes
  <2>4. CASE ~Concludes(o)
    BY <1>6, <2>1, <2>2, <2>4 DEF AskFast
  <2>. QED BY <2>3, <2>4
<1>7. CASE SkipFast
  BY <1>7 DEF SkipFast
<1>8. CASE AskDeep
  <2>1. PICK o \in Outcomes :
          /\ consulted' = Append(consulted, [stage |-> "deep", outcome |-> o])
          /\ Settle(DeepResult(o))
    BY <1>8 DEF AskDeep
  <2>2. consulted' \in Seq([stage : {"fast", "deep"}, outcome : Outcomes])
    BY <2>1
  <2>3. DeepResult(o) \in LlmResults
    BY <1>2, <1>3 DEF DeepResult
  <2>. QED BY <1>8, <2>1, <2>2, <2>3, <1>4 DEF AskDeep, Settle
<1>9. CASE NoDeep
  BY <1>9, <1>2, <1>4 DEF NoDeep, Settle
<1>10. CASE Aggregate
  <2>1. verdict' \in Verdicts
    BY <1>10, AggregateType DEF Aggregate, RuleResults
  <2>2. verdict' # Null
    BY <2>1 DEF Verdicts, Null
  <2>. QED BY <1>10, <2>1, <2>2 DEF Aggregate
<1>11. CASE UNCHANGED vars
  BY <1>11 DEF vars
<1>. QED BY <1>1, <1>5, <1>6, <1>7, <1>8, <1>9, <1>10, <1>11 DEF Next

\* Every reachable state of the analysis is well typed.
THEOREM TypeCorrect == Spec => []TypeOK
<1>1. Init => TypeOK
  BY DEF Init, TypeOK
<1>2. TypeOK /\ [Next]_vars => TypeOK'
  BY TypeInductive
<1>. QED BY <1>1, <1>2, PTL DEF Spec

\* What the verdict is made of: the rule result is that of the request, and the
\* verdict is the aggregate of the two results the machine holds.
Provenance ==
  /\ pc # "rules" => rule = evaluate_rule_channel(request)
  /\ pc = "done" => verdict = aggregate_dual_channel(rule.severity, llm)

\* Provenance is kept by every step.
LEMMA ProvenanceInductive == TypeOK /\ Provenance /\ [Next]_vars => Provenance'
  BY DEF TypeOK, Provenance, Next, vars, EvaluateRules, WithoutReviewer, AskFast,
         SkipFast, AskDeep, NoDeep, Aggregate, Settle

\* The verdict every request ends with is one the documented matrix allows, it
\* is not below the level of the rules, and a credential or personal data on
\* its way to an external target is an alert of the level it calls for.
THEOREM VerdictCorrect == Spec => [](MatrixHolds /\ RuleNotLowered /\ HardDataAlerts)
<1>1. Init => Provenance
  BY DEF Init, Provenance
<1>2. TypeOK /\ Provenance /\ [Next]_vars => Provenance'
  BY ProvenanceInductive
<1>3. TypeOK /\ Provenance => MatrixHolds /\ RuleNotLowered /\ HardDataAlerts
  <2>. SUFFICES ASSUME TypeOK, Provenance, pc = "done"
               PROVE  MatrixHolds /\ RuleNotLowered /\ HardDataAlerts
    BY DEF MatrixHolds, RuleNotLowered, HardDataAlerts
  <2>1. /\ rule.severity \in Levels
        /\ llm \in LlmResults
        /\ request \in Requests
        /\ verdict = aggregate_dual_channel(rule.severity, llm)
        /\ AtLeast(rule.severity, BuiltinSeverity(request))
    BY RuleChannel DEF TypeOK, Provenance, RuleResults
  <2>2. MatrixHolds
    BY <2>1, AggregateFollowsMatrix DEF MatrixHolds
  <2>3. rule.severity # None => verdict.alert /\ AtLeast(verdict.severity, rule.severity)
    BY <2>1, HitKeepsLevel DEF Levels
  <2>4. ASSUME request.trust = "external", NEW f \in request.findings,
               f.category \in {"credential", "pii"}
        PROVE  /\ verdict.final_decision = "alert"
               /\ AtLeast(verdict.severity,
                          IF f.category = "credential" THEN "critical" ELSE "high")
    <3>. DEFINE least == IF f.category = "credential" THEN "critical" ELSE "high"
    <3>1. AtLeast(BuiltinSeverity(request), least)
      BY <2>1, <2>4, BuiltinFindsHardData
    <3>2. BuiltinSeverity(request) \in Levels /\ verdict.severity \in Levels
      BY <2>1, AggregateType DEF BuiltinSeverity, Verdicts, Levels, Severities, None
    <3>3. rule.severity # None
      BY <3>1, <3>2, <2>1, OrderValues DEF AtLeast, Levels, Severities, None
    <3>4. verdict.final_decision = "alert"
      BY <3>3, <2>1 DEF aggregate_dual_channel, AggregateHit
    <3>5. AtLeast(verdict.severity, least)
      BY <3>1, <3>2, <3>3, <2>1, <2>3, OrderValues DEF AtLeast, Levels, Severities, None
    <3>. QED BY <3>4, <3>5
  <2>. QED BY <2>2, <2>3, <2>4 DEF RuleNotLowered, HardDataAlerts
<1>. QED BY <1>1, <1>2, <1>3, TypeCorrect, PTL DEF Spec

\* The verdict every request ends with is one the documented matrix allows.
THEOREM MatrixFollowed == Spec => []MatrixHolds
BY VerdictCorrect, PTL

\* A conclusion on a clue is the last consulted reviewer's, or a failure.
ConclusionIsLast ==
  pc \in {"aggregate", "done"} /\ rule.needs_llm_review =>
    \/ llm = Failed
    \/ /\ llm.status = "completed"
       /\ consulted # << >>
       /\ llm.verdict = consulted[Len(consulted)].outcome.verdict

\* Only these two steps bring in a reviewer's conclusion.
LEMMA AskedIsLast ==
  ASSUME TypeOK, AskFast \/ AskDeep
  PROVE  ConclusionIsLast'
<1>1. PICK o \in Outcomes, stage \in {"fast", "deep"} :
        /\ consulted' = Append(consulted, [stage |-> stage, outcome |-> o])
        /\ \/ llm' = ConclusionOf(o)
           \/ llm' = Failed
           \/ pc' = "deep"
  BY DEF AskFast, AskDeep, Settle, DeepResult
<1>2. /\ consulted' # << >>
      /\ consulted'[Len(consulted')] = [stage |-> stage, outcome |-> o]
  BY <1>1 DEF TypeOK
<1>3. ConclusionOf(o).status = "completed" /\ ConclusionOf(o).verdict = o.verdict
  BY DEF ConclusionOf, LlmResult
<1>. QED BY <1>1, <1>2, <1>3 DEF ConclusionIsLast

LEMMA LastInductive == TypeOK /\ ConclusionIsLast /\ [Next]_vars => ConclusionIsLast'
<1>. SUFFICES ASSUME TypeOK, ConclusionIsLast, [Next]_vars PROVE ConclusionIsLast'
  OBVIOUS
<1>1. CASE AskFast \/ AskDeep
  BY <1>1, AskedIsLast
<1>2. CASE WithoutReviewer \/ NoDeep
  BY <1>2 DEF WithoutReviewer, NoDeep, Settle, ConclusionIsLast
<1>3. CASE EvaluateRules \/ SkipFast
  BY <1>3 DEF EvaluateRules, SkipFast, ConclusionIsLast
<1>4. CASE Aggregate \/ UNCHANGED vars
  BY <1>4 DEF Aggregate, vars, ConclusionIsLast
<1>. QED BY <1>1, <1>2, <1>3, <1>4 DEF Next

\* A clue is let through only on the "allow" of the reviewer consulted last: an
\* absent, failed or undecided reviewer never reads as safe.
\* (evaluate_llm_channel, aggregate_dual_channel)
THEOREM AllowsEarned == Spec => []AllowIsEarned
<1>1. Init => Provenance /\ ConclusionIsLast
  BY DEF Init, Provenance, ConclusionIsLast
<1>2. TypeOK /\ Provenance /\ ConclusionIsLast => AllowIsEarned
  <2>. SUFFICES ASSUME TypeOK, Provenance, ConclusionIsLast, pc = "done",
                       Unapproved(request) # {}, verdict.final_decision = "allow"
               PROVE  /\ consulted # << >>
                      /\ consulted[Len(consulted)].outcome.verdict = "allow"
    BY DEF AllowIsEarned
  <2>1. rule.needs_llm_review
    <3>1. rule = evaluate_rule_channel(request)
      BY DEF Provenance
    <3>2. evaluate_rule_channel(request).needs_llm_review
            = (Unapproved(request) # {} \/ {p \in request.policies : PolicyMatches(p, request)} # {})
      BY DEF evaluate_rule_channel
    <3>. QED BY <3>1, <3>2
  <2>2. verdict = aggregate_dual_channel(rule.severity, llm)
    BY DEF Provenance
  <2>3. Denied(llm) \/ llm.status \in {"not_needed", "skipped"}
    <3>1. AggregateMiss(llm).final_decision = "allow"
      BY <2>2 DEF aggregate_dual_channel, AggregateHit
    <3>. QED BY <3>1 DEF AggregateMiss, Confirmed, Denied
  <2>4. llm # Failed
    BY <2>3 DEF Denied, Failed, LlmResult
  <2>. QED BY <2>1, <2>3, <2>4 DEF ConclusionIsLast, Denied
<1>. QED BY <1>1, <1>2, TypeCorrect, ProvenanceInductive, LastInductive, PTL DEF Spec
=============================================================================
