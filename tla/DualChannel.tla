----------------------------- MODULE DualChannel -----------------------------
(***************************************************************************)
(* The alert aggregation of automode_gateway/engine.py: how the severity   *)
(* the deterministic rules found and the conclusion of the LLM reviewer    *)
(* become one verdict.  Pure definitions: the modules that keep state      *)
(* (AnalysisEngine, EventAlerts) are built from them.                      *)
(*                                                                         *)
(* Abstracted: reason codes and texts, and the name of the final stage.    *)
(***************************************************************************)
EXTENDS Naturals

None == "none"        \* Python's None, for a severity or a verdict

Severities == {"low", "medium", "high", "critical"}
Levels == Severities \cup {None}

\* The statuses and verdicts LLMEvaluationResult is given in the code.
LlmStatuses == {"completed", "failed", "skipped", "not_needed", "pending"}
LlmVerdicts == {"allow", "reject", "uncertain", None}

SEVERITY_ORDER == [s \in Levels |-> CASE s = "low"      -> 1
                                      [] s = "medium"   -> 2
                                      [] s = "high"     -> 3
                                      [] s = "critical" -> 4
                                      [] s = None       -> 0]

max_severity(s1, s2) ==
  IF s1 = None THEN s2
  ELSE IF s2 = None THEN s1
  ELSE IF SEVERITY_ORDER[s1] >= SEVERITY_ORDER[s2] THEN s1 ELSE s2

(***************************************************************************)
(* A result of the LLM channel.  evaluate_llm_channel gives a severity     *)
(* only to a reject, and a verdict only to a completed review.             *)
(***************************************************************************)
LlmResult(status, verdict, severity) ==
  [status |-> status, verdict |-> verdict, severity |-> severity]

LlmResults ==
  {LlmResult("completed", "reject", s) : s \in Severities}
    \cup {LlmResult("completed", v, None) : v \in {"allow", "uncertain"}}
    \cup {LlmResult(st, None, None) : st \in LlmStatuses \ {"completed"}}

Confirmed(llm) == llm.status = "completed" /\ llm.verdict = "reject"
Denied(llm)    == llm.status = "completed" /\ llm.verdict = "allow"

\* Mutated form: the higher of the two levels, for a medium hit too.
ConfirmedSeverityMax(rule, llm) == max_severity(rule, llm.severity)

\* The level of a rule hit the reviewer confirmed.  A medium hit is raised to
\* high at least; any other takes the higher of the two levels.
ConfirmedSeverity(rule, llm) ==
  IF rule = "medium"
    THEN IF llm.severity = "critical" THEN "critical" ELSE "high"
    ELSE max_severity(rule, llm.severity)

HitReviewStatus(llm) ==
  IF llm.status = "completed"
    THEN IF llm.verdict \in {"allow", "reject"} THEN "resolved" ELSE "needs_review"
    ELSE llm.status

\* Branches 1-3 of aggregate_dual_channel: the rules found something.
AggregateHit(rule, llm) ==
  [ alert          |-> TRUE,
    severity       |-> IF Confirmed(llm) THEN ConfirmedSeverity(rule, llm) ELSE rule,
    rule_severity  |-> rule,
    llm_severity   |-> IF llm.verdict = "reject" THEN llm.severity ELSE None,
    llm_status     |-> llm.status,
    review_status  |-> HitReviewStatus(llm),
    divergence     |-> Denied(llm),
    hit_source     |-> IF Confirmed(llm) THEN "dual" ELSE "rule_only",
    final_decision |-> "alert" ]

\* Branch 4: no rule severity; only a reject alerts.
AggregateMiss(llm) ==
  LET severity == IF llm.severity = None THEN "medium" ELSE llm.severity
  IN [ alert          |-> Confirmed(llm),
       severity       |-> IF Confirmed(llm) THEN severity ELSE None,
       rule_severity  |-> None,
       llm_severity   |-> IF Confirmed(llm) THEN severity ELSE None,
       llm_status     |-> llm.status,
       review_status  |->
         CASE Confirmed(llm) \/ Denied(llm)                  -> "resolved"
           [] llm.status \in {"not_needed", "skipped", "failed"} -> llm.status
           [] OTHER                                           -> "needs_review",
       divergence     |-> FALSE,
       hit_source     |-> IF Confirmed(llm) THEN "llm_only" ELSE None,
       final_decision |->
         CASE Confirmed(llm)                               -> "alert"
           [] Denied(llm) \/ llm.status \in {"not_needed", "skipped"} -> "allow"
           [] OTHER                                        -> "review" ]

aggregate_dual_channel(rule, llm) ==
  IF rule # None THEN AggregateHit(rule, llm) ELSE AggregateMiss(llm)

Verdicts ==
  [ alert : BOOLEAN, severity : Levels, rule_severity : Levels,
    llm_severity : Levels, llm_status : LlmStatuses,
    review_status : {"resolved", "needs_review"} \cup (LlmStatuses \ {"completed"}),
    divergence : BOOLEAN, hit_source : {"rule_only", "llm_only", "dual", None},
    final_decision : {"alert", "allow", "review"} ]

(***************************************************************************)
(* The reference definition: the matrix of section 3 of                    *)
(* docs/event-analysis-refactor-plan.md, one conjunct per row, over a      *)
(* verdict v.  It is written from the table, not from the code.            *)
(***************************************************************************)
AtLeast(s1, s2) == SEVERITY_ORDER[s1] >= SEVERITY_ORDER[s2]

Matrix(rule, llm, v) ==
  /\ rule \in {"high", "critical"} =>
       /\ v.alert
       /\ AtLeast(v.severity, rule)
       /\ Confirmed(llm) => AtLeast(v.severity, llm.severity)
       /\ v.severity \in {rule, llm.severity}
  /\ (rule = "medium" /\ Confirmed(llm)) =>
       /\ v.alert
       /\ v.severity = IF llm.severity = "critical" THEN "critical" ELSE "high"
  /\ (rule = "medium" /\ Denied(llm)) => v.severity = "medium" /\ v.divergence
  /\ (rule = "medium" /\ ~Confirmed(llm) /\ ~Denied(llm)) =>
       /\ v.severity = "medium"
       /\ ~v.divergence
       /\ v.review_status # "resolved"
  /\ (rule = None /\ Confirmed(llm)) => v.alert /\ v.severity = llm.severity
  /\ (rule = None /\ (Denied(llm) \/ llm.status = "not_needed")) => ~v.alert
  /\ (rule = None /\ (llm.status \in {"pending", "failed"}
                        \/ llm.verdict = "uncertain")) =>
       /\ v.final_decision = "review"
       /\ v.review_status \in {"needs_review", "failed"}

=============================================================================
