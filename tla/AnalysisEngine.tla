---------------------------- MODULE AnalysisEngine ----------------------------
(***************************************************************************)
(* One outbound request through automode_gateway/engine.py: the rule       *)
(* channel, the Fast -> Deep reviewer cascade, and the aggregation of both *)
(* (module DualChannel).  A reviewer is a remote model: it may conclude,   *)
(* be uncertain, or fail.                                                  *)
(*                                                                         *)
(* Abstracted: a finding is its category, the kind of JSON path it is on   *)
(* and whether an enabled tool schema has its fingerprint; a policy is the *)
(* part of its conditions that depends on the findings and the target (the *)
(* identity and model conditions are folded into "the policies in force"). *)
(***************************************************************************)
EXTENDS DualChannel, Sequences, FiniteSets

CONSTANTS
  Requests,     \* the [findings, trust, policies] records under study
  ReviewerSets  \* the sets of configured reviewers, subsets of {"fast", "deep"}

Findings ==
  [ category  : {"credential", "pii", "source_code", "admin_keyword"},
    path_type : {"request_body", "tool_description"},
    schema    : BOOLEAN ]      \* an enabled tool schema has this fingerprint

Policies ==
  [ data_categories   : SUBSET {"credential", "pii", "source_code", "admin_keyword"},
    destination_trust : SUBSET {"internal", "external"},
    keywords          : BOOLEAN,
    effect            : {"alert", "review"},
    severity          : Levels ]

ASSUME RequestsAssumption ==
  \A r \in Requests :
    /\ r.findings \subseteq Findings
    /\ r.trust \in {"internal", "external"}
    /\ r.policies \subseteq Policies

ASSUME ReviewersAssumption == \A s \in ReviewerSets : s \subseteq {"fast", "deep"}

VARIABLES
  request,     \* what is analysed
  reviewers,   \* the reviewers the environment configures
  pc,          \* "rules" | "fast" | "deep" | "aggregate" | "done"
  rule,        \* RuleEvaluationResult, Null before
  consulted,   \* the reviewer stages run so far, in order
  llm,         \* LLMEvaluationResult, Null before
  verdict      \* DualChannelVerdict, Null before

vars == <<request, reviewers, pc, rule, consulted, llm, verdict>>

Null == [none |-> TRUE]

-----------------------------------------------------------------------------
(* The rule channel. *)

\* Mutated form: an approved tool schema covers whatever it contains.
ApprovedAnyTool(f) == f.schema /\ f.path_type = "tool_description"

\* A schema approval never covers a credential or personal data.
Approved(f) ==
  /\ f.schema
  /\ f.path_type = "tool_description"
  /\ f.category \notin {"credential", "pii"}

Unapproved(r) == {f \in r.findings : ~Approved(f)}
CategoriesOf(fs) == {f.category : f \in fs}

PolicyMatches(p, r) ==
  LET categories == CategoriesOf(r.findings)
  IN /\ p.data_categories = {} \/ p.data_categories \cap categories # {}
     /\ p.destination_trust = {} \/ r.trust \in p.destination_trust
     /\ categories # {} \/ p.keywords

PolicySeverity(p) ==
  IF p.severity # None THEN p.severity
  ELSE IF p.effect = "alert" THEN "high" ELSE "medium"

\* What the built-in rule for external targets finds.
BuiltinSeverity(r) ==
  LET body == {f \in Unapproved(r) : \/ f.category \in {"credential", "pii"}
                                     \/ f.path_type # "tool_description"}
  IN IF r.trust # "external" \/ Unapproved(r) = {} THEN None
     ELSE IF body = {} THEN "medium"
     ELSE IF "credential" \in CategoriesOf(Unapproved(r)) THEN "critical" ELSE "high"

Highest(levels) == CHOOSE s \in levels : \A t \in levels : AtLeast(s, t)

evaluate_rule_channel(r) ==
  LET matched == {p \in r.policies : PolicyMatches(p, r)}
  IN [ severity |-> Highest({BuiltinSeverity(r)} \cup {PolicySeverity(p) : p \in matched}),
       needs_llm_review |-> Unapproved(r) # {} \/ matched # {} ]

-----------------------------------------------------------------------------
(* The reviewer cascade. *)

Outcomes == {[status |-> "completed", verdict |-> "reject", risk |-> s] : s \in Severities}
              \cup {[status |-> "completed", verdict |-> v, risk |-> "low"] : v \in {"allow", "uncertain"}}
              \cup {[status |-> "error", verdict |-> "error", risk |-> "high"]}

Concludes(o) == o.status = "completed" /\ o.verdict \in {"allow", "reject"}

ConclusionOf(o) ==
  LlmResult("completed", o.verdict, IF o.verdict = "reject" THEN o.risk ELSE None)

Failed == LlmResult("failed", None, None)

Init ==
  /\ request \in Requests
  /\ reviewers \in ReviewerSets
  /\ pc = "rules"
  /\ rule = Null /\ llm = Null /\ verdict = Null
  /\ consulted = << >>

EvaluateRules ==
  /\ pc = "rules"
  /\ rule' = evaluate_rule_channel(request)
  /\ pc' = "fast"
  /\ UNCHANGED <<request, reviewers, consulted, llm, verdict>>

Settle(result) == llm' = result /\ pc' = "aggregate"

\* No clue to review, or clues and no reviewer to give them to.
WithoutReviewer ==
  /\ pc = "fast"
  /\ \/ ~rule.needs_llm_review /\ Settle(LlmResult("not_needed", None, None))
     \/ rule.needs_llm_review /\ reviewers = {} /\ Settle(Failed)
  /\ UNCHANGED <<request, reviewers, rule, consulted, verdict>>

AskFast ==
  /\ pc = "fast" /\ rule.needs_llm_review /\ "fast" \in reviewers
  /\ \E o \in Outcomes :
       /\ consulted' = Append(consulted, [stage |-> "fast", outcome |-> o])
       /\ IF Concludes(o) THEN Settle(ConclusionOf(o))
                          ELSE pc' = "deep" /\ UNCHANGED llm
  /\ UNCHANGED <<request, reviewers, rule, verdict>>

SkipFast ==
  /\ pc = "fast" /\ rule.needs_llm_review /\ reviewers = {"deep"}
  /\ pc' = "deep"
  /\ UNCHANGED <<request, reviewers, rule, consulted, llm, verdict>>

\* Mutated form: a reviewer that cannot be reached leaves the review out.
DeepResultLenient(o) ==
  IF o.status # "completed" THEN LlmResult("skipped", None, None) ELSE ConclusionOf(o)

DeepResult(o) ==
  IF o.status # "completed" THEN Failed ELSE ConclusionOf(o)

AskDeep ==
  /\ pc = "deep" /\ "deep" \in reviewers
  /\ \E o \in Outcomes :
       /\ consulted' = Append(consulted, [stage |-> "deep", outcome |-> o])
       /\ Settle(DeepResult(o))
  /\ UNCHANGED <<request, reviewers, rule, verdict>>

NoDeep ==
  /\ pc = "deep" /\ "deep" \notin reviewers
  /\ Settle(Failed)
  /\ UNCHANGED <<request, reviewers, rule, consulted, verdict>>

Aggregate ==
  /\ pc = "aggregate"
  /\ verdict' = aggregate_dual_channel(rule.severity, llm)
  /\ pc' = "done"
  /\ UNCHANGED <<request, reviewers, rule, consulted, llm>>

Next == \/ EvaluateRules \/ WithoutReviewer
        \/ AskFast \/ SkipFast \/ AskDeep \/ NoDeep
        \/ Aggregate

Spec == Init /\ [][Next]_vars

-----------------------------------------------------------------------------
(* Properties. *)

RuleResults == [severity : Levels, needs_llm_review : BOOLEAN]

\* Every variable has its type.
TypeOK ==
  /\ request \in Requests
  /\ reviewers \in ReviewerSets
  /\ pc \in {"rules", "fast", "deep", "aggregate", "done"}
  /\ pc = "rules" <=> rule = Null
  /\ rule # Null => rule \in RuleResults
  /\ consulted \in Seq([stage : {"fast", "deep"}, outcome : Outcomes])
  /\ pc \in {"aggregate", "done"} <=> llm # Null
  /\ llm # Null => llm \in LlmResults
  /\ pc = "done" <=> verdict # Null
  /\ verdict # Null => verdict \in Verdicts

\* The verdict a request ends with is one the documented matrix allows, for
\* the rule severity and the reviewer conclusion this run really produced.
MatrixHolds == pc = "done" => Matrix(rule.severity, llm, verdict)

\* A credential or personal data that leaves for an external target is an
\* alert, high at least and critical for a credential, whatever schema was
\* approved, whatever policies are in force and whatever the reviewers say.
HardDataAlerts ==
  pc = "done" /\ request.trust = "external" =>
    \A f \in request.findings :
      f.category \in {"credential", "pii"} =>
        /\ verdict.final_decision = "alert"
        /\ AtLeast(verdict.severity,
                   IF f.category = "credential" THEN "critical" ELSE "high")

\* A request with an unapproved finding is let through as "allow" only when
\* the last reviewer consulted answered, and answered "allow": an absent,
\* failed or undecided reviewer never reads as safe.
AllowIsEarned ==
  (pc = "done" /\ Unapproved(request) # {} /\ verdict.final_decision = "allow") =>
    /\ consulted # << >>
    /\ consulted[Len(consulted)].outcome.verdict = "allow"

\* The level of the rules survives the reviewer: the verdict of a rule hit is
\* an alert of at least the level the rules gave it.
RuleNotLowered ==
  pc = "done" /\ rule.severity # None =>
    verdict.alert /\ AtLeast(verdict.severity, rule.severity)
=============================================================================
