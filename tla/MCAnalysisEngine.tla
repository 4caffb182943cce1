--------------------------- MODULE MCAnalysisEngine ---------------------------
(***************************************************************************)
(* Instances of AnalysisEngine for TLC: every set of at most two findings  *)
(* of three categories, both kinds of target, at most one policy of a      *)
(* sample that covers both effects, set and unset severities, a keyword    *)
(* policy and one conditioned on category and target.                      *)
(***************************************************************************)
EXTENDS AnalysisEngine

SampleFindings == {f \in Findings : f.category # "admin_keyword"}

FewFindings == {{}} \cup {{f, g} : f, g \in SampleFindings}

Policy(categories, trust, keywords, effect, severity) ==
  [data_categories |-> categories, destination_trust |-> trust,
   keywords |-> keywords, effect |-> effect, severity |-> severity]

SamplePolicies ==
  { Policy({}, {}, FALSE, "review", None),
    Policy({}, {}, TRUE, "review", "low"),
    Policy({}, {}, FALSE, "alert", None),
    Policy({"source_code"}, {"external"}, FALSE, "alert", "low"),
    Policy({}, {"internal"}, FALSE, "alert", "critical") }

MCRequests ==
  [ findings : FewFindings, trust : {"internal", "external"},
    policies : {{}} \cup {{p} : p \in SamplePolicies} ]

MCReviewerSets == SUBSET {"fast", "deep"}
=============================================================================
