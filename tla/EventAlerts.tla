------------------------------ MODULE EventAlerts ------------------------------
(***************************************************************************)
(* The aggregate DLP alert of a standard event: create_event_alert and     *)
(* update_event_alert of automode_gateway/storage.py as the two stages of  *)
(* automode_gateway/event_worker.py call them, interleaved over several    *)
(* events, with restarts between any two commits and operators that        *)
(* dispose of the alerts meanwhile.                                        *)
(*                                                                         *)
(* Every action is one SQLite commit.  The alert ID is a hash of the event *)
(* ID, so the table is a function from the owning event.  What else the    *)
(* stages write (task statuses, bodies, queues) is module EventWorker.     *)
(*                                                                         *)
(* Abstracted: titles, reasons, evidence and findings of an alert, and     *)
(* channel_source, which is hit_source under another name.                 *)
(***************************************************************************)
EXTENDS DualChannel, Sequences

CONSTANTS
  Events,       \* internal event IDs
  Envelopes,    \* what the events may be: functions from Events to records
                \* [call, event_type, request, response]; call stands for
                \* source, call, attempt, capture stage and is_realtime
  RuleOutcomes  \* [Events -> SUBSET RuleResults]: what the rule channel may
                \* find, several outcomes if policies change between attempts

RuleResults == [severity : Levels, needs_llm_review : BOOLEAN]

ASSUME EnvelopesAssumption ==
  \A env \in Envelopes, e \in Events :
    env[e].event_type \in {"request", "full_call"}

\* A rule hit is always a candidate for review (engine.py:581).
ASSUME OutcomesAssumption ==
  \A e \in Events :
    /\ RuleOutcomes[e] \in SUBSET RuleResults
    /\ \A r \in RuleOutcomes[e] : r.severity # None => r.needs_llm_review

VARIABLES
  envelope, \* what the events are
  alerts,   \* the alerts table, by owning event
  created,  \* the owners in the order of created_at
  stage,    \* where each event is: see Stages
  rule,     \* the rule result being, or last, committed for each event
  llm       \* the reviewer result being, or last, committed for each event

vars == <<envelope, alerts, created, stage, rule, llm>>

Stages == { "rule",      \* rule_status pending
            "alerted",   \* alert committed, rule_status not yet completed
            "review",    \* rule_status completed, llm_status pending
            "updated",   \* alert updated, llm_status not yet committed
            "failed",    \* the reviewer stage failed, an operator may retry
            "done" }     \* processing_status completed

NoAlert  == [none |-> TRUE]
Pending  == LlmResult("pending", None, None)
Unruled  == [severity |-> None, needs_llm_review |-> FALSE]
Statuses == {"open", "acknowledged", "false_positive", "resolved"}

Exists(a) == alerts[a] # NoAlert

-----------------------------------------------------------------------------
(* The alerts table. *)

\* body_hash covers the whole payload: of a full call, request and response.
BodyHash(e) ==
  IF envelope[e].event_type = "full_call"
    THEN <<envelope[e].request, envelope[e].response>>
    ELSE <<envelope[e].request>>

Overlaps(a, e) ==
  /\ envelope[a].call = envelope[e].call
  /\ BodyHash(a) = BodyHash(e)

\* Mutated form: an alert is looked up by its event only.
AlertForOwn(e) == e

\* The alert create_event_alert returns for e: the event's own, else the oldest
\* one of an overlapping event, else a new one, which e will own.
AlertFor(e) ==
  LET overlapping == {i \in 1..Len(created) : Overlaps(created[i], e)}
  IN IF Exists(e) \/ overlapping = {} THEN e
     ELSE created[CHOOSE i \in overlapping : \A j \in overlapping : i <= j]

\* create_event_alert: an existing alert is left as it is.
Created(e, row) ==
  IF Exists(AlertFor(e))
    THEN UNCHANGED <<alerts, created>>
    ELSE /\ alerts' = [alerts EXCEPT ![e] = row]
         /\ created' = Append(created, e)

RuleAlert(severity) ==
  [ severity |-> severity, rule_severity |-> severity, llm_severity |-> None,
    review_status |-> "pending", divergence |-> FALSE, hit_source |-> "rule_only",
    status |-> "open" ]

\* The columns update_event_alert sets; status stays the operator's.
VerdictAlert(v, status) ==
  [ severity |-> v.severity, rule_severity |-> v.rule_severity,
    llm_severity |-> v.llm_severity, review_status |-> v.review_status,
    divergence |-> v.divergence, hit_source |-> v.hit_source, status |-> status ]

\* Mutated form: an update opens the alert again.
UpdatedReopen(e, v) ==
  IF ~v.alert THEN UNCHANGED <<alerts, created>>
  ELSE LET a == AlertFor(e) IN
       /\ alerts' = [alerts EXCEPT ![a] = VerdictAlert(v, "open")]
       /\ created' = IF Exists(a) THEN created ELSE Append(created, e)

\* Mutated form: an alert that is there is left as the rules made it.
UpdatedOnce(e, v) ==
  IF ~v.alert THEN UNCHANGED <<alerts, created>>
              ELSE Created(e, VerdictAlert(v, "open"))

\* update_event_alert: creates the alert of an LLM-only hit, and writes the
\* verdict over the row create_event_alert returned.  (Two commits when it
\* creates; the row inserted shows the verdict already.)
Updated(e, v) ==
  IF ~v.alert THEN UNCHANGED <<alerts, created>>
  ELSE LET a == AlertFor(e) IN
       /\ alerts' = [alerts EXCEPT ![a] =
                       VerdictAlert(v, IF Exists(a) THEN alerts[a].status ELSE "open")]
       /\ created' = IF Exists(a) THEN created ELSE Append(created, e)

-----------------------------------------------------------------------------
(* The stages. *)

Init ==
  /\ envelope \in Envelopes
  /\ alerts = [e \in Events |-> NoAlert]
  /\ created = << >>
  /\ stage = [e \in Events |-> "rule"]
  /\ rule = [e \in Events |-> Unruled]
  /\ llm = [e \in Events |-> Pending]

Goto(e, s) == stage' = [stage EXCEPT ![e] = s]

\* _process_rule_event up to the alert: the rule channel is evaluated against
\* the policies of the moment, and a hit alerts before anything else is said.
EvaluateRule(e) ==
  /\ stage[e] = "rule"
  /\ \E r \in RuleOutcomes[e] :
       /\ rule' = [rule EXCEPT ![e] = r]
       /\ IF r.severity # None THEN Created(e, RuleAlert(r.severity))
                               ELSE UNCHANGED <<alerts, created>>
  /\ Goto(e, "alerted")
  /\ UNCHANGED <<envelope, llm>>

\* The rest of _process_rule_event: with a clue the reviewer is next, without
\* one the event is done, its reviewer not needed.
CommitRule(e) ==
  /\ stage[e] = "alerted"
  /\ Goto(e, IF rule[e].needs_llm_review THEN "review" ELSE "done")
  /\ llm' = [llm EXCEPT ![e] = IF rule[e].needs_llm_review THEN Pending
                               ELSE LlmResult("not_needed", None, None)]
  /\ UNCHANGED <<envelope, alerts, created, rule>>

\* _process_reviewer_event up to the alert; "failed" is a reviewer outage.
ReviewOutcomes == {r \in LlmResults : r.status \in {"completed", "failed"}}

Review(e) ==
  /\ stage[e] = "review"
  /\ \E r \in ReviewOutcomes :
       /\ llm' = [llm EXCEPT ![e] = r]
       /\ Updated(e, aggregate_dual_channel(rule[e].severity, r))
  /\ Goto(e, "updated")
  /\ UNCHANGED <<envelope, rule>>

CommitReview(e) ==
  /\ stage[e] = "updated"
  /\ Goto(e, IF llm[e].status = "failed" THEN "failed" ELSE "done")
  /\ UNCHANGED <<envelope, alerts, created, rule, llm>>

\* retry_event_handler for a failed reviewer stage.
Retry(e) ==
  /\ stage[e] = "failed"
  /\ Goto(e, "review")
  /\ UNCHANGED <<envelope, alerts, created, rule, llm>>

\* A crash or a failed commit between the two commits of a stage: the stage
\* runs again, and the reviewer or the policies may say something else.
Rerun(e) ==
  /\ \/ stage[e] = "alerted" /\ Goto(e, "rule")
     \/ stage[e] = "updated" /\ Goto(e, "review")
  /\ UNCHANGED <<envelope, alerts, created, rule, llm>>

\* update_alert of the management API.
Operate(a) ==
  /\ Exists(a)
  /\ \E s \in Statuses \ {alerts[a].status} :
       alerts' = [alerts EXCEPT ![a].status = s]
  /\ UNCHANGED <<envelope, created, stage, rule, llm>>

Work(e) == \/ EvaluateRule(e) \/ CommitRule(e) \/ Review(e) \/ CommitReview(e)
           \/ Retry(e) \/ Rerun(e)

Next == \E e \in Events : Work(e) \/ Operate(e)

Spec == Init /\ [][Next]_vars

-----------------------------------------------------------------------------
(* Properties. *)

AlertRows ==
  [ severity : Severities, rule_severity : Levels, llm_severity : Levels,
    review_status : {"resolved", "needs_review"} \cup (LlmStatuses \ {"completed"}),
    divergence : BOOLEAN, hit_source : {"rule_only", "llm_only", "dual"},
    status : Statuses ]

\* Every variable has its type.
TypeOK ==
  /\ envelope \in Envelopes
  /\ alerts \in [Events -> AlertRows \cup {NoAlert}]
  /\ created \in Seq(Events)
  /\ stage \in [Events -> Stages]
  /\ rule \in [Events -> RuleResults]
  /\ llm \in [Events -> LlmResults]

\* Two events that are the same observation (same call, same body) never have
\* an alert each, in whatever order their stages, retries and restarts fall.
OneAlertPerObservation ==
  \A a, b \in Events : Exists(a) /\ Exists(b) /\ Overlaps(a, b) => a = b

\* Once the rule result of a hit is committed there is an alert that stands for
\* the event: its own or that of the observation it overlaps.
CommittedHitAlerted ==
  \A e \in Events :
    stage[e] \notin {"rule", "alerted"} /\ rule[e].severity # None
      => Exists(AlertFor(e))

\* However stages, retries, restarts and changed policies fall, a committed hit
\* has exactly one alert that stands for its observation (event_worker.py:327,
\* storage.py:2762).
HitsAlertedOnce == OneAlertPerObservation /\ CommittedHitAlerted

\* The verdict an event is done with.
FinalVerdict(e) == aggregate_dual_channel(rule[e].severity, llm[e])

\* No other event is the same observation.
Alone(e) == \A a \in Events \ {e} : ~Overlaps(a, e)

\* The documents say: a finished event's alert is not below the level the rules
\* gave that event.  The code keeps this only for an event that is Alone.
RuleLevelKept ==
  \A e \in Events :
    stage[e] = "done" /\ rule[e].severity # None
      => AtLeast(alerts[AlertFor(e)].severity, rule[e].severity)

\* A finished event's alert shows the event's own two conclusions: its level,
\* divergence and review status are the aggregate of that rule result and that
\* review, and a dual hit is one of this event, never pieced together from the
\* attempts before it or from other events (of other observations).
AlertIsOwnVerdict ==
  \A e \in Events :
    stage[e] = "done" /\ FinalVerdict(e).alert /\ Alone(e)
      => LET a == alerts[e]
             v == FinalVerdict(e)
         IN /\ a.severity = v.severity
            /\ a.rule_severity = v.rule_severity
            /\ a.review_status = v.review_status
            /\ a.divergence = v.divergence
            /\ a.hit_source = v.hit_source

\* An event whose rules find the same in every attempt (no policy changes) leaves
\* no alert of its own waiting for a review when it is finished.
DoneReviewed ==
  \A e \in Events :
    stage[e] = "done" /\ Exists(e) /\ (\A r, s \in RuleOutcomes[e] : r = s)
      => alerts[e].review_status # "pending"

\* No stage of any event removes an alert or touches the operator's disposition
\* of it; retries, restarts and later verdicts included.
DispositionKept ==
  [][(\E e \in Events : Work(e)) =>
       \A a \in Events :
         Exists(a) => alerts'[a] # NoAlert /\ alerts'[a].status = alerts[a].status]_vars

=============================================================================
