------------------------------ MODULE ProxyTraces ------------------------------
(***************************************************************************)
(* How the analysis of a proxied call reaches its trace, its session and   *)
(* the alerts: automode_gateway/storage.py and its three callers.          *)
(*                                                                         *)
(*   "event"    event_worker.py, behind an encryption key: stages that     *)
(*              survive a crash, each a stretch of commits on the event    *)
(*              loop (`busy`), the projection keyed by the event;          *)
(*   "gateway"  gateway.py without a key: one audit loop, one call at a    *)
(*              time (`busy`), nothing recovered;                          *)
(*   "engine"   AnalysisEngine.analyze_request: callers run concurrently,  *)
(*              the session's risk is judged before the verdict is saved,  *)
(*              and the reviewer may be left to a background task.         *)
(*                                                                         *)
(* All calls belong to one session: every statement is keyed by the        *)
(* session, so sessions do not meet.  An action is one SQLite commit with  *)
(* what follows it up to the next one.  A SELECT before the first write of *)
(* a transaction sees other threads' commits come and go (ReadPrevious).   *)
(*                                                                         *)
(* Abstracted: texts by what the patterns of session_risk.py find in them, *)
(* stages, evidence and titles, tool calls, the columns of an alert beyond *)
(* whose it is (EventAlerts has the others), accepting the event           *)
(* (EventIngress) and its queues (EventWorker).                            *)
(***************************************************************************)
EXTENDS DualChannel, Integers, Sequences, FiniteSets, FiniteSetsExt

CONSTANTS
  Ways,         \* the callers to consider
  Calls,        \* the trace IDs
  Inputs,       \* what the calls may be: functions from Calls to records
                \* [rule, ask, text]: severity, needs_llm_review, latest text
  Reviewed,     \* what the reviewer may make of a doubtful text
  NoCall,
  MaxTrouble    \* bound: failed operations, crashes and administrator retries

MAX_RETRIES == 3

Purposes  == {"benign", "dual_use", "fraud", "malware", "physical_harm"}
Transfers == {"none", "prepare", "external_transfer"}
NoText    == [purpose |-> None, transfer |-> None]
Texts     == [purpose : Purposes, transfer : Transfers]

Assessment(category, severity, source) ==
  [category |-> category, severity |-> severity, source |-> source]
Assessments ==
  [category : Texts, severity : Severities, source : {"local", "llm", "fallback"}]
NoAssessment == Assessment(NoText, None, "local")

ASSUME TracesAssumption ==
  /\ Ways \subseteq {"event", "gateway", "engine"}
  /\ NoCall \notin Calls /\ MaxTrouble \in Nat
  /\ \A input \in Inputs, c \in Calls :
       /\ input[c].rule \in Levels /\ input[c].ask \in BOOLEAN
       /\ input[c].text \in Texts \cup {NoText}
       /\ input[c].rule # None => input[c].ask                  \* engine.py:581
  /\ Reviewed \subseteq {a \in Assessments : a.source = "llm"}

VARIABLES
  way,       \* who drives the analysis
  input,     \* what the calls are
  trace,     \* traces: per call [row, pipeline, decision, error]
  run,       \* classification_runs: per call its decision and risk
  session,   \* sessions: allow_count, alert_count, max_risk
  segments,  \* session_risk_segments, by rowid
  latest,    \* the segment that ended last, 0 for none
  alerts,    \* alerts, by rowid: [event, call, stage]
  event,     \* events: per call [stage, retries]
  task,      \* per call, in memory: [at, llm, previous]
  busy,      \* the call in a stretch that others cannot enter, or NoCall
  trouble

vars == <<way, input, trace, run, session, segments, latest, alerts, event,
          task, busy, trouble>>
store == <<trace, run, session, segments, latest, alerts>>

NoTrace == [row |-> "none", pipeline |-> None, decision |-> None, error |-> FALSE]
NoRun   == [decision |-> None, risk |-> None]
Idle    == [at |-> "idle", llm |-> LlmResult("pending", None, None), previous |-> 0]

Init ==
  /\ way \in Ways /\ input \in Inputs
  /\ trace = [c \in Calls |-> NoTrace]
  /\ run = [c \in Calls |-> NoRun]
  /\ session = [allow |-> 0, alerts |-> 0, max_risk |-> "low"]
  /\ segments = << >> /\ latest = 0 /\ alerts = << >>
  /\ event = [c \in Calls |-> [stage |-> "none", retries |-> 0]]
  /\ task = [c \in Calls |-> Idle]
  /\ busy = NoCall /\ trouble = 0

At(c, l)   == task[c].at = l
Goto(c, l) == task' = [task EXCEPT ![c].at = l]
HasText(c) == input[c].text # NoText
Trouble    == trouble < MaxTrouble /\ trouble' = trouble + 1

Leave      == busy' = NoCall

-----------------------------------------------------------------------------
(* session_risk.py. *)

LocalSeverity(purpose) ==
  CASE purpose = "benign"        -> "low"
    [] purpose = "dual_use"      -> "medium"
    [] purpose = "physical_harm" -> "critical"
    [] OTHER                     -> "high"

\* assess: a doubtful text goes to the reviewer, and is high without an answer.
Assess(text) ==
  IF text.purpose # "dual_use" /\ text.transfer # "prepare"
  THEN {Assessment(text, LocalSeverity(text.purpose), "local")}
  ELSE Reviewed \cup {Assessment(text, "high", "fallback")}

-----------------------------------------------------------------------------
(* TraceStore. *)

RiskOrLow(severity) == IF severity = None THEN "low" ELSE severity

Count(decision, d) == IF decision = d THEN 1 ELSE 0

Alert(e, c, stage) == [event |-> e, call |-> c, stage |-> stage]

\* SELECT ... FROM alerts WHERE trace_id=?, whatever the alert is about.
AlertsOf(c) == {i \in DOMAIN alerts : alerts[i].call = c}

Verdict(c, llm) == aggregate_dual_channel(input[c].rule, llm)

\* The counts of a trace's session.  An orphan has none.
Accounted(c, dAllow, dAlerts, risk) ==
  session' = IF trace[c].row # "session" THEN session
             ELSE [allow    |-> session.allow + dAllow,
                   alerts   |-> session.alerts + dAlerts,
                   max_risk |-> max_severity(session.max_risk, risk)]

\* create_immediate_rule_alert: not counted, save_pipeline will do that.
ImmediateAlert(c) ==
  IF AlertsOf(c) # {}
  THEN UNCHANGED <<alerts, trace>>
  ELSE /\ alerts' = Append(alerts, Alert(NoCall, c, "rules"))
       /\ trace' = [trace EXCEPT ![c].pipeline = "processing", ![c].decision = "alert"]

\* save_pipeline: a new run each time, and the trace's first alert rewritten.
SavePipeline(c, v) ==
  LET risk == RiskOrLow(v.severity) IN
  /\ run' = [run EXCEPT ![c] = [decision |-> v.final_decision, risk |-> risk]]
  /\ trace' = [trace EXCEPT ![c].pipeline = "completed", ![c].decision = v.final_decision]
  /\ Accounted(c, Count(v.final_decision, "allow"), Count(v.final_decision, "alert"), risk)
  /\ alerts' = IF v.final_decision # "alert" THEN alerts
               ELSE IF AlertsOf(c) = {} THEN Append(alerts, Alert(NoCall, c, "pipeline"))
               ELSE [alerts EXCEPT ![Min(AlertsOf(c))].stage = "pipeline"]

\* Mutated form: the alerts of the trace are the ones linked.
LinkedByTrace(c) == [i \in DOMAIN alerts |->
  IF c \in {alerts[i].event, alerts[i].call} THEN Alert(c, c, "event") ELSE alerts[i]]

\* Only alerts that carry the event are given the trace.
Linked(c) == [i \in DOMAIN alerts |->
  IF alerts[i].event = c THEN [alerts[i] EXCEPT !.call = c] ELSE alerts[i]]

\* Mutated form: the counts do not take the earlier verdict back.
ProjectCounts(c, decision, d) == Count(decision, d)

ProjectedCount(c, decision, d) == Count(decision, d) - Count(trace[c].decision, d)

\* project_event_analysis on a trace that is there.
Projected(c, llm) ==
  LET v == Verdict(c, llm)
      risk == RiskOrLow(v.severity)
      d == v.final_decision
  IN /\ run' = [run EXCEPT ![c] = [decision |-> d, risk |-> risk]]
     /\ trace' = [trace EXCEPT ![c].decision = d,
          ![c].pipeline = IF v.llm_status = "pending" THEN "processing" ELSE "completed"]
     /\ Accounted(c, ProjectedCount(c, d, "allow"), ProjectedCount(c, d, "alert"), risk)
     /\ alerts' = Linked(c)

\* Mutated form: any high or critical assessment alerts.
EscalatesAlways(a, p) == a.severity \in {"high", "critical"}

\* should_alert, against the segment that was the session's last (0: none).
Escalates(a, p) ==
  /\ a.severity \in {"high", "critical"}
  /\ \/ p = NoAssessment
     \/ SEVERITY_ORDER[a.severity] > SEVERITY_ORDER[p.severity]
     \/ a.category # p.category

\* record_session_risk, with the previous segment it has read: the same
\* assessment prolongs the segment and moves it to this trace.
Recorded(c, a, previous) ==
  LET p == IF previous = 0 THEN NoAssessment ELSE segments[previous].assessment
      i == IF p = a THEN previous ELSE Len(segments) + 1
      alerted == Escalates(a, p)
      alert == IF alerted THEN Len(alerts) + 1 ELSE 0
  IN /\ segments' =
          IF p = a THEN [segments EXCEPT ![i].call = c, ![i].alert = IF alerted THEN alert ELSE @]
          ELSE Append(segments, [call |-> c, assessment |-> a, alert |-> alert])
     /\ latest' = i
     /\ alerts' = IF alerted THEN Append(alerts, Alert(NoCall, c, "session_risk")) ELSE alerts
     /\ session' = IF alerted THEN [session EXCEPT !.alerts = @ + 1,
                                     !.max_risk = max_severity(@, a.severity)]
                              ELSE session

\* create, also over the row an early response has left.
Create(c) ==
  trace' = [trace EXCEPT ![c].row = "session", ![c].pipeline = "pending"]

\* process_response: a response without its request leaves an orphan.  The
\* audit loop sends it after the request, analyze_request's callers at any time,
\* and without a key there is none when the trace is not stored.
Respond(c) ==
  /\ trace[c].row = "none"
  /\ \/ way = "event" /\ event[c].stage # "none"
     \/ way = "engine" /\ task[c].at \in {"idle", "gone"}
  /\ trace' = [trace EXCEPT ![c].row = "orphan", ![c].pipeline = "completed"]
  /\ UNCHANGED <<way, input, run, session, segments, latest, alerts, event, task, busy, trouble>>

-----------------------------------------------------------------------------
(* "event": the event worker. *)

\* The audit loop stores the trace, if it can, and accepts the event.
Accept(c) ==
  /\ way = "event" /\ event[c].stage = "none"
  /\ \/ Create(c) /\ UNCHANGED trouble
     \/ UNCHANGED trace /\ Trouble
  /\ event' = [event EXCEPT ![c].stage = "rule"]
  /\ UNCHANGED <<way, input, run, session, segments, latest, alerts, task, busy>>

\* A worker takes an event; the rule channel runs in its thread.
Take(c) ==
  /\ way = "event" /\ busy = NoCall /\ At(c, "idle")
  /\ event[c].stage \in {"rule", "review"}
  /\ Goto(c, event[c].stage)
  /\ UNCHANGED <<way, input, store, event, busy, trouble>>

EventAlerted(c) == \E i \in DOMAIN alerts : alerts[i].event = c

\* create_event_alert.
AlertEvent(c) ==
  alerts' = IF EventAlerted(c) THEN alerts ELSE Append(alerts, Alert(c, NoCall, "event"))

\* The rules have answered: a hit alerts, before its stage is complete.
RuleAlert(c) ==
  /\ way = "event" /\ busy = NoCall /\ At(c, "rule")
  /\ IF input[c].rule # None THEN AlertEvent(c) ELSE UNCHANGED alerts
  /\ Goto(c, "rule_commit") /\ busy' = c
  /\ UNCHANGED <<way, input, trace, run, session, segments, latest, event, trouble>>

RuleCommit(c) ==
  /\ At(c, "rule_commit")
  /\ event' = [event EXCEPT ![c].stage = "review"]
  /\ Goto(c, "rule_project")
  /\ UNCHANGED <<way, input, store, busy, trouble>>

Failed(stage) == IF stage = "rule" THEN "failed_rule" ELSE "failed_review"

\* _handle_failure.
HandleFailure(c, stage) ==
  LET retries == event[c].retries + 1 IN
  /\ event' = [event EXCEPT ![c] =
       [stage |-> IF retries < MAX_RETRIES THEN stage ELSE Failed(stage),
        retries |-> retries]]
  /\ task' = [task EXCEPT ![c] = Idle] /\ Leave

ForReviewer(c) == input[c].ask \/ HasText(c)

\* _project_result, after the rules.  Without a trace it raises.
RuleProject(c) ==
  /\ At(c, "rule_project")
  /\ IF trace[c].row = "none"
     THEN HandleFailure(c, "rule") /\ UNCHANGED store
     ELSE /\ Projected(c, LlmResult(IF ForReviewer(c) THEN "pending" ELSE "not_needed",
                                    None, None))
          /\ Goto(c, "rule_done")
          /\ UNCHANGED <<segments, latest, event, busy>>
  /\ UNCHANGED <<way, input, trouble>>

RuleDone(c) ==
  /\ At(c, "rule_done")
  /\ event' = [event EXCEPT ![c] =
       [stage |-> IF ForReviewer(c) THEN "review" ELSE "completed", retries |-> 0]]
  /\ task' = [task EXCEPT ![c] = Idle] /\ Leave
  /\ UNCHANGED <<way, input, store, trouble>>

\* evaluate_llm_channel; a failure is an outage of the reviewer.
LlmOutcomes(c) ==
  IF ~input[c].ask THEN {LlmResult("not_needed", None, None)}
  ELSE {LlmResult("completed", "reject", "high"), LlmResult("completed", "allow", None),
        LlmResult("failed", None, None)}

\* Mutated form: the session has been judged if any call of it has been.
JudgedSession(c) == segments # << >>

\* Mutated form: no look at what an earlier attempt recorded.
JudgedNever(c) == FALSE

Judged(c) == \E i \in DOMAIN segments : segments[i].call = c

\* _custom_review and the first part of _review_proxy_session.
EventReview(c) ==
  /\ way = "event" /\ busy = NoCall /\ At(c, "review")
  /\ \E llm \in LlmOutcomes(c) :
       CASE ~HasText(c) \/ Judged(c) ->
              /\ task' = [task EXCEPT ![c].at = "update", ![c].llm = llm]
              /\ busy' = c /\ UNCHANGED event
         [] HasText(c) /\ ~Judged(c) /\ trace[c].row = "none" ->
              HandleFailure(c, "review")
         [] OTHER ->
              /\ task' = [task EXCEPT ![c].at = "assess", ![c].llm = llm]
              /\ UNCHANGED <<event, busy>>
  /\ UNCHANGED <<way, input, store, trouble>>

\* The assessment is back: record_session_risk, which an orphan makes raise.
EventAssess(c) ==
  /\ way = "event" /\ busy = NoCall /\ At(c, "assess")
  /\ IF trace[c].row = "orphan"
     THEN HandleFailure(c, "review") /\ UNCHANGED store
     ELSE /\ \E a \in Assess(input[c].text) : Recorded(c, a, latest)
          /\ Goto(c, "update") /\ busy' = c
          /\ UNCHANGED <<trace, run, event>>
  /\ UNCHANGED <<way, input, trouble>>

\* _update_alert, which creates the alert of an LLM-only hit.
EventUpdate(c) ==
  /\ At(c, "update")
  /\ IF Verdict(c, task[c].llm).alert THEN AlertEvent(c) ELSE UNCHANGED alerts
  /\ Goto(c, "project")
  /\ UNCHANGED <<way, input, trace, run, session, segments, latest, event, busy, trouble>>

EventProject(c) ==
  /\ At(c, "project")
  /\ IF trace[c].row = "none"
     THEN HandleFailure(c, "review") /\ UNCHANGED store
     ELSE /\ Projected(c, task[c].llm)
          /\ Goto(c, "review_done")
          /\ UNCHANGED <<segments, latest, event, busy>>
  /\ UNCHANGED <<way, input, trouble>>

EventDone(c) ==
  /\ At(c, "review_done")
  /\ event' = [event EXCEPT ![c].stage =
       IF task[c].llm.status = "failed" THEN "failed_review" ELSE "completed"]
  /\ task' = [task EXCEPT ![c] = Idle] /\ Leave
  /\ UNCHANGED <<way, input, store, trouble>>

\* retry_event_handler; retry_count stays.
Retry(c) ==
  /\ Trouble
  /\ \E stage \in {"rule", "review"} :
       /\ event[c].stage = Failed(stage)
       /\ event' = [event EXCEPT ![c].stage = stage]
  /\ UNCHANGED <<way, input, store, task, busy>>

-----------------------------------------------------------------------------
(* "gateway" and "engine": the classification of a trace. *)

\* The trace is stored.  If that fails the call is not analysed.
Begin(c) ==
  /\ way # "event" /\ At(c, "idle") /\ busy = NoCall
  /\ \/ /\ Create(c) /\ Goto(c, "rules")
        /\ busy' = IF way = "gateway" THEN c ELSE NoCall
        /\ UNCHANGED trouble
     \/ Goto(c, "gone") /\ Trouble /\ UNCHANGED <<trace, busy>>
  /\ UNCHANGED <<way, input, run, session, segments, latest, alerts, event>>

\* What follows the rules, and the verdict.
AfterRules(c) == IF way = "engine" /\ HasText(c) THEN "assess" ELSE "llm"

AfterSave(c) ==
  IF way = "gateway" /\ HasText(c) THEN Goto(c, "assess") /\ UNCHANGED busy
                                   ELSE Goto(c, "done") /\ Leave

AfterAssess(c) ==
  IF way = "engine" THEN Goto(c, "llm") /\ UNCHANGED busy
                    ELSE Goto(c, "done") /\ Leave

Immediate(c) ==
  /\ At(c, "rules")
  /\ IF input[c].rule # None THEN ImmediateAlert(c) ELSE UNCHANGED <<alerts, trace>>
  /\ Goto(c, AfterRules(c))
  /\ UNCHANGED <<way, input, run, session, segments, latest, event, busy, trouble>>

\* The reviewer has answered.
Save(c) ==
  /\ At(c, "llm")
  /\ \E llm \in LlmOutcomes(c) : SavePipeline(c, Verdict(c, llm))
  /\ AfterSave(c)
  /\ UNCHANGED <<way, input, segments, latest, event, trouble>>

\* analyze_request(wait_for_llm=False) with nothing to ask: no run is saved.
Unreviewed(c) ==
  /\ way = "engine" /\ At(c, "llm") /\ ~input[c].ask
  /\ Goto(c, "done")
  /\ UNCHANGED <<way, input, store, event, busy, trouble>>

\* record_session_risk reads the last segment before its transaction begins.
ReadPrevious(c) ==
  /\ way = "engine" /\ At(c, "assess")
  /\ task' = [task EXCEPT ![c].at = "record", ![c].previous = latest]
  /\ UNCHANGED <<way, input, store, event, busy, trouble>>

EngineRecord(c) ==
  /\ At(c, "record")
  /\ \E a \in Assess(input[c].text) : Recorded(c, a, task[c].previous)
  /\ AfterAssess(c)
  /\ UNCHANGED <<way, input, trace, run, event, trouble>>

\* The one audit loop has no other writer beside it.
GatewayRecord(c) ==
  /\ way = "gateway" /\ At(c, "assess")
  /\ \E a \in Assess(input[c].text) : Recorded(c, a, latest)
  /\ AfterAssess(c)
  /\ UNCHANGED <<way, input, trace, run, event, trouble>>

\* Mutated form: the exception leaves no trace.
NoteNothing(c) == UNCHANGED trace

\* set_classification with analysis_error.
NoteError(c) == trace' = [trace EXCEPT ![c].error = TRUE]

\* An exception: _classify_dlp notes it on the trace and goes on, analyze_request
\* or its background task is over, observe_session_risk hides it.
Fail(c) ==
  /\ way # "event" /\ Trouble
  /\ CASE At(c, "rules") \/ At(c, "llm") ->
            IF way = "gateway"
            THEN NoteError(c) /\ AfterSave(c)
            ELSE Goto(c, "gone") /\ UNCHANGED <<trace, busy>>
       [] At(c, "assess") \/ At(c, "record") -> AfterAssess(c) /\ UNCHANGED trace
       [] OTHER -> FALSE
  /\ UNCHANGED <<way, input, run, session, segments, latest, alerts, event>>

-----------------------------------------------------------------------------

\* The process is killed and started again.  recover puts every unfinished
\* event back in its stage; nothing remembers the calls of the other ways.
Crash ==
  /\ Trouble
  /\ task' = [c \in Calls |-> IF way = "event" \/ At(c, "idle") \/ At(c, "done")
                              THEN [task[c] EXCEPT !.at = IF At(c, "done") THEN "done" ELSE "idle"]
                              ELSE [task[c] EXCEPT !.at = "gone"]]
  /\ Leave
  /\ UNCHANGED <<way, input, store, event>>

Step(c) ==
  \/ Take(c) \/ RuleAlert(c) \/ RuleCommit(c) \/ RuleProject(c) \/ RuleDone(c)
  \/ EventReview(c) \/ EventAssess(c) \/ EventUpdate(c) \/ EventProject(c) \/ EventDone(c)
  \/ Immediate(c) \/ Save(c) \/ Unreviewed(c)
  \/ ReadPrevious(c) \/ EngineRecord(c) \/ GatewayRecord(c)

Next ==
  \/ \E c \in Calls : Accept(c) \/ Begin(c) \/ Respond(c) \/ Step(c) \/ Retry(c) \/ Fail(c)
  \/ Crash

Spec == Init /\ [][Next]_vars

\* The event loop runs what is ready, the dispatcher finds every unfinished
\* event, and a thread finishes what it began.
LiveSpec == Spec /\ \A c \in Calls : WF_vars(Step(c))

-----------------------------------------------------------------------------
(* Properties. *)

RunsWith(d) == {c \in Calls : run[c].decision = d /\ trace[c].row = "session"}
Alerted == {i \in DOMAIN segments : segments[i].alert # 0}

\* A session's counters are those of its traces' verdicts and of its risk
\* alerts, and its risk is at least theirs: however often a verdict is
\* projected again, saved late or retried, whoever else writes the row, and
\* with the immediate alert of a hit not counted twice (storage.py:579, 769).
CountersMatch ==
  /\ session.allow = Cardinality(RunsWith("allow"))
  /\ session.alerts = Cardinality(RunsWith("alert")) + Cardinality(Alerted)
  /\ \A c \in Calls : trace[c].row = "session" =>
       AtLeast(session.max_risk, RiskOrLow(run[c].risk))
  /\ \A i \in Alerted : AtLeast(session.max_risk, segments[i].assessment.severity)

Before(i) == IF i = 1 THEN NoAssessment ELSE segments[i - 1].assessment

Raises(a, before) ==
  /\ AtLeast(a.severity, "high")
  /\ ~AtLeast(before.severity, a.severity) \/ a.category # before.category

\* Behind the proxy a segment of a session has an alert exactly when it raises
\* the risk to high or critical, or changes its kind, against the segment
\* before it, and two segments in a row differ: concurrent reviews of one
\* session, retries and moved segments neither lose an escalation nor tell it
\* twice (storage.py:1005).  Concurrent callers of analyze_request may.
EscalationAlerted ==
  way # "engine" => \A i \in DOMAIN segments :
    /\ segments[i].assessment # Before(i)
    /\ i \in Alerted <=> Raises(segments[i].assessment, Before(i))

\* The alert of a segment stays a session risk alert, and its own: neither the
\* projection of an event nor a saved verdict rewrites it.  The exception is
\* analyze_request, which judges the session first: the verdict of a text
\* that only the reviewer rejects is written over it (storage.py:585).
SessionAlertKept ==
  \A i \in Alerted :
    LET alert == alerts[segments[i].alert] IN
    /\ alert.event = NoCall
    /\ \/ alert.stage = "session_risk"
       \/ way = "engine" /\ input[alert.call].rule = None /\ run[alert.call].decision = "alert"
    /\ \A j \in Alerted : segments[j].alert = segments[i].alert => i = j

\* A completed event has reached its trace: the trace, which may be an orphan
\* (gateway.py:502), shows the verdict of a finished review, the run agrees,
\* an alert verdict has its alert, every alert of the event is linked to it,
\* and a user text was judged (storage.py:638).
ProjectionComplete ==
  \A c \in Calls : event[c].stage = "completed" =>
    /\ trace[c].row # "none" /\ trace[c].pipeline = "completed"
    /\ trace[c].decision = run[c].decision
    /\ trace[c].decision = "alert" => \E i \in DOMAIN alerts : alerts[i].event = c
    /\ \A i \in DOMAIN alerts : alerts[i].event = c => alerts[i].call = c
    /\ HasText(c) => /\ trace[c].row = "session"
                     /\ \E i \in DOMAIN segments :
                          segments[i].assessment \in Assess(input[c].text)

GivenUp(c) ==
  \/ event[c].stage \in {"failed_rule", "failed_review"}
  \/ trace[c].error \/ At(c, "gone")

\* A trace that shows a verdict in progress comes to a final one, or its event
\* has failed, its analysis has noted an error, or the process that was
\* working on it, without an encryption key, is gone (storage.py:831).
VerdictSettles ==
  \A c \in Calls :
    trace[c].pipeline = "processing" ~> trace[c].pipeline = "completed" \/ GivenUp(c)

RiskAlertsOf(c) == {i \in AlertsOf(c) : alerts[i].stage = "session_risk"}

\* A retried or recovered review tells a session's risk again only when another
\* call has taken its first segment over: the check that should prevent it
\* looks for a segment with the trace's ID, and the same assessment of a later
\* call moves the segment to that one's trace (event_worker.py:385,
\* storage.py:990).
RetoldOnlyIfMoved ==
  \A c \in Calls : Cardinality(RiskAlertsOf(c)) > 1 =>
    \E k \in Alerted : segments[k].alert \in RiskAlertsOf(c) /\ segments[k].call # c
=============================================================================
