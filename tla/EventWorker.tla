----------------------------- MODULE EventWorker -----------------------------
(***************************************************************************)
(* Staged analysis of accepted events: automode_gateway/event_worker.py,   *)
(* with the administrator's retry (admin_api.py) and crashes.              *)
(*                                                                         *)
(* The workers, the dispatcher and the HTTP handlers share one event loop; *)
(* `loop` names the worker that is between two suspension points, where a  *)
(* second commit of the same stretch is still to come.  Only a crash and   *)
(* the management API, whose commits run in threads, fall into such a gap. *)
(* One action is at most one SQLite commit or one disk buffer operation.   *)
(*                                                                         *)
(* Abstracted: payloads and evidence, published messages, the alert beyond *)
(* its existence (module EventAlerts), reserving and writing a new event   *)
(* beyond its outcome (EventIngress), the projection onto proxy traces.    *)
(***************************************************************************)
EXTENDS Naturals, Sequences, FiniteSets, SequencesExt

CONSTANTS
  Events,           \* internal event IDs
  Envelopes,        \* what the events may be: functions from Events to records
                    \* [kind, call]; call is source, call and attempt together
  Incomplete,       \* the events whose content_integrity is not "complete"
  Realtime,         \* the proxy's events with user text for a session review
  RuleOutcomes,     \* [Events -> SUBSET RuleVerdicts]: what the rules may find
  RuleWorkers, Reviewers, Admins,
  Nobody,           \* neither a worker nor an event
  QueueLimit,       \* maxsize of the two queues
  FaultPoints,      \* where an operation may raise
  MaxFaults, MaxCrashes      \* bounds

Workers == RuleWorkers \cup Reviewers
MAX_RETRIES == 3

RuleVerdicts == [hit : BOOLEAN, review : BOOLEAN]
NoVerdict == [hit |-> FALSE, review |-> FALSE]

ASSUME WorkerAssumption ==
  /\ \A env \in Envelopes, e \in Events :
       env[e] \in [kind : {"request", "full_call", "response"}, call : Nat]
  /\ Incomplete \subseteq Events /\ Realtime \subseteq Events
  /\ RuleOutcomes \in [Events -> SUBSET RuleVerdicts]
  /\ \A e \in Events : \A r \in RuleOutcomes[e] : r.hit => r.review   \* engine.py:581
  /\ RuleWorkers \cap Reviewers = {} /\ Nobody \notin Workers \cup Events
  /\ QueueLimit \in Nat \ {0} /\ MaxFaults \in Nat /\ MaxCrashes \in Nat
  /\ FaultPoints \subseteq
       {"lookup", "read", "evaluate", "review", "commit", "delete", "handler"}

VARIABLES
  envelope,  \* what the events are
  row,       \* events: per event [proc, rule, llm, assoc, retries, verdict]
  body,      \* the events whose encrypted body is in the disk buffer
  alerted,   \* the events with an alert
  queue,     \* rule_queue and reviewer_queue, by the status column they serve
  work,      \* per worker: [at, event, verdict]
  loop,      \* the worker in a synchronous stretch, or Nobody
  admin,     \* per administrator: [at, event, stage]
  mode,      \* the process: "up", "down", "recovering"
  snapshot,  \* recover: the unfinished rows not yet looked at
  misread,   \* history: the events set back by the failing look-up of an old entry
  faults, crashes

environment == <<envelope, mode, snapshot, misread, crashes>>
vars == <<row, body, alerted, queue, work, loop, admin, environment, faults>>

\* The stages are named by their status column.
Stages == {"rule", "llm"}
Stage(w) == IF w \in RuleWorkers THEN "rule" ELSE "llm"

Absent == [proc |-> "absent", rule |-> "pending", llm |-> "pending",
           assoc |-> "none", retries |-> 0, verdict |-> NoVerdict]

IdleWorker == [at |-> "idle", event |-> Nobody, verdict |-> NoVerdict]
IdleAdmin  == [at |-> "idle", event |-> Nobody, stage |-> "rule"]

Accepted(e)  == row[e].proc \notin {"absent", "persisting"}
LoopFree     == mode = "up" /\ loop = Nobody
At(w, l)     == mode = "up" /\ work[w].at = l
Event(w)     == work[w].event

Init ==
  /\ envelope \in Envelopes
  /\ row = [e \in Events |-> Absent]
  /\ body = {} /\ alerted = {}
  /\ queue = [s \in Stages |-> << >>]
  /\ work = [w \in Workers |-> IdleWorker]
  /\ loop = Nobody
  /\ admin = [a \in Admins |-> IdleAdmin]
  /\ mode = "up" /\ snapshot = {} /\ misread = {}
  /\ faults = 0 /\ crashes = 0

-----------------------------------------------------------------------------
(* The table and the queues. *)

\* update_event_status, where a stage's own status follows the event's.
Update(e, s, status) == row' = [row EXCEPT ![e].proc = status, ![e][s] = status]

Queued(s, e) == e \in ToSet(queue[s])

\* Mutated form: one too many.
RoomForOneMore(s) == Len(queue[s]) <= QueueLimit

Room(s) == Len(queue[s]) < QueueLimit

\* enqueue_rule and enqueue_reviewer: an event that is queued, or for which
\* there is no room, is left to the dispatcher.
Enqueue(s, e) ==
  queue' = IF Queued(s, e) \/ ~Room(s) THEN queue
           ELSE [queue EXCEPT ![s] = Append(@, e)]

Goto(w, l) == work' = [work EXCEPT ![w].at = l]
Free(w)    == work' = [work EXCEPT ![w] = IdleWorker]
Hold(w)    == loop' = w
Yield      == loop' = Nobody

\* What a stage picks up: get_event after queue.get, and the dispatcher's SELECTs.
Due(s, e) == row[e][s] = "pending"

\* Mutated form: the dispatcher only looks for events to review.
DispatchableReview(s, e) ==
  /\ s = "llm" /\ row[e].proc = "pending" /\ Due(s, e) /\ row[e].rule = "completed"

Dispatchable(s, e) ==
  /\ row[e].proc = "pending" /\ Due(s, e)
  /\ s = "llm" => row[e].rule = "completed"

-----------------------------------------------------------------------------
(* Acceptance, seen from the worker. *)

Reserve(e) ==
  /\ LoopFree /\ row[e].proc = "absent"
  /\ row' = [row EXCEPT ![e].proc = "persisting"]
  /\ UNCHANGED <<body, alerted, queue, work, loop, admin, environment, faults>>

\* The body is written and the index entry published ...
Publish(e) ==
  /\ LoopFree /\ row[e].proc = "persisting"
  /\ row' = [row EXCEPT ![e].proc = "pending"]
  /\ body' = body \cup {e}
  /\ Enqueue("rule", e)
  /\ UNCHANGED <<alerted, work, loop, admin, environment, faults>>

\* ... or there was no room, and the reservation goes.
Abandon(e) ==
  /\ LoopFree /\ row[e].proc = "persisting"
  /\ row' = [row EXCEPT ![e] = Absent]
  /\ UNCHANGED <<body, alerted, queue, work, loop, admin, environment, faults>>

-----------------------------------------------------------------------------
(* The worker loops. *)

\* Mutated form: the event is not claimed before its body is read.
TakeUnclaimed(w) ==
  LET s == Stage(w)
      e == Head(queue[s])
  IN /\ LoopFree /\ At(w, "idle") /\ queue[s] # << >>
     /\ queue' = [queue EXCEPT ![s] = Tail(@)]
     /\ work' = IF Due(s, e)
                  THEN [work EXCEPT ![w] = [at |-> "read", event |-> e,
                                            verdict |-> row[e].verdict]]
                  ELSE work
     /\ UNCHANGED <<row, body, alerted, loop, admin, environment, faults>>

\* queue.get() and the part of a stage up to its first suspension.
Take(w) ==
  LET s == Stage(w)
      e == Head(queue[s])
  IN /\ LoopFree /\ At(w, "idle") /\ queue[s] # << >>
     /\ queue' = [queue EXCEPT ![s] = Tail(@)]
     /\ IF Due(s, e)
          THEN /\ Update(e, s, "processing")
               /\ work' = [work EXCEPT ![w] = [at |-> "read", event |-> e,
                                               verdict |-> row[e].verdict]]
          ELSE UNCHANGED <<row, work>>
     /\ UNCHANGED <<body, alerted, loop, admin, environment, faults>>

\* _handle_failure: the stage is tried again, or given up after MAX_RETRIES,
\* whatever has become of the event meanwhile.
Again(e) == row[e].retries + 1 < MAX_RETRIES

SetBack(s, e) ==
  LET status == IF Again(e) THEN "pending" ELSE "failed"
  IN row' = [row EXCEPT ![e].proc = status, ![e][s] = status, ![e].retries = @ + 1]

HandleFailure(w) ==
  LET s == Stage(w)
      e == Event(w)
  IN /\ SetBack(s, e)
     /\ IF Again(e) THEN Enqueue(s, e) ELSE UNCHANGED queue
     /\ Free(w) /\ Yield

\* get_event raises before the stage can see whether the entry is still due.  The
\* worker is free again, or its loop ends as in Raise; the entry has made room.
LookupFails(w) ==
  LET s == Stage(w)
      e == Head(queue[s])
  IN /\ LoopFree /\ At(w, "idle") /\ queue[s] # << >>
     /\ "lookup" \in FaultPoints /\ faults < MaxFaults
     /\ faults' = faults + 1
     /\ \/ /\ SetBack(s, e)
           /\ queue' = [queue EXCEPT ![s] = IF Again(e) THEN Append(Tail(@), e) ELSE Tail(@)]
           /\ misread' = IF Due(s, e) THEN misread ELSE misread \cup {e}
           /\ UNCHANGED work
        \/ /\ "handler" \in FaultPoints /\ Goto(w, "dead")
           /\ queue' = [queue EXCEPT ![s] = Tail(@)]
           /\ UNCHANGED <<row, misread>>
     /\ UNCHANGED <<envelope, body, alerted, loop, admin, mode, snapshot, crashes>>

\* An exception in a stage; when the handler's own commit fails as well, the
\* exception leaves the worker loop and the task is gone.
Raise(w, point) ==
  /\ point \in FaultPoints /\ faults < MaxFaults
  /\ faults' = faults + 1
  /\ \/ HandleFailure(w)
     \/ "handler" \in FaultPoints /\ Goto(w, "dead") /\ Yield /\ UNCHANGED <<row, queue>>
  /\ UNCHANGED <<body, alerted, admin, environment>>

\* The events of e's call that find_correlated_events gives for e.
Matches(e) ==
  LET wanted == IF envelope[e].kind = "response" THEN "request" ELSE "response"
  IN {m \in Events : /\ row[m].proc # "absent"
                     /\ envelope[m] = [kind |-> wanted, call |-> envelope[e].call]}

Association(e) ==
  IF Matches(e) # {} THEN "associated"
  ELSE IF envelope[e].kind = "response" THEN "request_missing" ELSE "none"

\* What is committed of e's association.  A response is complete with it.
Associate(e) ==
  row' = IF envelope[e].kind = "response"
           THEN [row EXCEPT ![e].assoc = Association(e), ![e].rule = "completed",
                            ![e].llm = "skipped", ![e].proc = "completed"]
           ELSE [row EXCEPT ![e].assoc = Association(e)]

\* The body is read; a missing one raises.
ReadForRules(w) ==
  /\ w \in RuleWorkers /\ LoopFree /\ At(w, "read")
  /\ IF Event(w) \in body
       THEN Associate(Event(w)) /\ Goto(w, "link") /\ Hold(w) /\ UNCHANGED queue
       ELSE HandleFailure(w)
  /\ UNCHANGED <<body, alerted, admin, environment, faults>>

\* Mutated form: only the event at hand is marked.
LinkNone(w) ==
  /\ At(w, "link")
  /\ Goto(w, IF envelope[Event(w)].kind = "response" THEN "delete" ELSE "evaluate") /\ Yield
  /\ UNCHANGED <<row, body, alerted, queue, admin, environment, faults>>

\* The other direction of the association.  (With no body to scan the rules
\* are not called and the stretch goes on; the model lets others in there.)
Link(w) ==
  LET e == Event(w) IN
  /\ At(w, "link")
  /\ row' = [m \in Events |-> IF m \in Matches(e) THEN [row[m] EXCEPT !.assoc = "associated"]
                                                  ELSE row[m]]
  /\ Goto(w, IF envelope[e].kind = "response" THEN "delete" ELSE "evaluate") /\ Yield
  /\ UNCHANGED <<body, alerted, queue, admin, environment, faults>>

\* Mutated form: the alert is left to the reviewer stage.
EvaluateRulesQuiet(w) ==
  /\ LoopFree /\ At(w, "evaluate")
  /\ \E r \in RuleOutcomes[Event(w)] :
       work' = [work EXCEPT ![w].at = "rule_commit", ![w].verdict = r]
  /\ Hold(w)
  /\ UNCHANGED <<row, body, alerted, queue, admin, environment, faults>>

\* The rule channel returns; a hit is alerted first.
EvaluateRules(w) ==
  LET e == Event(w) IN
  /\ LoopFree /\ At(w, "evaluate")
  /\ \E r \in RuleOutcomes[e] :
       /\ work' = [work EXCEPT ![w].at = "rule_commit", ![w].verdict = r]
       /\ alerted' = IF r.hit THEN alerted \cup {e} ELSE alerted
  /\ Hold(w)
  /\ UNCHANGED <<row, body, queue, admin, environment, faults>>

CommitRules(w) ==
  /\ At(w, "rule_commit")
  /\ row' = [row EXCEPT ![Event(w)].rule = "completed",
                         ![Event(w)].verdict = work[w].verdict]
  /\ Goto(w, "handoff")
  /\ UNCHANGED <<body, alerted, queue, loop, admin, environment, faults>>

\* Mutated form: only what the rules alert on is reviewed.
ToReviewerHit(e, verdict) == verdict.hit \/ e \in Realtime

\* The event goes to the reviewers, its retries counted anew ...
ToReviewer(e, verdict) == verdict.review \/ e \in Realtime

HandOff(w) ==
  LET e == Event(w) IN
  /\ At(w, "handoff") /\ ToReviewer(e, work[w].verdict)
  /\ row' = [row EXCEPT ![e].llm = "pending", ![e].proc = "pending", ![e].retries = 0]
  /\ Enqueue("llm", e)
  /\ Free(w) /\ Yield
  /\ UNCHANGED <<body, alerted, admin, environment, faults>>

\* ... or is finished: of an incomplete body nothing is established.
Finish(w) ==
  LET e == Event(w) IN
  /\ At(w, "handoff") /\ ~ToReviewer(e, work[w].verdict)
  /\ row' = [row EXCEPT ![e].proc = "completed",
                         ![e].llm = IF e \in Incomplete THEN "failed" ELSE "not_needed"]
  /\ Goto(w, "delete") /\ Yield
  /\ UNCHANGED <<body, alerted, queue, admin, environment, faults>>

ReadForReview(w) ==
  /\ w \in Reviewers /\ LoopFree /\ At(w, "read")
  /\ IF Event(w) \in body
       THEN Goto(w, "review") /\ UNCHANGED <<row, queue, loop>>
       ELSE HandleFailure(w)
  /\ UNCHANGED <<body, alerted, admin, environment, faults>>

\* evaluate_llm_channel answers (no clue: not_needed, without asking), and a
\* reject alerts.  The rule verdict is the one read when the stage began.  An
\* outage counts as a fault.
Review(w) ==
  LET e == Event(w) IN
  /\ LoopFree /\ At(w, "review")
  /\ \E outcome \in IF work[w].verdict.review THEN {"reject", "other", "failed"}
                                             ELSE {"not_needed"} :
       /\ IF outcome = "failed" THEN faults < MaxFaults /\ faults' = faults + 1
                              ELSE UNCHANGED faults
       /\ Goto(w, CASE outcome = "failed"     -> "review_failed"
                    [] outcome = "not_needed" -> "review_not_needed"
                    [] OTHER                  -> "review_completed")
       /\ alerted' = IF outcome = "reject" \/ work[w].verdict.hit
                       THEN alerted \cup {e} ELSE alerted
  /\ Hold(w)
  /\ UNCHANGED <<row, body, queue, admin, environment>>

\* Mutated form: the body is deleted after any review.
CommitOutageDelete(w) ==
  /\ At(w, "review_failed")
  /\ Update(Event(w), "llm", "failed")
  /\ Goto(w, "delete") /\ Yield
  /\ UNCHANGED <<body, alerted, queue, admin, environment, faults>>

\* A reviewer outage keeps the body for the administrator's retry.
CommitOutage(w) ==
  /\ At(w, "review_failed")
  /\ Update(Event(w), "llm", "failed")
  /\ Free(w) /\ Yield
  /\ UNCHANGED <<body, alerted, queue, admin, environment, faults>>

CommitReview(w) ==
  /\ work[w].at \in {"review_completed", "review_not_needed"} /\ mode = "up"
  /\ row' = [row EXCEPT ![Event(w)].proc = "completed",
       ![Event(w)].llm = IF At(w, "review_completed") THEN "completed" ELSE "not_needed"]
  /\ Goto(w, "delete") /\ Yield
  /\ UNCHANGED <<body, alerted, queue, admin, environment, faults>>

\* async_delete, in its thread, and the end of the stage.
Delete(w) ==
  /\ At(w, "delete")
  /\ body' = body \ {Event(w)}
  /\ Free(w)
  /\ UNCHANGED <<row, alerted, queue, loop, admin, environment, faults>>

\* Where a stage may raise: in an operation it awaits, or in a commit.
PointOf(at) == IF at \in {"read", "evaluate", "review", "delete"} THEN at ELSE "commit"

Fails(w) ==
  LET point == PointOf(work[w].at) IN
  /\ mode = "up" /\ work[w].at \notin {"idle", "dead"}
  /\ point # "commit" => LoopFree
  /\ Raise(w, point)

\* One pass of _dispatch_pending_loop, for one event.
Dispatch(s, e) ==
  /\ LoopFree /\ Dispatchable(s, e) /\ ~Queued(s, e) /\ Room(s)
  /\ Enqueue(s, e)
  /\ UNCHANGED <<row, body, alerted, work, loop, admin, environment, faults>>

-----------------------------------------------------------------------------
(* retry_event_handler: what it read is checked and acted on later, and the   *)
(* two columns it sets are two commits.                                       *)

RetryStage(e) == IF row[e].rule = "failed" THEN "rule" ELSE "llm"

RetryCheck(a, e) ==
  /\ LoopFree /\ admin[a].at = "idle"
  /\ row[e].proc = "failed" /\ e \in body
  /\ "failed" \in {row[e].rule, row[e].llm}
  /\ admin' = [admin EXCEPT ![a] = [at |-> "first", event |-> e, stage |-> RetryStage(e)]]
  /\ UNCHANGED <<row, body, alerted, queue, work, loop, environment, faults>>

RetryFirst(a) ==
  /\ mode = "up" /\ admin[a].at = "first"
  /\ row' = [row EXCEPT ![admin[a].event].proc = "pending"]
  /\ admin' = [admin EXCEPT ![a].at = "second"]
  /\ UNCHANGED <<body, alerted, queue, work, loop, environment, faults>>

RetrySecond(a) ==
  /\ mode = "up" /\ admin[a].at = "second"
  /\ row' = [row EXCEPT ![admin[a].event][admin[a].stage] = "pending"]
  /\ admin' = [admin EXCEPT ![a].at = "enqueue"]
  /\ UNCHANGED <<body, alerted, queue, work, loop, environment, faults>>

\* Either commit fails: the request ends there, what it has set stays set.
RetryFails(a) ==
  /\ mode = "up" /\ admin[a].at \in {"first", "second"}
  /\ "commit" \in FaultPoints /\ faults < MaxFaults
  /\ faults' = faults + 1
  /\ admin' = [admin EXCEPT ![a] = IdleAdmin]
  /\ UNCHANGED <<row, body, alerted, queue, work, loop, environment>>

RetryEnqueue(a) ==
  /\ LoopFree /\ admin[a].at = "enqueue"
  /\ Enqueue(admin[a].stage, admin[a].event)
  /\ admin' = [admin EXCEPT ![a] = IdleAdmin]
  /\ UNCHANGED <<row, body, alerted, work, loop, environment, faults>>

-----------------------------------------------------------------------------
(* Crashes and recover. *)

Crash ==
  /\ mode # "down" /\ crashes < MaxCrashes
  /\ mode' = "down" /\ crashes' = crashes + 1
  /\ queue' = [s \in Stages |-> << >>]
  /\ work' = [w \in Workers |-> IdleWorker]
  /\ admin' = [a \in Admins |-> IdleAdmin]
  /\ Yield /\ snapshot' = {}
  /\ UNCHANGED <<envelope, row, body, alerted, misread, faults>>

\* Mutated form: recover looks at every accepted event.
UnfinishedAny(e) == Accepted(e)

\* Unfinished reservations are removed (one whose file was written would be
\* published: that is Publish, before the crash), and the unfinished rows read.
Unfinished(e) == row[e].proc \in {"pending", "processing"}

Restart ==
  /\ mode = "down"
  /\ mode' = "recovering"
  /\ row' = [e \in Events |-> IF row[e].proc = "persisting" THEN Absent ELSE row[e]]
  /\ snapshot' = {e \in Events : Unfinished(e)}
  /\ UNCHANGED <<envelope, body, alerted, queue, work, loop, admin, misread, faults, crashes>>

InProgress(status) == status \in {"pending", "processing"}
Failing(status) == IF InProgress(status) THEN "failed" ELSE status

\* Mutated form: every unfinished event starts again from its rules.
RecoverFromRules(e) ==
  /\ mode = "recovering" /\ e \in snapshot
  /\ snapshot' = snapshot \ {e}
  /\ Update(e, "rule", "pending") /\ Enqueue("rule", e)
  /\ UNCHANGED <<envelope, body, alerted, work, loop, admin, mode, misread, faults, crashes>>

RecoverEvent(e) ==
  /\ mode = "recovering" /\ e \in snapshot
  /\ snapshot' = snapshot \ {e}
  /\ CASE e \notin body ->
            /\ row' = [row EXCEPT ![e].proc = "failed", ![e].rule = Failing(@), ![e].llm = Failing(@)]
            /\ UNCHANGED queue
       [] e \in body /\ InProgress(row[e].rule) ->
            Update(e, "rule", "pending") /\ Enqueue("rule", e)
       [] e \in body /\ row[e].rule = "completed" /\ InProgress(row[e].llm) ->
            Update(e, "llm", "pending") /\ Enqueue("llm", e)
       [] OTHER -> UNCHANGED <<row, queue>>
  /\ UNCHANGED <<envelope, body, alerted, work, loop, admin, mode, misread, faults, crashes>>

Reapable == {e \in body : row[e].proc = "completed"}

Reap(e) ==
  /\ mode = "recovering" /\ snapshot = {} /\ e \in Reapable
  /\ body' = body \ {e}
  /\ UNCHANGED <<row, alerted, queue, work, loop, admin, environment, faults>>

Ready ==
  /\ mode = "recovering" /\ snapshot = {} /\ Reapable = {}
  /\ mode' = "up"
  /\ UNCHANGED <<row, body, alerted, queue, work, loop, admin>>
  /\ UNCHANGED <<envelope, snapshot, misread, faults, crashes>>

-----------------------------------------------------------------------------

Proceed(w) ==
  \/ ReadForRules(w) \/ Link(w) \/ EvaluateRules(w) \/ CommitRules(w)
  \/ HandOff(w) \/ Finish(w)
  \/ ReadForReview(w) \/ Review(w) \/ CommitOutage(w) \/ CommitReview(w) \/ Delete(w)

Retry(a) == RetryFirst(a) \/ RetrySecond(a) \/ RetryEnqueue(a)

Next ==
  \/ \E e \in Events : Reserve(e) \/ Publish(e) \/ Abandon(e) \/ RecoverEvent(e) \/ Reap(e)
  \/ \E s \in Stages, e \in Events : Dispatch(s, e)
  \/ \E w \in Workers : Take(w) \/ LookupFails(w) \/ Proceed(w) \/ Fails(w)
  \/ \E a \in Admins : Retry(a) \/ RetryFails(a) \/ \E e \in Events : RetryCheck(a, e)
  \/ Crash \/ Restart \/ Ready

Spec == Init /\ [][Next]_vars

\* Fairness: the event loop runs what is ready, a thread pool finishes what it
\* began, the dispatcher polls for ever, and the container is started again
\* (docker-compose.yml).  Nothing obliges a source, an administrator or a fault.
Fairness ==
  /\ \A w \in Workers : WF_vars(Take(w)) /\ WF_vars(Proceed(w))
  /\ \A s \in Stages, e \in Events : WF_vars(Dispatch(s, e))
  /\ \A e \in Events : WF_vars(RecoverEvent(e)) /\ WF_vars(Reap(e))
  /\ \A a \in Admins : WF_vars(Retry(a))
  /\ WF_vars(Restart) /\ WF_vars(Ready)

LiveSpec == Spec /\ Fairness

-----------------------------------------------------------------------------
(* Properties. *)

Rows ==
  [ proc : {"absent", "persisting", "pending", "processing", "completed", "failed"},
    rule : {"pending", "processing", "completed", "failed"},
    llm : {"pending", "processing", "completed", "failed", "skipped", "not_needed"},
    assoc : {"none", "associated", "request_missing"},
    retries : Nat, verdict : RuleVerdicts ]

Places == {"idle", "read", "link", "evaluate", "rule_commit", "handoff", "review",
           "review_failed", "review_completed", "review_not_needed", "delete", "dead"}

\* Every variable has its type; no queue holds more than its limit, or an
\* event twice.
TypeOK ==
  /\ envelope \in Envelopes
  /\ row \in [Events -> Rows]
  /\ body \subseteq Events /\ alerted \subseteq Events
  /\ queue \in [Stages -> Seq(Events)]
  /\ \A s \in Stages : Len(queue[s]) <= QueueLimit /\ IsInjective(queue[s])
  /\ work \in [Workers -> [at : Places, event : Events \cup {Nobody}, verdict : RuleVerdicts]]
  /\ loop \in Workers \cup {Nobody}
  /\ admin \in [Admins -> [at : {"idle", "first", "second", "enqueue"},
                           event : Events \cup {Nobody}, stage : Stages]]
  /\ mode \in {"up", "down", "recovering"} /\ snapshot \subseteq Events /\ misread \subseteq Events
  /\ faults \in 0..MaxFaults /\ crashes \in 0..MaxCrashes

\* A committed rule hit has its alert: no crash between the two commits of the
\* stage leaves it unalerted.
HitAlerted ==
  \A e \in Events : row[e].rule = "completed" /\ row[e].verdict.hit => e \in alerted

\* A queue entry may be old: a retry sets its stage to pending and queues it
\* later, and by then the dispatcher has, and the stage is at work or done.  Take
\* passes such an entry over, but if looking it up fails, _handle_failure sets the
\* event back all the same, under the worker that has it or after its completion.
\* The next five properties are about the events to which that has not happened.

\* Nothing deletes the body of an event whose analysis may still need it; a
\* failed one is kept for the administrator.
BodyKept ==
  \A e \in Events : Accepted(e) /\ row[e].proc # "completed" => e \in body \/ e \in misread

\* A completed event went through its stages: its rule result is committed, and
\* if that asked for a review, a reviewer gave it a verdict.
CompletedIsReviewed ==
  \A e \in Events \ misread : row[e].proc = "completed" =>
    /\ row[e].rule = "completed"
    /\ row[e].verdict.review => row[e].llm = "completed"

\* No event is in the hands of two workers, of one stage or of both, whatever
\* the dispatcher, retries, hand-offs and recovery put into the queues, unless
\* looking up an old entry of it has failed.
OneWorker ==
  \A v, w \in Workers : Event(v) = Event(w) /\ Event(v) \notin {Nobody} \cup misread => v = w

\* A completed event stays as it is, its association apart: once the worker
\* that completed it has let go of it (a failure before that makes it retry),
\* it is not analysed or alerted on again, unless looking up an old entry fails.
CompletedForGood ==
  [][\A e \in Events : row[e].proc = "completed" /\ ~(\E w \in Workers : Event(w) = e) =>
       row'[e] = [row[e] EXCEPT !.assoc = row'[e].assoc] \/ e \in misread']_vars

\* A committed rule result is not taken back: restarts, reviewer failures and
\* their retries do not run the rules of an event again.  Only the rule worker
\* that has the event does, when an operation after that commit fails, and one
\* that fails to look up an old entry.
RulesOnce ==
  [][\A e \in Events : row[e].rule = "completed" /\ ~(\E w \in RuleWorkers : Event(w) = e) =>
       \/ row'[e].rule = "completed" /\ row'[e].verdict = row[e].verdict
       \/ e \in misread']_vars

\* A response whose request has been analysed is not marked request_missing,
\* whichever came first and whatever failed or crashed in between.
LateRequestLinked ==
  \A q, r \in Events :
    /\ envelope[q].kind = "response" /\ row[q].proc = "completed"
    /\ envelope[r].kind = "request" /\ row[r].rule = "completed"
    /\ envelope[q].call = envelope[r].call
    => row[q].assoc = "associated"

\* Pending with no stage to take it up, and no administrator at work on it: a
\* crash, or a failing commit, between the two commits of a retry.
Stranded(e) ==
  /\ mode = "up" /\ row[e].proc = "pending"
  /\ row[e].rule # "pending"
  /\ row[e].rule = "completed" => row[e].llm # "pending"
  /\ ~\E a \in Admins : admin[a].event = e

\* Reopened after its body could not be deleted or an old entry not be looked up,
\* and caught by a crash with its rules committed again: its llm_status is still
\* the old one, so recover finds no stage to requeue.
Reopened(e) ==
  /\ mode = "up" /\ row[e].proc = "processing"
  /\ row[e].rule = "completed" /\ row[e].llm \in {"not_needed", "failed", "completed"}
  /\ ~\E w \in Workers : Event(w) = e

\* An accepted event, and a retried one, is completed or failed in the end,
\* unless a crash or a failed retry has left it in one of two states that
\* nothing takes up.
Settles ==
  \A e \in Events : Accepted(e) ~>
    row[e].proc \in {"completed", "failed"} \/ Stranded(e) \/ Reopened(e)

\* Stated by the documents and comments, and not kept by the code:

\* A pending event is one some stage will take up, or an administrator is about
\* to hand to one: recovery requeues whatever is unfinished.
PendingIsDue == \A e \in Events : ~Stranded(e)

\* No event with an incomplete body is completed as one that needs no review.
IncompleteNotCleared ==
  \A e \in Incomplete \ Realtime : row[e].proc = "completed" => row[e].llm # "not_needed"
=============================================================================
