# AutoMode intent gateway: TLA+ verification

TLA+ modules, TLC models and TLAPS proofs for the gateway in
`src/automode_gateway`. The gateway inspects requests to language models for
outbound sensitive data. Rules and LLM reviewers judge a request on two
channels, the two conclusions are aggregated into one verdict, and a verdict
that alerts keeps exactly one alert. Requests arrive through the model proxy or
as *standard events* over `POST /v1/events`, which are persisted, answered 202,
and analysed in stages by background workers.

Contents: [parts of the system](#1-the-system) ·
[modules and code](#2-modules-and-the-code-they-model) ·
[runs](#3-what-the-runs-check) · [bounds](#4-bounds) ·
[fairness](#5-fairness) · [proofs](#6-proofs) ·
[known behaviour](#7-known-behaviour-that-the-documents-do-not-describe) ·
[not modelled](#8-what-is-not-modelled) · [plan](#9-plan)

    tlc -workers 2 -config AnalysisEngine.cfg MCAnalysisEngine.tla
    tlapm EventIngress_proofs.tla

## 1. The system

| part | state | operations | what is hard | what makes it correct |
|---|---|---|---|---|
| **Analysis engine** `engine.py`, `dlp.py`, `llm_classifier.py` | none of its own; the rule result, the reviewer result, the verdict | rule channel, fast and deep reviewer, aggregation | reviewers absent, failing, undecided in any combination; exemptions interacting with hard data | the documented matrix; rules never lowered; an outage never reads as safe |
| **Event alerts** `storage.py` (`create_event_alert`, `update_event_alert`, `update_alert`) | `alerts` table | create on a rule hit, update with the verdict, operator's disposition | two commits per stage, restarts and changed policies between them, overlapping events, operators meanwhile | one alert per observation, showing the event's own verdict, disposition kept |
| **Event ingress** `event_ingress.py`, `disk_buffer.py` | `events` rows, encrypted files, byte counter | reserve, write, finalize, answer; undo; scan at start | faults of disk and database at every step, crashes, resubmission, a second caller without the lock | a 202 is durable; no orphan file; exact accounting; reservations resolved |
| **Event worker** `event_worker.py` | `events` status columns, two bounded queues, worker tasks | take, rule stage, reviewer stage, failure handler, dispatcher, recovery | interleaved workers, full queues, crash between commits, response before request | every event settles; nothing analysed twice, completed twice or cleared unreviewed |
| **Administrator retry** `admin_api.py` | the same rows | check, two commits, enqueue | checks that are stale when acted on | only failed events run again |
| **Proxy and audit loop** `gateway.py` | byte-bounded memory queue, drop and failure counters | forward, enqueue, persist in the background, drain at shutdown | best effort under load, failure inside the failure path | accounting of what is dropped; the loop survives |
| **Request analysis and trace projection** `engine.py`, `storage.py`, `pipeline.py` | `traces`, `classification_runs`, `alerts` by trace | immediate rule alert, background LLM task, projection of event results | background update after the answer | the projection follows the event |
| **Session risk** `session_risk.py`, `storage.py` | `session_risk_segments`, alerts | record an assessment, escalate | repeated and retried assessments, one alert table shared with DLP | one alert per escalation |
| **Session grouping** `session_fingerprint.py`, `storage.py` | `sessions`, their counts and standing instructions | join by client ID or fingerprint; regroup history | concurrent calls, a regrouping in four steps beside them, redacted and missing bodies | an explicit ID decides; an undisturbed conversation is one session; no instruction is lost |
| **Rules and policies** `storage.py`, `rule_compiler.py`, `dlp_rule_compiler.py`, `policy.py` | versions and statuses | draft, test, publish, roll back | two administrators | at most one active version |
| **Evidence store** `evidence.py` | encrypted files with expiry | put, get, expire | cleanup against references | what is referred to is there until it expires |
| **Event broker** `events.py` | bounded queues per subscriber | publish, subscribe | slow subscribers | a publisher never blocks |
| **Parsing, normalising, legacy classifier, CLI, UI** | none | pure functions, assembly, display | | |

How they interact. `accept_standard_event` is called by concurrent HTTP handlers
under one lock and by the proxy's persistence loop without it. It leaves an
`events` row and an encrypted body, and queues the event. Rule workers and
reviewer workers, a dispatcher that polls the table, the failure handler,
recovery at startup and the administrator's retry all move the same status
columns and share the two queues. The rule stage calls the engine's rule channel
and creates the alert; the reviewer stage calls the LLM channel and updates it.
Workers, dispatcher and HTTP handlers run on one asyncio loop, so a stretch of
code without `await` is not interleaved with them; disk operations, the
management API's store calls and the callers of `analyze_request` run in threads
and are. A proxied call leaves its copies with the audit loop, which makes an
event of them when there is an encryption key and analyses the request itself
when there is none; either way the result ends in the call's trace, its session
and the alerts. SQLite commits are atomic,
but most steps above consist of two of them.

## 2. Modules and the code they model

**`DualChannel`** — `max_severity` and `aggregate_dual_channel` (engine.py) as
operators. Severities are ordered by rank; `None` is the absent level. The other
modules extend it, so each uses the code's own aggregation.

**`AnalysisEngine`** — one request through both channels. `request` (findings,
trust of the target, tool, policies) and the configured `reviewers` are chosen
initially; `EvaluateRules` is `evaluate_rule_channel` with policy matching, the
approval exemption and the built-in severities; `AskFast`, `SkipFast`,
`AskDeep`, `NoDeep`, `WithoutReviewer` are the paths through
`evaluate_llm_channel`; `Aggregate` the aggregation. The order in which
reviewers were consulted is kept in `consulted`. Scanning and prompting are
reduced to the set of findings and a reviewer's possible outcomes.

**`EventAlerts`** — the alert of an event. `stage` is where the event is between
the commits of its two stages; `EvaluateRule`/`CommitRule` and
`Review`/`CommitReview` are the commits, `Rerun` a restart or fault between two
of them, `Retry` the administrator's, `Operate` the operator's disposition.
`AlertFor` is the look-up `create_event_alert` does: the event's own alert, the
oldest alert of an overlapping event, or a new one.

**`ReliableInbox`** — the promise, without mechanism: per key an event is
accepted once, answered only with what was accepted, and finished after that. A
failure after its end may take it up again, with the same content.

**`EventIngress`** — the mechanism: `rows` (the `events` table), `files` (the
encrypted bodies), `used` (`DiskBuffer._used_bytes`), handlers with a program
counter. `Submit` is `reserve_event` and its four results, `Write` the disk
buffer's write with both limits, `Finalize`, `Answer`, and `Unlink`,
`Unreserve` for the except clauses; each may fail. `Complete` and `Release` are
what the worker does with an accepted event, in two steps. `Release` has three
outcomes: the body is `Deleted`; the deletion fails and `_handle_failure` sets the
completed event back (`DeletionFails`: to pending, or failed with its body, which
are one state here); or the handler fails as well and the worker's loop ends
(`DeletionLost`). `Reopen` is any other failure that sets a completed event back.
The history variables `finished` and `lost` say which events were once analysed to
the end and whose worker ended before the deletion. `Crash`, `Restart`
(the buffer's scan), `RecoverRow` and `Ready` are the process going away and
`EventWorker.recover`. `InboxView` maps the rows to `ReliableInbox`.

**`EventWorker`** — staged analysis. `row` holds the status columns, `queue` the
two queues, `work` the place of each worker task between its commits and awaits,
`admin` the place of each administrator's retry. `loop` names the worker that is
inside a synchronous stretch with another commit to come: until it yields no
other coroutine runs, but a crash or a management thread may intervene. Each
action is named after its code: `Take`, `ReadForRules`, `Link`, `EvaluateRules`,
`CommitRules`, `HandOff` or `Finish`, `ReadForReview`, `Review`, `CommitOutage`
or `CommitReview`, `Delete`; `HandleFailure` is `_handle_failure`, which may
itself fail; `LookupFails` is `get_event` raising on a queue entry, before the stage
can see whether the entry is still due (for a due one it also stands for the
failing commit that claims it); `Dispatch` is a pass of the dispatcher;
`RetryCheck`, `RetryFirst`, `RetrySecond`, `RetryEnqueue` the retry, and `RetryFails`
a failure of one of its commits; `Crash`, `Restart`, `RecoverEvent`,
`Reap`, `Ready` a crash and `recover`. The history variable `misread` has the events
that `LookupFails` set back although the entry was an old one, no longer due.

`EventAlerts`, `EventIngress` and `EventWorker` are three views of one table. Each
keeps the columns its questions are about: `EventIngress` reduces the worker to
`Complete`/`Release`/`Reopen`; `EventWorker` reduces acceptance to
`Reserve`/`Publish`/`Abandon` and the alert to its existence; `EventAlerts` keeps
the alert and reduces the rest to `stage`.

**`ProxyAudit`** — the copies of proxied traffic. `queue` and `held` are the audit
queue and the item in the loop's hand, `bytes` the byte counter, `future` what the
handler of an item may await, `loop` where `_proxy_audit_loop` is; `durable` says
whether there is an encryption key. `Request`, `Upstream`, `Resume`, `Finish`,
`CancelHandler` are the handler, `Take`, `Create`, `Accept`, `Resolve`,
`Respond`, `Classify` the loop, whose `Fail` is its `except` clause, `Stop`,
`Joined`, `JoinTimeout` the shutdown. The second `set_result` of a future that
has its result raises out of the loop, as in asyncio.

**`ProxyTraces`** — how a verdict reaches the trace. `way` is the caller: `"event"`
(the worker's stages, `RuleAlert` to `EventDone`, which a crash and a retry
repeat), `"gateway"` (the audit loop without a key, one call at a time) or
`"engine"` (`analyze_request`: `Begin`, `Immediate`, `ReadPrevious`,
`EngineRecord`, `Save`, concurrent, and `Save` possibly in the background).
All three end in the same operators of `TraceStore`: `SavePipeline`, `Projected`,
`ImmediateAlert`, `Linked` and `Recorded` (`record_session_risk`). The state is
one session with its counters, its risk segments and the one alerts table that
DLP and session risk share.

**`SessionGrouping`** — which session a request joins. A call takes its time
(`Arrive`), looks (`Look`) and writes (`Write`, or `Refuse` when the external ID is
taken meanwhile); `Orphan` is a response without its request. `ReadTraces`,
`Regroup`, `ReadBaselines`, `Rebuild` are the four steps of `backfill_sessions`.
`crossed` is a history variable: the calls that ran beside another call or a
backfill, for which some properties promise less. `storeRaw` is the setting
that stores request bodies.

**`AnalysisEngine_proofs`**, **`EventAlerts_proofs`**, **`EventIngress_proofs`**,
**`EventWorker_proofs`**, **`ProxyAudit_proofs`**, **`ProxyTraces_proofs`**,
**`SessionGrouping_proofs`** — the theorems of section 6. **`OperatorLemmas`** has
what several of them need about operators: sums over finite sets, which the two
byte counters are, and the aggregation of `DualChannel`.

The `MC*` modules choose the instances. Operators with the comment "Mutated form"
stand beside the operator they deviate from; each is a plausible bug, and replacing
the operator by it makes TLC refute the property `PROJECT.json` lists with it.

## 3. What the runs check

| run | cfg | properties | what it shows |
|---|---|---|---|
| `engine` | AnalysisEngine.cfg | `MatrixHolds` `HardDataAlerts` `AllowIsEarned` | over all requests of up to two findings, policies and reviewer outcomes the verdict is the matrix's; credentials and PII to an external target alert whatever a policy or a reviewer says; "allow" for an unapproved finding is the answer of the reviewer consulted last |
| `alerts` | EventAlerts.cfg | `HitsAlertedOnce` `AlertIsOwnVerdict` `DoneReviewed` `DispositionKept` | through retries, restarts, policy changes and operators, a committed hit has exactly one alert for its observation; a finished event's alert is its own verdict and does not wait for a review; a stage never touches the disposition |
| `ingress` | EventIngress.cfg | `TypeOK` `AnsweredIsDurable` `RowsMatchFiles` `BufferAccounted` `ImplementsInbox` `ReservationResolved` `BodyReleased` | with faults and crashes at every step a 202 is kept, no pending row lacks its file and no file its row, the byte counter is exact and under its limit, reservations do not stay for ever, and neither do the bodies of completed events, unless a failure takes the event up again or ends its worker before the deletion |
| `worker` | EventWorker.cfg | `TypeOK` `HitAlerted` `BodyKept` `CompletedIsReviewed` `OneWorker` `LateRequestLinked` `CompletedForGood` `RulesOnce` `Settles` | no interleaving of workers, dispatcher, retry, failures and recovery loses an alert or a body, skips a review, has two workers on one event, reopens a completed event or runs committed rules again, except for the events that the failing look-up of an old queue entry has set back (section 7); a response finds its request in whichever order they come; every accepted event is completed or failed, although queues of length one overflow, but for two states that a crash or a failed retry may leave (section 5) |
| `proxy` | ProxyAudit.cfg | `TypeOK` `LossReported` `LoopSurvives` `OrphanLast` `AwaitEnds` | the buffer keeps both limits and its byte counter is exact; a lost copy is in a counter, and the counters exceed the loss only by named cases; the loop dies in one way only, which needs a missing key; a response's orphan row is never met by its own request; a waiting handler ends |
| `traces` | ProxyTraces.cfg | `CountersMatch` `EscalationAlerted` `SessionAlertKept` `ProjectionComplete` `RetoldOnlyIfMoved` `VerdictSettles` | by each of the three ways a session's counters are those of its verdicts and risk alerts, an escalation has one alert which stays its own, a completed event has reached its trace, and a verdict in progress becomes final or its failure is visible |
| `grouping` | SessionGrouping.cfg | `TypeOK` `ExplicitIdDecides` `CallsCounted` `InstructionsKept` `OneConversation` `DivergentBridged` | an explicit ID decides before and after a backfill; counts are those of the traces; standing instructions survive; an undisturbed conversation is one session; diverging ones share one only over a request both continue, as long as no backfill has moved that one elsewhere (section 7) |
| `alerts_downgrade` | EventAlertsDowngrade.cfg | `RuleLevelKept`, refuted | see section 7 |
| `worker_stranded` | EventWorkerStranded.cfg | `PendingIsDue`, refuted | see section 7 |
| `worker_incomplete` | EventWorkerIncomplete.cfg | `IncompleteNotCleared`, refuted | see section 7 |
| `worker_lost` | EventWorkerLost.cfg | `Settles`, refuted | see section 7 |
| `grouping_mixed` | SessionGroupingMixed.cfg | `DivergentApart`, refuted | see section 7 |

`TypeOK` includes more than types where that is in question: the bounds of the
queues (`EventWorker`), the byte counter against the buffer's contents
(`ProxyAudit`), that it never falls below zero (`EventIngress`), that no trace
refers to a deleted session (`SessionGrouping`). That of `AnalysisEngine` and
`EventAlerts` is proved and needs no run. Deadlock checking is on for `ingress`;
the other systems may stop: an engine run ends with its verdict, workers
idle when every event is settled, a gateway is shut down.

## 4. Bounds

| run | bounds | why they are enough |
|---|---|---|
| `engine` | up to two findings, at most one policy, every reviewer outcome | the channel combines findings by union and maximum, and policies by first match per finding; two findings of different categories show every interaction between an exempted and another one |
| `alerts` | two events, in the three ways they can be related; e1's rules change between attempts among none, clue, medium, critical; e2 always hits | the code looks an alert up by one event at a time and compares events pairwise; attempts are not counted and repeat without bound |
| `ingress` | 2 keys, 3 contents (small, large, too large), 2 internal IDs, 2 HTTP handlers and the proxy loop, `MaxFaults = 2`, `MaxCrashes = 2` | two handlers contend for one key or for the last bytes; the buffer holds one large and one small body, so 413 and 507 occur; two faults make the undoing fail as well; two crashes include one during recovery |
| `worker` | 2 events (two requests, or a request and its response), 2 rule workers, 1 reviewer, 1 administrator, `QueueLimit = 1`, `MaxFaults = 3`, `MaxCrashes = 1` | queues overflow with the second event; three faults at looking up, reading, evaluating, reviewing, committing or deleting exhaust `MAX_RETRIES` and lead to the retry, and two of them (an outage, then the look-up of an entry that its retry left) set a completed event back; the run also passes with a fourth fault (936,000 states, too slow to be kept); e1 is realtime, e2 incomplete; handlers that fail are in `worker_lost`, a second administrator is in section 7 |
| `proxy` | 3 calls, a buffer of 2 copies and 3 bytes, copies of 1, 2 and 4 bytes, `MaxFaults = 2` | either limit refuses alone, one copy never fits, the third call meets a full buffer; a second fault can hit the handling of what the first left |
| `traces` | 2 calls of one session, every pair of a harmless, a hit and a doubtful call, `MaxTrouble = 2` (failures, crashes, administrator retries together) | statements are keyed by trace and session, and a segment is compared with the one before it: two calls give concurrent recording, moving and retelling; a crash and a retry of the same review is two troubles |
| `grouping` | 3 traces, 2 calls at a time, 1 orphan, 1 backfill, a window of 2 arrivals; clients without ID, with two IDs, and with sensitive or no messages; symmetric in the two conversations | opener, continuation and divergence are three requests; two calls race for one session or one ID; the backfill falls between any two steps of them |
| `grouping_mixed` | as `grouping`, no backfill | the counterexample needs three calls one after the other |

`MaxFaults`, `MaxCrashes`, `MaxTrouble` and the `Max...` of `SessionGrouping` are
the only counters that are cut off. Internal IDs are reused once nothing refers to
them, so their number bounds only how many exist at a time. Sizes are small
numbers in which only sums and comparisons matter.

## 5. Fairness

`EventIngress`: weak fairness of each handler's next step (the event loop runs
what is ready, and a thread of the pool returns), of releasing a completed body,
of restarting and of each step of recovery. `ReservationResolved` holds as long as
no fault occurs. `BodyReleased` allows faults and names what they may do: the row
is pending again, or the event is in `lost`, whose body the next start deletes. `docker-compose.yml` restarts the
container (`restart: unless-stopped`). Nothing obliges a source to submit or a
worker to complete.

`EventWorker`: weak fairness of each worker's `Take` and `Proceed`, of the
dispatcher's pass for each event, of a retry that was begun, of restart and
recovery. Faults, crashes, sources and administrators are not fair. `Settles`
excepts two states by name that the code forgets: `Stranded`, which a crash or a
failing commit in the middle of a retry leaves and which `worker_stranded` is about,
and `Reopened`, which a crash leaves (section 7).
It is checked with bounded faults: during an unending outage an administrator
who retries for ever keeps a reviewer busy, and the code has no fairness between
events that would bring another one's turn.

`ProxyAudit`: weak fairness of the loop's next step and of a handler's `Resume`
and `Finish`, which the event loop runs when they are ready. Nothing obliges a
client to call, an upstream to answer, a server to cancel or an operator to stop.

`ProxyTraces`: weak fairness of each call's next step. Troubles are not fair, and
no administrator is obliged to retry.

`AnalysisEngine`, `EventAlerts` and `SessionGrouping` are checked for safety only.

## 6. Proofs

The proofs hold for every value of the constants that satisfies the named
assumptions, thus for any number of events, handlers, faults and crashes.

`OperatorLemmas`
- `AggregateFollowsMatrix`: for every rule level and reviewer result, the
  aggregate is the one of `Matrix`, the table of
  docs/event-analysis-refactor-plan.md written independently of the code's
  branches. By cases on the two arguments. The order of severities and what an
  alerting verdict is are lemmas here, which the next two modules cite.
- The lemmas about `SumFunctionOnSet`, the community modules' sum over a finite
  set: it exists and is unique (`IsSum`), is a natural number, and grows or
  shrinks by the value of the element that is added, removed or updated. They
  are inductions over finite sets of any size, carried out by minimal
  counterexample: a nonempty set of subsets has a minimal member
  (`MinimalSubset`, from the well-foundedness of the strict subset order), and
  the least subset without the property is refuted. This avoids the induction
  theorems with an operator parameter, which no installed prover instantiates.

`AnalysisEngine_proofs`
- `TypeCorrect`: `Spec => []TypeOK`.
- `MatrixFollowed`, `VerdictCorrect`: `MatrixHolds`, `RuleNotLowered` and
  `HardDataAlerts` are invariants. The properties speak of the finished state,
  so the inductive invariant adds what is known before it: the rule result is
  `evaluate_rule_channel(request)` from the moment it exists, and the verdict
  the aggregate of the two results. `HardDataAlerts` then rests on lemmas that a
  hard category leaving for an external target is never approved and has at least
  its severity.
- `AllowsEarned`: `AllowIsEarned`, with the invariant `ConclusionIsLast` that ties
  the reviewer result at each place to the list of reviewers consulted so far.

`EventAlerts_proofs`, for events that overlap in any way
- `AlertedOnce`: `HitsAlertedOnce`. Since `AlertFor` searches the list of alerts in
  the order of their creation, one alert per observation is inductive only
  with what that list is: it names the owners of the alerts (`CreatedLists`),
  each once (`CreatedOnce`); and a hit is covered from its evaluation on, not
  only from its commit (`HitsCovered`).
- `VerdictsShown`: `AlertIsOwnVerdict`, from an invariant on what the alert shows
  between the commits of a stage (`VerdictShown`).
- `NoneLeftWaiting`: `DoneReviewed`, from `WaitingIsDue`: an alert that waits belongs
  to an event that still goes to the reviewer, which needs `HitsReviewed` and
  `RuleIsOutcome` about the committed rule result.
- `DispositionsKept`: the action property `DispositionKept`; `TypeCorrect`.

`EventWorker_proofs`, for any number of events, workers, faults and crashes
- `TypeCorrect`: `TypeOK`, with the queues' limit and the absence of duplicates,
  strengthened by `Busy`: whoever is not idle has an event.
- `HitsAlerted`: `HitAlerted`. `HitsKept` adds the verdict a worker holds at
  `rule_commit`, whose alert must be there before it is committed.
- `ResponsesLinked`: `LateRequestLinked`, from `Grounded` and `LinksHeld`. No failure
  undoes what `Grounded` says: an event that is not accepted is in no queue and in
  no hand, a response is never with a reviewer, and each place belongs to one kind
  of worker. `LinksHeld`: from the moment a request's stage has looked for its
  responses, before its result is committed, no response of its call is marked
  `request_missing`.

The rest assumes at most one administrator, without which it is false, and speaks of
the events outside `misread` (section 7):
- `RulesNotRepeated`, `OneAtWork`, `BodiesKept`, `ReviewsGiven`, `CompletedStays`:
  `RulesOnce`, `OneWorker`, `BodyKept`, `CompletedIsReviewed` and `CompletedForGood`.
  None is inductive: a queue may hold an event that is analysed, completed or failed
  by now, and each rests on what the others exclude. `StagesHeld` says of every such
  event what its row, body and queue entries imply (`Sound`), what the worker that
  has it relies on (`Carries`), that there is one such worker, and what a retry
  relies on between its commits (`Retries`): a reviewer has it only after its rules
  are done (`RulesDone`), a worker only in `processing` or to end its completion, a
  retry only when it failed. Two lemmas carry the proof: a step of others leaves an
  event untouched (`Frame`), and a step of its own worker disturbs nobody else's
  (`OwnStep`). An entry that is due belongs to an event nobody has (`DueEntry`), so
  taking it is safe and failing to look it up is an ordinary failure; failing to
  look up an entry that is not due moves its event into `misread`
  (`LookupStages`). `StepStages` gives the invariant and both action properties.

  `Grounded`, `Sound`, `Carries`, `Retries` and `LinksHeld` were model-checked on the
  `worker` instance before they were proved, `Grounded` and `LinksHeld` with two
  administrators too.

`ProxyAudit_proofs`, for any calls, sizes, limits and faults
- `BufferExact`: `TypeOK`, whose last conjunct `Bounded` says that the reserved bytes
  are the sum of the sizes of what is queued or in the loop's hand. With `IInv`
  (no item twice in the queue, none both queued and in hand) each step adds,
  removes or keeps one term of the sum.
- `LossesReported`: `LossReported`. `Placed` says what the loop knows of the item in
  hand from where it stands, `Buffering` that a copy is offered once, queued once
  and unanswered until the loop is done with it; a copy that leaves the buffer
  is then either persisted or counted, exactly once. The counts of the finite
  sets are by the theorems on cardinalities.
- `LoopSurvivesFaults`: `LoopSurvives`. The loop dies of a future that has its answer,
  and only `classify` holds such an item: `Unanswered(held)` everywhere else.
- `RequestsFirst`: `OrphanLast`, from the order of a call's two copies in the queue
  (`InOrder`, and that a request is offered by an idle handler only).

`EventIngress_proofs`
- `Durable`: `AnsweredIsDurable`, `PendingHasBody` and `FilesOwned` are
  invariants, for any sizes, limits and handlers. They are not inductive: that
  `Finalize` publishes a row whose file is there, and that `Unlink` deletes
  nobody else's file, depends on what each handler knows of its own row. The body
  is promised until the analysis has once finished, since an event that a failure
  takes up again may have lost it. `IInv`
  adds `HandlersPlaced` (at each place of `accept_standard_event`: the row is
  the handler's own, still a reservation, with or without its file),
  `OneHolder` (no reservation is held by two handlers: this is what makes the
  proxy loop's missing lock harmless), `IdsDistinct`, and `OnlyFinished` (whose body is
deleted, and whose row is completed, was once finished). One lemma per action,
  one step per conjunct it disturbs.
- `TableMatchesDisk`: `RowsMatchFiles`, the last two as the run states them.
- `Implements`: `Spec => ImplementsInbox`. With `IInv`, `Finalize` and a
  `RecoverRow` that finds the file are `Accept`; `Answer` and a duplicate are
  `Answer`; `Complete` is `Finish`; `DeletionFails` and `Reopen` are `Reopen`, or
  invisible when the event is pending already; every other step leaves `InboxView`
  unchanged.

- `TypeCorrect`, `CounterExact`: `TypeOK` (`used` never falls below zero) and
  `BufferAccounted`. `CountedInv` adds to `IInv` that the counter is the sum over
  the accounted files while the process is up, and that a file being deleted
  is counted once.

`ProxyTraces_proofs`, for any calls, texts, reviewers, callers and any number of
failures, crashes and retries
- `Invariant`: `IInv` is inductive. It ties what the tables hold to where each call
  stands: `Began` (has it a run, has its text been judged), `EventStands` and
  `CallStands` (its alerts and its trace), and adds what the rows of the session
  say of each other: every call has one segment at most and every segment an
  assessment of its call's text (`Owned`), every session risk alert is the alert
  of a segment (`Told`), the last segment is the one that ended last (`Escalation`).
  All 16 step actions and the failures write the store in one of six ways
  (`Stored`), so the statements about the rows are proved for the six
  (`OwnedAfter`, `ToldAfter`, `EscalationAfter`, `CountsAfter`), and those about a
  call once for the steps of others (`OthersStand`) and once for its own
  (`RuleSteps`, `ReviewSteps`, `CallSteps`, `RespondSteps`, `CrashStands`). All of it
  was model-checked on the `traces` instance before it was proved.
- `CountersExact`: `CountersMatch`. A verdict that is projected again takes the old
  one back because the trace's decision is the run's (`Began`); one that is saved
  meets no earlier run.
- `EveryEscalationAlerted`: `EscalationAlerted`. Where the previous segment is read
  inside the stretch that writes, it is the last; `analyze_request` reads it
  before, which is why the property excepts it.
- `SessionAlertStays`: `SessionAlertKept`. `save_pipeline` rewrites the first alert
  of its trace: without a key there is no risk alert yet, and after a rule hit of
  `analyze_request` the first alert is the hit's.
- `CompletedIsProjected`: `ProjectionComplete`; `RetoldMoved`: `RetoldOnlyIfMoved`.

`SessionGrouping_proofs`, for any clients, messages and secrets, any number of
traces, concurrent calls and orphans, and any number of backfills
- `Invariant`: `IInv` is inductive. Beside types and the numbering of traces,
  arrivals and sessions (`Clocked`, `SessionsNumbered`: session IDs do not run out)
  it says what each party relies on across its pauses: a stored call's row is what
  the call wrote (`RowsWritten`), calls that run beside each other or beside a
  backfill have met (`Met`), what an undisturbed call has looked up still stands
  (`LookedUp`), the rows a backfill has read are still those of the table but for
  calls it met (`RowsRead`). The rest are the properties, strengthened:
  `Belongs` (external IDs are unique and an undisturbed trace is in the session of
  its ID), `Counted`, `Instructed` (in the middle of a backfill it is the baselines
  it is about to write that hold the instructions), `HangTogether`, `OneSession`.
  Steps that write no session keep all of it by one lemma each (`Quiet`, `Rest`);
  the work is in `Write`, `Regroup` and `Rebuild`. It was model-checked on the
  `grouping` instance before it was proved.
- A backfill resolves the traces it has read one after the other, each against what
  the earlier ones made of the sessions. `Regrouped` is a fold over a set, the
  oldest trace last taken out; `IsRegrouping` says what its partial results are,
  `RegroupingUnique` and `RegroupingExists` that they exist and are its values.
  `RegroupInduction` then proves what each prefix of the backfill leaves
  (`Regrouping`: each trace resolved so far is in a session that exists, under its
  own ID, and nothing but its session has changed; `Hosting`: the session of a
  conversation is still the one), again by minimal counterexample.
- `TypeCorrect`: `TypeOK`, with `SessionKept`; `ExplicitIdCorrect`:
  `ExplicitIdDecides`, from `Belongs`; `InstructionsCorrect`: `InstructionsKept`.
- `CountsCorrect`: `CallsCounted`. The final write recounts every session that has
  a trace and, without orphans, deletes every other one.
- `OneConversationCorrect`: `OneConversation`. `Hosts` says what makes one session
  the conversation's: it alone has the opener's fingerprint and its traces are
  calls of the conversation, so that its newest body, whichever that is, is
  continued by or continues the next request. Nothing in the conversation is
  sensitive, so stored and incoming bodies compare as sent.
- `LineagesBridged`: `DivergentBridged`, which is about the time before a backfill. A
  call joins a session beside a trace whose body it continues or which it is a
  prefix of, and traces do not leave: by the order of prefixes, any two traces of
  a session are then comparable or both continue a third one.

Only model-checked:
- liveness (`ReservationResolved`, `BodyReleased`, `Settles`, `AwaitEnds`,
  `VerdictSettles`) and everything with ENABLED, which the prover does not support.

Every invariant and every action property that a run checks is thus also proved;
beside liveness, only the runs of section 7 rest on TLC alone.

## 7. Known behaviour that the documents do not describe

Each of the first five is a run whose counterexample TLC prints.

- `alerts_downgrade`: an event that overlaps an earlier one (same call, same
  body) writes its verdict over the shared alert, also when it is lower
  (storage.py:2894). `AlertIsOwnVerdict` is therefore stated for events that
  overlap with no other.
- `worker_stranded`: a crash between the two commits of a retry
  (admin_api.py:245-259) leaves an event pending that no stage, recovery or
  further retry takes up. So does a failure of the second commit, without a crash.
- `worker_incomplete`: a crash between event_worker.py:347 and 363 turns the
  `failed` result of an incomplete event into `not_needed`.
- `worker_lost`: an exception in `_handle_failure` ends the worker task
  (event_worker.py:185, 202); its event stays in `processing` until a restart.
- `grouping_mixed`: after a conversation `o a`, a second one with the same opener
  begins with `o` alone, joins the first one's session (storage.py:3112), and lets
  its own continuation `o b` in, since that is compared with the newest body only.
  session_fingerprint.py:41 says that such a conversation starts its own session.

The next ones are exceptions of the properties of `worker` and `ingress`, or follow from
changing a constant of a run:

- **a failing look-up resets an event that is at work or completed.** A queue entry
  may be old: an administrator's retry sets the stage to pending
  (admin_api.py:254, 257), the dispatcher queues the event, a worker takes it, and only
  then does the retry queue it again. A worker that takes up the old entry finds its
  stage not due and passes over it (event_worker.py:269-270, 432-433), but when
  `get_event` raises there, `_handle_failure` (event_worker.py:478-493) sets the stage and the
  event back to pending or failed without looking at what has become of it.
  Two faults are enough: an outage of the reviewers fails the event, its retry leaves
  the entry, the review is repeated, the event completed and its body deleted, the
  look-up of the entry fails, and the completed event is pending with no body. While
  another worker still has the event, the reset lets a second worker take it, takes a
  committed rule result back under the reviewer, and lets the reviewer complete an
  event whose rules are pending. `BodyKept`, `CompletedIsReviewed`, `OneWorker`,
  `CompletedForGood` and `RulesOnce` except the events in `misread`, and without the
  exception TLC refutes each of them, `OneWorker` and `RulesOnce` once there is a
  fourth fault. `TypeOK`, `HitAlerted`, `LateRequestLinked` and
  `Settles` hold for these events too. `EventAlerts` and `ProxyTraces` take the stages of one
  event to follow each other, and leave this case out;

- with two administrators in `worker`, TLC refutes `CompletedForGood`: the
  second of two overlapping retries reopens an event the first one completed
  (admin_api.py:234 is checked in one thread call, acted on in others); and
  `RulesOnce`: when the first retry's rules are already committed, the second
  resets them to pending;
- a body that cannot be deleted sends the completed event through
  `_handle_failure` (event_worker.py:285, 365, 454) and reopens it, as pending or, after
  `MAX_RETRIES`, as failed with its body kept; in `EventIngress` this is `DeletionFails`,
  which `BodyReleased` and `ReliableInbox` allow. So does a response
  whose requests cannot be marked (event_worker.py:283), and a crash at that
  point leaves the requests unmarked for good. `CompletedForGood` and `RulesOnce`
  therefore speak of events that no worker, or no rule worker, holds;
- an event reopened in one of these ways runs its rules again with `llm_status` already
  `not_needed`, `failed` or `completed`; a crash before the last commit then leaves it in
  `processing`, since `recover` requeues neither stage (event_worker.py:156-163).
  TLC refutes `Settles` without the exception `Reopened`;
- a response analysed while its request is still a reservation is marked
  `associated`, and remains so if the reservation is removed: `Matches`, as
  `find_correlated_events`, does not exclude reservations;
- a request and the full call that contains it have an alert each, since
  `body_hash` covers the response too (event_ingress.py:241), whereas the
  comment at storage.py:2759 expects them to share one.

About the proxy, traces and sessions; the properties name these cases as their
exceptions:

- without an encryption key, a failure after the answer makes the second
  `set_result` of gateway.py:582 raise out of the audit loop, which is not
  started again (`LoopSurvives`); with a key the loop survives everything;
- the item in hand at shutdown is counted as dropped though its thread may still
  make it durable (gateway.py:130, `LossReported`);
- `analyze_request` judges the session before it saves the verdict, and
  `save_pipeline` looks alerts up by trace: the verdict of a text that only the
  reviewer rejects overwrites the session risk alert (storage.py:585);
- concurrent callers of `analyze_request` read the previous segment before their
  transaction (storage.py:978): an escalation may be told twice or not at all;
- a retried review tells the risk of its session again when a later call has moved
  the segment to its own trace (storage.py:990), although
  docs/event-analysis-refactor-plan.md:49 says that recovery must not repeat alerts;
- stored bodies are redacted before they are compared with incoming ones, so a
  conversation with sensitive data gets a session per request, where
  session_fingerprint.py:16 says that consecutive requests match;
- of two interleaved conversations with one opener the requests are compared with
  the other one's body and split, and a backfill then is not idempotent
  (storage.py:1535);
- a backfill resolves requests one by one and may move the request that two diverging
  ones continue out of their session, though they stay (storage.py:1546-1565). In
  a history of six requests, where a second client's explicit ID leads its session
  through another opener and back and two responses come before their requests, TLC
  refutes `DivergentBridged` without its restriction to the time before the first
  backfill, even though no two calls ever met;
- with bodies not stored, a backfill has nothing to compare: it splits the sessions
  of clients without an ID and drops their baselines;
- a baseline that backfill has read is written later, over what a call merged in
  between (storage.py:1586); a call that has found a session which backfill then
  deletes leaves a trace without one;
- an orphan response has no session, and its NULL in the list of `NOT IN` keeps
  backfill from deleting anything (storage.py:1590); an orphan that was regrouped
  is counted a second time when its request comes.

## 8. What is not modelled

Encryption, JSON, hashing and their failures other than as a fault of the
operation; logging; HTTP status texts; authentication of sources and
administrators; the text of prompts, reasons and titles; the scanners and the
parsers, whose results are inputs here. `DiskBuffer`'s temporary files: a write
takes effect at its `os.replace`, and what a crash leaves before that is purged at
start. Cancellation of workers by `stop` is a crash: the code relies on recovery
for both.

Whole components, with the reason:

- **Rule and policy registry**: versions are written and activated in single
  transactions and read whole; the race of `update_rule`, which reads the
  version before its transaction (storage.py:1078), is listed as a hazard. The
  compilers ask a model over HTTP.
- **Evidence store**: encryption is a library's, expiry one DELETE by time, and
  what refers to expired evidence is only displayed.
- **Event broker**: bounded queues that drop their oldest message, on which nothing
  else depends.
- **Parsing, normalising, response parsing, review context**: pure functions over
  JSON and text; their results are inputs here, one of each class the
  control distinguishes.
- **Legacy classifier, reviewer and decision pipeline**: a sequential function of
  its input that keeps no state.
- **Management reads, authentication, command line, assembly**: queries and
  set-up; the order of start-up that it fixes is in `EventIngress` and
  `EventWorker`.
- **Tool actions**: the counts of `record_tool_actions`, which reads before it
  inserts (storage.py:880, a listed hazard); no decision depends on them.

## 9. Plan

Done: `DualChannel`, `AnalysisEngine`, `EventAlerts`, `ReliableInbox`,
`EventIngress`, `EventWorker`, `ProxyAudit`, `ProxyTraces`, `SessionGrouping`, and
proofs about each of them (`ReliableInbox` as what `EventIngress` implements).

Left, in this order:

1. A composition of ingress and worker, in which `Complete`, `Release` and `Reopen`
   are the worker's, and the worker's `Publish` is the ingress's `Finalize`.
2. `DiskBuffer`: temporary files and their purging; `EventIngress` reads as its
   abstraction.
3. `RuleRegistry`, if two administrators come to be supported.
