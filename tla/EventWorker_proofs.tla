--------------------------- MODULE EventWorker_proofs ---------------------------
(***************************************************************************)
(* Proofs about EventWorker, for any events, workers and queue limits, any *)
(* faults at any point and any number of crashes.  From StagesHeld on, up  *)
(* to CompletedStays, for at most one administrator, since a second one's  *)
(* stale check refutes those theorems.                                     *)
(*                                                                         *)
(* HitsKept, Grounded, StagesHeld and LinksHeld are the inductive          *)
(* invariants: what a worker or a retry is about to write is tied to the   *)
(* row it was read from.  StagesHeld is about the events outside misread   *)
(* only: the failing look-up of an old queue entry breaks that tie.        *)
(***************************************************************************)
EXTENDS EventWorker, TLAPS

WorkRecords  == [at : Places, event : Events \cup {Nobody}, verdict : RuleVerdicts]
AdminRecords == [at : {"idle", "first", "second", "enqueue"},
                 event : Events \cup {Nobody}, stage : Stages]
Queues(q) ==
  /\ q \in [Stages -> Seq(Events)]
  /\ \A s \in Stages : Len(q[s]) <= QueueLimit /\ IsInjective(q[s])

\* Who is not idle works on an event; a worker may die without one.
Busy == /\ \A w \in Workers : work[w].at \notin {"idle", "dead"} => work[w].event \in Events
        /\ \A a \in Admins : admin[a].at # "idle" => admin[a].event \in Events

Typed == TypeOK /\ Busy

-----------------------------------------------------------------------------
(* Rows and queues. *)

LEMMA SetStage ==
  ASSUME NEW r \in Rows, NEW s \in Stages,
         NEW p \in {"pending", "processing", "completed", "failed"}
  PROVE  [r EXCEPT ![s] = p] \in Rows
BY DEF Rows, Stages

LEMMA Status ==
  ASSUME NEW R \in [Events -> Rows], NEW e \in Events, NEW s \in Stages,
         NEW p \in {"pending", "processing", "completed", "failed"},
         NEW t \in {"pending", "processing", "completed", "failed"}
  PROVE  [R EXCEPT ![e].proc = p, ![e][s] = t] \in [Events -> Rows]
<1>. DEFINE r == [R[e] EXCEPT !.proc = p]
<1>1. r \in Rows
  BY DEF Rows
<1>2. [r EXCEPT ![s] = t] \in Rows
  BY <1>1, SetStage
<1>. DEFINE Q == [R EXCEPT ![e].proc = p]
<1>3. Q = [R EXCEPT ![e] = r] /\ Q \in [Events -> Rows] /\ Q[e] = r
  BY <1>1
<1>4. [Q EXCEPT ![e][s] = t] = [Q EXCEPT ![e] = [r EXCEPT ![s] = t]]
  BY <1>3
<1>5. [Q EXCEPT ![e][s] = t] \in [Events -> Rows]
  BY <1>2, <1>3, <1>4
<1>. QED BY <1>5

LEMMA UpdateTyped ==
  ASSUME row \in [Events -> Rows], NEW e \in Events, NEW s \in Stages,
         NEW p \in {"pending", "processing", "completed", "failed"}, Update(e, s, p)
  PROVE  row' \in [Events -> Rows]
<1>1. [row EXCEPT ![e].proc = p, ![e][s] = p] \in [Events -> Rows]
  BY Status
<1>. QED BY <1>1 DEF Update

LEMMA StatusRetries ==
  ASSUME NEW R \in [Events -> Rows], NEW e \in Events, NEW s \in Stages, NEW n \in Nat,
         NEW p \in {"pending", "processing", "completed", "failed"}
  PROVE  [R EXCEPT ![e].proc = p, ![e][s] = p, ![e].retries = n] \in [Events -> Rows]
<1>1. [R EXCEPT ![e].proc = p, ![e][s] = p] \in [Events -> Rows]
  BY Status
<1>2. ASSUME NEW Q \in [Events -> Rows]
      PROVE  [Q EXCEPT ![e].retries = n] \in [Events -> Rows]
  BY DEF Rows
<1>. QED BY <1>1, <1>2

\* The stage's two columns are not the retries.
LEMMA RetriesOf ==
  ASSUME row \in [Events -> Rows], NEW e \in Events, NEW s \in Stages, NEW p
  PROVE  [row EXCEPT ![e].proc = p, ![e][s] = p, ![e].retries = @ + 1] =
           [row EXCEPT ![e].proc = p, ![e][s] = p, ![e].retries = row[e].retries + 1]
BY DEF Rows, Stages

LEMMA EnqueueTyped ==
  ASSUME Queues(queue), NEW s \in Stages, NEW e \in Events, Enqueue(s, e)
  PROVE  Queues(queue')
<1>. USE WorkerAssumption
<1>1. CASE Queued(s, e) \/ ~Room(s)
  BY <1>1 DEF Enqueue, Queues
<1>2. CASE ~Queued(s, e) /\ Room(s)
  <2>1. queue' = [queue EXCEPT ![s] = Append(queue[s], e)]
    BY <1>2 DEF Enqueue
  <2>. DEFINE q == queue[s]
  <2>2. q \in Seq(Events) /\ Len(q) < QueueLimit /\ IsInjective(q)
    BY <1>2 DEF Queues, Room
  <2>3. \A i \in 1 .. Len(q) : q[i] # e
    BY <1>2, <2>2 DEF Queued, ToSet
  <2>4. Append(q, e) \in Seq(Events) /\ Len(Append(q, e)) = Len(q) + 1
    BY <2>2
  <2>5. \A i \in 1 .. Len(q) + 1 : Append(q, e)[i] = IF i = Len(q) + 1 THEN e ELSE q[i]
    BY <2>2
  <2>6. IsInjective(Append(q, e))
    BY <2>2, <2>3, <2>4, <2>5 DEF IsInjective
  <2>. QED BY <2>1, <2>2, <2>4, <2>6 DEF Queues
<1>. QED BY <1>1, <1>2

LEMMA DequeueTyped ==
  ASSUME Queues(queue), NEW s \in Stages, queue[s] # << >>
  PROVE  Queues([queue EXCEPT ![s] = Tail(@)]) /\ Head(queue[s]) \in Events
<1>. DEFINE q == queue[s]
<1>1. q \in Seq(Events) /\ Len(q) <= QueueLimit /\ IsInjective(q)
  BY DEF Queues
<1>2. Tail(q) \in Seq(Events) /\ Len(Tail(q)) = Len(q) - 1 /\ Head(q) \in Events
  BY <1>1
<1>3. \A i \in 1 .. Len(q) - 1 : Tail(q)[i] = q[i + 1]
  BY <1>1
<1>4. IsInjective(Tail(q))
  BY <1>1, <1>2, <1>3 DEF IsInjective
<1>5. Len(Tail(q)) <= QueueLimit
  BY <1>1, <1>2, WorkerAssumption
<1>. QED BY <1>1, <1>2, <1>4, <1>5 DEF Queues

\* The entry taken out goes back to the end.
LEMMA RequeueTyped ==
  ASSUME Queues(queue), NEW s \in Stages, queue[s] # << >>
  PROVE  Queues([queue EXCEPT ![s] = Append(Tail(@), Head(queue[s]))])
<1>. DEFINE q == queue[s]
            r == Append(Tail(q), Head(q))
<1>1. q \in Seq(Events) /\ Len(q) <= QueueLimit /\ IsInjective(q) /\ Len(q) \in Nat \ {0}
  BY DEF Queues
<1>2. /\ r \in Seq(Events) /\ Len(r) = Len(q)
      /\ \A i \in 1 .. Len(q) : r[i] = IF i = Len(q) THEN q[1] ELSE q[i + 1]
  BY <1>1
<1>3. IsInjective(r)
  <2>. SUFFICES ASSUME NEW i \in 1 .. Len(q), NEW j \in 1 .. Len(q), r[i] = r[j]
               PROVE  i = j
    BY <1>1, <1>2 DEF IsInjective
  <2>. DEFINE n(k) == IF k = Len(q) THEN 1 ELSE k + 1
  <2>1. n(i) \in 1 .. Len(q) /\ n(j) \in 1 .. Len(q) /\ q[n(i)] = q[n(j)]
    BY <1>1, <1>2
  <2>2. n(i) = n(j)
    BY <1>1, <2>1 DEF IsInjective
  <2>. QED BY <1>1, <2>2
<1>. QED BY <1>1, <1>2, <1>3 DEF Queues

LEMMA EmptyQueues == Queues([s \in Stages |-> << >>])
BY WorkerAssumption DEF Queues, IsInjective

LEMMA SetBackTyped ==
  ASSUME row \in [Events -> Rows], NEW e \in Events, NEW s \in Stages, SetBack(s, e)
  PROVE  row' \in [Events -> Rows]
<1>1. row[e].retries + 1 \in Nat
  BY DEF Rows
<1>2. PICK p \in {"pending", "failed"} :
        row' = [row EXCEPT ![e].proc = p, ![e][s] = p, ![e].retries = @ + 1]
  BY DEF SetBack
<1>3. row' = [row EXCEPT ![e].proc = p, ![e][s] = p, ![e].retries = row[e].retries + 1]
  BY <1>2, RetriesOf
<1>. QED BY <1>1, <1>3, StatusRetries

LEMMA HandleFailureTyped ==
  ASSUME Typed, NEW w \in Workers, work[w].at \notin {"idle", "dead"}, HandleFailure(w)
  PROVE  /\ row' \in [Events -> Rows] /\ Queues(queue')
         /\ work' = [work EXCEPT ![w] = IdleWorker] /\ loop' = Nobody
<1>1. Event(w) \in Events /\ Stage(w) \in Stages /\ Queues(queue)
  BY DEF Typed, TypeOK, Busy, Event, Stage, Stages, Queues
<1>3. row' \in [Events -> Rows]
  BY <1>1, SetBackTyped DEF HandleFailure, Typed, TypeOK
<1>4. Queues(queue')
  BY <1>1, EnqueueTyped DEF HandleFailure
<1>. QED BY <1>3, <1>4 DEF HandleFailure, Free, Yield

LEMMA FreeTyped ==
  ASSUME Typed, NEW w \in Workers, work' = [work EXCEPT ![w] = IdleWorker]
  PROVE  /\ work' \in [Workers -> WorkRecords]
         /\ \A v \in Workers : work'[v].at \notin {"idle", "dead"} => work'[v].event \in Events
BY DEF Typed, TypeOK, Busy, IdleWorker, WorkRecords, Places, NoVerdict, RuleVerdicts

LEMMA GotoTyped ==
  ASSUME Typed, NEW w \in Workers, NEW l \in Places,
         work[w].at \notin {"idle", "dead"} \/ l = "dead", Goto(w, l)
  PROVE  /\ work' \in [Workers -> WorkRecords]
         /\ \A v \in Workers : work'[v].at \notin {"idle", "dead"} => work'[v].event \in Events
BY DEF Typed, TypeOK, Busy, Goto, WorkRecords

-----------------------------------------------------------------------------
(* Type correctness. *)

LEMMA InitTyped == Init => Typed
BY WorkerAssumption, EmptyQueues
   DEF Init, Typed, TypeOK, Busy, Queues, Rows, Absent, NoVerdict, RuleVerdicts, IdleWorker,
       IdleAdmin, Places, Stages

\* Actions that leave the workers and administrators alone.
LEMMA EventTyped ==
  ASSUME Typed, NEW e \in Events,
         Reserve(e) \/ Publish(e) \/ Abandon(e) \/ RecoverEvent(e) \/ Reap(e)
  PROVE  Typed'
<1>1. Queues(queue) /\ row \in [Events -> Rows] /\ row[e] \in Rows
  BY DEF Typed, TypeOK, Queues
<1>2. ASSUME row' \in [Events -> Rows], Queues(queue'), body' \subseteq Events,
             snapshot' \subseteq Events,
             UNCHANGED <<envelope, alerted, work, loop, admin, mode, misread, faults, crashes>>
      PROVE  Typed'
  BY <1>2 DEF Typed, TypeOK, Busy, Queues
<1>3. CASE Reserve(e)
  <2>1. row' \in [Events -> Rows]
    BY <1>1, <1>3 DEF Reserve, Rows
  <2>. QED BY <1>1, <1>2, <1>3, <2>1 DEF Reserve, environment, Typed, TypeOK, Queues
<1>4. CASE Publish(e)
  <2>1. row' \in [Events -> Rows]
    BY <1>1, <1>4 DEF Publish, Rows
  <2>2. Queues(queue')
    BY <1>1, <1>4, EnqueueTyped DEF Publish, Stages
  <2>. QED BY <1>2, <1>4, <2>1, <2>2 DEF Publish, environment, Typed, TypeOK
<1>5. CASE Abandon(e)
  <2>1. row' \in [Events -> Rows]
    BY <1>1, <1>5 DEF Abandon, Rows, Absent, NoVerdict, RuleVerdicts
  <2>. QED BY <1>1, <1>2, <1>5, <2>1 DEF Abandon, environment, Typed, TypeOK, Queues
<1>6. CASE RecoverEvent(e)
  <2>1. row' \in [Events -> Rows] /\ Queues(queue')
    <3>1. CASE e \notin body
      <4>1. row' = [row EXCEPT ![e].proc = "failed", ![e].rule = Failing(@),
                                ![e].llm = Failing(@)] /\ queue' = queue
        BY <1>6, <3>1 DEF RecoverEvent
      <4>. QED BY <1>1, <4>1 DEF Failing, Rows, Queues
    <3>2. CASE e \in body /\ InProgress(row[e].rule)
      <4>1. Update(e, "rule", "pending") /\ Enqueue("rule", e)
        BY <1>6, <3>2 DEF RecoverEvent, InProgress
      <4>. QED BY <1>1, <4>1, UpdateTyped, EnqueueTyped DEF Stages
    <3>3. CASE e \in body /\ ~InProgress(row[e].rule)
               /\ row[e].rule = "completed" /\ InProgress(row[e].llm)
      <4>1. Update(e, "llm", "pending") /\ Enqueue("llm", e)
        BY <1>6, <3>3 DEF RecoverEvent
      <4>. QED BY <1>1, <4>1, UpdateTyped, EnqueueTyped DEF Stages
    <3>4. CASE e \in body /\ ~InProgress(row[e].rule)
               /\ ~(row[e].rule = "completed" /\ InProgress(row[e].llm))
      <4>1. UNCHANGED <<row, queue>>
        BY <1>6, <3>4 DEF RecoverEvent
      <4>. QED BY <1>1, <4>1 DEF Queues
    <3>. QED BY <3>1, <3>2, <3>3, <3>4
  <2>. QED BY <1>2, <1>6, <2>1 DEF RecoverEvent, Typed, TypeOK
<1>7. CASE Reap(e)
  BY <1>1, <1>2, <1>7 DEF Reap, environment, Typed, TypeOK, Queues
<1>. QED BY <1>3, <1>4, <1>5, <1>6, <1>7

LEMMA DispatchTyped ==
  ASSUME Typed, NEW s \in Stages, NEW e \in Events, Dispatch(s, e)
  PROVE  Typed'
<1>1. Queues(queue')
  BY EnqueueTyped DEF Dispatch, Typed, TypeOK, Queues
<1>. QED BY <1>1 DEF Dispatch, Typed, TypeOK, Busy, Queues, environment

\* A worker's step changes rows, alerts, bodies, a queue, its own place and `loop`.
LEMMA WorkerStepTyped ==
  ASSUME Typed, row' \in [Events -> Rows], Queues(queue'),
         work' \in [Workers -> WorkRecords],
         \A v \in Workers : work'[v].at \notin {"idle", "dead"} => work'[v].event \in Events,
         loop' \in Workers \cup {Nobody}, body' \subseteq Events, alerted' \subseteq Events,
         faults' \in 0 .. MaxFaults, misread' \subseteq Events,
         UNCHANGED <<envelope, mode, snapshot, crashes, admin>>
  PROVE  Typed'
BY DEF Typed, TypeOK, Busy, Queues, WorkRecords

LEMMA TakeTyped ==
  ASSUME Typed, NEW w \in Workers, Take(w)
  PROVE  Typed'
<1>. DEFINE s == Stage(w)
            e == Head(queue[s])
<1>1. s \in Stages /\ Queues(queue)
  BY DEF Stage, Stages, Typed, TypeOK, Queues
<1>2. queue[s] # << >> /\ queue' = [queue EXCEPT ![s] = Tail(@)]
  BY DEF Take
<1>3. Queues(queue') /\ e \in Events
  BY <1>1, <1>2, DequeueTyped
<1>4. row' \in [Events -> Rows]
  <2>1. CASE Due(s, e)
    BY <1>1, <1>3, <2>1, UpdateTyped DEF Take, Typed, TypeOK
  <2>2. CASE ~Due(s, e)
    BY <2>2 DEF Take, Typed, TypeOK
  <2>. QED BY <2>1, <2>2
<1>5. /\ work' \in [Workers -> WorkRecords]
      /\ \A v \in Workers : work'[v].at \notin {"idle", "dead"} => work'[v].event \in Events
  <2>1. row[e].verdict \in RuleVerdicts
    BY <1>3 DEF Typed, TypeOK, Rows
  <2>2. CASE Due(s, e)
    <3>1. work' = [work EXCEPT ![w] = [at |-> "read", event |-> e, verdict |-> row[e].verdict]]
      BY <2>2 DEF Take
    <3>. QED BY <1>3, <2>1, <3>1 DEF Typed, TypeOK, Busy, WorkRecords, Places
  <2>3. CASE ~Due(s, e)
    BY <2>3 DEF Take, Typed, TypeOK, Busy, WorkRecords
  <2>. QED BY <2>2, <2>3
<1>. QED BY <1>3, <1>4, <1>5, WorkerStepTyped DEF Take, Typed, TypeOK, environment

\* A failing look-up, without the LETs: the event at the head of the queue is set
\* back, or the worker dies.
LEMMA LookupParts ==
  ASSUME Typed, NEW w \in Workers, LookupFails(w), NEW s, s = Stage(w)
  PROVE  /\ s \in Stages /\ queue[s] # << >> /\ Head(queue[s]) \in Events
         /\ work[w].at = "idle" /\ mode = "up" /\ faults < MaxFaults /\ faults' = faults + 1
         /\ UNCHANGED <<envelope, body, alerted, loop, admin, mode, snapshot, crashes>>
         /\ \/ queue' = [queue EXCEPT ![s] = Tail(@)]
            \/ queue' = [queue EXCEPT ![s] = Append(Tail(@), Head(queue[s]))]
         /\ \/ /\ SetBack(s, Head(queue[s])) /\ UNCHANGED work
               /\ misread' = IF Due(s, Head(queue[s])) THEN misread
                                                       ELSE misread \cup {Head(queue[s])}
            \/ /\ Goto(w, "dead") /\ UNCHANGED <<row, misread>>
               /\ queue' = [queue EXCEPT ![s] = Tail(@)]
<1>1. s \in Stages /\ queue[s] # << >>
  BY DEF Stage, Stages, LookupFails
<1>2. Head(queue[s]) \in Events
  BY <1>1, DequeueTyped DEF Typed, TypeOK, Queues
<1>. QED BY <1>1, <1>2 DEF LookupFails, LoopFree, At

LEMMA LookupFailsTyped ==
  ASSUME Typed, NEW w \in Workers, LookupFails(w)
  PROVE  Typed'
<1>. DEFINE s == Stage(w)
            e == Head(queue[s])
<1>1. /\ s \in Stages /\ e \in Events /\ Queues(queue) /\ row \in [Events -> Rows]
      /\ UNCHANGED <<envelope, body, alerted, loop, admin, mode, snapshot, crashes>>
  BY LookupParts DEF Typed, TypeOK, Queues
<1>2. Queues(queue')
  BY <1>1, LookupParts, DequeueTyped, RequeueTyped
<1>3. faults' \in 0 .. MaxFaults
  BY LookupParts, WorkerAssumption DEF Typed, TypeOK
<1>4. misread' \subseteq Events
  BY <1>1, LookupParts DEF Typed, TypeOK
<1>5. CASE SetBack(s, e) /\ UNCHANGED work
  <2>1. row' \in [Events -> Rows]
    BY <1>1, <1>5, SetBackTyped
  <2>. QED BY <1>1, <1>2, <1>3, <1>4, <1>5, <2>1, WorkerStepTyped
       DEF Typed, TypeOK, Busy, WorkRecords
<1>6. CASE Goto(w, "dead") /\ UNCHANGED row
  <2>1. "dead" \in Places
    BY DEF Places
  <2>. QED BY <1>1, <1>2, <1>3, <1>4, <1>6, <2>1, GotoTyped, WorkerStepTyped DEF Typed, TypeOK
<1>. QED BY <1>5, <1>6, LookupParts

\* The steps of a worker that leave rows and queues alone.
LEMMA PlaceStepTyped ==
  ASSUME Typed, NEW w \in Workers, EvaluateRules(w) \/ Review(w) \/ Delete(w)
  PROVE  Typed'
<1>1. Event(w) \in Events /\ Queues(queue) /\ work[w] \in WorkRecords
  BY DEF Typed, TypeOK, Busy, Queues, EvaluateRules, Review, Delete, At, Event, WorkRecords
<1>2. CASE EvaluateRules(w)
  <2>1. PICK r \in RuleOutcomes[Event(w)] :
           /\ work' = [work EXCEPT ![w].at = "rule_commit", ![w].verdict = r]
           /\ alerted' = IF r.hit THEN alerted \cup {Event(w)} ELSE alerted
    BY <1>2 DEF EvaluateRules
  <2>2. r \in RuleVerdicts
    BY <1>1, <2>1, WorkerAssumption
  <2>3. /\ work' \in [Workers -> WorkRecords]
        /\ \A v \in Workers : work'[v].at \notin {"idle", "dead"} => work'[v].event \in Events
    BY <1>1, <2>1, <2>2 DEF Typed, TypeOK, Busy, WorkRecords, Places, Event
  <2>. QED BY <1>1, <1>2, <2>1, <2>3, WorkerStepTyped
       DEF EvaluateRules, Hold, Typed, TypeOK, environment, Queues
<1>3. CASE Review(w)
  <2>1. /\ \E l \in {"review_failed", "review_not_needed", "review_completed"} : Goto(w, l)
        /\ alerted' \in {alerted, alerted \cup {Event(w)}}
        /\ faults' = faults \/ (faults < MaxFaults /\ faults' = faults + 1)
    <3>1. PICK o \in {"reject", "other", "failed", "not_needed"} :
            /\ IF o = "failed" THEN faults < MaxFaults /\ faults' = faults + 1
                               ELSE UNCHANGED faults
            /\ Goto(w, CASE o = "failed"     -> "review_failed"
                         [] o = "not_needed" -> "review_not_needed"
                         [] OTHER            -> "review_completed")
            /\ alerted' = IF o = "reject" \/ work[w].verdict.hit
                            THEN alerted \cup {Event(w)} ELSE alerted
      BY <1>3 DEF Review
    <3>. QED BY <3>1
  <2>2. PICK l \in {"review_failed", "review_not_needed", "review_completed"} : Goto(w, l)
    BY <2>1
  <2>3. l \in Places /\ work[w].at \notin {"idle", "dead"}
    BY <1>3 DEF Places, Review, At
  <2>4. /\ work' \in [Workers -> WorkRecords]
        /\ \A v \in Workers : work'[v].at \notin {"idle", "dead"} => work'[v].event \in Events
    BY <2>2, <2>3, GotoTyped
  <2>5. faults' \in 0 .. MaxFaults
    BY <2>1, WorkerAssumption DEF Typed, TypeOK
  <2>. QED BY <1>1, <1>3, <2>1, <2>4, <2>5, WorkerStepTyped
       DEF Review, Hold, Typed, TypeOK, environment, Queues
<1>4. CASE Delete(w)
  BY <1>1, <1>4, FreeTyped, WorkerStepTyped DEF Delete, Free, Typed, TypeOK, environment, Queues
<1>. QED BY <1>2, <1>3, <1>4

\* The commits of the rule stage.
LEMMA RuleStepTyped ==
  ASSUME Typed, NEW w \in Workers,
         ReadForRules(w) \/ Link(w) \/ CommitRules(w) \/ HandOff(w) \/ Finish(w)
  PROVE  Typed'
<1>1. /\ Event(w) \in Events /\ Queues(queue) /\ row \in [Events -> Rows]
      /\ work[w] \in WorkRecords /\ work[w].at \notin {"idle", "dead"}
  BY DEF Typed, TypeOK, Busy, Queues, ReadForRules, Link, CommitRules, HandOff, Finish, At, Event,
         WorkRecords
<1>2. CASE ReadForRules(w) /\ Event(w) \in body
  <2>1. Association(Event(w)) \in {"none", "associated", "request_missing"}
    BY DEF Association
  <2>2. row' \in [Events -> Rows]
    BY <1>1, <1>2, <2>1 DEF ReadForRules, Associate, Rows
  <2>3. "link" \in Places /\ Goto(w, "link")
    BY <1>2 DEF ReadForRules, Places
  <2>. QED BY <1>1, <1>2, <2>2, <2>3, GotoTyped, WorkerStepTyped
       DEF ReadForRules, Hold, environment, Typed, TypeOK, Queues
<1>3. CASE ReadForRules(w) /\ Event(w) \notin body
  BY <1>1, <1>3, HandleFailureTyped, FreeTyped, WorkerStepTyped
  DEF ReadForRules, environment, Typed, TypeOK
<1>4. CASE Link(w)
  <2>1. row' \in [Events -> Rows]
    BY <1>1, <1>4 DEF Link, Rows
  <2>2. PICK l \in {"delete", "evaluate"} : Goto(w, l)
    BY <1>4 DEF Link
  <2>3. l \in Places
    BY DEF Places
  <2>. QED BY <1>1, <1>4, <2>1, <2>2, <2>3, GotoTyped, WorkerStepTyped
       DEF Link, Yield, environment, Typed, TypeOK, Queues
<1>5. CASE CommitRules(w)
  <2>. DEFINE r == [row[Event(w)] EXCEPT !.rule = "completed", !.verdict = work[w].verdict]
  <2>0. r \in Rows
    <3>1. row[Event(w)] \in Rows /\ work[w].verdict \in RuleVerdicts
      BY <1>1 DEF WorkRecords
    <3>. QED BY <3>1 DEF Rows
  <2>1. row' \in [Events -> Rows]
    <3>1. row' = [row EXCEPT ![Event(w)] = r]
      BY <1>1, <1>5 DEF CommitRules
    <3>. QED BY <1>1, <2>0, <3>1
  <2>2. "handoff" \in Places /\ Goto(w, "handoff")
    BY <1>5 DEF CommitRules, Places
  <2>. QED BY <1>1, <1>5, <2>1, <2>2, GotoTyped, WorkerStepTyped
       DEF CommitRules, environment, Typed, TypeOK, Queues
<1>6. CASE HandOff(w)
  <2>. DEFINE r == [row[Event(w)] EXCEPT !.llm = "pending", !.proc = "pending", !.retries = 0]
  <2>0. r \in Rows
    BY <1>1 DEF Rows
  <2>1. row' \in [Events -> Rows]
    <3>1. row' = [row EXCEPT ![Event(w)] = r]
      BY <1>1, <1>6 DEF HandOff
    <3>. QED BY <1>1, <2>0, <3>1
  <2>2. Queues(queue')
    BY <1>1, <1>6, EnqueueTyped DEF HandOff, Stages
  <2>. QED BY <1>1, <1>6, <2>1, <2>2, FreeTyped, WorkerStepTyped
       DEF HandOff, Free, Yield, environment, Typed, TypeOK
<1>7. CASE Finish(w)
  <2>. DEFINE r == [row[Event(w)] EXCEPT !.proc = "completed",
                     !.llm = IF Event(w) \in Incomplete THEN "failed" ELSE "not_needed"]
  <2>0. r \in Rows
    BY <1>1 DEF Rows
  <2>1. row' \in [Events -> Rows]
    <3>1. row' = [row EXCEPT ![Event(w)] = r]
      BY <1>1, <1>7 DEF Finish
    <3>. QED BY <1>1, <2>0, <3>1
  <2>2. "delete" \in Places /\ Goto(w, "delete")
    BY <1>7 DEF Finish, Places
  <2>. QED BY <1>1, <1>7, <2>1, <2>2, GotoTyped, WorkerStepTyped
       DEF Finish, Yield, environment, Typed, TypeOK, Queues
<1>. QED BY <1>2, <1>3, <1>4, <1>5, <1>6, <1>7

\* The commits of the reviewer stage.
LEMMA ReviewStepTyped ==
  ASSUME Typed, NEW w \in Workers, ReadForReview(w) \/ CommitOutage(w) \/ CommitReview(w)
  PROVE  Typed'
<1>1. /\ Event(w) \in Events /\ Queues(queue) /\ row \in [Events -> Rows]
      /\ work[w] \in WorkRecords /\ work[w].at \notin {"idle", "dead"}
  BY DEF Typed, TypeOK, Busy, Queues, ReadForReview, CommitOutage, CommitReview, At, Event,
         WorkRecords
<1>2. CASE ReadForReview(w) /\ Event(w) \in body
  <2>1. "review" \in Places /\ Goto(w, "review")
    BY <1>2 DEF ReadForReview, Places
  <2>. QED BY <1>1, <1>2, <2>1, GotoTyped, WorkerStepTyped
       DEF ReadForReview, environment, Typed, TypeOK, Queues
<1>3. CASE ReadForReview(w) /\ Event(w) \notin body
  BY <1>1, <1>3, HandleFailureTyped, FreeTyped, WorkerStepTyped
  DEF ReadForReview, environment, Typed, TypeOK
<1>4. CASE CommitOutage(w)
  <2>1. Update(Event(w), "llm", "failed")
    BY <1>4 DEF CommitOutage
  <2>2. row' \in [Events -> Rows]
    BY <1>1, <2>1, UpdateTyped DEF Stages
  <2>. QED BY <1>1, <1>4, <2>2, FreeTyped, WorkerStepTyped
       DEF CommitOutage, Free, Yield, environment, Typed, TypeOK, Queues
<1>5. CASE CommitReview(w)
  <2>. DEFINE r == [row[Event(w)] EXCEPT !.proc = "completed",
                     !.llm = IF At(w, "review_completed") THEN "completed" ELSE "not_needed"]
  <2>0. r \in Rows
    BY <1>1 DEF Rows
  <2>1. row' \in [Events -> Rows]
    <3>1. row' = [row EXCEPT ![Event(w)] = r]
      BY <1>1, <1>5 DEF CommitReview
    <3>. QED BY <1>1, <2>0, <3>1
  <2>2. "delete" \in Places /\ Goto(w, "delete")
    BY <1>5 DEF CommitReview, Places
  <2>. QED BY <1>1, <1>5, <2>1, <2>2, GotoTyped, WorkerStepTyped
       DEF CommitReview, Yield, environment, Typed, TypeOK, Queues
<1>. QED BY <1>2, <1>3, <1>4, <1>5

LEMMA FailsTyped ==
  ASSUME Typed, NEW w \in Workers, Fails(w)
  PROVE  Typed'
<1>1. /\ work[w].at \notin {"idle", "dead"} /\ faults < MaxFaults /\ faults' = faults + 1
      /\ UNCHANGED <<body, alerted, admin, environment>>
      /\ \/ HandleFailure(w)
         \/ Goto(w, "dead") /\ Yield /\ UNCHANGED <<row, queue>>
  BY DEF Fails, Raise
<1>2. faults' \in 0 .. MaxFaults
  BY <1>1, WorkerAssumption DEF Typed, TypeOK
<1>3. CASE HandleFailure(w)
  BY <1>1, <1>2, <1>3, HandleFailureTyped, FreeTyped, WorkerStepTyped
  DEF environment, Typed, TypeOK
<1>4. CASE Goto(w, "dead") /\ Yield /\ UNCHANGED <<row, queue>>
  <2>1. "dead" \in Places
    BY DEF Places
  <2>. QED BY <1>1, <1>2, <1>4, <2>1, GotoTyped, WorkerStepTyped
       DEF Yield, environment, Typed, TypeOK, Queues
<1>. QED BY <1>1, <1>3, <1>4

\* The administrator's retry.
LEMMA RetryTyped ==
  ASSUME Typed, NEW a \in Admins,
         Retry(a) \/ RetryFails(a) \/ \E e \in Events : RetryCheck(a, e)
  PROVE  Typed'
<1>1. row \in [Events -> Rows] /\ Queues(queue) /\ admin \in [Admins -> AdminRecords]
  BY DEF Typed, TypeOK, Queues, AdminRecords
<1>2. ASSUME row' \in [Events -> Rows], Queues(queue'), admin' \in [Admins -> AdminRecords],
             \A b \in Admins : admin'[b].at # "idle" => admin'[b].event \in Events,
             faults' \in 0 .. MaxFaults,
             UNCHANGED <<envelope, body, alerted, work, loop, mode, snapshot, misread, crashes>>
      PROVE  Typed'
  BY <1>2 DEF Typed, TypeOK, Busy, Queues, AdminRecords
<1>3. ASSUME NEW e \in Events, RetryCheck(a, e)
      PROVE  Typed'
  <2>1. RetryStage(e) \in Stages
    BY DEF RetryStage, Stages
  <2>2. /\ admin' \in [Admins -> AdminRecords]
        /\ \A b \in Admins : admin'[b].at # "idle" => admin'[b].event \in Events
    BY <1>1, <1>3, <2>1 DEF RetryCheck, AdminRecords, Typed, Busy
  <2>. QED BY <1>1, <1>2, <1>3, <2>2 DEF RetryCheck, environment, Typed, TypeOK, Queues
<1>4. CASE RetryFirst(a)
  <2>1. admin[a].event \in Events
    BY <1>4 DEF RetryFirst, Typed, Busy
  <2>2. row' \in [Events -> Rows]
    BY <1>1, <1>4, <2>1 DEF RetryFirst, Rows
  <2>3. /\ admin' \in [Admins -> AdminRecords]
        /\ \A b \in Admins : admin'[b].at # "idle" => admin'[b].event \in Events
    BY <1>1, <1>4, <2>1 DEF RetryFirst, AdminRecords, Typed, Busy
  <2>. QED BY <1>1, <1>2, <1>4, <2>2, <2>3 DEF RetryFirst, environment, Queues, Typed, TypeOK
<1>5. CASE RetrySecond(a)
  <2>1. admin[a].event \in Events /\ admin[a].stage \in Stages
    BY <1>1, <1>5 DEF RetrySecond, Typed, Busy, AdminRecords
  <2>2. row[admin[a].event] \in Rows
    BY <1>1, <2>1
  <2>3. [row[admin[a].event] EXCEPT ![admin[a].stage] = "pending"] \in Rows
    BY <2>1, <2>2, SetStage
  <2>4. row' = [row EXCEPT ![admin[a].event] =
                  [row[admin[a].event] EXCEPT ![admin[a].stage] = "pending"]]
    BY <1>5 DEF RetrySecond
  <2>5. row' \in [Events -> Rows]
    BY <1>1, <2>1, <2>3, <2>4
  <2>6. /\ admin' \in [Admins -> AdminRecords]
        /\ \A b \in Admins : admin'[b].at # "idle" => admin'[b].event \in Events
    BY <1>1, <1>5, <2>1 DEF RetrySecond, AdminRecords, Typed, Busy
  <2>. QED BY <1>1, <1>2, <1>5, <2>5, <2>6 DEF RetrySecond, environment, Queues, Typed, TypeOK
<1>6. CASE RetryEnqueue(a)
  <2>1. admin[a].event \in Events /\ admin[a].stage \in Stages
    BY <1>1, <1>6 DEF RetryEnqueue, Typed, Busy, AdminRecords
  <2>2. Queues(queue')
    BY <1>1, <1>6, <2>1, EnqueueTyped DEF RetryEnqueue
  <2>3. /\ admin' \in [Admins -> AdminRecords]
        /\ \A b \in Admins : admin'[b].at # "idle" => admin'[b].event \in Events
    BY <1>1, <1>6 DEF RetryEnqueue, IdleAdmin, AdminRecords, Stages, Typed, Busy
  <2>. QED BY <1>1, <1>2, <1>6, <2>2, <2>3 DEF RetryEnqueue, environment, Typed, TypeOK
<1>7. CASE RetryFails(a)
  <2>1. /\ admin' \in [Admins -> AdminRecords]
        /\ \A b \in Admins : admin'[b].at # "idle" => admin'[b].event \in Events
    BY <1>1, <1>7 DEF RetryFails, IdleAdmin, AdminRecords, Stages, Typed, Busy
  <2>2. faults' \in 0 .. MaxFaults
    BY <1>7, WorkerAssumption DEF RetryFails, Typed, TypeOK
  <2>. QED BY <1>1, <1>2, <1>7, <2>1, <2>2 DEF RetryFails, environment, Queues
<1>. QED BY <1>3, <1>4, <1>5, <1>6, <1>7 DEF Retry

\* The process goes away and comes back.
LEMMA ProcessTyped ==
  ASSUME Typed, Crash \/ Restart \/ Ready
  PROVE  Typed'
<1>1. CASE Crash
  <2>1. Queues(queue')
    BY <1>1, EmptyQueues DEF Crash
  <2>2. crashes' \in 0 .. MaxCrashes
    BY <1>1, WorkerAssumption DEF Crash, Typed, TypeOK
  <2>. QED BY <1>1, <2>1, <2>2 DEF Crash, Yield, Typed, TypeOK, Busy, Queues, IdleWorker,
       IdleAdmin, Places, NoVerdict, RuleVerdicts, Stages
<1>2. CASE Restart
  <2>1. row' \in [Events -> Rows]
    BY <1>2 DEF Restart, Typed, TypeOK, Rows, Absent, NoVerdict, RuleVerdicts
  <2>. QED BY <1>2, <2>1 DEF Restart, Typed, TypeOK, Busy
<1>3. CASE Ready
  BY <1>3 DEF Ready, Typed, TypeOK, Busy
<1>. QED BY <1>1, <1>2, <1>3

LEMMA StepTyped == Typed /\ [Next]_vars => Typed'
<1>1. CASE UNCHANGED vars
  BY <1>1 DEF vars, environment, Typed, TypeOK, Busy
<1>. QED BY <1>1, EventTyped, DispatchTyped, TakeTyped, LookupFailsTyped, PlaceStepTyped,
        RuleStepTyped, ReviewStepTyped, FailsTyped, RetryTyped, ProcessTyped DEF Next, Proceed

LEMMA AlwaysTyped == Spec => []Typed
BY InitTyped, StepTyped, PTL DEF Spec

\* Every variable keeps its type, and no queue exceeds its limit or holds an
\* event twice, whoever puts events into it: two workers, the dispatcher, a
\* hand-off, a retry, recovery.  (enqueue_rule, enqueue_reviewer)
THEOREM TypeCorrect == Spec => []TypeOK
<1>1. Typed => TypeOK
  BY DEF Typed
<1>. QED BY <1>1, AlwaysTyped, PTL

-----------------------------------------------------------------------------
(* No hit goes unalerted. *)

\* The committed verdicts, and those a rule worker is about to commit, have their
\* alerts: the alert of a stage comes before its commit.
HitsKept ==
  /\ \A e \in Events : row[e].verdict.hit => e \in alerted
  /\ \A w \in Workers : work[w].at = "rule_commit" /\ work[w].verdict.hit => Event(w) \in alerted

LEMMA InitHits == Init => HitsKept
BY DEF Init, HitsKept, Absent, NoVerdict, IdleWorker

\* Steps that commit no verdict and put no worker before that commit.
LEMMA OtherStepHits ==
  ASSUME HitsKept, alerted \subseteq alerted',
         \A e \in Events : row'[e].verdict \in {row[e].verdict, NoVerdict},
         \A w \in Workers : work'[w].at = "rule_commit" => work'[w] = work[w]
  PROVE  HitsKept'
BY DEF HitsKept, NoVerdict, Event

LEMMA UpdateVerdict ==
  ASSUME Typed, NEW e \in Events, NEW s \in Stages, NEW p, Update(e, s, p)
  PROVE  \A d \in Events : row'[d].verdict = row[d].verdict
BY DEF Typed, TypeOK, Rows, Stages, Update

LEMMA SetBackVerdict ==
  ASSUME Typed, NEW e \in Events, NEW s \in Stages, SetBack(s, e)
  PROVE  \A d \in Events : row'[d].verdict = row[d].verdict
BY DEF Typed, TypeOK, Rows, Stages, SetBack

LEMMA PlaceKept ==
  ASSUME Typed, NEW w \in Workers,
         Free(w) \/ \E l \in Places \ {"rule_commit"} : Goto(w, l)
  PROVE  \A v \in Workers : work'[v].at = "rule_commit" => work'[v] = work[v]
BY DEF Typed, TypeOK, Free, Goto, IdleWorker

LEMMA StepHits == Typed /\ HitsKept /\ [Next]_vars => HitsKept'
<1>. SUFFICES ASSUME Typed, HitsKept, [Next]_vars PROVE HitsKept'
  OBVIOUS
<1>1. row \in [Events -> Rows] /\ work \in [Workers -> WorkRecords]
  BY DEF Typed, TypeOK, WorkRecords
<1>2. CASE UNCHANGED vars
  BY <1>2 DEF vars, HitsKept, Event
<1>3. ASSUME NEW e \in Events, Reserve(e) \/ Publish(e) \/ Abandon(e) \/ RecoverEvent(e) \/ Reap(e)
      PROVE  HitsKept'
  <2>1. \A d \in Events : row'[d].verdict \in {row[d].verdict, NoVerdict}
    <3>1. CASE Reserve(e) \/ Publish(e) \/ Reap(e)
      BY <1>1, <3>1 DEF Reserve, Publish, Reap, Rows
    <3>2. CASE Abandon(e)
      BY <1>1, <3>2 DEF Abandon, Absent, Rows
    <3>3. CASE RecoverEvent(e)
      <4>1. \/ row' = [row EXCEPT ![e].proc = "failed", ![e].rule = Failing(@),
                                  ![e].llm = Failing(@)]
            \/ \E s \in Stages : Update(e, s, "pending")
            \/ row' = row
        BY <3>3 DEF RecoverEvent, InProgress, Stages
      <4>2. CASE \E s \in Stages : Update(e, s, "pending")
        BY <4>2, UpdateVerdict
      <4>. QED BY <1>1, <4>1, <4>2 DEF Rows
    <3>. QED BY <1>3, <3>1, <3>2, <3>3
  <2>. QED BY <1>3, <2>1, OtherStepHits DEF Reserve, Publish, Abandon, RecoverEvent, Reap
<1>4. ASSUME NEW s \in Stages, NEW e \in Events, Dispatch(s, e)
      PROVE  HitsKept'
  BY <1>4, OtherStepHits DEF Dispatch
<1>5. ASSUME NEW w \in Workers, Take(w)
      PROVE  HitsKept'
  <2>1. row' = row \/ \E e \in Events, s \in Stages : Update(e, s, "processing")
    <3>1. Stage(w) \in Stages
      BY DEF Stage, Stages
    <3>2. Head(queue[Stage(w)]) \in Events
      BY <1>5, <3>1, DequeueTyped DEF Take, Queues, Typed, TypeOK
    <3>. QED BY <1>5, <3>1, <3>2 DEF Take
  <2>2. \A d \in Events : row'[d].verdict = row[d].verdict
    BY <2>1, UpdateVerdict
  <2>. QED BY <1>1, <1>5, <2>2, OtherStepHits DEF Take
<1>11. ASSUME NEW w \in Workers, LookupFails(w)
       PROVE  HitsKept'
  <2>1. \A d \in Events : row'[d].verdict = row[d].verdict
    BY <1>11, LookupParts, SetBackVerdict
  <2>2. \A v \in Workers : work'[v].at = "rule_commit" => work'[v] = work[v]
    BY <1>1, <1>11, LookupParts DEF Goto, WorkRecords
  <2>3. UNCHANGED alerted
    BY <1>11 DEF LookupFails
  <2>. QED BY <2>1, <2>2, <2>3, OtherStepHits
<1>6. ASSUME NEW w \in Workers, work[w].at \notin {"idle", "dead"}, HandleFailure(w),
             UNCHANGED alerted
      PROVE  HitsKept'
  <2>1. Event(w) \in Events
    BY <1>6 DEF Typed, Busy, Event
  <2>2. \A d \in Events : row'[d].verdict = row[d].verdict
    BY <1>6, <2>1, SetBackVerdict DEF HandleFailure, Stage, Stages
  <2>. QED BY <1>1, <1>6, <2>2, OtherStepHits DEF HandleFailure, Free, IdleWorker
<1>7. ASSUME NEW w \in Workers, Proceed(w)
      PROVE  HitsKept'
  <2>1. work[w].at \notin {"idle", "dead"} /\ Event(w) \in Events
    BY <1>7 DEF Proceed, ReadForRules, Link, EvaluateRules, CommitRules, HandOff, Finish,
                ReadForReview, Review, CommitOutage, CommitReview, Delete, At, Typed, Busy, Event
  <2>2. CASE ReadForRules(w) \/ ReadForReview(w)
    <3>1. CASE HandleFailure(w)
      BY <1>6, <2>1, <2>2, <3>1 DEF ReadForRules, ReadForReview
    <3>2. CASE Associate(Event(w)) /\ Goto(w, "link") /\ ReadForRules(w)
      BY <1>1, <2>1, <3>2, OtherStepHits DEF Associate, Goto, ReadForRules, Rows
    <3>3. CASE Goto(w, "review") /\ UNCHANGED row /\ ReadForReview(w)
      BY <1>1, <3>3, OtherStepHits DEF Goto, ReadForReview
    <3>. QED BY <2>2, <3>1, <3>2, <3>3 DEF ReadForRules, ReadForReview
  <2>3. CASE Link(w)
    BY <1>1, <2>3, OtherStepHits DEF Link, Goto, Rows
  <2>4. CASE EvaluateRules(w)
    <3>1. PICK r \in RuleOutcomes[Event(w)] :
             /\ work' = [work EXCEPT ![w].at = "rule_commit", ![w].verdict = r]
             /\ alerted' = IF r.hit THEN alerted \cup {Event(w)} ELSE alerted
      BY <2>4 DEF EvaluateRules
    <3>. QED BY <1>1, <2>4, <3>1 DEF EvaluateRules, HitsKept, Event, WorkRecords
  <2>5. CASE CommitRules(w)
    <3>1. \A d \in Events :
            row'[d].verdict = IF d = Event(w) THEN work[w].verdict ELSE row[d].verdict
      BY <1>1, <2>1, <2>5 DEF CommitRules, Rows
    <3>2. \A v \in Workers : work'[v].at = "rule_commit" => work'[v] = work[v]
      BY <1>1, <2>5 DEF CommitRules, Goto, WorkRecords
    <3>. QED BY <2>5, <3>1, <3>2 DEF CommitRules, At, HitsKept, Event
  <2>6. CASE HandOff(w) \/ Finish(w)
    <3>1. \A d \in Events : row'[d].verdict = row[d].verdict
      BY <1>1, <2>1, <2>6 DEF HandOff, Finish, Rows
    <3>. QED BY <2>6, <3>1, PlaceKept, OtherStepHits DEF HandOff, Finish, Places
  <2>7. CASE Review(w)
    <3>1. \E l \in {"review_failed", "review_not_needed", "review_completed"} : Goto(w, l)
      BY <2>7 DEF Review
    <3>. QED BY <1>1, <2>7, <3>1, OtherStepHits DEF Review, Goto
  <2>8. CASE CommitOutage(w)
    <3>1. \A d \in Events : row'[d].verdict = row[d].verdict
      BY <2>1, <2>8, UpdateVerdict DEF CommitOutage, Stages
    <3>. QED BY <2>8, <3>1, PlaceKept, OtherStepHits DEF CommitOutage
  <2>9. CASE CommitReview(w) \/ Delete(w)
    <3>1. \A d \in Events : row'[d].verdict = row[d].verdict
      BY <1>1, <2>1, <2>9 DEF CommitReview, Delete, Rows
    <3>. QED BY <2>9, <3>1, PlaceKept, OtherStepHits DEF CommitReview, Delete, Places
  <2>. QED BY <1>7, <2>2, <2>3, <2>4, <2>5, <2>6, <2>7, <2>8, <2>9 DEF Proceed
<1>8. ASSUME NEW w \in Workers, Fails(w)
      PROVE  HitsKept'
  <2>1. CASE HandleFailure(w)
    BY <1>6, <1>8, <2>1 DEF Fails, Raise
  <2>2. CASE Goto(w, "dead") /\ UNCHANGED row
    BY <1>1, <1>8, <2>2, OtherStepHits DEF Fails, Raise, Goto
  <2>. QED BY <1>8, <2>1, <2>2 DEF Fails, Raise
<1>9. ASSUME NEW a \in Admins,
             Retry(a) \/ RetryFails(a) \/ \E e \in Events : RetryCheck(a, e)
      PROVE  HitsKept'
  <2>1. \A d \in Events : row'[d].verdict = row[d].verdict
    <3>1. CASE RetryFirst(a)
      BY <1>1, <3>1 DEF RetryFirst, Rows, Typed, Busy
    <3>2. CASE RetrySecond(a)
      <4>1. admin[a].event \in Events /\ admin[a].stage \in Stages
        BY <3>2 DEF RetrySecond, Typed, TypeOK, Busy
      <4>. QED BY <1>1, <3>2, <4>1 DEF RetrySecond, Rows, Stages
    <3>. QED BY <1>9, <3>1, <3>2 DEF Retry, RetryFails, RetryEnqueue, RetryCheck
  <2>. QED BY <1>9, <2>1, OtherStepHits
       DEF Retry, RetryFails, RetryCheck, RetryFirst, RetrySecond, RetryEnqueue
<1>10. CASE Crash \/ Restart \/ Ready
  BY <1>1, <1>10, OtherStepHits DEF Crash, Restart, Ready, IdleWorker, Absent
<1>. QED BY <1>2, <1>3, <1>4, <1>5, <1>11, <1>7, <1>8, <1>9, <1>10 DEF Next

\* A committed rule hit has its alert, whatever crashes, fails or is retried.
\* (_process_rule_event: the alert is created before the stage is completed)
THEOREM HitsAlerted == Spec => []HitAlerted
<1>1. HitsKept => HitAlerted
  BY DEF HitsKept, HitAlerted
<1>. QED BY <1>1, InitHits, StepHits, AlwaysTyped, PTL DEF Spec

-----------------------------------------------------------------------------
(* Steps, event by event.                                                  *)
(*                                                                         *)
(* The rest is proved event by event: but for a crash and the restart, a   *)
(* step concerns one event and leaves the others as they are.              *)

\* The row of d stays, its association apart.
Same(d) == row'[d] = [row[d] EXCEPT !.assoc = row'[d].assoc]

\* A step of others takes nothing from d and gives nobody a part in it.
Untouched(d) ==
  /\ Same(d) /\ envelope' = envelope
  /\ d \in body' <=> d \in body
  /\ \A s \in Stages : Queued(s, d)' => Queued(s, d)
  /\ d \in snapshot' => d \in snapshot /\ mode' = mode
  /\ \A w \in Workers : work'[w].event = d => work'[w] = work[w]
  /\ \A a \in Admins : admin'[a].at # "idle" /\ admin'[a].event = d => admin'[a] = admin[a]

Concerns(e) == \A d \in Events : d # e => Untouched(d)

LEMMA SameFields ==
  ASSUME Typed, Typed', NEW d \in Events, Same(d)
  PROVE  /\ row'[d].proc = row[d].proc /\ row'[d].rule = row[d].rule
         /\ row'[d].llm = row[d].llm /\ row'[d].verdict = row[d].verdict
BY DEF Typed, TypeOK, Rows, Same

LEMMA EnqueueQueued ==
  ASSUME Typed, NEW s \in Stages, NEW e \in Events, Enqueue(s, e)
  PROVE  \A t \in Stages, d \in Events : Queued(t, d)' => Queued(t, d) \/ (t = s /\ d = e)
<1>1. CASE Queued(s, e) \/ ~Room(s)
  BY <1>1 DEF Enqueue, Queued
<1>2. CASE ~Queued(s, e) /\ Room(s)
  <2>1. queue' = [queue EXCEPT ![s] = Append(queue[s], e)]
    BY <1>2 DEF Enqueue
  <2>2. queue[s] \in Seq(Events) /\ queue \in [Stages -> Seq(Events)]
    BY DEF Typed, TypeOK
  <2>3. /\ \A t \in Stages \ {s} : queue'[t] = queue[t]
        /\ queue'[s] = Append(queue[s], e)
    BY <2>1, <2>2
  <2>4. \A i \in 1 .. Len(Append(queue[s], e)) :
          \/ Append(queue[s], e)[i] = e
          \/ i \in 1 .. Len(queue[s]) /\ Append(queue[s], e)[i] = queue[s][i]
    BY <2>2
  <2>5. \A d \in Events : d \in ToSet(queue'[s]) => d \in ToSet(queue[s]) \/ d = e
    BY <2>3, <2>4 DEF ToSet
  <2>. QED BY <2>3, <2>5 DEF Queued
<1>. QED BY <1>1, <1>2

\* The entry at the head is taken out, or put back at the end.
LEMMA DequeueQueued ==
  ASSUME Typed, NEW s \in Stages, queue[s] # << >>,
         \/ queue' = [queue EXCEPT ![s] = Tail(@)]
         \/ queue' = [queue EXCEPT ![s] = Append(Tail(@), Head(queue[s]))]
  PROVE  /\ Head(queue[s]) \in Events /\ Queued(s, Head(queue[s]))
         /\ \A t \in Stages, d \in Events : Queued(t, d)' => Queued(t, d)
<1>. DEFINE q == queue[s]
<1>1. q \in Seq(Events) /\ queue \in [Stages -> Seq(Events)]
  BY DEF Typed, TypeOK
<1>2. /\ \A t \in Stages \ {s} : queue'[t] = queue[t]
      /\ queue'[s] = Tail(q) \/ queue'[s] = Append(Tail(q), Head(q))
  BY <1>1
<1>3. Len(q) \in Nat \ {0} /\ Head(q) = q[1] /\ q[1] \in Events
  BY <1>1
<1>4. /\ \A i \in 1 .. Len(Tail(q)) : i + 1 \in 1 .. Len(q) /\ Tail(q)[i] = q[i + 1]
      /\ \A i \in 1 .. Len(Append(Tail(q), Head(q))) :
           \/ Append(Tail(q), Head(q))[i] = q[1]
           \/ i + 1 \in 1 .. Len(q) /\ Append(Tail(q), Head(q))[i] = q[i + 1]
  BY <1>1, <1>3
<1>5. 1 \in 1 .. Len(q)
  BY <1>3
<1>6. ASSUME NEW d \in ToSet(queue'[s])
      PROVE  d \in ToSet(q)
  <2>1. CASE queue'[s] = Tail(q)
    BY <1>4, <1>6, <2>1 DEF ToSet
  <2>2. CASE queue'[s] = Append(Tail(q), Head(q))
    BY <1>4, <1>5, <1>6, <2>2 DEF ToSet
  <2>. QED BY <1>2, <2>1, <2>2
<1>7. Queued(s, Head(q))
  BY <1>3, <1>5 DEF Queued, ToSet
<1>. QED BY <1>2, <1>3, <1>6, <1>7 DEF Queued

\* What the worker w does with its event, or one who sets e back.
LEMMA SetBackRow ==
  ASSUME Typed, NEW e \in Events, NEW s \in Stages, SetBack(s, e)
  PROVE  /\ \A d \in Events : d # e => row'[d] = row[d]
         /\ row'[e].proc \in {"pending", "failed"} /\ row'[e][s] = row'[e].proc
         /\ s = "llm" => row'[e].rule = row[e].rule
         /\ s = "rule" => row'[e].llm = row[e].llm
         /\ row'[e].verdict = row[e].verdict /\ row'[e].assoc = row[e].assoc
<1>1. row \in [Events -> Rows]
  BY DEF Typed, TypeOK
<1>2. PICK p \in {"pending", "failed"} :
        row' = [row EXCEPT ![e].proc = p, ![e][s] = p, ![e].retries = @ + 1]
  BY DEF SetBack
<1>3. CASE s = "rule"
  <2>1. row' = [row EXCEPT ![e].proc = p, ![e].rule = p, ![e].retries = @ + 1]
    BY <1>2, <1>3
  <2>. QED BY <1>1, <1>3, <2>1 DEF Rows
<1>4. CASE s = "llm"
  <2>1. row' = [row EXCEPT ![e].proc = p, ![e].llm = p, ![e].retries = @ + 1]
    BY <1>2, <1>4
  <2>. QED BY <1>1, <1>4, <2>1 DEF Rows
<1>. QED BY <1>3, <1>4 DEF Stages

LEMMA UpdateRow ==
  ASSUME Typed, NEW e \in Events, NEW s \in Stages,
         NEW p \in {"pending", "processing", "completed", "failed"}, Update(e, s, p)
  PROVE  /\ \A d \in Events : d # e => row'[d] = row[d]
         /\ row'[e].proc = p /\ row'[e][s] = p
         /\ s = "llm" => row'[e].rule = row[e].rule
         /\ s = "rule" => row'[e].llm = row[e].llm
         /\ row'[e].verdict = row[e].verdict /\ row'[e].assoc = row[e].assoc
<1>1. row \in [Events -> Rows]
  BY DEF Typed, TypeOK
<1>2. CASE s = "rule"
  <2>1. row' = [row EXCEPT ![e].proc = p, ![e].rule = p]
    BY <1>2 DEF Update
  <2>. QED BY <1>1, <1>2, <2>1 DEF Rows
<1>3. CASE s = "llm"
  <2>1. row' = [row EXCEPT ![e].proc = p, ![e].llm = p]
    BY <1>3 DEF Update
  <2>. QED BY <1>1, <1>3, <2>1 DEF Rows
<1>. QED BY <1>2, <1>3 DEF Stages

LEMMA SameRow ==
  ASSUME Typed, NEW d \in Events, row'[d] = row[d]
  PROVE  Same(d)
BY DEF Typed, TypeOK, Rows, Same

LEMMA Untouching ==
  ASSUME NEW e, UNCHANGED <<envelope, mode>>, snapshot' \subseteq snapshot,
         \A d \in Events : d # e => /\ Same(d) /\ (d \in body' <=> d \in body)
                                    /\ \A s \in Stages : Queued(s, d)' => Queued(s, d),
         \A d \in Events : d # e => \A w \in Workers : work'[w].event = d => work'[w] = work[w],
         \A a \in Admins : admin'[a] = admin[a] \/ admin'[a].at = "idle" \/ admin'[a].event = e
  PROVE  Concerns(e)
BY DEF Concerns, Untouched

LEMMA EventConcerns ==
  ASSUME Typed, NEW e \in Events,
         Reserve(e) \/ Publish(e) \/ Abandon(e) \/ RecoverEvent(e) \/ Reap(e)
  PROVE  Concerns(e)
<1>1. row \in [Events -> Rows] /\ UNCHANGED <<work, admin, envelope, mode>>
  BY DEF Typed, TypeOK, Reserve, Publish, Abandon, RecoverEvent, Reap, environment
<1>2. /\ snapshot' \subseteq snapshot
      /\ \A d \in Events : d # e => (d \in body' <=> d \in body)
  BY DEF Reserve, Publish, Abandon, RecoverEvent, Reap, environment
<1>3. \A d \in Events : d # e => row'[d] = row[d]
  <2>1. CASE RecoverEvent(e)
    <3>1. \/ row' = [row EXCEPT ![e].proc = "failed", ![e].rule = Failing(@),
                                ![e].llm = Failing(@)]
          \/ \E s \in Stages : Update(e, s, "pending")
          \/ row' = row
      BY <2>1 DEF RecoverEvent, InProgress, Stages
    <3>. QED BY <1>1, <3>1, UpdateRow
  <2>. QED BY <1>1, <2>1 DEF Reserve, Publish, Abandon, Reap
<1>4. \A t \in Stages, d \in Events : Queued(t, d)' => Queued(t, d) \/ d = e
  <2>1. UNCHANGED queue \/ \E s \in Stages : Enqueue(s, e)
    BY DEF Reserve, Publish, Abandon, RecoverEvent, Reap, InProgress, Stages
  <2>. QED BY <2>1, EnqueueQueued DEF Queued
<1>. QED BY <1>1, <1>2, <1>3, <1>4, SameRow, Untouching

LEMMA DispatchConcerns ==
  ASSUME Typed, NEW s \in Stages, NEW e \in Events, Dispatch(s, e)
  PROVE  Concerns(e)
<1>1. UNCHANGED <<row, body, work, admin, environment>> /\ Enqueue(s, e)
  BY DEF Dispatch
<1>2. \A t \in Stages, d \in Events : Queued(t, d)' => Queued(t, d) \/ d = e
  BY <1>1, EnqueueQueued
<1>. QED BY <1>1, <1>2, SameRow, Untouching DEF environment

\* An entry is taken from the queue: what it concerns is the event at the head.
LEMMA TakeConcerns ==
  ASSUME Typed, NEW w \in Workers, Take(w), NEW s, s = Stage(w), NEW e, e = Head(queue[s])
  PROVE  /\ s \in Stages /\ e \in Events /\ Queued(s, e) /\ Concerns(e)
         /\ \A t \in Stages, d \in Events : Queued(t, d)' => Queued(t, d)
<1>1. /\ s \in Stages /\ row \in [Events -> Rows] /\ work \in [Workers -> WorkRecords]
      /\ UNCHANGED <<body, admin, environment>>
      /\ queue[s] # << >> /\ queue' = [queue EXCEPT ![s] = Tail(@)]
  BY DEF Stage, Stages, Typed, TypeOK, WorkRecords, Take
<1>2. /\ e \in Events /\ Queued(s, e)
      /\ \A t \in Stages, d \in Events : Queued(t, d)' => Queued(t, d)
  BY <1>1, DequeueQueued
<1>3. \/ UNCHANGED <<row, work>>
      \/ /\ Update(e, s, "processing")
         /\ work' = [work EXCEPT ![w] = [at |-> "read", event |-> e, verdict |-> row[e].verdict]]
  BY DEF Take
<1>4. \A d \in Events : d # e =>
        row'[d] = row[d] /\ \A v \in Workers : work'[v].event = d => work'[v] = work[v]
  BY <1>1, <1>2, <1>3, UpdateRow
<1>. QED BY <1>1, <1>2, <1>4, SameRow, Untouching DEF environment

LEMMA LookupConcerns ==
  ASSUME Typed, NEW w \in Workers, LookupFails(w), Event(w) = Nobody, NEW s, s = Stage(w),
         NEW e, e = Head(queue[s])
  PROVE  /\ s \in Stages /\ e \in Events /\ Queued(s, e) /\ Concerns(e)
         /\ \A t \in Stages, d \in Events : Queued(t, d)' => Queued(t, d)
<1>1. /\ s \in Stages /\ queue[s] # << >> /\ work \in [Workers -> WorkRecords]
      /\ UNCHANGED <<envelope, body, admin, mode, snapshot>>
      /\ UNCHANGED work \/ Goto(w, "dead")
  BY LookupParts DEF Typed, TypeOK, WorkRecords
<1>2. /\ e \in Events /\ Queued(s, e)
      /\ \A t \in Stages, d \in Events : Queued(t, d)' => Queued(t, d)
  BY <1>1, LookupParts, DequeueQueued
<1>3. \A d \in Events : d # e => row'[d] = row[d]
  BY <1>1, <1>2, LookupParts, SetBackRow
<1>4. \A d \in Events, v \in Workers : work'[v].event = d => work'[v] = work[v]
  BY <1>1, WorkerAssumption DEF Goto, WorkRecords, Event
<1>. QED BY <1>1, <1>2, <1>3, <1>4, SameRow, Untouching

LEMMA GotoMoves ==
  ASSUME Typed, NEW w \in Workers, NEW l \in Places, Goto(w, l)
  PROVE  /\ \A v \in Workers : v # w => work'[v] = work[v]
         /\ work'[w].at = l /\ work'[w].event = Event(w) /\ work'[w].verdict = work[w].verdict
BY DEF Typed, TypeOK, Goto, Event

LEMMA FreeMoves ==
  ASSUME Typed, NEW w \in Workers, Free(w)
  PROVE  (\A v \in Workers : v # w => work'[v] = work[v]) /\ work'[w] = IdleWorker
BY DEF Typed, TypeOK, Free

\* A worker at work goes on with its event in hand, or lets go of it.
Moves(w) ==
  /\ \A v \in Workers : v # w => work'[v] = work[v]
  /\ work'[w] = IdleWorker \/ (work'[w].at # "idle" /\ work'[w].event = Event(w))

LEMMA WorkMoves ==
  ASSUME Typed, NEW w \in Workers, Proceed(w) \/ Fails(w)
  PROVE  /\ work[w].at \notin {"idle", "dead"} /\ mode = "up" /\ Event(w) \in Events
         /\ UNCHANGED <<admin, environment>> /\ Moves(w)
<1>1. /\ work[w].at \notin {"idle", "dead"} /\ mode = "up" /\ UNCHANGED <<admin, environment>>
  BY DEF Proceed, ReadForRules, Link, EvaluateRules, CommitRules, HandOff, Finish, ReadForReview,
         Review, CommitOutage, CommitReview, Delete, Fails, Raise, LoopFree, At
<1>2. Event(w) \in Events
  BY <1>1 DEF Typed, Busy, Event
<1>3. Free(w) => Moves(w)
  BY FreeMoves DEF Moves
<1>4. ASSUME NEW l \in Places \ {"idle"}, Goto(w, l)
      PROVE  Moves(w)
  BY <1>4, GotoMoves DEF Moves
<1>5. ASSUME EvaluateRules(w)
      PROVE  Moves(w)
  <2>1. PICK r \in RuleOutcomes[Event(w)] :
           work' = [work EXCEPT ![w].at = "rule_commit", ![w].verdict = r]
    BY <1>5 DEF EvaluateRules
  <2>2. work[w] \in WorkRecords /\ work \in [Workers -> WorkRecords]
    BY DEF Typed, TypeOK, WorkRecords
  <2>. QED BY <2>1, <2>2 DEF Moves, WorkRecords, Event
<1>6. \/ Free(w) \/ EvaluateRules(w)
      \/ \E l \in {"link", "delete", "evaluate", "handoff", "review", "review_failed",
                   "review_not_needed", "review_completed", "dead"} : Goto(w, l)
  BY DEF Proceed, ReadForRules, Link, CommitRules, HandOff, Finish, ReadForReview,
         Review, CommitOutage, CommitReview, Delete, Fails, Raise, HandleFailure
<1>. QED BY <1>1, <1>2, <1>3, <1>4, <1>5, <1>6 DEF Places

LEMMA WorkConcerns ==
  ASSUME Typed, NEW w \in Workers, Proceed(w) \/ Fails(w)
  PROVE  Concerns(Event(w))
<1>. DEFINE e == Event(w)
<1>1. /\ row \in [Events -> Rows] /\ e \in Events
      /\ UNCHANGED <<admin, environment>> /\ Moves(w)
  BY WorkMoves DEF Typed, TypeOK
<1>2. \A d \in Events : d # e => Same(d)
  <2>1. CASE HandleFailure(w)
    BY <1>1, <2>1, SetBackRow, SameRow DEF HandleFailure, Stage, Stages
  <2>2. CASE Associate(e) \/ CommitRules(w) \/ HandOff(w) \/ Finish(w) \/ CommitReview(w)
    BY <1>1, <2>2, SameRow DEF Associate, CommitRules, HandOff, Finish, CommitReview
  <2>3. CASE Link(w)
    BY <1>1, <2>3 DEF Link, Same, Rows
  <2>4. CASE CommitOutage(w)
    BY <1>1, <2>4, UpdateRow, SameRow DEF CommitOutage, Stages
  <2>5. CASE UNCHANGED row
    BY <2>5, SameRow
  <2>. QED BY <2>1, <2>2, <2>3, <2>4, <2>5
       DEF Proceed, ReadForRules, EvaluateRules, ReadForReview, Review, Delete, Fails, Raise
<1>3. \A d \in Events : d # e => (d \in body' <=> d \in body)
  BY DEF Proceed, ReadForRules, Link, EvaluateRules, CommitRules, HandOff, Finish, ReadForReview,
         Review, CommitOutage, CommitReview, Delete, Fails, Raise
<1>4. \A t \in Stages, d \in Events : Queued(t, d)' => Queued(t, d) \/ d = e
  <2>1. UNCHANGED queue \/ \E s \in Stages : Enqueue(s, e)
    BY DEF Proceed, ReadForRules, Link, EvaluateRules, CommitRules, HandOff, Finish, ReadForReview,
           Review, CommitOutage, CommitReview, Delete, Fails, Raise, HandleFailure, Stage, Stages
  <2>. QED BY <1>1, <2>1, EnqueueQueued DEF Queued
<1>5. \A d \in Events : d # e => \A v \in Workers : work'[v].event = d => work'[v] = work[v]
  BY <1>1, WorkerAssumption DEF Moves, IdleWorker
<1>. QED BY <1>1, <1>2, <1>3, <1>4, <1>5, Untouching DEF environment

\* A retry concerns the event of its administrator.
LEMMA RetryConcerns ==
  ASSUME Typed, NEW a \in Admins, NEW e \in Events,
         RetryCheck(a, e) \/ ((Retry(a) \/ RetryFails(a)) /\ admin[a].event = e)
  PROVE  Concerns(e)
<1>1. /\ row \in [Events -> Rows] /\ admin \in [Admins -> AdminRecords]
      /\ UNCHANGED <<work, body, environment>>
  BY DEF Typed, TypeOK, AdminRecords, Retry, RetryFails, RetryFirst, RetrySecond, RetryEnqueue,
         RetryCheck
<1>2. \A d \in Events : d # e => row'[d] = row[d]
  BY <1>1 DEF Retry, RetryFails, RetryFirst, RetrySecond, RetryEnqueue, RetryCheck
<1>3. \A t \in Stages, d \in Events : Queued(t, d)' => Queued(t, d) \/ d = e
  <2>1. UNCHANGED queue \/ \E s \in Stages : Enqueue(s, e)
    BY <1>1 DEF Retry, RetryFails, RetryFirst, RetrySecond, RetryEnqueue, RetryCheck, AdminRecords
  <2>. QED BY <2>1, EnqueueQueued DEF Queued
<1>4. \A b \in Admins : admin'[b] = admin[b] \/ admin'[b].at = "idle" \/ admin'[b].event = e
  BY <1>1 DEF Retry, RetryFails, RetryFirst, RetrySecond, RetryEnqueue, RetryCheck, IdleAdmin,
              AdminRecords
<1>. QED BY <1>1, <1>2, <1>3, <1>4, SameRow, Untouching DEF environment

\* A crash touches nobody's row, and neither does becoming ready.
LEMMA ProcessTouches ==
  ASSUME Typed, Crash \/ Ready
  PROVE  \A d \in Events : Untouched(d)
<1>1. \A d \in Events : Same(d)
  BY SameRow DEF Crash, Ready
<1>2. CASE Crash
  BY <1>1, <1>2, WorkerAssumption DEF Crash, Untouched, Queued, ToSet, IdleWorker, IdleAdmin
<1>3. CASE Ready
  <2>1. snapshot' = {} \/ snapshot' = snapshot
    BY <1>3 DEF Ready
  <2>. QED BY <1>1, <1>3 DEF Ready, Untouched, Queued
<1>. QED BY <1>2, <1>3

-----------------------------------------------------------------------------
(* What no failure undoes. *)

RulePlaces == {"link", "evaluate", "rule_commit", "handoff"}
AfterLink == {"evaluate", "rule_commit", "handoff"}
Reviewing == {"review", "review_failed", "review_completed", "review_not_needed"}

Handled(e) ==
  \/ \E s \in Stages : Queued(s, e)
  \/ \E w \in Workers : Event(w) = e
  \/ \E a \in Admins : admin[a].at # "idle" /\ admin[a].event = e

\* A response is the rule stage's alone, and done when it is associated.
RuleBound(q) ==
  /\ ~Queued("llm", q) /\ \A w \in Reviewers : Event(w) # q
  /\ \A w \in Workers : Event(w) = q => work[w].at \notin AfterLink
  /\ \A a \in Admins : admin[a].at # "idle" /\ admin[a].event = q => admin[a].stage = "rule"
  /\ row[q].rule = "completed" => row[q].llm \notin {"pending", "processing"}
  /\ row[q].llm = "failed" => q \notin body

Ground(e) ==
  /\ ~Accepted(e) => row[e].rule = "pending" /\ row[e].llm = "pending" /\ ~Handled(e)
  /\ envelope[e].kind = "response" => RuleBound(e)
  /\ e \in snapshot => Unfinished(e) /\ mode = "recovering"

\* The stages keep to their places, and nobody works while the process is not up.
Crew ==
  /\ \A w \in Workers : work[w].at = "idle" => Event(w) = Nobody
  /\ \A w \in Workers : work[w].at \in RulePlaces => w \in RuleWorkers
  /\ \A w \in Workers : work[w].at \in Reviewing => w \in Reviewers
  /\ mode # "up" => /\ \A w \in Workers : work[w].at = "idle"
                    /\ \A a \in Admins : admin[a].at = "idle"

Grounded == Crew /\ \A e \in Events : Ground(e)

LEMMA InitGrounded == Init => Grounded
<1>. SUFFICES ASSUME Init PROVE Grounded
  OBVIOUS
<1>1. \A d \in Events, s \in Stages : ~Queued(s, d)
  BY DEF Init, Queued, ToSet, Stages
<1>2. \A w \in Workers : work[w] = IdleWorker /\ Event(w) = Nobody
  BY DEF Init, Event, IdleWorker
<1>3. Crew
  BY <1>2 DEF Init, Crew, IdleWorker, IdleAdmin, RulePlaces, Reviewing
<1>4. \A d \in Events : Ground(d)
  BY <1>1, <1>2, WorkerAssumption
     DEF Init, Ground, RuleBound, Handled, Accepted, Absent, IdleAdmin, Stages, Workers
<1>. QED BY <1>3, <1>4 DEF Grounded

LEMMA GroundFrame ==
  ASSUME Typed, Typed', NEW d \in Events, Ground(d), Untouched(d)
  PROVE  Ground(d)'
<1>1. /\ row'[d].proc = row[d].proc /\ row'[d].rule = row[d].rule
      /\ row'[d].llm = row[d].llm /\ row'[d].verdict = row[d].verdict
  BY SameFields DEF Untouched
<1>2. /\ \A w \in Workers : Event(w)' = d => work'[w] = work[w] /\ Event(w) = d
      /\ \A a \in Admins : admin'[a].at # "idle" /\ admin'[a].event = d => admin'[a] = admin[a]
      /\ \A s \in Stages : Queued(s, d)' => Queued(s, d)
  BY DEF Untouched, Event
<1>3. Handled(d)' => Handled(d)
  BY <1>2 DEF Handled
<1>4. RuleBound(d) => RuleBound(d)'
  BY <1>1, <1>2 DEF RuleBound, Untouched, Workers, Stages
<1>. QED BY <1>1, <1>3, <1>4 DEF Ground, Untouched, Accepted, Unfinished

LEMMA CrewStep ==
  ASSUME Typed, Crew, [Next]_vars
  PROVE  Crew'
<1>1. work \in [Workers -> WorkRecords]
  BY DEF Typed, TypeOK, WorkRecords
<1>2. ASSUME UNCHANGED <<work, admin, mode>> \/ (UNCHANGED work /\ mode' = "up")
      PROVE  Crew'
  BY <1>2 DEF Crew, Event
<1>3. ASSUME NEW w \in Workers, Proceed(w) \/ Fails(w)
      PROVE  Crew'
  <2>1. Moves(w) /\ mode' = "up" /\ Event(w) \in Events
    BY <1>3, WorkMoves DEF environment
  <2>2. /\ work'[w].at \in RulePlaces => w \in RuleWorkers
        /\ work'[w].at \in Reviewing => w \in Reviewers
    <3>1. CASE Free(w)
      BY <3>1, FreeMoves DEF IdleWorker, RulePlaces, Reviewing
    <3>2. CASE ReadForRules(w) /\ Goto(w, "link")
      BY <1>1, <3>2 DEF ReadForRules, Goto, Reviewing
    <3>3. CASE ReadForReview(w) /\ Goto(w, "review")
      BY <1>1, <3>3 DEF ReadForReview, Goto, RulePlaces
    <3>4. CASE Link(w) \/ CommitRules(w)
      <4>1. /\ work[w].at \in RulePlaces
            /\ \E l \in {"delete", "evaluate", "handoff"} : Goto(w, l)
        BY <3>4 DEF Link, CommitRules, At, RulePlaces
      <4>. QED BY <1>1, <4>1 DEF Crew, Goto, Reviewing
    <3>5. CASE EvaluateRules(w)
      BY <1>1, <3>5 DEF EvaluateRules, At, Crew, RulePlaces, Reviewing, WorkRecords
    <3>6. CASE Review(w)
      <4>1. /\ work[w].at \in Reviewing
            /\ \E l \in {"review_failed", "review_not_needed", "review_completed"} : Goto(w, l)
        BY <3>6 DEF Review, At, Reviewing
      <4>. QED BY <1>1, <4>1 DEF Crew, Goto, RulePlaces
    <3>7. CASE \E l \in {"delete", "dead"} : Goto(w, l)
      BY <1>1, <3>7 DEF Goto, RulePlaces, Reviewing
    <3>. QED BY <1>3, <3>1, <3>2, <3>3, <3>4, <3>5, <3>6, <3>7
         DEF Proceed, ReadForRules, HandOff, Finish, ReadForReview, CommitOutage, CommitReview,
             Delete, Fails, Raise, HandleFailure
  <2>. QED BY <2>1, <2>2 DEF Crew, Moves, Event, IdleWorker
<1>4. ASSUME NEW w \in Workers, Take(w)
      PROVE  Crew'
  <2>1. /\ mode' = "up"
        /\ \/ UNCHANGED work
           \/ \E e, v : work' = [work EXCEPT ![w] = [at |-> "read", event |-> e, verdict |-> v]]
    BY <1>4 DEF Take, LoopFree, environment
  <2>. QED BY <1>1, <2>1 DEF Crew, Event, RulePlaces, Reviewing
<1>5. ASSUME NEW w \in Workers, LookupFails(w)
      PROVE  Crew'
  <2>1. mode' = "up" /\ (UNCHANGED work \/ Goto(w, "dead"))
    BY <1>5, LookupParts
  <2>. QED BY <1>1, <2>1 DEF Crew, Goto, Event, RulePlaces, Reviewing, WorkRecords
<1>6. ASSUME NEW a \in Admins,
             Retry(a) \/ RetryFails(a) \/ \E e \in Events : RetryCheck(a, e)
      PROVE  Crew'
  BY <1>2, <1>6 DEF Retry, RetryFails, RetryFirst, RetrySecond, RetryEnqueue, RetryCheck, LoopFree,
                    environment
<1>7. CASE Crash \/ Restart \/ Ready
  BY <1>7 DEF Crash, Restart, Ready, Crew, IdleWorker, IdleAdmin, RulePlaces, Reviewing, Event
<1>8. ASSUME NEW e \in Events, Reserve(e) \/ Publish(e) \/ Abandon(e) \/ RecoverEvent(e) \/ Reap(e)
      PROVE  Crew'
  BY <1>2, <1>8 DEF Reserve, Publish, Abandon, RecoverEvent, Reap, environment
<1>9. ASSUME NEW s \in Stages, NEW e \in Events, Dispatch(s, e)
      PROVE  Crew'
  BY <1>2, <1>9 DEF Dispatch, environment
<1>10. CASE UNCHANGED vars
  BY <1>2, <1>10 DEF vars, environment
<1>. QED BY <1>3, <1>4, <1>5, <1>6, <1>7, <1>8, <1>9, <1>10 DEF Next

\* Before it is accepted, and while it recovers, nobody works on an event.
LEMMA EventGround ==
  ASSUME Typed, Typed', Grounded, NEW e \in Events,
         Reserve(e) \/ Publish(e) \/ Abandon(e) \/ RecoverEvent(e) \/ Reap(e)
  PROVE  Ground(e)'
<1>1. /\ row \in [Events -> Rows] /\ Ground(e) /\ Crew
      /\ UNCHANGED <<work, admin, envelope, mode>>
  BY DEF Typed, TypeOK, Grounded, Reserve, Publish, Abandon, RecoverEvent, Reap, environment
<1>2. CASE Reserve(e)
  <2>1. /\ row'[e].proc = "persisting" /\ row'[e].rule = row[e].rule /\ row'[e].llm = row[e].llm
        /\ UNCHANGED <<queue, body, snapshot>> /\ row[e].proc = "absent"
    BY <1>1, <1>2 DEF Reserve, Rows, environment
  <2>. QED BY <1>1, <2>1 DEF Ground, RuleBound, Handled, Accepted, Unfinished, Queued, Event
<1>3. CASE Publish(e)
  <2>1. /\ row'[e].proc = "pending" /\ row'[e].rule = row[e].rule /\ row'[e].llm = row[e].llm
        /\ UNCHANGED snapshot /\ row[e].proc = "persisting" /\ Enqueue("rule", e)
    BY <1>1, <1>3 DEF Publish, Rows, environment
  <2>2. Queued("llm", e)' => Queued("llm", e)
    BY <2>1, EnqueueQueued DEF Stages
  <2>. QED BY <1>1, <2>1, <2>2 DEF Ground, RuleBound, Accepted, Unfinished, Event
<1>4. CASE Abandon(e)
  <2>1. /\ row'[e] = Absent
        /\ UNCHANGED <<queue, body, snapshot>> /\ row[e].proc = "persisting"
    BY <1>1, <1>4 DEF Abandon, environment
  <2>. QED BY <1>1, <2>1 DEF Ground, RuleBound, Handled, Accepted, Absent, Unfinished, Queued, Event
<1>5. CASE RecoverEvent(e)
  <2>1. /\ e \in snapshot /\ e \notin snapshot' /\ UNCHANGED body
        /\ Unfinished(e) /\ Accepted(e)
    BY <1>1, <1>5 DEF RecoverEvent, Ground, Unfinished, Accepted
  <2>2. \/ e \notin body /\ UNCHANGED queue
           /\ row' = [row EXCEPT ![e].proc = "failed", ![e].rule = Failing(@),
                                 ![e].llm = Failing(@)]
        \/ Update(e, "rule", "pending") /\ Enqueue("rule", e)
        \/ /\ row[e].rule = "completed" /\ row[e].llm \in {"pending", "processing"}
           /\ Update(e, "llm", "pending") /\ Enqueue("llm", e)
        \/ UNCHANGED <<row, queue>>
    BY <1>5 DEF RecoverEvent, InProgress
  <2>3. Accepted(e)'
    BY <1>1, <2>1, <2>2, UpdateRow DEF Accepted, Stages, Rows
  <2>4. envelope[e].kind = "response" => RuleBound(e)'
    <3>. SUFFICES ASSUME RuleBound(e) PROVE RuleBound(e)'
      BY <1>1 DEF Ground
    <3>1. CASE UNCHANGED queue /\ e \notin body
               /\ row' = [row EXCEPT ![e].proc = "failed", ![e].rule = Failing(@),
                                     ![e].llm = Failing(@)]
      <4>1. row'[e].rule = Failing(row[e].rule) /\ row'[e].llm = Failing(row[e].llm)
        BY <1>1, <3>1 DEF Rows
      <4>. QED BY <1>1, <2>1, <3>1, <4>1 DEF RuleBound, Failing, InProgress, Queued, Event
    <3>2. CASE Update(e, "rule", "pending") /\ Enqueue("rule", e)
      <4>1. row'[e].rule = "pending" /\ row'[e].llm = row[e].llm
        BY <3>2, UpdateRow DEF Stages
      <4>2. Queued("llm", e)' => Queued("llm", e)
        BY <3>2, EnqueueQueued DEF Stages
      <4>. QED BY <1>1, <2>1, <4>1, <4>2 DEF RuleBound, Event
    <3>3. CASE UNCHANGED <<row, queue>>
      BY <1>1, <2>1, <3>3 DEF RuleBound, Queued, Event
    <3>. QED BY <2>2, <3>1, <3>2, <3>3 DEF RuleBound
  <2>. QED BY <1>1, <2>1, <2>3, <2>4 DEF Ground
<1>6. CASE Reap(e)
  <2>1. UNCHANGED <<row, queue, snapshot>> /\ body' = body \ {e}
    BY <1>6 DEF Reap, environment
  <2>. QED BY <1>1, <2>1 DEF Ground, RuleBound, Handled, Accepted, Unfinished, Queued, Event
<1>. QED BY <1>2, <1>3, <1>4, <1>5, <1>6

LEMMA DispatchGround ==
  ASSUME Typed, Typed', Grounded, NEW s \in Stages, NEW e \in Events, Dispatch(s, e)
  PROVE  Ground(e)'
<1>1. /\ Ground(e) /\ UNCHANGED <<row, body, work, admin, environment>> /\ Enqueue(s, e)
      /\ Dispatchable(s, e)
  BY DEF Grounded, Dispatch
<1>2. Queued("llm", e)' => Queued("llm", e) \/ s = "llm"
  BY <1>1, EnqueueQueued DEF Stages
<1>3. Accepted(e)'
  BY <1>1 DEF Dispatchable, Accepted
<1>. QED BY <1>1, <1>2, <1>3
     DEF Ground, RuleBound, Dispatchable, Due, Unfinished, Event, environment

\* An entry of a queue is an accepted event, and a response only one for the rules.
LEMMA EntryGround ==
  ASSUME Typed, Typed', Grounded, NEW w \in Workers, Take(w) \/ LookupFails(w),
         NEW e, e = Head(queue[Stage(w)])
  PROVE  e \in Events /\ Ground(e)'
<1>. DEFINE s == Stage(w)
<1>1. work[w].at = "idle" /\ mode = "up"
  BY DEF Take, LookupFails, LoopFree, At
<1>2. Event(w) = Nobody
  BY <1>1 DEF Grounded, Crew
<1>3. /\ s \in Stages /\ e \in Events /\ Queued(s, e)
      /\ \A t \in Stages, d \in Events : Queued(t, d)' => Queued(t, d)
  BY <1>2, TakeConcerns, LookupConcerns
<1>4. /\ UNCHANGED <<envelope, body, admin, mode, snapshot>>
      /\ row \in [Events -> Rows] /\ work \in [Workers -> WorkRecords] /\ Ground(e)
  BY <1>3 DEF Take, LookupFails, environment, Typed, TypeOK, WorkRecords, Grounded
<1>5. Accepted(e) /\ e \notin snapshot
  BY <1>1, <1>3, <1>4 DEF Ground, Handled
<1>6. /\ UNCHANGED row \/ Update(e, s, "processing") \/ SetBack(s, e)
      /\ \/ UNCHANGED work \/ Goto(w, "dead")
         \/ work' = [work EXCEPT ![w] = [at |-> "read", event |-> e, verdict |-> row[e].verdict]]
  BY LookupParts DEF Take
<1>7. Accepted(e)'
  BY <1>3, <1>5, <1>6, UpdateRow, SetBackRow DEF Accepted
<1>8. ASSUME RuleBound(e)
      PROVE  RuleBound(e)'
  <2>1. s = "rule" /\ w \in RuleWorkers /\ w \notin Reviewers
    BY <1>3, <1>8, WorkerAssumption DEF RuleBound, Stage
  <2>2. row'[e].llm = row[e].llm /\ (row'[e].rule = "completed" => row[e].rule = "completed")
    BY <1>3, <1>6, <2>1, UpdateRow, SetBackRow
  <2>3. /\ \A v \in Workers : v # w => work'[v] = work[v]
        /\ work'[w].at \in {"idle", "dead", "read"}
    BY <1>1, <1>4, <1>6 DEF Goto, WorkRecords
  <2>. QED BY <1>3, <1>4, <1>8, <2>1, <2>2, <2>3
       DEF RuleBound, Stages, Workers, Event, AfterLink
<1>. QED BY <1>3, <1>4, <1>5, <1>7, <1>8 DEF Ground

LEMMA WorkGround ==
  ASSUME Typed, Typed', Grounded, NEW w \in Workers, Proceed(w) \/ Fails(w),
         NEW e \in Events, Event(w) = e
  PROVE  Ground(e)'
<1>1. /\ work[w].at \notin {"idle", "dead"} /\ mode = "up"
      /\ UNCHANGED <<admin, environment>> /\ Moves(w)
  BY WorkMoves
<1>2. /\ row \in [Events -> Rows] /\ row[e] \in Rows /\ Ground(e) /\ Crew
      /\ work \in [Workers -> WorkRecords]
  BY <1>1 DEF Typed, TypeOK, Grounded, WorkRecords
<1>3. Accepted(e) /\ e \notin snapshot
  BY <1>1, <1>2 DEF Ground, Handled
<1>4. Accepted(e)'
  <2>1. CASE HandleFailure(w) \/ CommitOutage(w)
    BY <1>1, <2>1, SetBackRow, UpdateRow DEF HandleFailure, CommitOutage, Stage, Stages, Accepted
  <2>2. CASE Associate(e) \/ Link(w) \/ CommitRules(w) \/ HandOff(w) \/ Finish(w) \/ CommitReview(w)
    BY <1>1, <1>2, <1>3, <2>2
       DEF Associate, Link, CommitRules, HandOff, Finish, CommitReview, Accepted, Rows
  <2>3. CASE UNCHANGED row
    BY <1>3, <2>3 DEF Accepted
  <2>. QED BY <2>1, <2>2, <2>3
       DEF Proceed, ReadForRules, EvaluateRules, ReadForReview, Review, Delete, Fails, Raise
<1>5. ASSUME envelope[e].kind = "response", RuleBound(e)
      PROVE  RuleBound(e)'
  <2>1. w \in RuleWorkers /\ w \notin Reviewers /\ work[w].at \notin AfterLink \cup Reviewing
    BY <1>2, <1>5 DEF RuleBound, Crew, Workers
  <2>2. \/ HandleFailure(w) /\ UNCHANGED body
        \/ Associate(e) /\ Goto(w, "link") /\ UNCHANGED <<queue, body>>
        \/ Link(w) \/ Delete(w)
        \/ Goto(w, "dead") /\ UNCHANGED <<row, queue, body>>
    BY <2>1 DEF Proceed, ReadForRules, EvaluateRules, CommitRules, HandOff, Finish, ReadForReview,
       Review, CommitOutage, CommitReview, Fails, Raise, At, AfterLink, Reviewing
  <2>3. /\ row'[e].rule = "completed" => row'[e].llm \notin {"pending", "processing"}
        /\ row'[e].llm = "failed" => e \notin body'
        /\ ~Queued("llm", e)'
    <3>1. CASE HandleFailure(w) /\ UNCHANGED body
      <4>1. /\ SetBack("rule", e)
            /\ UNCHANGED queue \/ Enqueue("rule", e)
        BY <2>1, <3>1 DEF HandleFailure, Stage
      <4>2. Queued("llm", e)' => Queued("llm", e)
        BY <1>1, <4>1, EnqueueQueued DEF Stages, Queued
      <4>. QED BY <1>1, <1>5, <3>1, <4>1, <4>2, SetBackRow DEF RuleBound, Stages
    <3>2. CASE Associate(e) /\ UNCHANGED <<queue, body>>
      BY <1>1, <1>2, <1>5, <3>2 DEF Associate, RuleBound, Queued, Rows
    <3>3. CASE Link(w)
      BY <1>1, <1>2, <1>5, <3>3 DEF Link, RuleBound, Queued, Rows
    <3>4. CASE Delete(w) \/ UNCHANGED <<row, queue, body>>
      BY <1>5, <3>4 DEF Delete, RuleBound, Queued
    <3>. QED BY <2>2, <3>1, <3>2, <3>3, <3>4
  <2>4. work'[w].at \notin AfterLink
    <3>1. Free(w) \/ \E l \in {"link", "delete", "dead"} : Goto(w, l)
      BY <1>5, <2>2 DEF HandleFailure, Link, Delete
    <3>. QED BY <1>2, <3>1 DEF Free, Goto, IdleWorker, AfterLink, WorkRecords
  <2>. QED BY <1>1, <1>5, <2>1, <2>3, <2>4, WorkerAssumption
       DEF RuleBound, Moves, Event, Workers, IdleWorker
<1>. QED BY <1>1, <1>2, <1>3, <1>4, <1>5 DEF Ground, environment

LEMMA RetryGround ==
  ASSUME Typed, Typed', Grounded, NEW a \in Admins, NEW e \in Events,
         RetryCheck(a, e) \/ ((Retry(a) \/ RetryFails(a)) /\ admin[a].event = e)
  PROVE  Ground(e)'
<1>1. /\ row \in [Events -> Rows] /\ row[e] \in Rows /\ admin \in [Admins -> AdminRecords]
      /\ UNCHANGED <<work, body, environment>> /\ mode = "up" /\ Ground(e)
  BY DEF Typed, TypeOK, AdminRecords, Retry, RetryFails, RetryFirst, RetrySecond, RetryEnqueue,
         RetryCheck, LoopFree, Grounded
<1>2. Accepted(e) /\ e \notin snapshot
  BY <1>1 DEF Ground, Handled, Accepted, Retry, RetryFails, RetryFirst, RetrySecond, RetryEnqueue,
              RetryCheck, environment
<1>3. Accepted(e)'
  BY <1>1, <1>2 DEF Accepted, Retry, RetryFails, RetryFirst, RetrySecond, RetryEnqueue, RetryCheck,
                    AdminRecords, Stages, Rows
<1>4. ASSUME RuleBound(e)
      PROVE  RuleBound(e)'
  <2>1. ASSUME row'[e].rule \in {row[e].rule, "pending"}, row'[e].llm = row[e].llm,
               ~Queued("llm", e)',
               \A b \in Admins : admin'[b] = admin[b] \/ admin'[b].at = "idle"
                                   \/ admin'[b].stage = "rule"
        PROVE  RuleBound(e)'
    BY <1>1, <1>4, <2>1 DEF RuleBound, Event
  <2>2. CASE RetryCheck(a, e)
    <3>1. RetryStage(e) = "rule"
      BY <1>4, <2>2 DEF RetryCheck, RetryStage, RuleBound
    <3>. QED BY <1>1, <1>4, <2>1, <2>2, <3>1 DEF RetryCheck, RuleBound, Queued, AdminRecords
  <2>3. CASE (RetryFirst(a) \/ RetrySecond(a)) /\ admin[a].event = e
    <3>1. admin[a].stage = "rule" /\ admin'[a].stage = "rule" /\ UNCHANGED queue
          /\ \A b \in Admins : b # a => admin'[b] = admin[b]
      BY <1>1, <1>4, <2>3 DEF RetryFirst, RetrySecond, RuleBound, AdminRecords
    <3>2. row' = [row EXCEPT ![e].proc = "pending"] \/ row' = [row EXCEPT ![e].rule = "pending"]
      BY <2>3, <3>1 DEF RetryFirst, RetrySecond
    <3>3. row'[e].rule \in {row[e].rule, "pending"} /\ row'[e].llm = row[e].llm
      BY <1>1, <3>2 DEF Rows
    <3>. QED BY <1>4, <2>1, <3>1, <3>3 DEF RuleBound, Queued
  <2>4. CASE RetryFails(a) \/ (RetryEnqueue(a) /\ admin[a].event = e)
    <3>1. /\ UNCHANGED row
          /\ UNCHANGED queue \/ Enqueue("rule", e)
          /\ \A b \in Admins : admin'[b] = admin[b] \/ admin'[b].at = "idle"
      BY <1>1, <1>4, <2>4 DEF RetryFails, RetryEnqueue, RuleBound, IdleAdmin, AdminRecords
    <3>2. ~Queued("llm", e)'
      BY <1>4, <3>1, EnqueueQueued DEF RuleBound, Stages, Queued
    <3>. QED BY <2>1, <3>1, <3>2
  <2>. QED BY <2>2, <2>3, <2>4 DEF Retry
<1>. QED BY <1>1, <1>2, <1>3, <1>4 DEF Ground, environment

LEMMA RestartGround ==
  ASSUME Typed, Typed', Grounded, Restart, NEW d \in Events
  PROVE  Ground(d)'
<1>1. /\ UNCHANGED <<envelope, body, queue, work, admin>> /\ mode' = "recovering"
      /\ mode = "down" /\ snapshot' = {e \in Events : Unfinished(e)}
      /\ row' = [e \in Events |-> IF row[e].proc = "persisting" THEN Absent ELSE row[e]]
  BY DEF Restart
<1>2. Ground(d)
  BY DEF Grounded
<1>3. CASE row[d].proc = "persisting"
  <2>1. row'[d] = Absent
    BY <1>1, <1>3
  <2>. QED BY <1>1, <1>2, <1>3, <2>1
       DEF Ground, RuleBound, Handled, Accepted, Absent, Unfinished, Queued, Event
<1>4. CASE row[d].proc # "persisting"
  <2>1. row'[d] = row[d]
    BY <1>1, <1>4
  <2>. QED BY <1>1, <1>2, <1>4, <2>1
       DEF Ground, RuleBound, Handled, Accepted, Unfinished, Queued, Event
<1>. QED BY <1>3, <1>4

LEMMA StepGrounded == Typed /\ Typed' /\ Grounded /\ [Next]_vars => Grounded'
<1>. SUFFICES ASSUME Typed, Typed', Grounded, [Next]_vars PROVE \A d \in Events : Ground(d)'
  BY CrewStep DEF Grounded
<1>1. ASSUME NEW e \in Events, Concerns(e), Ground(e)'
      PROVE  \A d \in Events : Ground(d)'
  BY <1>1, GroundFrame DEF Concerns, Grounded
<1>2. CASE UNCHANGED vars
  <2>1. \A d \in Events : Untouched(d)
    BY <1>2, SameRow DEF vars, environment, Untouched, Queued
  <2>. QED BY <2>1, GroundFrame DEF Grounded
<1>3. ASSUME NEW w \in Workers, Take(w) \/ LookupFails(w)
      PROVE  \A d \in Events : Ground(d)'
  <2>1. Take(w) \/ Event(w) = Nobody
    BY <1>3, LookupParts DEF Grounded, Crew
  <2>2. PICK e \in Events : e = Head(queue[Stage(w)]) /\ Concerns(e)
    BY <1>3, <2>1, TakeConcerns, LookupConcerns
  <2>. QED BY <1>1, <1>3, <2>2, EntryGround
<1>4. ASSUME NEW w \in Workers, Proceed(w) \/ Fails(w)
      PROVE  \A d \in Events : Ground(d)'
  <2>1. Event(w) \in Events
    BY <1>4, WorkMoves
  <2>. QED BY <1>1, <1>4, <2>1, WorkConcerns, WorkGround
<1>5. ASSUME NEW a \in Admins, Retry(a) \/ RetryFails(a)
      PROVE  \A d \in Events : Ground(d)'
  <2>1. PICK e \in Events : e = admin[a].event
    BY <1>5 DEF Retry, RetryFails, RetryFirst, RetrySecond, RetryEnqueue, Typed, Busy
  <2>. QED BY <1>1, <1>5, <2>1, RetryConcerns, RetryGround
<1>6. ASSUME NEW a \in Admins, NEW e \in Events, RetryCheck(a, e)
      PROVE  \A d \in Events : Ground(d)'
  BY <1>1, <1>6, RetryConcerns, RetryGround
<1>7. CASE Crash \/ Ready
  BY <1>7, ProcessTouches, GroundFrame DEF Grounded
<1>8. ASSUME NEW e \in Events, Reserve(e) \/ Publish(e) \/ Abandon(e) \/ RecoverEvent(e) \/ Reap(e)
      PROVE  \A d \in Events : Ground(d)'
  BY <1>1, <1>8, EventConcerns, EventGround
<1>9. ASSUME NEW s \in Stages, NEW e \in Events, Dispatch(s, e)
      PROVE  \A d \in Events : Ground(d)'
  BY <1>1, <1>9, DispatchConcerns, DispatchGround
<1>. QED BY <1>2, <1>3, <1>4, <1>5, <1>6, <1>7, <1>8, <1>9, RestartGround DEF Next

LEMMA AlwaysGrounded == Spec => []Grounded
BY AlwaysTyped, InitGrounded, StepGrounded, PTL DEF Spec

-----------------------------------------------------------------------------
(* Bodies, reviews, workers and rule results.                              *)
(*                                                                         *)
(* StageHeld says of an event what the worker or the retry at work on it   *)
(* relies on while others may step in.  It holds until the look-up of an   *)
(* old entry of the event fails.                                           *)

\* The rules of e are done: committed, and no rule worker has e.
RulesDone(e) ==
  /\ row[e].rule = "completed"
  /\ \A w \in RuleWorkers : Event(w) # e

\* What the columns of a row, its body and the reviewers' queue say of each other.
Sound(e) ==
  /\ Accepted(e) /\ row[e].proc # "completed" => e \in body
  /\ row[e].proc = "completed" =>
       /\ row[e].rule = "completed"
       /\ row[e].llm \notin {"pending", "processing"}
       /\ row[e].verdict.review => row[e].llm = "completed"
  /\ row[e].proc = "failed" => row[e].rule \in {"failed", "completed"}
  /\ envelope[e].kind = "response" => row[e].verdict = NoVerdict
  /\ Queued("llm", e) => RulesDone(e)

\* The places where the worker of e has completed it.
Completing(w, e) ==
  \/ work[w].at \in {"delete", "dead"}
  \/ (work[w].at = "link" /\ envelope[e].kind = "response")

\* What the worker w, at work on e, relies on.
Carries(w, e) ==
  /\ e \in body
  /\ row[e].proc = "processing" \/ (row[e].proc = "completed" /\ Completing(w, e))
  /\ Completing(w, e) /\ work[w].at # "dead" => row[e].proc = "completed"
  /\ work[w].at = "handoff" => row[e].rule = "completed" /\ work[w].verdict = row[e].verdict
  /\ work[w].at = "review_not_needed" => ~work[w].verdict.review
  /\ w \in RuleWorkers => row[e].rule \in {"processing", "completed"}
  /\ w \in Reviewers => /\ RulesDone(e)
                        /\ row[e].llm \in {"processing", "completed", "not_needed"}
                        /\ work[w].verdict = row[e].verdict

\* What a retry of e relies on, between its check and its commits.
Retries(a, e) ==
  /\ admin[a].at = "first"  => row[e].proc = "failed"
  /\ admin[a].at = "second" => row[e].proc = "pending"
  /\ admin[a].at # "enqueue" => row[e][admin[a].stage] = "failed"
  /\ admin[a].stage = "llm" => RulesDone(e)

StageHeld(e) ==
  /\ Sound(e)
  /\ \A w \in Workers : Event(w) = e => Carries(w, e)
  /\ \A v, w \in Workers : Event(v) = e /\ Event(w) = e => v = w
  /\ \A a \in Admins : admin[a].at # "idle" /\ admin[a].event = e => Retries(a, e)

StagesHeld == \A e \in Events \ misread : StageHeld(e)

\* What CompletedForGood and RulesOnce say of a step.
Kept(e) ==
  /\ row[e].proc = "completed" /\ ~(\E w \in Workers : Event(w) = e) => Same(e)
  /\ row[e].rule = "completed" /\ ~(\E w \in RuleWorkers : Event(w) = e) =>
       row'[e].rule = "completed" /\ row'[e].verdict = row[e].verdict

LEMMA InitStages == Init => StagesHeld
<1>. SUFFICES ASSUME Init, NEW d \in Events PROVE StageHeld(d)
  BY DEF StagesHeld
<1>1. ~Queued("llm", d)
  BY DEF Init, Queued, ToSet, Stages
<1>2. Sound(d)
  BY <1>1 DEF Init, Sound, Accepted, Absent
<1>. QED BY <1>2, WorkerAssumption DEF Init, StageHeld, IdleAdmin, IdleWorker, Event

LEMMA Frame ==
  ASSUME Typed, Typed', NEW d \in Events, StageHeld(d), Untouched(d)
  PROVE  StageHeld(d)' /\ Kept(d)
<1>1. /\ row'[d].proc = row[d].proc /\ row'[d].rule = row[d].rule
      /\ row'[d].llm = row[d].llm /\ row'[d].verdict = row[d].verdict
  BY SameFields DEF Untouched
<1>2. \A w \in Workers : Event(w)' = d => work'[w] = work[w] /\ Event(w) = d
  BY DEF Untouched, Event
<1>3. RulesDone(d) => RulesDone(d)'
  BY <1>1, <1>2 DEF RulesDone, Workers
<1>4. Sound(d)'
  BY <1>1, <1>3 DEF StageHeld, Sound, Untouched, Accepted, Stages
<1>5. ASSUME NEW w \in Workers, Event(w)' = d
      PROVE  Carries(w, d)'
  <2>1. Carries(w, d) /\ work'[w] = work[w]
    BY <1>2, <1>5 DEF StageHeld
  <2>. QED BY <1>1, <1>3, <2>1 DEF Carries, Completing, Untouched
<1>6. ASSUME NEW a \in Admins, (admin[a].at # "idle" /\ admin[a].event = d)'
      PROVE  Retries(a, d)'
  <2>1. Retries(a, d) /\ admin'[a] = admin[a] /\ admin[a].stage \in {"rule", "llm"}
    BY <1>6 DEF StageHeld, Untouched, Typed, TypeOK, Stages
  <2>. QED BY <1>1, <1>3, <2>1 DEF Retries
<1>7. Kept(d)
  BY <1>1 DEF Kept, Untouched
<1>. QED BY <1>2, <1>4, <1>5, <1>6, <1>7 DEF StageHeld

LEMMA Working ==
  ASSUME Typed, Grounded, NEW e \in Events, StageHeld(e), NEW w \in Workers, Event(w) = e
  PROVE  /\ row \in [Events -> Rows] /\ row[e] \in Rows /\ work \in [Workers -> WorkRecords]
         /\ Sound(e) /\ Carries(w, e) /\ Accepted(e) /\ Crew
         /\ \A v \in Workers : v # w => Event(v) # e
         /\ work[w].at \in AfterLink => envelope[e].kind # "response"
         /\ envelope[e].kind \in {"request", "full_call", "response"}
<1>1. row \in [Events -> Rows] /\ envelope \in Envelopes /\ work \in [Workers -> WorkRecords]
  BY DEF Typed, TypeOK, WorkRecords
<1>2. Sound(e) /\ Carries(w, e) /\ \A v \in Workers : v # w => Event(v) # e
  BY DEF StageHeld
<1>3. Ground(e) /\ Crew
  BY DEF Grounded
<1>4. Accepted(e) /\ (work[w].at \in AfterLink => envelope[e].kind # "response")
  BY <1>3 DEF Ground, Handled, RuleBound
<1>5. envelope[e].kind \in {"request", "full_call", "response"}
  BY <1>1, WorkerAssumption
<1>. QED BY <1>1, <1>2, <1>3, <1>4, <1>5

\* A step of the worker at work on e.
LEMMA OwnStep ==
  ASSUME Typed, Typed', Grounded, NEW e \in Events, StageHeld(e),
         NEW w \in Workers, Event(w) = e, UNCHANGED <<admin, environment>>, Moves(w),
         work'[w] = IdleWorker \/ Carries(w, e)',
         w \in Reviewers => row'[e].rule = row[e].rule /\ row'[e].verdict = row[e].verdict,
         Sound(e)'
  PROVE  StageHeld(e)' /\ Kept(e)
<1>1. Carries(w, e) /\ \A v \in Workers : v # w => Event(v) # e
  BY Working
<1>2. \A v \in Workers : Event(v)' = e => v = w
  BY <1>1 DEF Moves, Event
<1>3. \A v \in Workers : Event(v)' = e => Carries(v, e)'
  BY <1>2, WorkerAssumption DEF Event, IdleWorker
<1>4. ASSUME NEW a \in Admins, admin[a].at # "idle", admin[a].event = e
      PROVE  Retries(a, e)'
  <2>1. Retries(a, e)
    BY <1>4 DEF StageHeld
  <2>2. row[e].proc \in {"processing", "completed"}
    BY <1>1 DEF Carries
  <2>3. admin[a].at = "enqueue"
    BY <1>4, <2>1, <2>2 DEF Retries, Typed, TypeOK
  <2>4. ASSUME admin[a].stage = "llm"
        PROVE  RulesDone(e)'
    <3>1. RulesDone(e)
      BY <2>1, <2>4 DEF Retries
    <3>2. w \in Reviewers /\ w \notin RuleWorkers
      BY <3>1 DEF RulesDone, Workers
    <3>3. \A v \in RuleWorkers : Event(v)' # e
      BY <1>2, <3>2 DEF Workers
    <3>. QED BY <3>1, <3>2, <3>3 DEF RulesDone
  <2>. QED BY <2>3, <2>4 DEF Retries
<1>5. Kept(e)
  <2>1. row[e].rule = "completed" /\ ~(\E v \in RuleWorkers : Event(v) = e) => w \in Reviewers
    BY DEF Workers
  <2>. QED BY <2>1 DEF Kept
<1>. QED BY <1>2, <1>3, <1>4, <1>5 DEF StageHeld

-----------------------------------------------------------------------------
(* The steps of the rule stage. *)

\* The event of a rule worker is not with the reviewers.
LEMMA NotReviewed ==
  ASSUME Typed, Grounded, NEW e \in Events, StageHeld(e), NEW w \in RuleWorkers, Event(w) = e
  PROVE  ~RulesDone(e) /\ ~Queued("llm", e) /\ w \notin Reviewers
BY Working, WorkerAssumption DEF RulesDone, Sound, Workers

\* A failed stage is pending again, or failed: in either case no longer completed.
LEMMA FailureStages ==
  ASSUME Typed, Typed', Grounded, NEW e \in Events, StageHeld(e), NEW w \in Workers,
         Event(w) = e, HandleFailure(w), UNCHANGED <<admin, environment, body>>
  PROVE  StageHeld(e)' /\ Kept(e)
<1>. DEFINE s == Stage(w)
<1>1. Sound(e) /\ Carries(w, e) /\ Accepted(e) /\ \A v \in Workers : v # w => Event(v) # e
  BY Working
<1>2. s \in Stages /\ SetBack(s, e) /\ Free(w)
  BY DEF Stage, Stages, HandleFailure
<1>3. /\ row'[e].proc \in {"pending", "failed"} /\ row'[e][s] = row'[e].proc
      /\ s = "llm" => row'[e].rule = row[e].rule
      /\ row'[e].verdict = row[e].verdict
  BY <1>2, SetBackRow
<1>4. \A t \in Stages : Queued(t, e)' => Queued(t, e) \/ t = s
  <2>1. CASE Enqueue(s, e)
    BY <1>2, <2>1, EnqueueQueued
  <2>2. CASE UNCHANGED queue
    BY <2>2 DEF Queued
  <2>. QED BY <2>1, <2>2 DEF HandleFailure
<1>5. work'[w] = IdleWorker /\ \A v \in Workers : v # w => work'[v] = work[v]
  BY <1>2, FreeMoves
<1>6. w \in Reviewers => s = "llm" /\ row'[e].rule = row[e].rule /\ RulesDone(e)
  BY <1>1, <1>3, WorkerAssumption DEF Carries, Stage
<1>7. w \notin Reviewers => s = "rule" /\ ~Queued("llm", e)
  BY NotReviewed DEF Stage, Workers
<1>8. w \in Reviewers => RulesDone(e)'
  BY <1>1, <1>5, <1>6, WorkerAssumption DEF RulesDone, IdleWorker, Event, Workers
<1>9. Queued("llm", e)' => RulesDone(e)'
  BY <1>4, <1>7, <1>8 DEF Stages
<1>10. row'[e].proc = "failed" => row'[e].rule \in {"failed", "completed"}
  BY <1>3, <1>6, <1>7 DEF RulesDone
<1>11. Sound(e)'
  BY <1>1, <1>3, <1>9, <1>10 DEF Sound, Carries, environment
<1>12. Moves(w)
  BY <1>5 DEF Moves
<1>. QED BY <1>3, <1>5, <1>6, <1>11, <1>12, OwnStep

LEMMA RuleStageStages ==
  ASSUME Typed, Typed', Grounded, NEW e \in Events, StageHeld(e), NEW w \in Workers, Event(w) = e,
         ReadForRules(w) \/ Link(w) \/ EvaluateRules(w) \/ CommitRules(w) \/ HandOff(w) \/ Finish(w)
  PROVE  StageHeld(e)' /\ Kept(e)
<1>1. /\ mode = "up" /\ UNCHANGED <<admin, environment>> /\ Moves(w)
  BY WorkMoves DEF Proceed
<1>2. /\ Sound(e) /\ Carries(w, e) /\ Accepted(e) /\ row[e] \in Rows
      /\ row \in [Events -> Rows] /\ work \in [Workers -> WorkRecords] /\ Crew
      /\ \A v \in Workers : v # w => Event(v) # e
      /\ work[w].at \in AfterLink => envelope[e].kind # "response"
      /\ envelope[e].kind \in {"request", "full_call", "response"}
  BY Working
<1>3. w \in RuleWorkers
  BY <1>2 DEF ReadForRules, Link, EvaluateRules, CommitRules, HandOff, Finish, At, RulePlaces, Crew,
              AfterLink
<1>4. w \notin Reviewers /\ ~Queued("llm", e)
  BY <1>3, NotReviewed
<1>5. ASSUME Sound(e)', work'[w] = IdleWorker \/ Carries(w, e)'
      PROVE  StageHeld(e)' /\ Kept(e)
  BY <1>1, <1>4, <1>5, OwnStep
<1>6. CASE ReadForRules(w)
  <2>1. Associate(e) /\ Goto(w, "link") /\ UNCHANGED <<queue, body>> /\ work[w].at = "read"
    BY <1>2, <1>6 DEF ReadForRules, Carries, At
  <2>2. work'[w].at = "link" /\ work'[w].verdict = work[w].verdict
    BY <2>1, GotoMoves DEF Places
  <2>3. row[e].proc = "processing"
    BY <1>2, <2>1 DEF Carries, Completing
  <2>4. /\ row'[e].proc = IF envelope[e].kind = "response" THEN "completed" ELSE "processing"
        /\ row'[e].verdict = row[e].verdict
        /\ IF envelope[e].kind = "response"
             THEN row'[e].rule = "completed" /\ row'[e].llm = "skipped"
             ELSE row'[e].rule = row[e].rule
    BY <1>2, <2>1, <2>3 DEF Associate, Rows
  <2>5. Sound(e)'
    BY <1>1, <1>2, <1>4, <2>1, <2>4 DEF Sound, Carries, environment, Queued, NoVerdict
  <2>6. Carries(w, e)'
    BY <1>1, <1>2, <1>4, <2>1, <2>2, <2>4 DEF Carries, Completing, environment
  <2>. QED BY <1>5, <2>5, <2>6
<1>7. CASE Link(w)
  <2>1. PICK l \in {"delete", "evaluate"} :
           Goto(w, l) /\ (l = "delete" <=> envelope[e].kind = "response")
    BY <1>7 DEF Link
  <2>2. /\ work[w].at = "link" /\ UNCHANGED <<body, queue>>
        /\ work'[w].at = l /\ work'[w].verdict = work[w].verdict
    BY <1>7, <2>1, GotoMoves DEF Places, Link, At
  <2>3. /\ row'[e].proc = row[e].proc /\ row'[e].rule = row[e].rule
        /\ row'[e].llm = row[e].llm /\ row'[e].verdict = row[e].verdict
    BY <1>2, <1>7 DEF Link, Rows
  <2>4. Sound(e)'
    BY <1>1, <1>2, <1>4, <2>2, <2>3 DEF Sound, Accepted, environment, Queued
  <2>5. Carries(w, e)'
    BY <1>1, <1>2, <1>4, <2>1, <2>2, <2>3 DEF Carries, Completing, environment
  <2>. QED BY <1>5, <2>4, <2>5
<1>8. CASE EvaluateRules(w)
  <2>0. PICK r \in RuleOutcomes[Event(w)] :
           work' = [work EXCEPT ![w].at = "rule_commit", ![w].verdict = r]
    BY <1>8 DEF EvaluateRules
  <2>1. work'[w].at = "rule_commit" /\ work[w].at = "evaluate" /\ UNCHANGED <<row, body, queue>>
    <3>1. work'[w].at = "rule_commit"
      BY <1>2, <2>0 DEF WorkRecords
    <3>. QED BY <1>8, <3>1 DEF EvaluateRules, At
  <2>2. Sound(e)'
    BY <1>1, <1>2, <1>4, <2>1 DEF Sound, Accepted, environment, Queued
  <2>3. Carries(w, e)'
    BY <1>1, <1>2, <1>4, <2>1 DEF Carries, Completing, environment
  <2>. QED BY <1>5, <2>2, <2>3
<1>9. CASE CommitRules(w)
  <2>1. /\ Goto(w, "handoff") /\ work[w].at = "rule_commit" /\ UNCHANGED <<body, queue>>
        /\ work'[w].at = "handoff" /\ work'[w].verdict = work[w].verdict
    BY <1>9, GotoMoves DEF CommitRules, At, Places
  <2>2. /\ row'[e].proc = row[e].proc /\ row'[e].rule = "completed" /\ row'[e].llm = row[e].llm
        /\ row'[e].verdict = work[w].verdict
    BY <1>2, <1>9 DEF CommitRules, Rows
  <2>3. row[e].proc = "processing" /\ envelope[e].kind # "response"
    BY <1>2, <2>1 DEF Carries, Completing, AfterLink
  <2>4. Sound(e)'
    BY <1>1, <1>2, <1>4, <2>1, <2>2, <2>3 DEF Sound, Carries, environment, Queued
  <2>5. Carries(w, e)'
    BY <1>1, <1>2, <1>4, <2>1, <2>2, <2>3 DEF Carries, Completing, environment
  <2>. QED BY <1>5, <2>4, <2>5
<1>10. CASE HandOff(w)
  <2>1. Free(w) /\ work[w].at = "handoff" /\ UNCHANGED body
    BY <1>10 DEF HandOff, At
  <2>2. work'[w] = IdleWorker /\ \A v \in Workers : v # w => work'[v] = work[v]
    BY <2>1, FreeMoves
  <2>3. /\ row'[e].proc = "pending" /\ row'[e].rule = row[e].rule
        /\ row'[e].verdict = row[e].verdict
    BY <1>2, <1>10 DEF HandOff, Rows
  <2>4. row[e].rule = "completed" /\ e \in body
    BY <1>2, <2>1 DEF Carries
  <2>5. RulesDone(e)'
    BY <1>2, <2>2, <2>3, <2>4, WorkerAssumption DEF RulesDone, Event, IdleWorker, Workers
  <2>6. Sound(e)'
    BY <1>1, <1>2, <2>1, <2>3, <2>4, <2>5 DEF Sound, environment
  <2>. QED BY <1>5, <2>2, <2>6
<1>11. CASE Finish(w)
  <2>1. /\ Goto(w, "delete") /\ work[w].at = "handoff" /\ UNCHANGED <<body, queue>>
        /\ work'[w].at = "delete" /\ ~ToReviewer(e, work[w].verdict)
    BY <1>11, GotoMoves DEF Finish, At, Places
  <2>2. /\ row'[e].proc = "completed" /\ row'[e].rule = row[e].rule
        /\ row'[e].llm \in {"failed", "not_needed"} /\ row'[e].verdict = row[e].verdict
    BY <1>2, <1>11 DEF Finish, Rows
  <2>3. row[e].rule = "completed" /\ work[w].verdict = row[e].verdict /\ ~row[e].verdict.review
    BY <1>2, <2>1 DEF Carries, ToReviewer
  <2>4. Sound(e)'
    BY <1>1, <1>2, <1>4, <2>1, <2>2, <2>3 DEF Sound, environment, Queued
  <2>5. Carries(w, e)'
    BY <1>1, <1>2, <1>4, <2>1, <2>2 DEF Carries, Completing, environment
  <2>. QED BY <1>5, <2>4, <2>5
<1>. QED BY <1>6, <1>7, <1>8, <1>9, <1>10, <1>11

-----------------------------------------------------------------------------
(* The steps of the reviewer stage, deletions and failures. *)

LEMMA ReviewStageStages ==
  ASSUME Typed, Typed', Grounded, NEW e \in Events, StageHeld(e), NEW w \in Workers, Event(w) = e,
         ReadForReview(w) \/ Review(w) \/ CommitOutage(w) \/ CommitReview(w)
  PROVE  StageHeld(e)' /\ Kept(e)
<1>1. /\ mode = "up" /\ UNCHANGED <<admin, environment, body>> /\ Moves(w)
  <2>1. mode = "up" /\ UNCHANGED <<admin, environment>> /\ Moves(w)
    BY WorkMoves DEF Proceed
  <2>. QED BY <2>1 DEF ReadForReview, Review, CommitOutage, CommitReview
<1>2. /\ Sound(e) /\ Carries(w, e) /\ Accepted(e) /\ row[e] \in Rows
      /\ row \in [Events -> Rows] /\ work \in [Workers -> WorkRecords] /\ Crew
      /\ \A v \in Workers : v # w => Event(v) # e
  BY Working
<1>3. w \in Reviewers /\ w \notin RuleWorkers /\ RulesDone(e) /\ work[w].verdict = row[e].verdict
  <2>1. w \in Reviewers
    BY <1>2 DEF ReadForReview, Review, CommitOutage, CommitReview, At, Crew, Reviewing
  <2>. QED BY <1>2, <2>1, WorkerAssumption DEF Carries
<1>4. \A v \in RuleWorkers : Event(v)' # e
  BY <1>1, <1>2, <1>3 DEF Moves, Event, Workers
<1>5. ASSUME UNCHANGED <<row, queue>>, NEW l \in Reviewing, Goto(w, l),
             work[w].at \in {"read", "review"},
             l = "review_not_needed" => ~work[w].verdict.review
      PROVE  StageHeld(e)' /\ Kept(e)
  <2>1. l \in Places
    BY DEF Places, Reviewing
  <2>2. work'[w].at = l /\ work'[w].verdict = work[w].verdict
    BY <1>5, <2>1, GotoMoves
  <2>3. RulesDone(e)'
    BY <1>3, <1>4, <1>5 DEF RulesDone
  <2>4. Sound(e)'
    BY <1>1, <1>2, <1>5, <2>3 DEF Sound, Accepted, environment, Queued
  <2>5. Carries(w, e)'
    BY <1>1, <1>2, <1>3, <1>5, <2>2, <2>3 DEF Carries, Completing, environment, Reviewing
  <2>. QED BY <1>1, <1>5, <2>4, <2>5, OwnStep
<1>6. CASE ReadForReview(w)
  <2>1. /\ Goto(w, "review") /\ UNCHANGED <<row, queue>> /\ work[w].at = "read"
        /\ "review" \in Reviewing
    BY <1>2, <1>6 DEF ReadForReview, Carries, At, Reviewing
  <2>. QED BY <1>5, <2>1
<1>7. CASE Review(w)
  <2>1. PICK l \in {"review_failed", "review_not_needed", "review_completed"} :
           Goto(w, l) /\ (l = "review_not_needed" => ~work[w].verdict.review)
    BY <1>7 DEF Review
  <2>2. l \in Reviewing
    BY DEF Reviewing
  <2>. QED BY <1>5, <1>7, <2>1, <2>2 DEF Review, At
<1>8. CASE CommitOutage(w)
  <2>1. Update(e, "llm", "failed") /\ Free(w) /\ UNCHANGED queue
    BY <1>8 DEF CommitOutage
  <2>2. /\ row'[e].proc = "failed" /\ row'[e].rule = row[e].rule
        /\ row'[e].verdict = row[e].verdict
    BY <2>1, UpdateRow DEF Stages
  <2>3. RulesDone(e)' /\ work'[w] = IdleWorker
    BY <1>3, <1>4, <2>1, <2>2, FreeMoves DEF RulesDone
  <2>4. Sound(e)'
    BY <1>1, <1>2, <2>2, <2>3 DEF Sound, Carries, RulesDone, environment
  <2>. QED BY <1>1, <2>2, <2>3, <2>4, OwnStep
<1>9. CASE CommitReview(w)
  <2>1. /\ Goto(w, "delete") /\ UNCHANGED queue /\ "delete" \in Places
        /\ work[w].at \in {"review_completed", "review_not_needed"}
    BY <1>9 DEF CommitReview, Places
  <2>2. /\ row'[e].proc = "completed" /\ row'[e].rule = row[e].rule
        /\ row'[e].verdict = row[e].verdict
        /\ row'[e].llm = IF work[w].at = "review_completed" THEN "completed" ELSE "not_needed"
    BY <1>1, <1>2, <1>9 DEF CommitReview, At, Rows
  <2>3. work'[w].at = "delete" /\ work'[w].verdict = work[w].verdict
    BY <2>1, GotoMoves
  <2>4. RulesDone(e)'
    BY <1>3, <1>4, <2>2 DEF RulesDone
  <2>5. row[e].verdict.review => work[w].at = "review_completed"
    BY <1>2, <1>3, <2>1 DEF Carries
  <2>6. Sound(e)'
    BY <1>1, <1>2, <1>3, <2>2, <2>4, <2>5 DEF Sound, RulesDone, environment
  <2>7. Carries(w, e)'
    BY <1>1, <1>2, <1>3, <2>2, <2>3, <2>4 DEF Carries, Completing, environment
  <2>. QED BY <1>1, <2>2, <2>6, <2>7, OwnStep
<1>. QED BY <1>6, <1>7, <1>8, <1>9

LEMMA DeleteStages ==
  ASSUME Typed, Typed', Grounded, NEW e \in Events, StageHeld(e), NEW w \in Workers, Event(w) = e,
         Delete(w)
  PROVE  StageHeld(e)' /\ Kept(e)
<1>1. /\ work[w].at = "delete" /\ UNCHANGED <<row, queue, admin, environment>>
      /\ body' = body \ {e} /\ Free(w)
  BY DEF Delete, At
<1>2. Sound(e) /\ row[e].proc = "completed"
  <2>1. Sound(e) /\ Carries(w, e)
    BY Working
  <2>. QED BY <1>1, <2>1 DEF Carries, Completing
<1>3. work'[w] = IdleWorker /\ \A v \in Workers : v # w => work'[v] = work[v]
  BY <1>1, FreeMoves
<1>4. RulesDone(e) => RulesDone(e)'
  BY <1>1, <1>3, WorkerAssumption DEF RulesDone, Event, IdleWorker, Workers
<1>5. Sound(e)'
  BY <1>1, <1>2, <1>4 DEF Sound, Accepted, environment, Queued
<1>. QED BY <1>1, <1>3, <1>5, OwnStep DEF Moves

LEMMA FailsStages ==
  ASSUME Typed, Typed', Grounded, NEW e \in Events, StageHeld(e), NEW w \in Workers, Event(w) = e,
         Fails(w)
  PROVE  StageHeld(e)' /\ Kept(e)
<1>1. UNCHANGED <<body, admin, environment>>
  BY DEF Fails, Raise
<1>2. CASE HandleFailure(w)
  BY <1>1, <1>2, FailureStages
<1>3. CASE Goto(w, "dead") /\ UNCHANGED <<row, queue>>
  <2>1. Sound(e) /\ Carries(w, e) /\ \A v \in Workers : v # w => Event(v) # e
    BY Working
  <2>2. /\ \A v \in Workers : v # w => work'[v] = work[v]
        /\ work'[w].at = "dead" /\ work'[w].event = e /\ work'[w].verdict = work[w].verdict
    BY <1>3, GotoMoves DEF Places
  <2>3. RulesDone(e) => RulesDone(e)'
    BY <1>3, <2>2 DEF RulesDone, Workers, Event
  <2>4. Sound(e)'
    BY <1>1, <1>3, <2>1, <2>3 DEF Sound, Accepted, environment, Queued
  <2>5. Carries(w, e)'
    BY <1>1, <1>3, <2>1, <2>2, <2>3 DEF Carries, Completing, environment
  <2>6. Moves(w)
    BY <2>2 DEF Moves, Event
  <2>. QED BY <1>1, <1>3, <2>4, <2>5, <2>6, OwnStep
<1>. QED BY <1>2, <1>3 DEF Fails, Raise

-----------------------------------------------------------------------------
(* Steps of others. *)

\* What is queued and pending at its stage is with no worker, its body is there,
\* and a retry of it has only its own entry to make.
LEMMA DueEntry ==
  ASSUME Typed, Grounded, NEW e \in Events, StageHeld(e), NEW s \in Stages, Queued(s, e), Due(s, e)
  PROVE  /\ Sound(e) /\ Accepted(e) /\ row[e].proc # "completed" /\ e \in body
         /\ \A w \in Workers : Event(w) # e
         /\ s = "llm" => RulesDone(e)
         /\ s = "rule" => row[e].rule = "pending"
         /\ \A a \in Admins : admin[a].at # "idle" /\ admin[a].event = e =>
              admin[a].at = "enqueue" /\ Retries(a, e)
<1>1. Sound(e) /\ Accepted(e)
  BY DEF StageHeld, Grounded, Ground, Handled
<1>2. s = "llm" => RulesDone(e) /\ row[e].llm = "pending"
  BY <1>1 DEF Sound, Due
<1>3. s = "rule" => row[e].rule = "pending"
  BY DEF Due
<1>4. row[e].proc # "completed" /\ e \in body
  BY <1>1, <1>2, <1>3 DEF Sound, Stages
<1>5. ASSUME NEW w \in Workers, Event(w) = e
      PROVE  FALSE
  <2>1. Carries(w, e)
    BY <1>5 DEF StageHeld
  <2>. QED BY <1>2, <1>3, <1>5, <2>1 DEF Carries, RulesDone, Stages, Workers
<1>6. ASSUME NEW a \in Admins, admin[a].at # "idle", admin[a].event = e
      PROVE  admin[a].at = "enqueue" /\ Retries(a, e)
  <2>1. Retries(a, e) /\ admin[a].stage \in Stages
    BY <1>6 DEF StageHeld, Typed, TypeOK
  <2>2. CASE admin[a].stage = "llm"
    BY <1>2, <1>3, <2>1, <2>2 DEF Retries, RulesDone, Stages
  <2>3. CASE admin[a].stage = "rule"
    BY <1>2, <1>3, <2>1, <2>3 DEF Retries, RulesDone, Stages
  <2>. QED BY <2>1, <2>2, <2>3 DEF Stages
<1>. QED BY <1>1, <1>2, <1>3, <1>4, <1>5, <1>6

LEMMA TakeStages ==
  ASSUME Typed, Typed', Grounded, NEW w \in Workers, Take(w), NEW e \in Events,
         e = Head(queue[Stage(w)]), StageHeld(e)
  PROVE  StageHeld(e)' /\ Kept(e)
<1>. DEFINE s == Stage(w)
<1>1. /\ row \in [Events -> Rows] /\ work \in [Workers -> WorkRecords]
      /\ UNCHANGED <<body, admin, environment>>
  BY DEF Typed, TypeOK, WorkRecords, Take
<1>2. /\ s \in Stages /\ Queued(s, e)
      /\ \A t \in Stages, d \in Events : Queued(t, d)' => Queued(t, d)
  BY TakeConcerns
<1>3. CASE ~Due(s, e)
  <2>1. UNCHANGED <<row, work>>
    BY <1>3 DEF Take
  <2>2. Untouched(e)
    BY <1>1, <1>2, <2>1, SameRow DEF Untouched, environment
  <2>. QED BY <2>2, Frame
<1>4. CASE Due(s, e)
  <2>1. /\ Update(e, s, "processing")
        /\ work' = [work EXCEPT ![w] = [at |-> "read", event |-> e, verdict |-> row[e].verdict]]
    BY <1>4 DEF Take
  <2>2. /\ \A v \in Workers : v # w => work'[v] = work[v]
        /\ work'[w].at = "read" /\ work'[w].event = e /\ work'[w].verdict = row[e].verdict
    BY <1>1, <2>1
  <2>3. /\ Sound(e) /\ Accepted(e) /\ row[e].proc # "completed" /\ e \in body
        /\ \A v \in Workers : Event(v) # e
        /\ s = "llm" => RulesDone(e)
        /\ s = "rule" => row[e].rule = "pending"
        /\ \A a \in Admins : admin[a].at # "idle" /\ admin[a].event = e =>
             admin[a].at = "enqueue" /\ Retries(a, e)
    BY <1>2, <1>4, DueEntry
  <2>4. /\ row'[e].proc = "processing" /\ row'[e][s] = "processing"
        /\ s = "llm" => row'[e].rule = row[e].rule
        /\ row'[e].verdict = row[e].verdict
    BY <1>2, <2>1, UpdateRow
  <2>5. s = "llm" => w \in Reviewers /\ w \notin RuleWorkers
    BY DEF Stage, Workers
  <2>6. s = "rule" => w \in RuleWorkers /\ w \notin Reviewers
    BY WorkerAssumption DEF Stage
  <2>7. RulesDone(e) => s = "llm" /\ RulesDone(e)'
    <3>1. RulesDone(e) => s = "llm"
      BY <1>2, <2>3 DEF RulesDone, Stages
    <3>2. s = "llm" => \A v \in RuleWorkers : Event(v)' # e
      BY <2>2, <2>3, <2>5 DEF Event, Workers
    <3>. QED BY <2>4, <3>1, <3>2 DEF RulesDone
  <2>8. Sound(e)'
    <3>1. Queued("llm", e)' => RulesDone(e)'
      BY <1>2, <2>3, <2>7 DEF Stages, Sound
    <3>. QED BY <1>1, <2>3, <2>4, <3>1 DEF Sound, environment
  <2>9. Carries(w, e)'
    BY <1>1, <1>2, <2>2, <2>3, <2>4, <2>5, <2>6, <2>7 DEF Carries, Completing, Stages
  <2>10. \A v \in Workers : Event(v)' = e => v = w
    BY <2>2, <2>3 DEF Event
  <2>11. \A a \in Admins : admin[a].at # "idle" /\ admin[a].event = e => Retries(a, e)'
    BY <1>1, <2>3, <2>7 DEF Retries
  <2>12. StageHeld(e)'
    BY <1>1, <2>8, <2>9, <2>10, <2>11 DEF StageHeld
  <2>13. Kept(e)
    <3>1. row[e].rule = "completed" => s = "llm"
      BY <1>2, <2>3 DEF Stages
    <3>. QED BY <2>3, <2>4, <3>1 DEF Kept
  <2>. QED BY <2>12, <2>13
<1>. QED BY <1>3, <1>4

\* A due entry whose look-up fails was with nobody; the others are left out.
LEMMA LookupStages ==
  ASSUME Typed, Typed', Grounded, NEW w \in Workers, LookupFails(w), NEW e \in Events,
         e = Head(queue[Stage(w)]), StageHeld(e)
  PROVE  e \in misread' \/ (StageHeld(e)' /\ Kept(e))
<1>. DEFINE s == Stage(w)
<1>1. /\ row \in [Events -> Rows] /\ work \in [Workers -> WorkRecords]
      /\ UNCHANGED <<envelope, body, admin, mode, snapshot>> /\ Event(w) = Nobody
  BY LookupParts DEF Typed, TypeOK, WorkRecords, Grounded, Crew
<1>2. /\ s \in Stages /\ Queued(s, e)
      /\ \A t \in Stages, d \in Events : Queued(t, d)' => Queued(t, d)
  BY <1>1, LookupConcerns
<1>3. CASE Goto(w, "dead") /\ UNCHANGED row
  <2>1. \A v \in Workers : work'[v].event = e => work'[v] = work[v]
    BY <1>1, <1>3, GotoMoves, WorkerAssumption DEF Places
  <2>2. Untouched(e)
    BY <1>1, <1>2, <1>3, <2>1, SameRow DEF Untouched
  <2>. QED BY <2>2, Frame
<1>4. CASE misread' = misread \cup {e}
  BY <1>4
<1>5. CASE Due(s, e) /\ SetBack(s, e) /\ UNCHANGED work
  <2>1. /\ Sound(e) /\ Accepted(e) /\ row[e].proc # "completed" /\ e \in body
        /\ \A v \in Workers : Event(v) # e
        /\ s = "llm" => RulesDone(e)
        /\ s = "rule" => row[e].rule = "pending"
        /\ \A a \in Admins : admin[a].at # "idle" /\ admin[a].event = e =>
             admin[a].at = "enqueue" /\ Retries(a, e)
    BY <1>2, <1>5, DueEntry
  <2>2. /\ row'[e].proc \in {"pending", "failed"} /\ row'[e][s] = row'[e].proc
        /\ s = "llm" => row'[e].rule = row[e].rule
        /\ row'[e].verdict = row[e].verdict
    BY <1>2, <1>5, SetBackRow
  <2>3. RulesDone(e) => s = "llm" /\ RulesDone(e)'
    BY <1>2, <1>5, <2>1, <2>2 DEF RulesDone, Stages, Event
  <2>4. row[e].rule = "completed" => s = "llm"
    BY <1>2, <2>1 DEF Stages
  <2>5. row'[e].proc = "failed" => row'[e].rule \in {"failed", "completed"}
    BY <1>2, <2>1, <2>2 DEF RulesDone, Stages
  <2>6. Queued("llm", e)' => RulesDone(e)'
    BY <1>2, <2>1, <2>3 DEF Stages, Sound
  <2>7. Sound(e)'
    BY <1>1, <2>1, <2>2, <2>5, <2>6 DEF Sound
  <2>8. \A a \in Admins : admin[a].at # "idle" /\ admin[a].event = e => Retries(a, e)'
    BY <1>1, <2>1, <2>3 DEF Retries
  <2>9. StageHeld(e)'
    BY <1>1, <1>5, <2>1, <2>7, <2>8 DEF StageHeld, Event
  <2>10. Kept(e)
    BY <2>1, <2>2, <2>4 DEF Kept
  <2>. QED BY <2>9, <2>10
<1>6. \/ Goto(w, "dead") /\ UNCHANGED row
      \/ SetBack(s, e) /\ UNCHANGED work /\ (Due(s, e) \/ misread' = misread \cup {e})
  BY LookupParts
<1>. QED BY <1>3, <1>4, <1>5, <1>6

LEMMA EventStages ==
  ASSUME Typed, Typed', Grounded, NEW e \in Events, StageHeld(e),
         Reserve(e) \/ Publish(e) \/ Abandon(e) \/ RecoverEvent(e) \/ Reap(e)
  PROVE  StageHeld(e)' /\ Kept(e)
<1>1. /\ row \in [Events -> Rows] /\ UNCHANGED <<work, admin, envelope, mode>>
      /\ Sound(e) /\ Ground(e) /\ Crew
  BY DEF Typed, TypeOK, Reserve, Publish, Abandon, RecoverEvent, Reap, environment,
         StageHeld, Grounded
\* Nobody works on an event that is not accepted.
<1>2. ASSUME ~Accepted(e), Sound(e)'
      PROVE  StageHeld(e)' /\ Kept(e)
  <2>1. /\ row[e].rule = "pending" /\ row[e].proc \in {"absent", "persisting"}
        /\ \A w \in Workers : Event(w) # e
        /\ \A a \in Admins : admin[a].at # "idle" => admin[a].event # e
    BY <1>1, <1>2 DEF Ground, Handled, Accepted
  <2>. QED BY <1>1, <1>2, <2>1 DEF StageHeld, Event, Kept
\* Nobody works on anything while the process recovers.
<1>3. ASSUME mode = "recovering"
      PROVE  /\ \A w \in Workers : Event(w) # e /\ Event(w)' # e
             /\ \A a \in Admins : admin[a].at = "idle"
  BY <1>1, <1>3, WorkerAssumption DEF Crew, Event
<1>4. ASSUME mode = "recovering", Sound(e)'
      PROVE  StageHeld(e)'
  BY <1>1, <1>3, <1>4 DEF StageHeld
<1>5. CASE Reserve(e)
  <2>1. /\ row'[e].proc = "persisting" /\ row'[e].verdict = row[e].verdict
        /\ UNCHANGED <<queue, body>> /\ row[e].proc = "absent"
    BY <1>1, <1>5 DEF Reserve, Rows
  <2>2. ~Accepted(e)
    BY <2>1 DEF Accepted
  <2>3. ~Queued("llm", e)
    BY <1>1, <2>2 DEF Ground, Handled, Stages
  <2>4. Sound(e)'
    BY <1>1, <2>1, <2>3 DEF Sound, Accepted, Queued
  <2>. QED BY <1>2, <2>2, <2>4
<1>6. CASE Publish(e)
  <2>1. /\ row'[e].proc = "pending" /\ row'[e].verdict = row[e].verdict
        /\ body' = body \cup {e} /\ row[e].proc = "persisting" /\ Enqueue("rule", e)
    BY <1>1, <1>6 DEF Publish, Rows
  <2>2. ~Accepted(e)
    BY <2>1 DEF Accepted
  <2>3. ~Queued("llm", e)'
    BY <1>1, <2>1, <2>2, EnqueueQueued DEF Ground, Handled, Stages
  <2>4. Sound(e)'
    BY <1>1, <2>1, <2>3 DEF Sound
  <2>. QED BY <1>2, <2>2, <2>4
<1>7. CASE Abandon(e)
  <2>1. row'[e] = Absent /\ UNCHANGED <<queue, body>> /\ row[e].proc = "persisting"
    BY <1>1, <1>7 DEF Abandon
  <2>2. ~Accepted(e)
    BY <2>1 DEF Accepted
  <2>3. ~Queued("llm", e)
    BY <1>1, <2>2 DEF Ground, Handled, Stages
  <2>4. Sound(e)'
    BY <1>1, <2>1, <2>3 DEF Sound, Accepted, Queued, Absent
  <2>. QED BY <1>2, <2>2, <2>4
<1>8. CASE RecoverEvent(e)
  <2>1. mode = "recovering" /\ Unfinished(e) /\ UNCHANGED body
    BY <1>1, <1>8 DEF RecoverEvent, Ground
  <2>2. e \in body /\ row[e].proc # "completed"
    BY <1>1, <2>1 DEF Sound, Unfinished, Accepted
  <2>3. CASE InProgress(row[e].rule)
    <3>1. Update(e, "rule", "pending") /\ Enqueue("rule", e)
      BY <1>8, <2>2, <2>3 DEF RecoverEvent, InProgress
    <3>2. row'[e].proc = "pending" /\ row'[e].verdict = row[e].verdict
      BY <3>1, UpdateRow DEF Stages
    <3>3. ~Queued("llm", e)'
      BY <1>1, <2>3, <3>1, EnqueueQueued DEF Sound, RulesDone, InProgress, Stages
    <3>4. Sound(e)'
      BY <1>1, <2>1, <2>2, <3>2, <3>3 DEF Sound
    <3>. QED BY <1>4, <2>1, <2>2, <2>3, <3>4 DEF Kept, InProgress
  <2>4. CASE row[e].rule = "completed" /\ InProgress(row[e].llm)
    <3>1. Update(e, "llm", "pending")
      BY <1>8, <2>2, <2>4 DEF RecoverEvent, InProgress
    <3>2. /\ row'[e].proc = "pending" /\ row'[e].verdict = row[e].verdict
          /\ row'[e].rule = "completed"
      BY <2>4, <3>1, UpdateRow DEF Stages
    <3>3. RulesDone(e)'
      BY <1>3, <2>1, <3>2 DEF RulesDone, Workers
    <3>4. Sound(e)'
      BY <1>1, <2>1, <2>2, <3>2, <3>3 DEF Sound
    <3>. QED BY <1>4, <2>1, <2>2, <2>4, <3>2, <3>4 DEF Kept
  <2>5. CASE ~InProgress(row[e].rule) /\ ~(row[e].rule = "completed" /\ InProgress(row[e].llm))
    <3>1. UNCHANGED <<row, queue>>
      BY <1>8, <2>2, <2>5 DEF RecoverEvent
    <3>2. RulesDone(e) => RulesDone(e)'
      BY <1>3, <2>1, <3>1 DEF RulesDone, Workers
    <3>3. Sound(e)'
      BY <1>1, <2>1, <3>1, <3>2 DEF Sound, Accepted, Queued
    <3>. QED BY <1>4, <2>1, <2>2, <3>1, <3>3 DEF Kept
  <2>. QED BY <2>3, <2>4, <2>5
<1>9. CASE Reap(e)
  <2>1. /\ mode = "recovering" /\ row[e].proc = "completed" /\ UNCHANGED <<row, queue>>
        /\ body' = body \ {e}
    BY <1>9 DEF Reap, Reapable
  <2>2. RulesDone(e) => RulesDone(e)'
    BY <1>3, <2>1 DEF RulesDone, Workers
  <2>3. Sound(e)'
    BY <1>1, <2>1, <2>2 DEF Sound, Accepted, Queued
  <2>. QED BY <1>4, <2>1, <2>3, SameRow DEF Kept
<1>. QED BY <1>5, <1>6, <1>7, <1>8, <1>9

\* The administrator's retry: nobody else is at work on a failed event.
LEMMA RetryStages ==
  ASSUME Typed, Typed', \A b, c \in Admins : b = c, NEW a \in Admins,
         NEW e \in Events, StageHeld(e),
         RetryCheck(a, e) \/ ((Retry(a) \/ RetryFails(a)) /\ admin[a].event = e)
  PROVE  StageHeld(e)' /\ Kept(e)
<1>1. /\ row \in [Events -> Rows] /\ admin \in [Admins -> AdminRecords]
      /\ UNCHANGED <<work, body, environment>> /\ Sound(e) /\ \A b \in Admins : b = a
  BY DEF Typed, TypeOK, AdminRecords, Retry, RetryFails, RetryFirst, RetrySecond, RetryEnqueue,
         RetryCheck, StageHeld
<1>2. ASSUME row[e].proc = "completed" => UNCHANGED row,
             admin'[a].at = "idle" \/ (admin'[a].event = e /\ Retries(a, e)'),
             \A w \in Workers : Event(w) = e => UNCHANGED row,
             row[e].rule = "completed" =>
               row'[e].rule = "completed" /\ row'[e].verdict = row[e].verdict,
             Sound(e)'
      PROVE  StageHeld(e)' /\ Kept(e)
  <2>1. RulesDone(e) => RulesDone(e)'
    BY <1>1, <1>2 DEF RulesDone, Event
  <2>2. ASSUME NEW w \in Workers, Event(w)' = e
        PROVE  Carries(w, e)'
    <3>1. Carries(w, e) /\ row' = row
      BY <1>1, <1>2, <2>2 DEF StageHeld, Event
    <3>. QED BY <1>1, <2>1, <3>1 DEF Carries, Completing, environment
  <2>3. StageHeld(e)'
    BY <1>1, <1>2, <2>2 DEF StageHeld, Event
  <2>. QED BY <1>2, <2>3, SameRow DEF Kept
<1>3. ASSUME row[e].proc \notin {"processing", "completed"}
      PROVE  \A w \in Workers : Event(w) # e
  BY <1>3 DEF StageHeld, Carries
<1>4. ASSUME row'[e].rule = row[e].rule
      PROVE  RulesDone(e) => RulesDone(e)'
  BY <1>1, <1>4 DEF RulesDone, Event
<1>5. ASSUME UNCHANGED <<row, queue>>
      PROVE  Sound(e)'
  BY <1>1, <1>4, <1>5 DEF Sound, Accepted, Queued, environment
<1>6. CASE RetryCheck(a, e)
  <2>1. /\ UNCHANGED <<row, queue>> /\ row[e].proc = "failed"
        /\ admin'[a] = [at |-> "first", event |-> e, stage |-> RetryStage(e)]
        /\ "failed" \in {row[e].rule, row[e].llm}
    BY <1>1, <1>6 DEF RetryCheck
  <2>2. RetryStage(e) = "llm" => row[e].rule = "completed" /\ row[e].llm = "failed"
    BY <1>1, <2>1 DEF RetryStage, Sound
  <2>3. RetryStage(e) = "llm" => RulesDone(e)'
    BY <1>1, <1>3, <2>1, <2>2 DEF RulesDone, Event, Workers
  <2>4. RetryStage(e) = "rule" => row[e].rule = "failed"
    BY DEF RetryStage
  <2>5. Retries(a, e)'
    BY <2>1, <2>2, <2>3, <2>4 DEF Retries, RetryStage
  <2>. QED BY <1>2, <1>5, <2>1, <2>5
<1>7. CASE RetryFirst(a) /\ admin[a].event = e
  <2>1. /\ admin[a].at = "first" /\ UNCHANGED queue /\ admin[a].stage \in Stages
        /\ admin'[a].at = "second" /\ admin'[a].event = e /\ admin'[a].stage = admin[a].stage
    BY <1>1, <1>7 DEF RetryFirst, AdminRecords
  <2>2. /\ row'[e].proc = "pending" /\ row'[e].rule = row[e].rule
        /\ row'[e].llm = row[e].llm /\ row'[e].verdict = row[e].verdict
    BY <1>1, <1>7 DEF RetryFirst, Rows
  <2>3. Retries(a, e) /\ row[e].proc = "failed"
    BY <1>7, <2>1 DEF StageHeld, Retries
  <2>4. Sound(e)'
    BY <1>1, <1>4, <2>1, <2>2, <2>3 DEF Sound, Accepted, Queued, environment
  <2>5. row'[e][admin[a].stage] = row[e][admin[a].stage]
    BY <2>1, <2>2 DEF Stages
  <2>6. Retries(a, e)'
    BY <1>4, <2>1, <2>2, <2>3, <2>5 DEF Retries
  <2>. QED BY <1>2, <1>3, <2>1, <2>2, <2>3, <2>4, <2>6
<1>8. CASE RetrySecond(a) /\ admin[a].event = e
  <2>1. /\ admin[a].at = "second" /\ UNCHANGED queue /\ admin[a].stage \in Stages
        /\ admin'[a].at = "enqueue" /\ admin'[a].event = e /\ admin'[a].stage = admin[a].stage
    BY <1>1, <1>8 DEF RetrySecond, AdminRecords
  <2>2. Retries(a, e) /\ row[e].proc = "pending" /\ row[e][admin[a].stage] = "failed"
    BY <1>8, <2>1 DEF StageHeld, Retries
  <2>3. /\ row'[e].proc = "pending" /\ row'[e].verdict = row[e].verdict
        /\ row[e].rule = "completed" \/ admin[a].stage = "llm" => row'[e].rule = row[e].rule
    <3>1. CASE admin[a].stage = "rule"
      <4>1. row' = [row EXCEPT ![e].rule = "pending"] /\ row[e].rule = "failed"
        BY <1>8, <2>2, <3>1 DEF RetrySecond
      <4>. QED BY <1>1, <2>2, <3>1, <4>1 DEF Rows
    <3>2. CASE admin[a].stage = "llm"
      <4>1. row' = [row EXCEPT ![e].llm = "pending"]
        BY <1>8, <3>2 DEF RetrySecond
      <4>. QED BY <1>1, <2>2, <3>2, <4>1 DEF Rows
    <3>. QED BY <2>1, <3>1, <3>2 DEF Stages
  <2>4. RulesDone(e) => RulesDone(e)'
    BY <1>4, <2>3 DEF RulesDone
  <2>5. Sound(e)'
    BY <1>1, <2>1, <2>2, <2>3, <2>4 DEF Sound, Accepted, Queued, environment
  <2>6. Retries(a, e)'
    BY <2>1, <2>2, <2>4 DEF Retries
  <2>. QED BY <1>2, <1>3, <2>1, <2>2, <2>3, <2>5, <2>6
<1>9. CASE RetryEnqueue(a) /\ admin[a].event = e
  <2>1. /\ UNCHANGED row /\ admin[a].at = "enqueue" /\ admin[a].stage \in Stages
        /\ admin'[a].at = "idle" /\ Enqueue(admin[a].stage, e)
    BY <1>1, <1>9 DEF RetryEnqueue, IdleAdmin, AdminRecords
  <2>2. Retries(a, e)
    BY <1>9, <2>1 DEF StageHeld
  <2>3. Queued("llm", e)' => Queued("llm", e) \/ admin[a].stage = "llm"
    BY <2>1, EnqueueQueued DEF Stages
  <2>4. Sound(e)'
    BY <1>1, <1>4, <2>1, <2>2, <2>3 DEF Sound, Retries, Accepted, environment
  <2>. QED BY <1>2, <2>1, <2>4
<1>10. CASE RetryFails(a)
  <2>1. UNCHANGED <<row, queue>> /\ admin'[a].at = "idle"
    BY <1>1, <1>10 DEF RetryFails, IdleAdmin
  <2>. QED BY <1>2, <1>5, <2>1
<1>. QED BY <1>6, <1>7, <1>8, <1>9, <1>10 DEF Retry

LEMMA DispatchStages ==
  ASSUME Typed, Typed', NEW s \in Stages, NEW e \in Events, StageHeld(e), Dispatch(s, e)
  PROVE  StageHeld(e)' /\ Kept(e)
<1>1. /\ UNCHANGED <<row, body, work, admin, environment>> /\ Enqueue(s, e) /\ Dispatchable(s, e)
      /\ Sound(e)
  BY DEF Dispatch, StageHeld
<1>2. Queued("llm", e)' => Queued("llm", e) \/ s = "llm"
  BY <1>1, EnqueueQueued DEF Stages
<1>3. \A w \in Workers : Event(w) # e
  BY <1>1 DEF Dispatchable, StageHeld, Carries
<1>4. s = "llm" => RulesDone(e)
  BY <1>1, <1>3 DEF Dispatchable, RulesDone, Workers
<1>5. RulesDone(e) => RulesDone(e)'
  BY <1>1 DEF RulesDone, Event
<1>6. Sound(e)'
  BY <1>1, <1>2, <1>4, <1>5 DEF Sound, Accepted, environment
<1>7. \A a \in Admins : Retries(a, e) => Retries(a, e)'
  BY <1>1, <1>5 DEF Retries
<1>8. StageHeld(e)'
  BY <1>1, <1>3, <1>6, <1>7 DEF StageHeld, Event
<1>. QED BY <1>1, <1>8, SameRow DEF Kept

LEMMA RestartStages ==
  ASSUME Typed, Typed', Grounded, Restart, NEW d \in Events, StageHeld(d)
  PROVE  StageHeld(d)' /\ Kept(d)
<1>1. /\ UNCHANGED <<envelope, body, queue, work, admin>> /\ mode = "down"
      /\ row' = [e \in Events |-> IF row[e].proc = "persisting" THEN Absent ELSE row[e]]
  BY DEF Restart
<1>2. /\ Sound(d) /\ Ground(d)
      /\ \A w \in Workers : Event(w) # d /\ Event(w)' # d
      /\ \A a \in Admins : admin[a].at = "idle"
  BY <1>1, WorkerAssumption DEF StageHeld, Grounded, Crew, Event
<1>3. CASE row[d].proc = "persisting"
  <2>1. ~Queued("llm", d) /\ row'[d] = Absent /\ row[d].rule = "pending"
    BY <1>1, <1>2, <1>3 DEF Ground, Handled, Accepted, Stages
  <2>2. Sound(d)'
    BY <1>1, <1>2, <1>3, <2>1 DEF Sound, Accepted, Absent, Queued
  <2>. QED BY <1>1, <1>2, <1>3, <2>1, <2>2 DEF StageHeld, Kept
<1>4. CASE row[d].proc # "persisting"
  <2>1. row'[d] = row[d]
    BY <1>1, <1>4
  <2>2. RulesDone(d) => RulesDone(d)'
    BY <1>2, <2>1 DEF RulesDone, Workers
  <2>3. Sound(d)'
    BY <1>1, <1>2, <2>1, <2>2 DEF Sound, Accepted, Queued
  <2>. QED BY <1>1, <1>2, <2>1, <2>3, SameRow DEF StageHeld, Kept
<1>. QED BY <1>3, <1>4

\* A step concerns one event: that one is held by the step itself, the others by
\* Frame, and of an event left out nothing is asked any more.
LEMMA StepStages ==
  ASSUME Typed, Typed', Grounded, StagesHeld, \A b, c \in Admins : b = c, [Next]_vars
  PROVE  StagesHeld' /\ \A d \in Events \ misread' : Kept(d)
<1>1. misread \subseteq misread'
  <2>1. ASSUME NEW w \in Workers, LookupFails(w)
        PROVE  misread \subseteq misread'
    BY <2>1, LookupParts
  <2>2. ASSUME NEW w \in Workers, Proceed(w) \/ Fails(w)
        PROVE  misread \subseteq misread'
    BY <2>2, WorkMoves DEF environment
  <2>. QED BY <2>1, <2>2
       DEF Next, vars, environment, Reserve, Publish, Abandon, RecoverEvent, Reap, Dispatch, Take,
           Retry, RetryFails, RetryFirst, RetrySecond, RetryEnqueue, RetryCheck, Crash, Restart,
           Ready
<1>. SUFFICES ASSUME NEW d \in Events, StageHeld(d)
              PROVE  d \in misread' \/ (StageHeld(d)' /\ Kept(d))
  BY <1>1 DEF StagesHeld
<1>2. ASSUME NEW e \in Events, Concerns(e),
             StageHeld(e) => e \in misread' \/ (StageHeld(e)' /\ Kept(e))
      PROVE  d \in misread' \/ (StageHeld(d)' /\ Kept(d))
  BY <1>2, Frame DEF Concerns
<1>3. CASE UNCHANGED vars
  <2>1. Untouched(d)
    BY <1>3, SameRow DEF vars, environment, Untouched, Queued
  <2>. QED BY <2>1, Frame
<1>4. ASSUME NEW w \in Workers, Take(w)
      PROVE  d \in misread' \/ (StageHeld(d)' /\ Kept(d))
  <2>1. PICK e \in Events : e = Head(queue[Stage(w)]) /\ Concerns(e)
    BY <1>4, TakeConcerns
  <2>. QED BY <1>2, <1>4, <2>1, TakeStages
<1>5. ASSUME NEW w \in Workers, LookupFails(w)
      PROVE  d \in misread' \/ (StageHeld(d)' /\ Kept(d))
  <2>1. Event(w) = Nobody
    BY <1>5, LookupParts DEF Grounded, Crew
  <2>2. PICK e \in Events : e = Head(queue[Stage(w)]) /\ Concerns(e)
    BY <1>5, <2>1, LookupConcerns
  <2>. QED BY <1>2, <1>5, <2>2, LookupStages
<1>6. ASSUME NEW w \in Workers, Proceed(w) \/ Fails(w)
      PROVE  d \in misread' \/ (StageHeld(d)' /\ Kept(d))
  <2>1. PICK e \in Events : Event(w) = e
    BY <1>6, WorkMoves
  <2>2. Concerns(e)
    BY <1>6, <2>1, WorkConcerns
  <2>. QED BY <1>2, <1>6, <2>1, <2>2, RuleStageStages, ReviewStageStages, DeleteStages, FailsStages
       DEF Proceed
<1>7. ASSUME NEW a \in Admins, Retry(a) \/ RetryFails(a)
      PROVE  d \in misread' \/ (StageHeld(d)' /\ Kept(d))
  <2>1. PICK e \in Events : admin[a].event = e
    BY <1>7 DEF Retry, RetryFails, RetryFirst, RetrySecond, RetryEnqueue, Typed, Busy
  <2>. QED BY <1>2, <1>7, <2>1, RetryConcerns, RetryStages
<1>8. ASSUME NEW a \in Admins, NEW e \in Events, RetryCheck(a, e)
      PROVE  d \in misread' \/ (StageHeld(d)' /\ Kept(d))
  BY <1>2, <1>8, RetryConcerns, RetryStages
<1>9. ASSUME NEW e \in Events, Reserve(e) \/ Publish(e) \/ Abandon(e) \/ RecoverEvent(e) \/ Reap(e)
      PROVE  d \in misread' \/ (StageHeld(d)' /\ Kept(d))
  BY <1>2, <1>9, EventConcerns, EventStages
<1>10. ASSUME NEW s \in Stages, NEW e \in Events, Dispatch(s, e)
       PROVE  d \in misread' \/ (StageHeld(d)' /\ Kept(d))
  BY <1>2, <1>10, DispatchConcerns, DispatchStages
<1>11. CASE Crash \/ Ready
  BY <1>11, ProcessTouches, Frame
<1>. QED BY <1>3, <1>4, <1>5, <1>6, <1>7, <1>8, <1>9, <1>10, <1>11, RestartStages DEF Next

-----------------------------------------------------------------------------
(* What holds of every behaviour with one administrator.  The events in      *)
(* misread are excepted: looking up an old entry of theirs has failed.       *)

Invariants == Typed /\ Grounded /\ StagesHeld

LEMMA AlwaysHeld ==
  ASSUME \A a, b \in Admins : a = b
  PROVE  Spec => []Invariants
<1>1. Typed /\ Typed' /\ Grounded /\ StagesHeld /\ [Next]_vars => StagesHeld'
  BY StepStages
<1>. QED BY <1>1, InitStages, AlwaysTyped, AlwaysGrounded, PTL DEF Spec, Invariants

\* A committed rule result is not taken back but by the rule worker that has the
\* event, and by one that fails to look up an old entry.
\* (_handle_failure, _process_rule_event, _process_reviewer_event, recover, retry_event_handler)
THEOREM RulesNotRepeated ==
  ASSUME \A a, b \in Admins : a = b
  PROVE  Spec => RulesOnce
<1>1. Invariants /\ Invariants' /\ [Next]_vars =>
        [\A e \in Events : row[e].rule = "completed" /\ ~(\E w \in RuleWorkers : Event(w) = e) =>
           \/ row'[e].rule = "completed" /\ row'[e].verdict = row[e].verdict
           \/ e \in misread']_vars
  BY StepStages DEF Invariants, Kept
<1>. QED BY <1>1, AlwaysHeld, PTL DEF Spec, RulesOnce

\* No event is in the hands of two workers, whoever puts it into a queue again,
\* unless looking up an old entry of it has failed.
\* (_dispatch_pending_loop, _handle_failure, recover, retry_event_handler)
THEOREM OneAtWork ==
  ASSUME \A a, b \in Admins : a = b
  PROVE  Spec => []OneWorker
<1>1. Invariants => OneWorker
  BY DEF Invariants, StagesHeld, StageHeld, OneWorker, Typed, TypeOK, Event
<1>. QED BY <1>1, AlwaysHeld, PTL

\* The body of an event is kept until the event is completed, also through an
\* outage of the reviewers; an event completed and then set back by the failing
\* look-up of an old entry may have none.  (_process_reviewer_event, recover)
THEOREM BodiesKept ==
  ASSUME \A a, b \in Admins : a = b
  PROVE  Spec => []BodyKept
<1>1. Invariants => BodyKept
  BY DEF Invariants, StagesHeld, StageHeld, Sound, BodyKept
<1>. QED BY <1>1, AlwaysHeld, PTL

\* A completed event has its rule result, and its review if that asked for one,
\* unless the failing look-up of an old entry interfered.
\* (_process_rule_event, _process_reviewer_event)
THEOREM ReviewsGiven ==
  ASSUME \A a, b \in Admins : a = b
  PROVE  Spec => []CompletedIsReviewed
<1>1. Invariants => CompletedIsReviewed
  BY DEF Invariants, StagesHeld, StageHeld, Sound, CompletedIsReviewed
<1>. QED BY <1>1, AlwaysHeld, PTL

\* A completed event that its worker has let go of is not opened again: not by a
\* retry, a restart, or a queue that still holds it, as long as looking that
\* entry up does not fail.
THEOREM CompletedStays ==
  ASSUME \A a, b \in Admins : a = b
  PROVE  Spec => CompletedForGood
<1>1. Invariants /\ Invariants' /\ [Next]_vars =>
        [\A e \in Events : row[e].proc = "completed" /\ ~(\E w \in Workers : Event(w) = e) =>
           row'[e] = [row[e] EXCEPT !.assoc = row'[e].assoc] \/ e \in misread']_vars
  BY StepStages DEF Invariants, Kept, Same
<1>. QED BY <1>1, AlwaysHeld, PTL DEF Spec, CompletedForGood

-----------------------------------------------------------------------------
(* Requests and responses: for any number of administrators, and whatever    *)
(* becomes of the events whose look-up failed.                               *)

\* The rule stage of the request r has looked for its responses.
Searched(r) ==
  \/ row[r].rule = "completed"
  \/ \E w \in Workers : Event(w) = r /\ work[w].at \in AfterLink

\* A searched request left no response without it, and a completed response has
\* looked for its request.
LinksHeld ==
  \A q \in Events : envelope[q].kind = "response" =>
    /\ row[q].proc = "absent" => row[q].assoc = "none"
    /\ row[q].proc = "completed" => row[q].assoc # "none"
    /\ \A r \in Events :
         Searched(r) /\ envelope[r] = [kind |-> "request", call |-> envelope[q].call]
           => row[q].assoc # "request_missing"

\* A step that neither associates d nor finishes a stage of it.
Quiet(d) ==
  /\ row'[d].assoc = row[d].assoc
  /\ row'[d].proc = "absent" => row[d].proc = "absent"
  /\ row'[d].proc = "completed" => row[d].proc = "completed" \/ envelope[d].kind # "response"
  /\ row'[d].rule = "completed" => row[d].rule = "completed"

LEMMA QuietLinks ==
  ASSUME LinksHeld, UNCHANGED envelope,
         \A d \in Events : Quiet(d) \/ row'[d] = Absent,
         \A w \in Workers :
           work'[w].at \in AfterLink => work[w].at \in AfterLink /\ Event(w)' = Event(w)
  PROVE  LinksHeld'
<1>1. \A r \in Events : Searched(r)' => Searched(r)
  BY DEF Searched, Quiet, Absent, Event
<1>. QED BY <1>1 DEF LinksHeld, Quiet, Absent

LEMMA UpdateQuiet ==
  ASSUME Typed, NEW e \in Events, NEW s \in Stages, NEW p \in {"pending", "processing", "failed"},
         Update(e, s, p)
  PROVE  \A d \in Events : Quiet(d)
BY UpdateRow DEF Quiet, Stages

LEMMA SetBackQuiet ==
  ASSUME Typed, NEW e \in Events, NEW s \in Stages, SetBack(s, e)
  PROVE  \A d \in Events : Quiet(d)
BY SetBackRow DEF Quiet, Stages

\* A response that looks finds the requests that have looked.
LEMMA ReadLinks ==
  ASSUME Typed, Grounded, LinksHeld, NEW w \in Workers, NEW e \in Events, Event(w) = e,
         work[w].at = "read", Associate(e), Goto(w, "link"), UNCHANGED envelope
  PROVE  LinksHeld'
<1>1. /\ row \in [Events -> Rows] /\ work \in [Workers -> WorkRecords]
      /\ \A d \in Events : envelope[d] \in [kind : {"request", "full_call", "response"}, call : Nat]
  BY WorkerAssumption DEF Typed, TypeOK, WorkRecords
<1>2. Accepted(e) /\ \A r \in Events : Searched(r) => Accepted(r)
  BY DEF Searched, Grounded, Ground, Handled
<1>3. \A v \in Workers :
        work'[v].at \in AfterLink => work[v].at \in AfterLink /\ Event(v)' = Event(v)
  BY <1>1 DEF Goto, AfterLink, Event
<1>4. /\ \A d \in Events : d # e => row'[d] = row[d]
      /\ row'[e].assoc = Association(e)
      /\ row'[e].proc # "absent"
      /\ envelope[e].kind # "response" => row'[e].rule = row[e].rule
  BY <1>1, <1>2 DEF Associate, Accepted, Rows
<1>5. \A r \in Events : Searched(r)' /\ envelope[r].kind = "request" => Searched(r)
  BY <1>3, <1>4 DEF Searched, Event
<1>6. envelope[e].kind = "response" => Association(e) # "none"
  BY DEF Association
<1>7. ASSUME NEW r \in Events, Searched(r), envelope[e].kind = "response",
             envelope[r] = [kind |-> "request", call |-> envelope[e].call]
      PROVE  Association(e) = "associated"
  BY <1>2, <1>7 DEF Association, Matches, Accepted
<1>8. \A r \in Events :
        Searched(r)' /\ (\E q \in Events :
                           envelope[r] = [kind |-> "request", call |-> envelope[q].call])
          => Searched(r)
  BY <1>5
<1>. QED BY <1>4, <1>6, <1>7, <1>8 DEF LinksHeld

\* A request that looks finds the responses there are.
LEMMA LinkLinks ==
  ASSUME Typed, LinksHeld, NEW w \in Workers, NEW e \in Events, Event(w) = e, Link(w)
  PROVE  LinksHeld'
<1>1. /\ row \in [Events -> Rows] /\ work \in [Workers -> WorkRecords] /\ UNCHANGED envelope
      /\ \A d \in Events : envelope[d] \in [kind : {"request", "full_call", "response"}, call : Nat]
  BY WorkerAssumption DEF Typed, TypeOK, WorkRecords, Link, environment
<1>2. \A d \in Events : /\ row'[d].assoc = IF d \in Matches(e) THEN "associated" ELSE row[d].assoc
                        /\ row'[d].proc = row[d].proc /\ row'[d].rule = row[d].rule
  BY <1>1 DEF Link, Rows
<1>3. \A r \in Events : Searched(r)' => Searched(r) \/ r = e
  <2>1. \A v \in Workers : v # w => work'[v] = work[v]
    BY <1>1 DEF Link, Goto
  <2>2. work'[w].event = e
    BY <1>1 DEF Link, Goto, WorkRecords, Event
  <2>. QED BY <1>2, <2>1, <2>2 DEF Searched, Event
<1>4. ASSUME NEW q \in Events, envelope[q].kind = "response", row[q].proc # "absent",
             envelope[e] = [kind |-> "request", call |-> envelope[q].call]
      PROVE  q \in Matches(e)
  BY <1>1, <1>4 DEF Matches
<1>5. \A q \in Matches(e) : row[q].proc # "absent"
  BY DEF Matches
<1>. QED BY <1>1, <1>2, <1>3, <1>4, <1>5 DEF LinksHeld

LEMMA CommitLinks ==
  ASSUME Typed, LinksHeld, NEW w \in Workers, NEW e \in Events, Event(w) = e, CommitRules(w)
  PROVE  LinksHeld'
<1>1. /\ row \in [Events -> Rows] /\ work \in [Workers -> WorkRecords] /\ UNCHANGED envelope
      /\ work[w].at = "rule_commit"
  BY DEF Typed, TypeOK, WorkRecords, CommitRules, At, environment
<1>2. /\ \A d \in Events : row'[d].assoc = row[d].assoc /\ row'[d].proc = row[d].proc
      /\ \A d \in Events : d # e => row'[d].rule = row[d].rule
  BY <1>1 DEF CommitRules, Rows
<1>3. \A r \in Events : Searched(r)' => Searched(r)
  <2>1. \A v \in Workers : v # w => work'[v] = work[v]
    BY <1>1 DEF CommitRules, Goto
  <2>2. work'[w].event = e
    BY <1>1 DEF CommitRules, Goto, WorkRecords, Event
  <2>3. Searched(e)
    BY <1>1 DEF Searched, AfterLink
  <2>. QED BY <1>2, <2>1, <2>2, <2>3 DEF Searched, Event
<1>. QED BY <1>1, <1>2, <1>3 DEF LinksHeld

\* What the other two finishing commits complete is not a response.
LEMMA FinishQuiet ==
  ASSUME Typed, Grounded, NEW w \in Workers, NEW e \in Events, Event(w) = e,
         Finish(w) \/ CommitReview(w)
  PROVE  \A d \in Events : Quiet(d)
<1>1. row \in [Events -> Rows]
  BY DEF Typed, TypeOK
<1>2. envelope[e].kind # "response"
  <2>1. work[w].at = "handoff" \/ (work[w].at \in Reviewing /\ w \in Reviewers)
    BY DEF Finish, CommitReview, At, Reviewing, Grounded, Crew
  <2>. QED BY <2>1 DEF Grounded, Ground, RuleBound, AfterLink
<1>. QED BY <1>1, <1>2 DEF Finish, CommitReview, Quiet, Rows

LEMMA WorkLinks ==
  ASSUME Typed, Grounded, LinksHeld, NEW w \in Workers, Proceed(w) \/ Fails(w)
  PROVE  LinksHeld'
<1>1. PICK e \in Events : Event(w) = e
  BY WorkMoves
<1>2. /\ row \in [Events -> Rows] /\ work \in [Workers -> WorkRecords] /\ UNCHANGED envelope
  BY WorkMoves DEF Typed, TypeOK, WorkRecords, environment
<1>3. ASSUME \A d \in Events : Quiet(d), Free(w) \/ \E l \in Places \ AfterLink : Goto(w, l)
      PROVE  LinksHeld'
  <2>1. \A v \in Workers : work'[v].at \in AfterLink => work'[v] = work[v]
    BY <1>2, <1>3 DEF Free, Goto, IdleWorker, AfterLink, WorkRecords
  <2>. QED BY <1>2, <1>3, <2>1, QuietLinks DEF Event
<1>4. UNCHANGED row => \A d \in Events : Quiet(d)
  BY DEF Quiet
<1>5. CASE HandleFailure(w)
  BY <1>1, <1>3, <1>5, SetBackQuiet DEF HandleFailure, Stage, Stages
<1>6. CASE ReadForRules(w) /\ Event(w) \in body
  BY <1>1, <1>2, <1>6, ReadLinks DEF ReadForRules, At
<1>7. CASE Link(w)
  BY <1>1, <1>7, LinkLinks
<1>8. CASE EvaluateRules(w)
  <2>1. PICK r \in RuleOutcomes[Event(w)] :
           work' = [work EXCEPT ![w].at = "rule_commit", ![w].verdict = r]
    BY <1>8 DEF EvaluateRules
  <2>2. work[w].at = "evaluate" /\ UNCHANGED row
    BY <1>8 DEF EvaluateRules, At
  <2>3. \A v \in Workers : work'[v].event = work[v].event /\ (v # w => work'[v] = work[v])
    BY <1>2, <2>1 DEF WorkRecords
  <2>. QED BY <1>2, <1>4, <2>2, <2>3, QuietLinks DEF AfterLink, Event
<1>9. CASE CommitRules(w)
  BY <1>1, <1>9, CommitLinks
<1>10. CASE HandOff(w)
  <2>1. \A d \in Events : Quiet(d)
    BY <1>1, <1>2, <1>10 DEF HandOff, Quiet, Rows
  <2>. QED BY <1>3, <1>10, <2>1 DEF HandOff
<1>11. CASE Finish(w) \/ CommitReview(w)
  BY <1>1, <1>3, <1>11, FinishQuiet DEF Finish, CommitReview, Places, AfterLink
<1>12. CASE CommitOutage(w)
  BY <1>1, <1>3, <1>12, UpdateQuiet DEF CommitOutage, Stages
<1>13. CASE UNCHANGED row /\ (Free(w) \/ \E l \in Places \ AfterLink : Goto(w, l))
  BY <1>3, <1>4, <1>13
<1>14. Review(w) => \E l \in {"review_failed", "review_not_needed", "review_completed"} : Goto(w, l)
  BY DEF Review
<1>. QED BY <1>5, <1>6, <1>7, <1>8, <1>9, <1>10, <1>11, <1>12, <1>13, <1>14
     DEF Proceed, Fails, Raise, ReadForRules, ReadForReview, Review, Delete, Places, AfterLink

LEMMA StepLinks ==
  ASSUME Typed, Grounded, LinksHeld, [Next]_vars
  PROVE  LinksHeld'
<1>1. row \in [Events -> Rows] /\ work \in [Workers -> WorkRecords]
  BY DEF Typed, TypeOK, WorkRecords
<1>2. UNCHANGED row => \A d \in Events : Quiet(d)
  BY DEF Quiet
<1>3. CASE UNCHANGED vars
  BY <1>2, <1>3, QuietLinks DEF vars, environment, Event
<1>4. ASSUME NEW e \in Events, Reserve(e) \/ Publish(e) \/ Abandon(e) \/ RecoverEvent(e) \/ Reap(e)
      PROVE  LinksHeld'
  <2>1. \A d \in Events : Quiet(d) \/ row'[d] = Absent
    <3>1. CASE Reserve(e) \/ Publish(e) \/ Abandon(e) \/ Reap(e)
      BY <1>1, <3>1 DEF Reserve, Publish, Abandon, Reap, Quiet, Rows
    <3>2. CASE RecoverEvent(e)
      <4>1. \/ row' = [row EXCEPT ![e].proc = "failed", ![e].rule = Failing(@),
                                  ![e].llm = Failing(@)]
            \/ \E s \in Stages : Update(e, s, "pending")
            \/ row' = row
        BY <3>2 DEF RecoverEvent, InProgress, Stages
      <4>2. CASE \E s \in Stages : Update(e, s, "pending")
        BY <4>2, UpdateQuiet
      <4>. QED BY <1>1, <1>2, <4>1, <4>2 DEF Rows, Failing, Quiet
    <3>. QED BY <1>4, <3>1, <3>2
  <2>. QED BY <1>4, <2>1, QuietLinks
       DEF Reserve, Publish, Abandon, RecoverEvent, Reap, environment, Event
<1>5. ASSUME NEW s \in Stages, NEW e \in Events, Dispatch(s, e)
      PROVE  LinksHeld'
  BY <1>2, <1>5, QuietLinks DEF Dispatch, environment, Event
<1>6. ASSUME NEW w \in Workers, Take(w)
      PROVE  LinksHeld'
  <2>1. Stage(w) \in Stages /\ Head(queue[Stage(w)]) \in Events
    BY <1>6, TakeConcerns
  <2>2. \A d \in Events : Quiet(d)
    BY <1>2, <1>6, <2>1, UpdateQuiet DEF Take
  <2>3. \A v \in Workers : work'[v].at \in AfterLink => work'[v] = work[v]
    BY <1>1, <1>6 DEF Take, AfterLink
  <2>. QED BY <1>6, <2>2, <2>3, QuietLinks DEF Take, environment, Event
<1>7. ASSUME NEW w \in Workers, LookupFails(w)
      PROVE  LinksHeld'
  <2>1. Stage(w) \in Stages /\ Head(queue[Stage(w)]) \in Events /\ UNCHANGED envelope
    BY <1>7, LookupParts
  <2>2. \A d \in Events : Quiet(d)
    BY <1>2, <1>7, <2>1, LookupParts, SetBackQuiet
  <2>3. \A v \in Workers : work'[v].at \in AfterLink => work'[v] = work[v]
    BY <1>1, <1>7, LookupParts DEF Goto, AfterLink, WorkRecords
  <2>. QED BY <2>1, <2>2, <2>3, QuietLinks DEF Event
<1>8. ASSUME NEW w \in Workers, Proceed(w) \/ Fails(w)
      PROVE  LinksHeld'
  BY <1>8, WorkLinks
<1>9. ASSUME NEW a \in Admins, Retry(a) \/ RetryFails(a) \/ \E e \in Events : RetryCheck(a, e)
      PROVE  LinksHeld'
  <2>1. admin[a].stage \in Stages
    BY DEF Typed, TypeOK
  <2>2. \A d \in Events : Quiet(d)
    <3>1. CASE RetryFirst(a)
      BY <1>1, <3>1 DEF RetryFirst, Quiet, Rows, Typed, Busy
    <3>2. CASE RetrySecond(a)
      <4>1. CASE admin[a].stage = "rule"
        <5>1. row' = [row EXCEPT ![admin[a].event].rule = "pending"]
          BY <3>2, <4>1 DEF RetrySecond
        <5>. QED BY <1>1, <5>1 DEF Quiet, Rows
      <4>2. CASE admin[a].stage = "llm"
        <5>1. row' = [row EXCEPT ![admin[a].event].llm = "pending"]
          BY <3>2, <4>2 DEF RetrySecond
        <5>. QED BY <1>1, <5>1 DEF Quiet, Rows
      <4>. QED BY <2>1, <4>1, <4>2 DEF Stages
    <3>. QED BY <1>2, <1>9, <3>1, <3>2 DEF Retry, RetryFails, RetryEnqueue, RetryCheck
  <2>. QED BY <1>9, <2>2, QuietLinks
       DEF Retry, RetryFails, RetryCheck, RetryFirst, RetrySecond, RetryEnqueue, environment, Event
<1>10. CASE Crash \/ Restart \/ Ready
  <2>1. \A d \in Events : Quiet(d) \/ row'[d] = Absent
    BY <1>1, <1>2, <1>10 DEF Crash, Restart, Ready, Quiet
  <2>. QED BY <1>10, <2>1, QuietLinks DEF Crash, Restart, Ready, IdleWorker, AfterLink, Event
<1>. QED BY <1>3, <1>4, <1>5, <1>6, <1>7, <1>8, <1>9, <1>10 DEF Next

\* An analysed request and the completed response of its call find each other:
\* whichever comes first, and whatever fails or crashes in between.
\* (_process_rule_event, find_correlated_events)
THEOREM ResponsesLinked == Spec => []LateRequestLinked
<1>1. Init => LinksHeld
  BY DEF Init, LinksHeld, Absent, Searched, IdleWorker, AfterLink
<1>2. Typed /\ Grounded /\ LinksHeld /\ [Next]_vars => LinksHeld'
  BY StepLinks
<1>3. Typed /\ LinksHeld => LateRequestLinked
  <2>. SUFFICES ASSUME Typed, LinksHeld, NEW q \in Events, NEW r \in Events,
                       envelope[q].kind = "response", row[q].proc = "completed",
                       envelope[r].kind = "request", row[r].rule = "completed",
                       envelope[q].call = envelope[r].call
                PROVE  row[q].assoc = "associated"
    BY DEF LateRequestLinked
  <2>1. envelope[r] = [kind |-> "request", call |-> envelope[q].call]
    BY WorkerAssumption DEF Typed, TypeOK
  <2>2. row[q].assoc \in {"none", "associated", "request_missing"}
    BY DEF Typed, TypeOK, Rows
  <2>. QED BY <2>1, <2>2 DEF LinksHeld, Searched
<1>. QED BY <1>1, <1>2, <1>3, AlwaysTyped, AlwaysGrounded, PTL DEF Spec
=============================================================================
