------------------------------ MODULE ProxyAudit ------------------------------
(***************************************************************************)
(* The audit path beside the model proxy: automode_gateway/gateway.py.     *)
(*                                                                         *)
(* A proxied call offers copies of its traffic to a queue bounded in       *)
(* events and in bytes; one loop persists them while the call goes on.     *)
(* With an encryption key (`durable`) the copies become standard events,   *)
(* request and response; without one, only the request is stored and       *)
(* analysed, and the handler waits for its trace before it ends.  An       *)
(* action is the code between two suspension points of one task.           *)
(*                                                                         *)
(* Abstracted: contents and headers, the upstream's answer (a handler      *)
(* audits whatever the outcome), the drop reasons, and what analysis and   *)
(* acceptance do (ProxyTraces, EventIngress).  put_nowait cannot find the  *)
(* queue full: only Enqueue adds to it, after the test, with no            *)
(* suspension between.                                                     *)
(***************************************************************************)
EXTENDS Integers, Sequences, FiniteSets, Functions, SequencesExt

CONSTANTS
  Calls,        \* the proxied calls
  Analysable,   \* those whose request analysis_payload understands
  Size,         \* [Items -> Nat]: the bytes of each copy
  MaxEvents,    \* proxy_buffer_max_events
  MaxBytes,     \* proxy_buffer_max_bytes
  Nothing,      \* no item
  MaxFaults     \* bound

Items == [call : Calls, kind : {"request", "response"}]

ASSUME ProxyAssumption ==
  /\ Analysable \subseteq Calls /\ Nothing \notin Items
  /\ Size \in [Items -> Nat]
  /\ MaxEvents \in Nat \ {0} /\ MaxBytes \in Nat \ {0} /\ MaxFaults \in Nat

VARIABLES
  durable,    \* disk_buffer and event_worker are present
  stop,       \* Gateway.stop: "running", "joining", "closed"
  queue,      \* proxy_audit_queue
  held,       \* the loop's item while proxy_audit_active, or Nothing
  loop,       \* where _proxy_audit_loop is
  bytes,      \* proxy_audit_buffer_bytes
  future,     \* per item: "none", "pending", "id", "null", "cancelled"
  handler,    \* per call: proxy()
  trace,      \* per call: its row in traces
  persisted,  \* the items whose event or trace is committed
  dropped,    \* proxy_dropped_count
  failed,     \* proxy_failed_count
  faults

vars == <<durable, stop, queue, held, loop, bytes, future, handler, trace,
          persisted, dropped, failed, faults>>

Req(c)  == [call |-> c, kind |-> "request"]
Resp(c) == [call |-> c, kind |-> "response"]

Init ==
  /\ durable \in BOOLEAN
  /\ stop = "running" /\ loop = "waiting"
  /\ queue = << >> /\ held = Nothing /\ bytes = 0
  /\ future = [i \in Items |-> "none"]
  /\ handler = [c \in Calls |-> "idle"]
  /\ trace = [c \in Calls |-> "none"]
  /\ persisted = {}
  /\ dropped = 0 /\ failed = 0 /\ faults = 0

-----------------------------------------------------------------------------
(* Offering a copy. *)

\* proxy_buffer_events
Buffered == Len(queue) + (IF held = Nothing THEN 0 ELSE 1)

Refused(i) ==
  \/ stop # "running"
  \/ Size[i] > MaxBytes
  \/ Buffered >= MaxEvents
  \/ bytes + Size[i] > MaxBytes

\* Mutated form: the newest copy is the first to be taken.
PutFirst(i) == << i >> \o queue

\* put_nowait.
Put(i) == Append(queue, i)

Enqueue(i) ==
  IF Refused(i)
  THEN /\ dropped' = dropped + 1
       /\ future' = [future EXCEPT ![i] = "null"]
       /\ UNCHANGED <<queue, bytes>>
  ELSE /\ queue' = Put(i)
       /\ bytes' = bytes + Size[i]
       /\ future' = [future EXCEPT ![i] = "pending"]
       /\ UNCHANGED dropped

Request(c) ==
  /\ handler[c] = "idle"
  /\ Enqueue(Req(c))
  /\ handler' = [handler EXCEPT ![c] = "forwarding"]
  /\ UNCHANGED <<durable, stop, held, loop, trace, persisted, failed, faults>>

\* The upstream has answered, failed or gone away: the finally of proxy().
Upstream(c) ==
  /\ handler[c] = "forwarding"
  /\ IF durable
     THEN Enqueue(Resp(c)) /\ handler' = [handler EXCEPT ![c] = "done"]
     ELSE /\ handler' = [handler EXCEPT ![c] = "awaiting"]
          /\ UNCHANGED <<queue, bytes, future, dropped>>
  /\ UNCHANGED <<durable, stop, held, loop, trace, persisted, failed, faults>>

\* `await persist_task` returns the trace's id, or None for a lost copy.
Resume(c) ==
  /\ handler[c] = "awaiting" /\ future[Req(c)] \in {"id", "null"}
  /\ handler' = [handler EXCEPT ![c] =
                   IF future[Req(c)] = "id" THEN "finishing" ELSE "done"]
  /\ UNCHANGED <<durable, stop, queue, held, loop, bytes, future, trace,
                 persisted, dropped, failed, faults>>

\* process_response, in the handler.
Finish(c) ==
  /\ handler[c] = "finishing"
  /\ handler' = [handler EXCEPT ![c] = "done"]
  /\ trace' = [trace EXCEPT ![c] = "answered"]
  /\ UNCHANGED <<durable, stop, queue, held, loop, bytes, future, persisted,
                 dropped, failed, faults>>

\* The server cancels a handler that waits, and with it the awaited future.
CancelHandler(c) ==
  /\ handler[c] = "awaiting" /\ future[Req(c)] = "pending"
  /\ handler' = [handler EXCEPT ![c] = "done"]
  /\ future' = [future EXCEPT ![Req(c)] = "cancelled"]
  /\ UNCHANGED <<durable, stop, queue, held, loop, bytes, trace, persisted,
                 dropped, failed, faults>>

-----------------------------------------------------------------------------
(* _proxy_audit_loop. *)

At(l) == loop = l

Take ==
  /\ At("waiting") /\ queue # << >>
  /\ held' = Head(queue)
  /\ queue' = Tail(queue)
  /\ loop' = IF durable /\ held'.kind = "response" THEN "accept" ELSE "create"
  /\ UNCHANGED <<durable, stop, bytes, future, handler, trace, persisted,
                 dropped, failed, faults>>

Fault == faults < MaxFaults /\ faults' = faults + 1

\* Mutated form: a failed item's bytes are given back twice.
ReleaseTwice == held' = Nothing /\ bytes' = bytes - 2 * Size[held]

\* The finally of the loop, whose max(0, _) never bites (TypeOK).
Release == held' = Nothing /\ bytes' = bytes - Size[held]

\* Mutated form: a failure leaves the future alone.
SetSuccess(r) ==
  future' = [future EXCEPT ![held] = IF @ = "pending" /\ r = "id" THEN r ELSE @]

\* `if not future.cancelled(): future.set_result(...)`.  On a future that has
\* its result, set_result raises InvalidStateError.
SetResult(r) == future' = [future EXCEPT ![held] = IF @ = "pending" THEN r ELSE @]

\* The result, and the item is done.
Settle == SetResult("id") /\ Release /\ loop' = "waiting"

\* `except Exception`: its own set_result may raise, out of the loop.
Fail ==
  /\ Fault
  /\ failed' = failed + 1
  /\ SetResult("null")
  /\ Release
  /\ loop' = IF future[held] = "id" THEN "dead" ELSE "waiting"

CreateRow == trace' = [trace EXCEPT ![held.call] = "created"]

\* store.create: observational beside a durable event, the very record without.
Create ==
  /\ At("create")
  /\ IF durable
     THEN /\ \/ CreateRow /\ UNCHANGED faults
             \/ UNCHANGED trace /\ Fault
          /\ loop' = "accept"
          /\ UNCHANGED <<held, bytes, future, persisted, failed>>
     ELSE \/ /\ CreateRow
             /\ persisted' = persisted \cup {held}
             /\ IF held.call \in Analysable
                THEN SetResult("id") /\ loop' = "classify" /\ UNCHANGED <<held, bytes>>
                ELSE Settle
             /\ UNCHANGED <<failed, faults>>
          \/ Fail /\ UNCHANGED <<trace, persisted>>
  /\ UNCHANGED <<durable, stop, queue, handler, dropped>>

\* Mutated form: the caller hears of the event at once.
AcceptedEarly == SetResult("id") /\ UNCHANGED <<held, bytes>>

Accepted == UNCHANGED <<held, bytes, future>>

\* accept_standard_event: 202, or the item has failed.
Accept ==
  /\ At("accept")
  /\ \/ /\ persisted' = persisted \cup {held}
        /\ loop' = "resolve"
        /\ Accepted
        /\ UNCHANGED <<failed, faults>>
     \/ Fail /\ UNCHANGED persisted
  /\ UNCHANGED <<durable, stop, queue, handler, trace, dropped>>

Resolved ==
  IF held.kind = "response"
  THEN loop' = "respond" /\ UNCHANGED <<held, bytes, future>>
  ELSE Settle

\* resolve_event_id, whose failure comes after the event is durable.
Resolve ==
  /\ At("resolve")
  /\ \/ Resolved /\ UNCHANGED <<failed, faults>>
     \/ Fail
  /\ UNCHANGED <<durable, stop, queue, handler, trace, persisted, dropped>>

\* process_response, in the loop: it cannot fail the item.
RespondRow ==
  trace' = [trace EXCEPT ![held.call] = IF @ = "none" THEN "orphan" ELSE "answered"]

Respond ==
  /\ At("respond")
  /\ \/ RespondRow /\ UNCHANGED faults
     \/ UNCHANGED trace /\ Fault
  /\ Settle
  /\ UNCHANGED <<durable, stop, queue, handler, persisted, dropped, failed>>

\* _classify_dlp raises only when it cannot even record its own failure;
\* observe_session_risk never does.
Classify ==
  /\ At("classify")
  /\ \/ Release /\ loop' = "waiting" /\ UNCHANGED <<future, failed, faults>>
     \/ Fail
  /\ UNCHANGED <<durable, stop, queue, handler, trace, persisted, dropped>>

LoopStep == Take \/ Create \/ Accept \/ Resolve \/ Respond \/ Classify

-----------------------------------------------------------------------------
(* Gateway.stop. *)

Stop ==
  /\ stop = "running"
  /\ stop' = "joining"
  /\ UNCHANGED <<durable, queue, held, loop, bytes, future, handler, trace,
                 persisted, dropped, failed, faults>>

Cancelled == loop' = IF loop = "dead" THEN "dead" ELSE "stopped"

Joined ==
  /\ stop = "joining" /\ Buffered = 0
  /\ stop' = "closed"
  /\ Cancelled
  /\ UNCHANGED <<durable, queue, held, bytes, future, handler, trace,
                 persisted, dropped, failed, faults>>

\* Mutated form: the item in hand is forgotten.
UndeliveredQueue == Len(queue)

Undelivered == Buffered

\* The thread that the cancelled loop was waiting for runs to its end.
ThreadEnds ==
  \/ /\ At("create") /\ CreateRow
     /\ persisted' = persisted \cup (IF durable THEN {} ELSE {held})
  \/ /\ At("accept") /\ UNCHANGED trace
     /\ persisted' = persisted \cup {held}

\* The 30 seconds are over.
JoinTimeout ==
  /\ stop = "joining" /\ Buffered > 0
  /\ dropped' = dropped + Undelivered
  /\ stop' = "closed"
  /\ Cancelled
  /\ IF held = Nothing
     THEN UNCHANGED <<held, bytes, future, trace, persisted>>
     ELSE /\ SetResult("null") /\ Release
          /\ \/ UNCHANGED <<trace, persisted>>
             \/ ThreadEnds
  /\ UNCHANGED <<durable, queue, handler, failed, faults>>

-----------------------------------------------------------------------------
Next ==
  \/ \E c \in Calls :
       Request(c) \/ Upstream(c) \/ Resume(c) \/ Finish(c) \/ CancelHandler(c)
  \/ LoopStep
  \/ Stop \/ Joined \/ JoinTimeout

Spec == Init /\ [][Next]_vars

\* The event loop runs every task that can go on.  Nothing obliges a client
\* to call, a server to cancel or an operator to stop.
Fairness ==
  /\ WF_vars(LoopStep)
  /\ \A c \in Calls : WF_vars(Resume(c)) /\ WF_vars(Finish(c))

LiveSpec == Spec /\ Fairness

-----------------------------------------------------------------------------
InBuffer == ToSet(queue) \cup ({held} \ {Nothing})

\* The bytes reserved are those of the copies in the buffer, the one in hand
\* among them, and both limits hold; whatever failed, was cancelled or was
\* refused (gateway.py:483, 486, 585).
Bounded ==
  /\ bytes = SumFunctionOnSet(Size, InBuffer)
  /\ bytes <= MaxBytes /\ Buffered <= MaxEvents

\* The loop, the handlers and the buffer are in states the code has, and the
\* buffer's accounting is exact.
TypeOK ==
  /\ durable \in BOOLEAN
  /\ stop \in {"running", "joining", "closed"}
  /\ queue \in Seq(Items)
  /\ held \in Items \cup {Nothing}
  /\ loop \in {"waiting", "create", "accept", "resolve", "respond", "classify",
               "dead", "stopped"}
  /\ bytes \in Nat
  /\ future \in [Items -> {"none", "pending", "id", "null", "cancelled"}]
  /\ handler \in [Calls -> {"idle", "forwarding", "awaiting", "finishing", "done"}]
  /\ trace \in [Calls -> {"none", "created", "orphan", "answered"}]
  /\ persisted \subseteq Items
  /\ dropped \in Nat /\ failed \in Nat /\ faults \in 0..MaxFaults
  /\ Bounded

Offered  == {i \in Items : future[i] # "none"}
Lost     == Offered \ (persisted \cup (IF stop = "closed" THEN {} ELSE InBuffer))
Reported == dropped + failed

\* No copy disappears unreported, and the two counters report more than was
\* lost by at most the faults that followed a commit and the item in hand at
\* shutdown, which may be durable although counted (gateway.py:130, 579).
LossReported ==
  /\ Cardinality(Lost) <= Reported
  /\ Reported <= Cardinality(Lost) + faults + (IF stop = "closed" THEN 1 ELSE 0)

\* The audit loop of the encrypted mode survives every fault, and that of the
\* other mode is only killed by a failure after its item had its answer: the
\* second set_result of gateway.py:582.
LoopSurvives ==
  loop = "dead" => ~durable /\ failed > 0 /\ (\E i \in persisted : future[i] = "id")

\* A response found its trace missing only after the audit had done with the
\* request: the row it leaves is never met by its own request's create
\* (gateway.py:501, storage.py:435).
OrphanLast ==
  \A c \in Calls : trace[c] = "orphan" => Req(c) \notin InBuffer

\* A call that waits for its audit copy ends, unless the loop has died or
\* shutdown has given up on the queue (gateway.py:297).
AwaitEnds ==
  \A c \in Calls :
    handler[c] = "awaiting" ~> (handler[c] = "done" \/ loop \in {"dead", "stopped"})
=============================================================================
