----------------------------- MODULE EventIngress -----------------------------
(***************************************************************************)
(* Reliable acceptance of standard events: accept_standard_event of        *)
(* automode_gateway/event_ingress.py over the events table (storage.py)    *)
(* and the encrypted disk buffer (disk_buffer.py), with the first part of  *)
(* EventWorker.recover after a crash.                                      *)
(*                                                                         *)
(* One action is what runs between two suspension points: a synchronous    *)
(* stretch of the handler on the event loop, or one disk buffer operation  *)
(* in its thread, which holds the buffer's lock throughout.  HTTP handlers *)
(* are serialised by the ingress lock; the proxy persistence loop calls    *)
(* the same function with a lock of its own.                               *)
(*                                                                         *)
(* Abstracted: encryption, the temporary file (a write takes effect at its *)
(* os.replace; __init__ purges what a crash leaves), authentication and    *)
(* validation (module inputs are validated events), event_tasks.  What the *)
(* worker does with an accepted event is reduced to Complete, Release and  *)
(* Reopen; module EventWorker has the detail.                              *)
(***************************************************************************)
EXTENDS Naturals, FiniteSets, Functions

CONSTANTS
  Keys,            \* (source, external event ID) pairs
  Contents,        \* canonical event contents: equal iff payload_hash is equal
  Ids,             \* internal event UUIDs
  HttpHandlers,    \* concurrent POST /v1/events requests
  ProxyLoop,       \* the tasks that persist proxy audit events
  Size,            \* [Contents -> Nat], bytes of the encrypted file
  MaxEventBytes, MaxBufferBytes,
  MaxFaults,       \* bound: I/O and database errors injected
  MaxCrashes       \* bound: crashes

Handlers == HttpHandlers \cup ProxyLoop

NoFile == [none |-> TRUE]

ASSUME IngressAssumption ==
  /\ Size \in [Contents -> Nat]
  /\ MaxEventBytes \in Nat /\ MaxBufferBytes \in Nat
  /\ MaxFaults \in Nat /\ MaxCrashes \in Nat
  /\ IsFiniteSet(Ids)
  /\ NoFile \notin Contents

VARIABLES
  rows,       \* events: per key [state, id, content]
  files,      \* <id>.enc: the content of the file of each ID, or NoFile
  used,       \* DiskBuffer._used_bytes
  pc,         \* where each handler is
  req,        \* the event each handler is accepting: [key, content, id]
  answered,   \* the <<key, content>> pairs that were given a 202
  releasing,  \* the keys whose body a worker is about to delete
  finished,   \* history: the keys whose analysis has once finished
  lost,       \* history: the keys whose worker's loop ended before the deletion
  mode,       \* the process: "up", "down", "recovering"
  faults, crashes

\* What only the worker's part changes.
deletions == <<releasing, finished, lost>>

vars == <<rows, files, used, pc, req, answered, deletions, mode, faults, crashes>>

NoRow  == [state |-> "none"]
NoReq  == [none |-> TRUE]

\* processing_status, with everything after 'pending' that is not 'completed'
\* (processing, failed) left in "pending"; disk_buffer_path is set exactly in
\* the last two.
Row(s, i, c) == [state |-> s, id |-> i, content |-> c]
OnRecord(k)  == rows[k].state # "none"
IsAccepted(k) == rows[k].state \in {"pending", "completed"}

UsedBytes == SumFunction([i \in Ids |-> IF files[i] = NoFile THEN 0 ELSE Size[files[i]]])

Init ==
  /\ rows = [k \in Keys |-> NoRow]
  /\ files = [i \in Ids |-> NoFile]
  /\ used = 0
  /\ pc = [h \in Handlers |-> "idle"]
  /\ req = [h \in Handlers |-> NoReq]
  /\ answered = {}
  /\ releasing = {} /\ finished = {} /\ lost = {}
  /\ mode = "up"
  /\ faults = 0 /\ crashes = 0

-----------------------------------------------------------------------------
(* accept_standard_event. *)

\* The ingress lock is held by the HTTP handler that is past "idle".
LockFree(h) == h \in HttpHandlers => \A g \in HttpHandlers : pc[g] = "idle"

Goto(h, l) == pc' = [pc EXCEPT ![h] = l]
Return(h) == pc' = [pc EXCEPT ![h] = "idle"] /\ req' = [req EXCEPT ![h] = NoReq]

Fault == faults < MaxFaults /\ faults' = faults + 1
NoFault == UNCHANGED faults

\* uuid4: an ID nothing refers to (one that is forgotten may come again).
Fresh == {i \in Ids : files[i] = NoFile /\ \A k \in Keys : OnRecord(k) => rows[k].id # i}

\* reserve_event inserts; the unique index on (source_id, external_event_id)
\* makes it fail when the key has a row.
Reserve(h, k, c) ==
  /\ ~OnRecord(k)
  /\ \E i \in Fresh :
       /\ rows' = [rows EXCEPT ![k] = Row("persisting", i, c)]
       /\ req' = [req EXCEPT ![h] = [key |-> k, content |-> c, id |-> i]]
  /\ Goto(h, "write")
  /\ UNCHANGED answered

\* Mutated form: any event with this key is taken for a repetition.
DuplicateOfKey(h, k, c) ==
  /\ IsAccepted(k)
  /\ answered' = answered \cup {<<k, c>>}
  /\ UNCHANGED <<rows, pc, req>>

\* The same event again: 202 with its existing receipt.
Duplicate(h, k, c) ==
  /\ IsAccepted(k) /\ rows[k].content = c
  /\ answered' = answered \cup {<<k, c>>}
  /\ UNCHANGED <<rows, pc, req>>

\* 409 for other content under this key, 503 for one still being persisted.
Refuse(h, k, c) ==
  /\ OnRecord(k)
  /\ rows[k].content # c \/ rows[k].state = "persisting"
  /\ UNCHANGED <<rows, pc, req, answered>>

Submit(h) ==
  /\ mode = "up" /\ pc[h] = "idle" /\ LockFree(h)
  /\ \E k \in Keys, c \in Contents :
       Reserve(h, k, c) \/ Duplicate(h, k, c) \/ Refuse(h, k, c)
  /\ UNCHANGED <<files, used, deletions, mode, faults, crashes>>

\* DiskBuffer.write in its thread: too large, no room, an I/O error, or done.
\* (Both limits are in bytes of the file, a constant more than the plaintext.)
Fits(c) == Size[c] <= MaxEventBytes /\ used + Size[c] <= MaxBufferBytes

Write(h) ==
  /\ mode = "up" /\ pc[h] = "write"
  /\ LET c == req[h].content IN
     \/ /\ Fits(c)
        /\ files' = [files EXCEPT ![req[h].id] = c]
        /\ used' = used + Size[c]
        /\ Goto(h, "finalize") /\ NoFault
     \/ /\ ~Fits(c)
        /\ Goto(h, "unreserve") /\ NoFault
        /\ UNCHANGED <<files, used>>
     \/ /\ Goto(h, "unreserve") /\ Fault
        /\ UNCHANGED <<files, used>>
  /\ UNCHANGED <<rows, req, answered, deletions, mode, crashes>>

\* finalize_event_storage: the index entry is published, or the commit fails.
Finalize(h) ==
  /\ mode = "up" /\ pc[h] = "finalize"
  /\ \/ /\ rows' = [rows EXCEPT ![req[h].key].state = "pending"]
        /\ Goto(h, "answer") /\ NoFault
     \/ /\ Goto(h, "unlink") /\ Fault
        /\ UNCHANGED rows
  /\ UNCHANGED <<files, used, req, answered, deletions, mode, crashes>>

\* Mutated form: the 202 is given while the body is still on its way.
AnswerEarly(h) ==
  /\ mode = "up" /\ pc[h] \in {"write", "answer"}
  /\ answered' = answered \cup {<<req[h].key, req[h].content>>}
  /\ IF pc[h] = "answer" THEN Return(h) ELSE UNCHANGED <<pc, req>>
  /\ UNCHANGED <<rows, files, used, deletions, mode, faults, crashes>>

\* The rule stage is queued and the 202 is sent; a crash here loses it.
Answer(h) ==
  /\ mode = "up" /\ pc[h] = "answer"
  /\ answered' = answered \cup {<<req[h].key, req[h].content>>}
  /\ Return(h)
  /\ UNCHANGED <<rows, files, used, deletions, mode, faults, crashes>>

\* The except clause: async_delete of the written file ...
Unlink(h) ==
  /\ mode = "up" /\ pc[h] = "unlink"
  /\ \/ /\ files' = [files EXCEPT ![req[h].id] = NoFile]
        /\ used' = used - Size[req[h].content]
        /\ Goto(h, "unreserve") /\ UNCHANGED req /\ NoFault
     \/ /\ Return(h) /\ Fault
        /\ UNCHANGED <<files, used>>
  /\ UNCHANGED <<rows, answered, deletions, mode, crashes>>

\* ... and remove_event_reservation, which a second failure leaves in place.
Unreserve(h) ==
  /\ mode = "up" /\ pc[h] = "unreserve"
  /\ \/ /\ rows' = [rows EXCEPT ![req[h].key] = NoRow]
        /\ NoFault
     \/ /\ Fault
        /\ UNCHANGED rows
  /\ Return(h)
  /\ UNCHANGED <<files, used, answered, deletions, mode, crashes>>

-----------------------------------------------------------------------------
(* The worker's part. *)

\* A final status is committed ...
Complete(k) ==
  /\ mode = "up"
  /\ rows[k].state = "pending"
  /\ rows' = [rows EXCEPT ![k].state = "completed"]
  /\ releasing' = releasing \cup {k}
  /\ finished' = finished \cup {k}
  /\ lost' = lost \ {k}
  /\ UNCHANGED <<files, used, pc, req, answered, mode, faults, crashes>>

\* The worker that completed the event, whatever has become of the row since, or
\* recover's reaping of completed ones.
MayRelease(k) ==
  \/ mode = "recovering" /\ rows[k].state = "completed"
  \/ mode = "up" /\ k \in releasing

\* ... and then the body is deleted.
Deleted(k) ==
  /\ files' = [files EXCEPT ![rows[k].id] = NoFile]
  /\ used' = used - Size[rows[k].content]
  /\ releasing' = releasing \ {k}
  /\ NoFault /\ UNCHANGED <<rows, lost>>

\* A deletion that fails after the commit goes the way of any failure of the
\* stage: _handle_failure takes the event up again, or fails it, body and all.
DeletionFails(k) ==
  /\ mode = "up" /\ Fault
  /\ rows' = [rows EXCEPT ![k].state = "pending"]
  /\ releasing' = releasing \ {k}
  /\ UNCHANGED <<files, used, lost>>

\* If _handle_failure fails as well, the worker's loop ends: the event stays
\* completed, and its body is there until the next start reaps it.
DeletionLost(k) ==
  /\ mode = "up"
  /\ faults + 2 <= MaxFaults /\ faults' = faults + 2
  /\ releasing' = releasing \ {k}
  /\ lost' = lost \cup {k}
  /\ UNCHANGED <<rows, files, used>>

Release(k) ==
  /\ MayRelease(k)
  /\ files[rows[k].id] # NoFile
  /\ Deleted(k) \/ DeletionFails(k) \/ DeletionLost(k)
  /\ UNCHANGED <<pc, req, answered, finished, mode, crashes>>

\* Another failure takes a completed event up again: an operation of its worker
\* beside the deletion, or a worker that fails to look up an old queue entry of
\* the event.  A deletion under way goes on.
Reopen(k) ==
  /\ mode = "up" /\ Fault
  /\ rows[k].state = "completed"
  /\ rows' = [rows EXCEPT ![k].state = "pending"]
  /\ UNCHANGED <<files, used, pc, req, answered, deletions, mode, crashes>>

-----------------------------------------------------------------------------
(* Crashes and startup. *)

Crash ==
  /\ mode # "down" /\ crashes < MaxCrashes
  /\ mode' = "down" /\ crashes' = crashes + 1
  /\ pc' = [h \in Handlers |-> "idle"]
  /\ req' = [h \in Handlers |-> NoReq]
  /\ used' = 0 /\ releasing' = {} /\ lost' = {}
  /\ UNCHANGED <<rows, files, answered, finished, faults>>

\* Mutated form: the counter starts from zero.
RestartZero ==
  /\ mode = "down"
  /\ mode' = "recovering"
  /\ UNCHANGED <<rows, files, used, pc, req, answered, deletions, faults, crashes>>

\* DiskBuffer.__init__ counts the files it finds.
Restart ==
  /\ mode = "down"
  /\ mode' = "recovering"
  /\ used' = UsedBytes
  /\ UNCHANGED <<rows, files, pc, req, answered, deletions, faults, crashes>>

\* Mutated form: every reservation a crash left is dropped.
RecoverRowDrop(k) ==
  /\ mode = "recovering"
  /\ rows[k].state = "persisting"
  /\ rows' = [rows EXCEPT ![k] = NoRow]
  /\ UNCHANGED <<files, used, pc, req, answered, deletions, mode, faults, crashes>>

\* Mutated form: a reservation without a file is left as it is.
RecoverRowKeep(k) ==
  /\ mode = "recovering"
  /\ rows[k].state = "persisting" /\ files[rows[k].id] # NoFile
  /\ rows' = [rows EXCEPT ![k].state = "pending"]
  /\ UNCHANGED <<files, used, pc, req, answered, deletions, mode, faults, crashes>>

\* recover: a reservation whose file is there is finalized, another removed.
RecoverRow(k) ==
  /\ mode = "recovering"
  /\ rows[k].state = "persisting"
  /\ rows' = [rows EXCEPT ![k] =
                IF files[rows[k].id] # NoFile
                  THEN Row("pending", rows[k].id, rows[k].content) ELSE NoRow]
  /\ UNCHANGED <<files, used, pc, req, answered, deletions, mode, faults, crashes>>

\* Mutated form: startup does not reap.
ReadyWithoutReaping ==
  /\ mode = "recovering"
  /\ \A k \in Keys : rows[k].state # "persisting"
  /\ mode' = "up"
  /\ UNCHANGED <<rows, files, used, pc, req, answered, deletions, faults, crashes>>

\* Startup is over when nothing is left to finalize and nothing to reap.
Ready ==
  /\ mode = "recovering"
  /\ \A k \in Keys : /\ rows[k].state # "persisting"
                     /\ rows[k].state = "completed" => files[rows[k].id] = NoFile
  /\ mode' = "up"
  /\ UNCHANGED <<rows, files, used, pc, req, answered, deletions, faults, crashes>>

Handle(h) == Write(h) \/ Finalize(h) \/ Answer(h) \/ Unlink(h) \/ Unreserve(h)

Next ==
  \/ \E h \in Handlers : Submit(h) \/ Handle(h)
  \/ \E k \in Keys : Complete(k) \/ Release(k) \/ Reopen(k) \/ RecoverRow(k)
  \/ Crash \/ Restart \/ Ready

Spec == Init /\ [][Next]_vars

\* Fairness: a handler the event loop or a thread can continue is continued, the
\* worker releases what it completed, and a process that is down is started
\* again (docker-compose.yml: restart: unless-stopped) and recovers.
Fairness ==
  /\ \A h \in Handlers : WF_vars(Handle(h))
  /\ \A k \in Keys : WF_vars(Release(k)) /\ WF_vars(RecoverRow(k))
  /\ WF_vars(Restart) /\ WF_vars(Ready)

LiveSpec == Spec /\ Fairness

-----------------------------------------------------------------------------
(* Properties. *)

RowsOf(states) == [state : states, id : Ids, content : Contents]
Requests == [key : Keys, content : Contents, id : Ids]

StateTypes ==
  /\ rows \in [Keys -> {NoRow} \cup RowsOf({"persisting", "pending", "completed"})]
  /\ files \in [Ids -> {NoFile} \cup Contents]
  /\ pc \in [Handlers -> {"idle", "write", "finalize", "answer", "unlink", "unreserve"}]
  /\ req \in [Handlers -> {NoReq} \cup Requests]
  /\ answered \subseteq Keys \X Contents
  /\ releasing \subseteq Keys /\ finished \subseteq Keys /\ lost \subseteq Keys
  /\ mode \in {"up", "down", "recovering"}

\* Every variable has its type; the byte counter never goes below zero.
TypeOK ==
  /\ StateTypes
  /\ used \in Nat
  /\ faults \in 0..MaxFaults /\ crashes \in 0..MaxCrashes

\* Accepted, and never analysed to the end: an event a failure takes up again
\* after that may be without its body.
Unfinished(k) == rows[k].state = "pending" /\ k \notin finished

\* A 202 is a promise kept through crashes, restarts and errors: its event is
\* on record with the content the source sent, and the body is on disk until the
\* analysis has once finished.
AnsweredIsDurable ==
  \A p \in answered :
    /\ IsAccepted(p[1])
    /\ rows[p[1]].content = p[2]
    /\ Unfinished(p[1]) => files[rows[p[1]].id] = p[2]

\* No event that is still to be analysed lacks its body, 202 given or not.
PendingHasBody ==
  \A k \in Keys : Unfinished(k) => files[rows[k].id] = rows[k].content

\* No file is left that no row knows: nothing would ever delete it, and it
\* would count against the buffer for good.
FilesOwned ==
  \A i \in Ids : files[i] # NoFile =>
    \E k \in Keys : OnRecord(k) /\ rows[k].id = i /\ rows[k].content = files[i]

\* The events table and the disk agree through every fault, its undoing and
\* every crash: no row to be analysed without its body, no body without its row
\* (event_ingress.py:266-281, event_worker.py:131).
RowsMatchFiles == PendingHasBody /\ FilesOwned

\* The counter backpressure is decided on is the bytes really on disk, after
\* restarts, failures and overlapping writers too, and they never exceed the
\* configured maximum.
BufferAccounted ==
  /\ mode # "down" => used = UsedBytes
  /\ UsedBytes <= MaxBufferBytes

\* An event under reservation (503 to whoever sends it again) becomes accepted
\* or is given up, crashes included, as long as the database and the disk work.
ReservationResolved ==
  \A k \in Keys :
    rows[k].state = "persisting" ~> (rows[k].state # "persisting" \/ faults > 0)

\* The body of a completed event is deleted in the end, also when the process
\* died between the commit and the deletion, unless a failure after the commit
\* has taken the event up again or ended the loop of its worker; even then the
\* next start deletes the bodies of the completed.
BodyReleased ==
  \A k \in Keys : rows[k].state = "completed" ~>
    \/ rows[k].state = "completed" /\ files[rows[k].id] = NoFile
    \/ rows[k].state = "pending"
    \/ k \in lost

(***************************************************************************)
(* The abstract specification: a key's place in the inbox is its row once  *)
(* the row has a disk_buffer_path.                                         *)
(***************************************************************************)
PlaceOf(r) ==
  IF r.state = "pending" THEN [state |-> "accepted", content |-> r.content]
  ELSE IF r.state = "completed" THEN [state |-> "finished", content |-> r.content]
  ELSE [state |-> "none"]

InboxView == [k \in Keys |-> PlaceOf(rows[k])]

Inbox == INSTANCE ReliableInbox WITH inbox <- InboxView

\* Reservation, writing, undoing, crashing and recovering implement the
\* promise: every step accepts, answers, finishes or reopens one event, or is
\* invisible.
ImplementsInbox == Inbox!Spec
=============================================================================
