---------------------------- MODULE SessionGrouping ----------------------------
(***************************************************************************)
(* Which session a request joins, what the session then knows, and the     *)
(* regrouping of history: automode_gateway/storage.py (create,             *)
(* _upsert_session, backfill_sessions) and session_fingerprint.py.         *)
(*                                                                         *)
(* A call of TraceStore.create takes its time (Arrive), redacts the body,  *)
(* looks for a session (Look) and writes (Write): sqlite3 opens the        *)
(* transaction at the first write, so the SELECTs of _upsert_session run   *)
(* before it and what they saw may be stale.  The proxy has one audit      *)
(* loop, callers of analyze_request are many, and a backfill runs in a     *)
(* thread of the admin API or in a process of its own (cli.py): four       *)
(* steps, its regrouping and its final write each one transaction.  The    *)
(* lookup for its first row is taken with the transaction it opens.        *)
(*                                                                         *)
(* Abstracted: a message is an element of a set, and redaction replaces    *)
(* those that hold sensitive data by Redacted; the first message stands    *)
(* for the opener (first system and first user text); the authorization    *)
(* signals of a request are those of its messages that carry one; the      *)
(* protocols, models, tool calls and decision counts of a session, and     *)
(* the bound of 40 statements, are left out (ProxyTraces has the counts).  *)
(***************************************************************************)
EXTENDS Integers, Sequences, FiniteSets, FiniteSetsExt, SequencesExt

CONSTANTS
  MaxTraces,    \* trace IDs are 1 .. MaxTraces, used in this order
  Clients,      \* what the clients of one history send: sets of [ext, msgs]
  ExternalIds,  \* explicit session IDs
  Secrets,      \* messages that hold sensitive data
  Redacted,     \* what such a message is in a stored body
  Standing,     \* messages that grant or forbid something
  Window,       \* AUTOMODE_SESSION_FINGERPRINT_WINDOW_HOURS, in arrivals
  NoId, NoBody, NoRow, NoSession,
  MaxCalls, MaxOrphans, MaxBackfills   \* bounds: calls at a time, responses
                                       \* before their request, backfills

Traces     == 1 .. MaxTraces
SessionIds == 1 .. MaxTraces * (1 + MaxBackfills)
Times      == 0 .. 2 * MaxTraces
Redact(m)  == IF m \in Secrets THEN Redacted ELSE m
Stored(msgs) == [i \in DOMAIN msgs |-> Redact(msgs[i])]
Requests   == UNION Clients
Messages   == UNION {Range(r.msgs) : r \in Requests}
Lists      == {r.msgs : r \in Requests}
Bodies     == Lists \cup {Stored(msgs) : msgs \in Lists}

\* What the tables hold: the rows of traces and of sessions.
Rows     == [at : Times, ext : ExternalIds \cup {NoId}, body : Bodies \cup {NoBody},
             session : SessionIds \cup {NoSession}]
Sessions == [ext : ExternalIds \cup Traces \cup {NoId}, fp : Messages \cup {Redacted, NoId},
             seen : Times, calls : Nat, rules : SUBSET Standing]

ASSUME GroupingAssumption ==
  /\ MaxTraces \in Nat \ {0}
  /\ {Window, MaxCalls, MaxOrphans, MaxBackfills} \subseteq Nat
  /\ \A r \in Requests : r.ext \in ExternalIds \cup {NoId} /\ r.msgs \in Seq(Range(r.msgs))
  /\ ExternalIds \cap (Traces \cup {NoId}) = {} /\ Redacted \notin Messages \cup Standing
  /\ NoId \notin Traces \cup Messages \cup {Redacted} /\ NoBody \notin Bodies
  /\ NoRow \notin Rows /\ NoSession \notin SessionIds \cup Sessions
  /\ \A rules \in SUBSET Standing : NoSession # rules

VARIABLES
  storeRaw,   \* request bodies are stored
  requests,   \* what the clients send
  clock,      \* arrivals so far: created_at
  db,         \* the tables: rows (traces) and sessions, with the next session ID
  call,       \* calls of create
  backfill,   \* the backfill under way
  runs,       \* backfills so far
  crossed     \* history: calls that met another writer while they ran
vars == <<storeRaw, requests, clock, db, call, backfill, runs, crossed>>

Row(at, ext, body, session) ==
  [at |-> at, ext |-> ext, body |-> body, session |-> session]
NoCall == [stage |-> "none", ext |-> NoId, msgs |-> <<>>, at |-> 0, found |-> NoSession]
Idle   == [stage |-> "idle", rows |-> [t \in Traces |-> NoRow],
           rules |-> [s \in SessionIds |-> NoSession]]

Init ==
  /\ storeRaw \in BOOLEAN /\ requests \in Clients /\ clock = 0
  /\ db = [rows |-> [t \in Traces |-> NoRow], next |-> 1,
           sessions |-> [s \in SessionIds |-> NoSession]]
  /\ call = [t \in Traces |-> NoCall]
  /\ backfill = Idle /\ runs = 0
  /\ crossed = {}

Is(t, stage)   == call[t].stage = stage
Running        == {t \in Traces : call[t].stage \in {"arrived", "looked"}}
Kept(d)        == {t \in Traces : d.rows[t] # NoRow}
Live(d)        == {s \in SessionIds : d.sessions[s] # NoSession}
TracesOf(d, s) == {t \in Kept(d) : d.rows[t].session = s}

-----------------------------------------------------------------------------
(* Finding the session of a request. *)

\* conversation_fingerprint: of the opener.
Fingerprint(msgs) == IF msgs = <<>> THEN NoId ELSE Head(msgs)

\* Mutated form: any conversation with the same opener.
AnyLineage(previous, incoming) == TRUE
\* Mutated form: only a longer conversation continues a shorter one.
ForwardLineage(previous, incoming) == IsPrefix(previous, incoming)
\* messages_are_continuation, in either direction.
SameLineage(previous, incoming) ==
  \/ IsPrefix(previous, incoming)
  \/ IsPrefix(incoming, previous)

WithBody(d, s) == {t \in TracesOf(d, s) : d.rows[t].body # NoBody}
Newest(d, T)   == CHOOSE t \in T : \A u \in T : d.rows[u].at <= d.rows[t].at

\* _fingerprint_session_compatible: against the newest body of the session, or,
\* when it has none, by the time it was last seen.
Compatible(d, s, msgs) ==
  \/ msgs = <<>>
  \/ /\ WithBody(d, s) # {}
     /\ SameLineage(d.rows[Newest(d, WithBody(d, s))].body, msgs)
  \/ /\ WithBody(d, s) = {}
     /\ clock - d.sessions[s].seen <= Window

\* The one session under an external ID, the trace's own ID for the fallback.
Named(d, id) ==
  LET S == {s \in Live(d) : d.sessions[s].ext = id}
  IN IF S = {} THEN NoSession ELSE Min(S)

\* ORDER BY last_seen_at DESC LIMIT 1: of equals, the row inserted first.
LastSeen(d, fingerprint) ==
  LET S == {s \in Live(d) : d.sessions[s].fp = fingerprint}
      Latest == {s \in S : \A r \in S : d.sessions[r].seen <= d.sessions[s].seen}
  IN IF S = {} THEN NoSession ELSE Min(Latest)

\* Mutated form: the content decides before an explicit ID does.
LookupContent(d, t, ext, msgs) ==
  IF Fingerprint(msgs) = NoId THEN Named(d, IF ext = NoId THEN t ELSE ext)
  ELSE LastSeen(d, Fingerprint(msgs))
\* The SELECTs of _upsert_session.
Lookup(d, t, ext, msgs) ==
  LET candidate == LastSeen(d, Fingerprint(msgs))
  IN CASE ext # NoId -> Named(d, ext)
       [] ext = NoId /\ Fingerprint(msgs) # NoId ->
            IF candidate # NoSession /\ Compatible(d, candidate, msgs)
            THEN candidate ELSE NoSession
       [] OTHER -> Named(d, t)

-----------------------------------------------------------------------------
(* Writing it down. *)

\* Mutated form: the call is not counted.
TouchUncounted(d, s, at, fingerprint) ==
  IF s \notin Live(d) THEN d
  ELSE [d EXCEPT !.sessions[s].seen = at,
                 !.sessions[s].fp = IF fingerprint = NoId THEN @ ELSE fingerprint]
\* _touch_session, which finds nothing to update when the row is gone.
Touch(d, s, at, fingerprint) ==
  IF s \notin Live(d) THEN d
  ELSE [d EXCEPT !.sessions[s].seen = at, !.sessions[s].calls = @ + 1,
                 !.sessions[s].fp = IF fingerprint = NoId THEN @ ELSE fingerprint]

\* What a new session is called.
Naming(t, ext, msgs) ==
  CASE ext # NoId -> ext
    [] ext = NoId /\ Fingerprint(msgs) # NoId -> NoId
    [] OTHER -> t

\* _insert_session.
Insert(d, t, ext, msgs, at) ==
  [d EXCEPT !.next = @ + 1,
            !.sessions[d.next] = [ext |-> Naming(t, ext, msgs), fp |-> Fingerprint(msgs),
                                  seen |-> at, calls |-> 1, rules |-> {}]]

\* The writes of _upsert_session, with the session they leave the trace in.
Upsert(d, found, t, ext, msgs, at) ==
  IF found # NoSession
  THEN [db |-> Touch(d, found, at, Fingerprint(msgs)), session |-> found]
  ELSE [db |-> Insert(d, t, ext, msgs, at), session |-> d.next]

\* external_session_id is UNIQUE.
Refused(d, found, t, ext, msgs) ==
  /\ found = NoSession
  /\ Naming(t, ext, msgs) # NoId /\ Named(d, Naming(t, ext, msgs)) # NoSession

\* authorization_signals of a request.
Signals(msgs) == Range(msgs) \cap Standing

\* Mutated form: the latest request is all the session remembers.
MergeLatest(d, s, rules) ==
  IF s \notin Live(d) THEN d ELSE [d EXCEPT !.sessions[s].rules = rules]
\* _merge_authorization, in the transaction that touched the session.
Merge(d, s, rules) ==
  IF s \notin Live(d) THEN d ELSE [d EXCEPT !.sessions[s].rules = @ \cup rules]

Cross(T) == crossed' = crossed \cup T
\* A call that starts beside others, or while a backfill runs.
MeetsNow(t) ==
  IF Running \cup {t} # {t} \/ backfill.stage # "idle" THEN Running \cup {t} ELSE {}

-----------------------------------------------------------------------------
(* One action per step of a call. *)

Fresh(t) == t = 1 + Cardinality(Kept(db) \cup {u \in Traces : ~Is(u, "none")})
Orphans  == {t \in Kept(db) : Is(t, "none")}

\* create is called: created_at, and whatever comes before the connection.
Arrive(t, r) ==
  /\ Is(t, "none") /\ (Fresh(t) \/ t \in Orphans) /\ Cardinality(Running) < MaxCalls
  /\ clock' = clock + 1
  /\ call' = [call EXCEPT ![t] = [stage |-> "arrived", ext |-> r.ext, msgs |-> r.msgs,
                                  at |-> clock', found |-> NoSession]]
  /\ Cross(MeetsNow(t))
  /\ UNCHANGED <<storeRaw, requests, db, backfill, runs>>

Look(t) ==
  /\ Is(t, "arrived")
  /\ call' = [call EXCEPT ![t].stage = "looked",
                          ![t].found = Lookup(db, t, call[t].ext, call[t].msgs)]
  /\ UNCHANGED <<storeRaw, requests, clock, db, backfill, runs, crossed>>

\* The transaction of create: the session, its baseline, the trace (inserted, or
\* the orphan of a response that came first, which keeps its created_at).
Write(t) ==
  LET c    == call[t]
      done == Upsert(db, c.found, t, c.ext, c.msgs, c.at)
      at   == IF db.rows[t] = NoRow THEN c.at ELSE db.rows[t].at
      body == IF storeRaw THEN Stored(c.msgs) ELSE NoBody
  IN /\ Is(t, "looked") /\ ~Refused(db, c.found, t, c.ext, c.msgs)
     /\ db' = [Merge(done.db, done.session, Signals(c.msgs))
                 EXCEPT !.rows[t] = Row(at, c.ext, body, done.session)]
     /\ call' = [call EXCEPT ![t].stage = "stored"]
     /\ UNCHANGED <<storeRaw, requests, clock, backfill, runs, crossed>>

\* Another call inserted the same external ID in between: IntegrityError, and
\* everything is rolled back.
Refuse(t) ==
  /\ Is(t, "looked") /\ Refused(db, call[t].found, t, call[t].ext, call[t].msgs)
  /\ call' = [call EXCEPT ![t].stage = "refused"]
  /\ UNCHANGED <<storeRaw, requests, clock, db, backfill, runs, crossed>>

\* record_orphan_response: a response whose request has no trace.
Orphan(t) ==
  /\ Fresh(t) /\ Cardinality(Orphans) < MaxOrphans
  /\ clock' = clock + 1
  /\ db' = [db EXCEPT !.rows[t] = Row(clock', NoId, NoBody, NoSession)]
  /\ UNCHANGED <<storeRaw, requests, call, backfill, runs, crossed>>

-----------------------------------------------------------------------------
(* backfill_sessions. *)

Text(row) == IF row.body = NoBody THEN <<>> ELSE row.body

\* Its first transaction reads every trace.
ReadTraces ==
  /\ backfill.stage = "idle" /\ runs < MaxBackfills
  /\ runs' = runs + 1
  /\ backfill' = [Idle EXCEPT !.stage = "regroup", !.rows = db.rows]
  /\ Cross(Running)
  /\ UNCHANGED <<storeRaw, requests, clock, db, call>>

\* One trace, as it was read, resolved again.
Resolve(d, row, t) ==
  LET found == Lookup(d, t, row.ext, Text(row))
      done  == Upsert(d, found, t, row.ext, Text(row), row.at)
  IN IF done.session = row.session THEN done.db
     ELSE [done.db EXCEPT !.rows[t].session = done.session]

\* The traces it read, the oldest first.
Regrouped ==
  MapThenFoldSet(LAMBDA t, d : Resolve(d, backfill.rows[t], t), db,
                 LAMBDA t : t, LAMBDA T : Newest(backfill, T), Kept(backfill))

Regroup ==
  /\ backfill.stage = "regroup"
  /\ db' = Regrouped
  /\ backfill' = [Idle EXCEPT !.stage = "read"]
  /\ UNCHANGED <<storeRaw, requests, clock, call, runs, crossed>>

\* The baselines, from the bodies there are; NoSession where there is none.
Baseline(d, s) ==
  LET T == {t \in TracesOf(d, s) : Text(d.rows[t]) # <<>>}
  IN IF T = {} THEN NoSession ELSE UNION {Signals(d.rows[t].body) : t \in T}

ReadBaselines ==
  /\ backfill.stage = "read"
  /\ backfill' = [Idle EXCEPT !.stage = "write",
                              !.rules = [s \in SessionIds |-> Baseline(db, s)]]
  /\ UNCHANGED <<storeRaw, requests, clock, db, call, runs, crossed>>

\* Mutated form: what no body accounts for is deleted.
UnusedByBody(d) == {s \in Live(d) : WithBody(d, s) = {}}
\* DELETE ... NOT IN: with a NULL in the list no row qualifies.
Unused(d) ==
  IF TracesOf(d, NoSession) # {} THEN {}
  ELSE {s \in Live(d) : TracesOf(d, s) = {}}

\* _rebuild_session_aggregates.
Rebuilt(d, s) ==
  [d.sessions[s] EXCEPT !.calls = Cardinality(TracesOf(d, s)),
                        !.seen = Max({d.rows[t].at : t \in TracesOf(d, s)})]

\* The last transaction: baselines, deletion, aggregates.
Rebuild ==
  LET Session(s) ==
        LET old == db.sessions[s]
            new == IF backfill.rules[s] = NoSession THEN old
                   ELSE [old EXCEPT !.rules = backfill.rules[s]]
        IN CASE s \notin Live(db) \/ s \in Unused(db) -> NoSession
             [] s \in Live(db) \ Unused(db) /\ TracesOf(db, s) = {} -> new
             [] OTHER -> Rebuilt([db EXCEPT !.sessions[s] = new], s)
  IN /\ backfill.stage = "write"
     /\ db' = [db EXCEPT !.sessions = [s \in SessionIds |-> Session(s)]]
     /\ backfill' = Idle
     /\ UNCHANGED <<storeRaw, requests, clock, call, runs, crossed>>

Next ==
  \/ \E t \in Traces :
       \/ \E r \in requests : Arrive(t, r)
       \/ Look(t) \/ Write(t) \/ Refuse(t) \/ Orphan(t)
  \/ ReadTraces \/ Regroup \/ ReadBaselines \/ Rebuild

Spec == Init /\ [][Next]_vars

-----------------------------------------------------------------------------
(* Properties. *)

\* A trace belongs to a session that exists, whatever backfill deletes beside
\* it.  (A call that met a backfill may touch a session that is gone.)
SessionKept ==
  \A t \in Kept(db) \ crossed :
    db.rows[t].session # NoSession => db.rows[t].session \in Live(db)

\* The tables hold what the code writes into them, and no reference dangles.
TypeOK ==
  /\ storeRaw \in BOOLEAN /\ requests \in Clients /\ clock \in Times /\ runs \in 0 .. MaxBackfills
  /\ db.next \in 1 .. Cardinality(SessionIds) + 1
  /\ \A s \in SessionIds : db.sessions[s] # NoSession =>
       s < db.next /\ db.sessions[s] \in Sessions
  /\ \A t \in Kept(db) : db.rows[t] \in Rows
  /\ crossed \subseteq Traces
  /\ SessionKept

\* Requests with an explicit ID share a session if and only if they share the
\* ID, before and after a backfill.
ExplicitIdDecides ==
  \A t, u \in Kept(db) \ crossed :
    db.rows[t].ext # NoId /\ db.rows[u].ext # NoId =>
      (db.rows[t].ext = db.rows[u].ext <=> db.rows[t].session = db.rows[u].session)

\* call_count is the number of the session's traces whenever no backfill is in
\* its middle, whatever calls ran beside it.  (Not where a backfill met an
\* orphan: it gives the orphan a session, and counts its request there again,
\* and an orphan it has not read keeps emptied sessions from being deleted.)
CallsCounted ==
  /\ backfill.stage = "idle"
  /\ runs = 0 \/ \A t \in Kept(db) : db.rows[t].at = call[t].at
  => \A s \in Live(db) : TracesOf(db, s) # {} =>
       db.sessions[s].calls = Cardinality(TracesOf(db, s))

\* Standing instructions stay in force: the session's baseline holds what each
\* of its traces carried, again once a backfill is over, if bodies are stored.
InstructionsKept ==
  storeRaw /\ backfill.stage = "idle" =>
    \A t \in Kept(db) \ crossed :
      db.rows[t].session # NoSession /\ db.rows[t].body # NoBody =>
        Signals(db.rows[t].body) \subseteq db.sessions[db.rows[t].session].rules

\* A conversation whose client sends no ID, whose opener nobody else uses and
\* which holds nothing sensitive is one session, and a backfill keeps it one.
OneConversation ==
  storeRaw =>
    \A o \in Messages \ Secrets :
      LET T == {t \in Kept(db) : Is(t, "stored") /\ Fingerprint(call[t].msgs) = o}
      IN (/\ \A t \in T : call[t].ext = NoId /\ Range(call[t].msgs) \cap Secrets = {}
          /\ \A t, u \in T : \/ IsPrefix(call[t].msgs, call[u].msgs)
                             \/ IsPrefix(call[u].msgs, call[t].msgs)
          /\ T \cap crossed = {})
         => \A t, u \in T : db.rows[t].session = db.rows[u].session

\* Of two bodies one continues the other, or both continue that of a third trace.
Bridged(T) ==
  \A t, u \in T :
    \/ IsPrefix(db.rows[t].body, db.rows[u].body)
    \/ IsPrefix(db.rows[u].body, db.rows[t].body)
    \/ \E b \in T : /\ IsPrefix(db.rows[b].body, db.rows[t].body)
                    /\ IsPrefix(db.rows[b].body, db.rows[u].body)

\* Two requests without an ID whose conversations diverged share a session only
\* over a third one that both continue, whatever calls run beside each other,
\* until there is a backfill.  (A backfill may move that third one elsewhere.)
DivergentBridged ==
  runs = 0 =>
    \A s \in Live(db) :
      (\A t \in TracesOf(db, s) : db.rows[t].ext = NoId /\ db.rows[t].body # NoBody) =>
        Bridged(TracesOf(db, s))

\* "A divergent conversation (different content after the shared opener) fails
\* the check and starts its own session", session_fingerprint.py:41-42.
DivergentApart ==
  \A t, u \in Kept(db) \ crossed :
    /\ db.rows[t].ext = NoId /\ db.rows[u].ext = NoId
    /\ db.rows[t].body # NoBody /\ db.rows[u].body # NoBody
    /\ db.rows[t].session = db.rows[u].session
    => \/ IsPrefix(db.rows[t].body, db.rows[u].body)
       \/ IsPrefix(db.rows[u].body, db.rows[t].body)
================================================================================
