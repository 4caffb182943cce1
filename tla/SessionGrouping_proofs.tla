------------------------ MODULE SessionGrouping_proofs ------------------------
EXTENDS SessionGrouping, OperatorLemmas, SequenceTheorems

\* The tables, the calls and the backfill, with what they are made of.
Databases == [rows : [Traces -> Rows \cup {NoRow}], next : Nat \ {0},
              sessions : [SessionIds -> Sessions \cup {NoSession}]]
Texts == Lists \cup Bodies \cup {<<>>}
Ids   == ExternalIds \cup {NoId}
CallRecords == [stage : {"none", "arrived", "looked", "stored", "refused"}, ext : Ids,
                msgs : Lists \cup {<<>>}, at : Times, found : SessionIds \cup {NoSession}]
BackfillRecords == [stage : {"idle", "regroup", "read", "write"},
                    rows : [Traces -> Rows \cup {NoRow}],
                    rules : [SessionIds -> (SUBSET Standing) \cup {NoSession}]]

-----------------------------------------------------------------------------
(* Numbers and texts. *)

\* A function with integer values on a nonempty finite set is largest somewhere.
LEMMA LargestAt ==
  ASSUME NEW S, IsFiniteSet(S), S # {}, NEW f
  PROVE  (\A x \in S : f[x] \in Int) => \E x \in S : \A y \in S : f[y] <= f[x]
<1>. DEFINE Above(x) == {y \in S : f[y] > f[x]}
            C == {Above(x) : x \in S}
<1>1. PICK m \in C : \A t \in C : t \subseteq m => t = m
  <2>. HIDE DEF C
  <2>1. C \in SUBSET SUBSET S
    BY DEF C
  <2>2. C # {}
    BY DEF C
  <2>. QED BY <2>1, <2>2, MinimalSubset
<1>2. PICK x \in S : m = Above(x)
  OBVIOUS
<1>. HAVE \A y \in S : f[y] \in Int
<1>3. \A y \in S : f[y] <= f[x]
  <2>. SUFFICES ASSUME NEW y \in S, f[y] > f[x] PROVE FALSE
    OBVIOUS
  <2>1. \A z \in S : f[z] > f[y] => f[z] > f[x]
    OBVIOUS
  <2>2. Above(y) = Above(x)
    <3>1. Above(y) \subseteq Above(x)
      BY <2>1
    <3>. QED BY <1>1, <1>2, <3>1
  <2>3. y \in Above(x) /\ y \notin Above(y)
    OBVIOUS
  <2>. QED BY <2>2, <2>3
<1>. QED BY <1>3

\* Max and Min of the community modules are the extremes of a finite set.
LEMMA MaxOfSet ==
  ASSUME NEW S, IsFiniteSet(S), S # {}
  PROVE  S \subseteq Int => Max(S) \in S /\ \A y \in S : y <= Max(S)
<1>. DEFINE f == [x \in S |-> x]
<1>1. (\A x \in S : f[x] \in Int) => \E x \in S : \A y \in S : f[y] <= f[x]
  <2>. HIDE DEF f
  <2>. QED BY LargestAt
<1>2. S \subseteq Int => \E x \in S : \A y \in S : x >= y
  BY <1>1
<1>. QED BY <1>2 DEF Max

\* The same for Min.
LEMMA MinOfSet ==
  ASSUME NEW S, IsFiniteSet(S), S # {}
  PROVE  S \subseteq Int => Min(S) \in S /\ \A y \in S : Min(S) <= y
<1>. DEFINE f == [x \in S |-> -x]
<1>1. (\A x \in S : f[x] \in Int) => \E x \in S : \A y \in S : f[y] <= f[x]
  <2>. HIDE DEF f
  <2>. QED BY LargestAt
<1>2. S \subseteq Int => \E x \in S : \A y \in S : x =< y
  BY <1>1
<1>. QED BY <1>2 DEF Min

\* Trace IDs and session IDs are finitely many, and this is how many.
LEMMA Numbers ==
  /\ Traces \subseteq Nat \ {0} /\ IsFiniteSet(Traces) /\ Cardinality(Traces) = MaxTraces
  /\ SessionIds \subseteq Nat \ {0} /\ IsFiniteSet(SessionIds)
  /\ MaxTraces * (1 + MaxBackfills) \in Nat
  /\ Cardinality(SessionIds) = MaxTraces * (1 + MaxBackfills)
  /\ Times \subseteq Nat
  /\ MaxTraces \in Nat \ {0} /\ MaxBackfills \in Nat
<1>1. MaxTraces \in Nat \ {0} /\ MaxBackfills \in Nat
  BY GroupingAssumption
<1>2. MaxTraces * (1 + MaxBackfills) \in Nat
  BY <1>1
<1>3. IsFiniteSet(Traces) /\ Cardinality(Traces) = MaxTraces
  BY <1>1, FS_Interval DEF Traces
<1>. DEFINE n == MaxTraces * (1 + MaxBackfills)
<1>4. IsFiniteSet(1 .. n) /\ Cardinality(1 .. n) = n
  <2>. HIDE DEF n
  <2>1. n \in Nat
    BY <1>2 DEF n
  <2>. QED BY <2>1, FS_Interval
<1>5. Traces \subseteq Nat \ {0} /\ Times \subseteq Nat
  BY <1>1 DEF Traces, Times
<1>6. SessionIds \subseteq Nat \ {0}
  BY <1>2 DEF SessionIds
<1>. QED BY <1>1, <1>2, <1>3, <1>4, <1>5, <1>6 DEF SessionIds

\* A set of traces is finite, and no larger than Traces.
LEMMA TraceSet ==
  ASSUME NEW T \in SUBSET Traces
  PROVE  IsFiniteSet(T) /\ Cardinality(T) \in 0 .. MaxTraces
<1>1. IsFiniteSet(T) /\ Cardinality(T) <= MaxTraces
  BY Numbers, FS_Subset
<1>2. Cardinality(T) \in Nat
  BY <1>1, FS_CardinalityType
<1>. QED BY <1>1, <1>2, Numbers

\* What a client sends and what is stored of it are sequences, one redacted
\* element by element.
LEMMA TextSequences ==
  /\ \A msgs \in Lists : msgs \in Seq(Messages)
  /\ \A msgs \in Texts : msgs \in Seq(Messages \cup {Redacted})
<1>1. ASSUME NEW msgs \in Lists PROVE msgs \in Seq(Messages)
  <2>1. PICK r \in Requests : msgs = r.msgs
    BY DEF Lists
  <2>2. msgs \in Seq(Range(msgs)) /\ Range(msgs) \subseteq Messages
    BY <2>1, GroupingAssumption DEF Messages
  <2>. QED BY <2>2
<1>2. ASSUME NEW msgs \in Lists PROVE Stored(msgs) \in Seq(Messages \cup {Redacted})
  <2>1. msgs \in Seq(Messages)
    BY <1>1
  <2>2. DOMAIN msgs = 1 .. Len(msgs) /\ Len(msgs) \in Nat
    BY <2>1
  <2>3. \A i \in DOMAIN msgs : Redact(msgs[i]) \in Messages \cup {Redacted}
    BY <2>1 DEF Redact
  <2>. QED BY <2>2, <2>3 DEF Stored
<1>3. <<>> \in Seq(Messages \cup {Redacted})
  OBVIOUS
<1>4. \A msgs \in Seq(Messages) : msgs \in Seq(Messages \cup {Redacted})
  OBVIOUS
<1>. QED BY <1>1, <1>2, <1>3, <1>4 DEF Texts, Bodies

\* The fingerprint of a text, and what is stored of one that is empty.
LEMMA FingerprintType ==
  ASSUME NEW msgs \in Texts
  PROVE  /\ Fingerprint(msgs) \in Messages \cup {Redacted, NoId}
         /\ Fingerprint(msgs) = NoId <=> msgs = <<>>
         /\ msgs # <<>> => Fingerprint(msgs) = msgs[1]
<1>1. msgs \in Seq(Messages \cup {Redacted})
  BY TextSequences
<1>2. msgs # <<>> => Head(msgs) = msgs[1] /\ msgs[1] \in Messages \cup {Redacted}
  BY <1>1
<1>3. NoId \notin Messages \cup {Redacted}
  BY GroupingAssumption
<1>. QED BY <1>2, <1>3 DEF Fingerprint

-----------------------------------------------------------------------------
(* The lookups. *)

\* Named finds the one session under an ID, or there is none.
LEMMA NamedSession ==
  ASSUME NEW d \in Databases, NEW id
  PROVE  \/ /\ Named(d, id) = NoSession
            /\ \A s \in Live(d) : d.sessions[s].ext # id
         \/ /\ Named(d, id) \in Live(d)
            /\ d.sessions[Named(d, id)].ext = id
<1>. DEFINE S == {s \in Live(d) : d.sessions[s].ext = id}
<1>1. CASE S = {}
  BY <1>1 DEF Named
<1>2. CASE S # {}
  <2>0. S \subseteq SessionIds
    BY DEF Live
  <2>1. S \subseteq Int /\ IsFiniteSet(S)
    <3>. HIDE DEF S
    <3>1. S \subseteq Int
      BY <2>0, Numbers
    <3>. QED BY <2>0, <3>1, Numbers, FS_Subset, Zenon
  <2>2. Min(S) \in S
    BY <1>2, <2>1, MinOfSet
  <2>3. Named(d, id) = Min(S)
    BY <1>2 DEF Named
  <2>. QED BY <2>2, <2>3
<1>. QED BY <1>1, <1>2

\* LastSeen finds a session with the fingerprint, or there is none.
LEMMA LastSeenSession ==
  ASSUME NEW d \in Databases, NEW fp
  PROVE  \/ /\ LastSeen(d, fp) = NoSession
            /\ \A s \in Live(d) : d.sessions[s].fp # fp
         \/ /\ LastSeen(d, fp) \in Live(d)
            /\ d.sessions[LastSeen(d, fp)].fp = fp
<1>. DEFINE S == {s \in Live(d) : d.sessions[s].fp = fp}
            seen == [s \in S |-> d.sessions[s].seen]
            Latest == {s \in S : \A r \in S : d.sessions[r].seen <= d.sessions[s].seen}
<1>1. CASE S = {}
  BY <1>1 DEF LastSeen
<1>2. CASE S # {}
  <2>1. S \subseteq SessionIds /\ IsFiniteSet(S)
    <3>1. S \subseteq SessionIds
      BY DEF Live
    <3>. QED BY <3>1, Numbers, FS_Subset
  <2>2. \A s \in S : seen[s] \in Int
    <3>1. \A s \in S : d.sessions[s] \in Sessions
      BY <2>1 DEF Databases, Live
    <3>2. \A s \in S : seen[s] \in Times
      BY <3>1 DEF Sessions
    <3>3. Times \subseteq Int
      BY Numbers
    <3>. HIDE DEF S, seen
    <3>. QED BY <3>2, <3>3, Zenon
  <2>3. PICK s \in S : \A r \in S : seen[r] <= seen[s]
    <3>. HIDE DEF seen, S
    <3>. QED BY <1>2, <2>1, <2>2, LargestAt
  <2>4. Latest # {}
    BY <2>3
  <2>5. Latest \subseteq Int /\ IsFiniteSet(Latest)
    <3>1. Latest \subseteq SessionIds
      BY <2>1
    <3>. HIDE DEF Latest, S
    <3>2. Latest \subseteq Int
      BY <3>1, Numbers
    <3>. QED BY <3>1, <3>2, Numbers, FS_Subset, Zenon
  <2>6. Min(Latest) \in Latest
    <3>. HIDE DEF Latest
    <3>. QED BY <2>4, <2>5, MinOfSet
  <2>7. LastSeen(d, fp) = Min(Latest)
    BY <1>2 DEF LastSeen
  <2>. QED BY <2>6, <2>7
<1>. QED BY <1>1, <1>2

\* A lookup finds a session that exists, one with the client's ID if it gave one;
\* where it finds none, nothing bears the name a new session would get.
LEMMA LookupSession ==
  ASSUME NEW d \in Databases, NEW t \in Traces, NEW ext \in Ids, NEW msgs \in Texts
  PROVE  LET found == Lookup(d, t, ext, msgs)
         IN /\ found \in Live(d) \cup {NoSession}
            /\ found # NoSession /\ ext # NoId => d.sessions[found].ext = ext
            /\ found = NoSession /\ Naming(t, ext, msgs) # NoId =>
                 \A s \in Live(d) : d.sessions[s].ext # Naming(t, ext, msgs)
<1>. DEFINE found == Lookup(d, t, ext, msgs)
<1>1. CASE ext # NoId
  <2>1. found = Named(d, ext) /\ Naming(t, ext, msgs) = ext
    BY <1>1 DEF Lookup, Naming
  <2>. HIDE DEF found
  <2>2. \/ found = NoSession /\ \A s \in Live(d) : d.sessions[s].ext # ext
        \/ found \in Live(d) /\ d.sessions[found].ext = ext
    BY <2>1, NamedSession
  <2>3. found \in Live(d) => found # NoSession
    BY GroupingAssumption DEF Live
  <2>. QED BY <2>1, <2>2, <2>3 DEF found
<1>2. CASE ext = NoId /\ Fingerprint(msgs) # NoId
  <2>1. found \in {LastSeen(d, Fingerprint(msgs)), NoSession} /\ Naming(t, ext, msgs) = NoId
    BY <1>2 DEF Lookup, Naming
  <2>2. LastSeen(d, Fingerprint(msgs)) \in Live(d) \cup {NoSession}
    BY LastSeenSession
  <2>. QED BY <1>2, <2>1, <2>2
<1>3. CASE ext = NoId /\ Fingerprint(msgs) = NoId
  <2>1. found = Named(d, t) /\ Naming(t, ext, msgs) = t
    BY <1>3 DEF Lookup, Naming
  <2>. HIDE DEF found
  <2>2. \/ found = NoSession /\ \A s \in Live(d) : d.sessions[s].ext # t
        \/ found \in Live(d)
    BY <2>1, NamedSession
  <2>3. found \in Live(d) => found # NoSession
    BY GroupingAssumption DEF Live
  <2>. QED BY <1>3, <2>1, <2>2, <2>3 DEF found
<1>. QED BY <1>1, <1>2, <1>3

-----------------------------------------------------------------------------
(* What the writes make of the tables. *)

\* A database is its three tables.
LEMMA DatabaseFields ==
  ASSUME NEW d \in Databases
  PROVE  /\ d = [rows |-> d.rows, next |-> d.next, sessions |-> d.sessions]
         /\ d.rows \in [Traces -> Rows \cup {NoRow}]
         /\ d.next \in Nat \ {0}
         /\ d.sessions \in [SessionIds -> Sessions \cup {NoSession}]
         /\ Live(d) \subseteq SessionIds
         /\ \A s \in Live(d) : d.sessions[s] \in Sessions
         /\ Kept(d) \subseteq Traces
         /\ \A t \in Kept(d) : d.rows[t] \in Rows
BY DEF Databases, Live, Kept

\* An update keeps what it does not name.
LEMMA TouchedFields ==
  ASSUME NEW r \in Sessions, NEW at, NEW fp, NEW calls,
         NEW u, u = [r EXCEPT !.seen = at, !.calls = calls, !.fp = fp]
  PROVE  u = [ext |-> r.ext, fp |-> fp, seen |-> at, calls |-> calls, rules |-> r.rules]
BY DEF Sessions

\* Only the rules change.
LEMMA RulesFields ==
  ASSUME NEW r \in Sessions, NEW rules, NEW u, u = [r EXCEPT !.rules = rules]
  PROVE  u = [ext |-> r.ext, fp |-> r.fp, seen |-> r.seen, calls |-> r.calls, rules |-> rules]
BY DEF Sessions

\* Only the session of a row changes.
LEMMA RowFields ==
  ASSUME NEW r \in Rows, NEW s, NEW u, u = [r EXCEPT !.session = s]
  PROVE  u = [at |-> r.at, ext |-> r.ext, body |-> r.body, session |-> s]
BY DEF Rows

\* What _touch_session makes of the row of a session.
Touched(r, at, fp) ==
  [ext |-> r.ext, fp |-> IF fp = NoId THEN r.fp ELSE fp, seen |-> at,
   calls |-> r.calls + 1, rules |-> r.rules]
\* And what _insert_session makes.
Inserted(t, ext, msgs, at) ==
  [ext |-> Naming(t, ext, msgs), fp |-> Fingerprint(msgs), seen |-> at, calls |-> 1, rules |-> {}]
\* The tables with a session s of the row r.
WithSession(d, s, r, next) ==
  [rows |-> d.rows, next |-> next, sessions |-> [d.sessions EXCEPT ![s] = r]]

\* _touch_session replaces the row of one session.
LEMMA TouchEffect ==
  ASSUME NEW d \in Databases, NEW s \in Live(d), NEW at, NEW fp
  PROVE  Touch(d, s, at, fp) = WithSession(d, s, Touched(d.sessions[s], at, fp), d.next)
<1>. DEFINE r == d.sessions[s]
            fp2 == IF fp = NoId THEN r.fp ELSE fp
            new == [r EXCEPT !.seen = at, !.calls = r.calls + 1, !.fp = fp2]
<1>1. s \in SessionIds /\ r \in Sessions
  BY DatabaseFields
<1>2. new = Touched(r, at, fp)
  <2>. HIDE DEF r
  <2>1. new = [ext |-> r.ext, fp |-> fp2, seen |-> at, calls |-> r.calls + 1, rules |-> r.rules]
    BY <1>1, TouchedFields, ZenonT(30)
  <2>. QED BY <2>1 DEF Touched
<1>4. PICK u : u = [d EXCEPT !.sessions[s].seen = at]
  OBVIOUS
<1>5. PICK v : v = [u EXCEPT !.sessions[s].calls = r.calls + 1]
  OBVIOUS
<1>6. PICK w : w = [v EXCEPT !.sessions[s].fp = fp2]
  OBVIOUS
<1>. DEFINE ru == [r EXCEPT !.seen = at]
            rv == [ru EXCEPT !.calls = r.calls + 1]
            rw == [rv EXCEPT !.fp = fp2]
            f  == [d.sessions EXCEPT ![s] = ru]
            g  == [f EXCEPT ![s] = rv]
            h  == [g EXCEPT ![s] = rw]
<1>7. f[s] = ru /\ g[s] = rv /\ h = [d.sessions EXCEPT ![s] = rw]
  <2>. HIDE DEF ru, rv, rw
  <2>. QED BY <1>1, DatabaseFields
<1>8. rw = new
  <2>. HIDE DEF r
  <2>. QED BY <1>1 DEF Sessions
<1>9. Touch(d, s, at, fp) = w
  BY <1>4, <1>5, <1>6 DEF Touch
<1>. HIDE DEF new, fp2
<1>10. u = [rows |-> d.rows, next |-> d.next, sessions |-> f]
  BY <1>4, DatabaseFields
<1>. HIDE DEF f
<1>11. v = [rows |-> d.rows, next |-> d.next, sessions |-> g]
  <2>. HIDE DEF ru
  <2>. QED BY <1>5, <1>7, <1>10
<1>. HIDE DEF g, rv
<1>12. w = [rows |-> d.rows, next |-> d.next, sessions |-> h]
  BY <1>6, <1>7, <1>11
<1>. HIDE DEF h, rw, r
<1>13. w = [rows |-> d.rows, next |-> d.next, sessions |-> [d.sessions EXCEPT ![s] = new]]
  BY <1>7, <1>8, <1>12
<1>. QED BY <1>2, <1>9, <1>13 DEF WithSession, r

\* _insert_session gives one session a row, and takes the next ID for it.
LEMMA InsertEffect ==
  ASSUME NEW d \in Databases, NEW t, NEW ext, NEW msgs, NEW at
  PROVE  Insert(d, t, ext, msgs, at)
           = WithSession(d, d.next, Inserted(t, ext, msgs, at), d.next + 1)
<1>. DEFINE new == Inserted(t, ext, msgs, at)
<1>1. PICK u : u = Insert(d, t, ext, msgs, at)
  OBVIOUS
<1>2. u = [d EXCEPT !.next = @ + 1, !.sessions[d.next] = new]
  BY <1>1 DEF Insert, Inserted
<1>. HIDE DEF new
<1>3. u = [d EXCEPT !.next = d.next + 1, !.sessions = [d.sessions EXCEPT ![d.next] = new]]
  BY <1>2, DatabaseFields
<1>. QED BY <1>1, <1>3, DatabaseFields DEF WithSession, new

\* Both are rows of sessions.
LEMMA SessionTypes ==
  /\ \A r \in Sessions, at \in Times, fp \in Messages \cup {Redacted, NoId} :
       Touched(r, at, fp) \in Sessions
  /\ \A t \in Traces, ext \in Ids, msgs \in Texts, at \in Times :
       Inserted(t, ext, msgs, at) \in Sessions
<1>1. ASSUME NEW r \in Sessions, NEW at \in Times, NEW fp \in Messages \cup {Redacted, NoId}
      PROVE  Touched(r, at, fp) \in Sessions
  BY DEF Touched, Sessions
<1>2. ASSUME NEW t \in Traces, NEW ext \in Ids, NEW msgs \in Texts, NEW at \in Times
      PROVE  Inserted(t, ext, msgs, at) \in Sessions
  <2>1. Naming(t, ext, msgs) \in ExternalIds \cup Traces \cup {NoId}
    BY DEF Naming, Ids
  <2>. QED BY <2>1, FingerprintType DEF Inserted, Sessions
<1>. QED BY <1>1, <1>2

\* The traces and the other sessions stay.
LEMMA WithSessionFields ==
  ASSUME NEW d \in Databases, NEW s \in SessionIds, NEW r \in Sessions, NEW next \in Nat \ {0},
         NEW e, e = WithSession(d, s, r, next)
  PROVE  /\ e \in Databases
         /\ e.rows = d.rows /\ e.next = next
         /\ e.sessions[s] = r
         /\ \A q \in SessionIds \ {s} : e.sessions[q] = d.sessions[q]
         /\ Live(e) = Live(d) \cup {s}
         /\ Kept(e) = Kept(d) /\ \A q : TracesOf(e, q) = TracesOf(d, q)
<1>1. e.rows = d.rows /\ e.next = next /\ e.sessions = [d.sessions EXCEPT ![s] = r]
  BY DEF WithSession
<1>2. e \in Databases
  BY DEF WithSession, Databases
<1>3. e.sessions[s] = r /\ \A q \in SessionIds \ {s} : e.sessions[q] = d.sessions[q]
  BY <1>1, DatabaseFields
<1>4. Live(e) = Live(d) \cup {s}
  <2>1. r # NoSession
    BY GroupingAssumption
  <2>. QED BY <1>3, <2>1 DEF Live
<1>5. Kept(e) = Kept(d) /\ \A q : TracesOf(e, q) = TracesOf(d, q)
  BY <1>1 DEF Kept, TracesOf
<1>. QED BY <1>1, <1>2, <1>3, <1>4, <1>5

\* A request joins the session s, whose row becomes r: one that was found, or a
\* new one.
Joins(d, found, t, ext, msgs, at, s, r, next) ==
  \/ /\ found \in Live(d) /\ s = found /\ next = d.next
     /\ r = Touched(d.sessions[s], at, Fingerprint(msgs))
  \/ /\ found = NoSession /\ s = d.next /\ next = d.next + 1
     /\ r = Inserted(t, ext, msgs, at)

\* _upsert_session makes the request join one session.
LEMMA UpsertEffect ==
  ASSUME NEW d \in Databases, NEW t \in Traces, NEW ext \in Ids, NEW msgs \in Texts,
         NEW at \in Times, NEW found \in Live(d) \cup {NoSession},
         found = NoSession => d.next \in SessionIds
  PROVE  \E s \in SessionIds, r \in Sessions, next \in Nat \ {0} :
           /\ Upsert(d, found, t, ext, msgs, at)
                = [db |-> WithSession(d, s, r, next), session |-> s]
           /\ Joins(d, found, t, ext, msgs, at, s, r, next)
<1>1. CASE found \in Live(d)
  <2>1. found # NoSession
    BY <1>1, GroupingAssumption DEF Live
  <2>. DEFINE r == Touched(d.sessions[found], at, Fingerprint(msgs))
  <2>2. r \in Sessions
    BY <1>1, DatabaseFields, FingerprintType, SessionTypes
  <2>3. Upsert(d, found, t, ext, msgs, at)
          = [db |-> WithSession(d, found, r, d.next), session |-> found]
    BY <1>1, <2>1, TouchEffect DEF Upsert
  <2>. QED BY <1>1, <2>2, <2>3, DatabaseFields DEF Joins
<1>2. CASE found = NoSession
  <2>. DEFINE r == Inserted(t, ext, msgs, at)
  <2>1. r \in Sessions
    BY SessionTypes
  <2>2. Upsert(d, found, t, ext, msgs, at)
          = [db |-> WithSession(d, d.next, r, d.next + 1), session |-> d.next]
    BY <1>2, InsertEffect DEF Upsert
  <2>3. d.next \in SessionIds /\ d.next + 1 \in Nat \ {0}
    BY <1>2, DatabaseFields
  <2>. QED BY <1>2, <2>1, <2>2, <2>3 DEF Joins
<1>. QED BY <1>1, <1>2

\* Session IDs are given out in order, and an external ID once.
Numbered(d) == \A s \in Live(d) : s < d.next
UniqueIds(d) ==
  \A s, r \in Live(d) :
    d.sessions[s].ext = d.sessions[r].ext /\ d.sessions[s].ext # NoId => s = r

\* The tables e are d but for the row of the session s, and whatever traces hold.
Sets(d, e, s, r, next) ==
  /\ e \in Databases /\ e.next = next /\ e.sessions[s] = r
  /\ \A q \in SessionIds \ {s} : e.sessions[q] = d.sessions[q]

\* A session that was found keeps its name; a new one gets one nobody bears.
Takes(d, found, name, s, r, next) ==
  \/ found \in Live(d) /\ s = found /\ next = d.next /\ r.ext = d.sessions[s].ext
  \/ /\ found = NoSession /\ s = d.next /\ next = d.next + 1 /\ r.ext = name
     /\ name # NoId => \A q \in Live(d) : d.sessions[q].ext # name

\* It leaves the other sessions as they are.
LEMMA TakeEffect ==
  ASSUME NEW d \in Databases, NEW found, NEW name, NEW s \in SessionIds, NEW r \in Sessions,
         NEW next \in Nat \ {0}, Takes(d, found, name, s, r, next), Numbered(d), UniqueIds(d),
         NEW e, Sets(d, e, s, r, next)
  PROVE  /\ Numbered(e) /\ UniqueIds(e) /\ Live(e) = Live(d) \cup {s}
         /\ s < e.next /\ d.next <= e.next /\ e.next <= d.next + 1
         /\ \A q \in Live(d) : e.sessions[q].ext = d.sessions[q].ext
<1>1. /\ e.next = next /\ e.sessions[s] = r
      /\ \A q \in SessionIds \ {s} : e.sessions[q] = d.sessions[q]
  BY DEF Sets
<1>. Live(d) \subseteq SessionIds /\ Live(e) \subseteq SessionIds
  BY DEF Live
<1>. SessionIds \subseteq Nat /\ d.next \in Nat
  BY Numbers, DatabaseFields
<1>2. Live(e) = Live(d) \cup {s}
  <2>1. r # NoSession
    BY GroupingAssumption
  <2>. QED BY <1>1, <2>1 DEF Live
<1>3. CASE found \in Live(d) /\ s = found /\ next = d.next /\ r.ext = d.sessions[s].ext
  <2>1. \A q \in Live(d) : e.sessions[q].ext = d.sessions[q].ext
    BY <1>1, <1>3
  <2>2. Live(e) = Live(d)
    BY <1>2, <1>3
  <2>3. Numbered(e)
    BY <1>1, <1>3, <2>2 DEF Numbered
  <2>4. UniqueIds(e)
    BY <2>1, <2>2 DEF UniqueIds
  <2>5. s < e.next
    BY <1>1, <1>3 DEF Numbered
  <2>. QED BY <1>1, <1>2, <1>3, <2>1, <2>3, <2>4, <2>5
<1>4. CASE /\ found = NoSession /\ s = d.next /\ next = d.next + 1 /\ r.ext = name
           /\ name # NoId => \A q \in Live(d) : d.sessions[q].ext # name
  <2>1. s \notin Live(d)
    BY <1>4 DEF Numbered
  <2>2. \A q \in Live(d) : e.sessions[q] = d.sessions[q]
    BY <1>1, <2>1
  <2>3. Numbered(e)
    BY <1>1, <1>2, <1>4 DEF Numbered
  <2>4. UniqueIds(e)
    BY <1>1, <1>2, <1>4, <2>2 DEF UniqueIds
  <2>5. s < e.next
    BY <1>1, <1>4
  <2>. QED BY <1>1, <1>2, <1>4, <2>2, <2>3, <2>4, <2>5
<1>. QED BY <1>3, <1>4 DEF Takes

-----------------------------------------------------------------------------
(* The regrouping of history. *)

\* One trace takes its place in the session s, whose row becomes r; that is the
\* session it was in or else is written into its row.
Resolved(d, row, t, u, s, r, next) ==
  /\ Joins(d, Lookup(d, t, row.ext, Text(row)), t, row.ext, Text(row), row.at, s, r, next)
  /\ Takes(d, Lookup(d, t, row.ext, Text(row)), Naming(t, row.ext, Text(row)), s, r, next)
  /\ Sets(d, u, s, r, next)
  /\ row.ext # NoId => r.ext = row.ext
  /\ \A q \in Traces \ {t} : u.rows[q] = d.rows[q]
  /\ IF s = row.session THEN u.rows[t] = d.rows[t]
     ELSE u.rows[t] = [at |-> d.rows[t].at, ext |-> d.rows[t].ext,
                       body |-> d.rows[t].body, session |-> s]

\* Resolve does that for some session.
LEMMA ResolveEffect ==
  ASSUME NEW d \in Databases, NEW t \in Kept(d), NEW row \in Rows,
         d.next \in SessionIds, Numbered(d), UniqueIds(d),
         NEW u, u = Resolve(d, row, t)
  PROVE  \E s \in SessionIds, r \in Sessions, next \in Nat \ {0} :
           Resolved(d, row, t, u, s, r, next)
<1>. DEFINE msgs == Text(row)
            found == Lookup(d, t, row.ext, msgs)
<1>1. t \in Traces /\ row.ext \in Ids /\ msgs \in Texts /\ row.at \in Times
  BY DEF Kept, Rows, Ids, Text, Texts
<1>. HIDE DEF msgs
<1>2. /\ found \in Live(d) \cup {NoSession}
      /\ found \in Live(d) /\ row.ext # NoId => d.sessions[found].ext = row.ext
      /\ found = NoSession /\ Naming(t, row.ext, msgs) # NoId =>
           \A q \in Live(d) : d.sessions[q].ext # Naming(t, row.ext, msgs)
  BY <1>1, LookupSession, GroupingAssumption DEF Live
<1>. HIDE DEF found
<1>3. PICK s \in SessionIds, r \in Sessions, next \in Nat \ {0} :
        /\ Upsert(d, found, t, row.ext, msgs, row.at)
             = [db |-> WithSession(d, s, r, next), session |-> s]
        /\ Joins(d, found, t, row.ext, msgs, row.at, s, r, next)
  BY <1>1, <1>2, UpsertEffect
<1>4. Takes(d, found, Naming(t, row.ext, msgs), s, r, next)
  BY <1>2, <1>3 DEF Joins, Takes, Touched, Inserted
<1>5. row.ext # NoId => r.ext = row.ext
  BY <1>2, <1>3 DEF Joins, Touched, Inserted, Naming
<1>6. PICK e : e = WithSession(d, s, r, next)
  OBVIOUS
<1>7. u = IF s = row.session THEN e ELSE [e EXCEPT !.rows[t].session = s]
  BY <1>3, <1>6 DEF Resolve, msgs, found
<1>8. e.rows = d.rows /\ Sets(d, e, s, r, next)
  BY <1>6, WithSessionFields DEF Sets
<1>9. d.rows[t] \in Rows
  BY DatabaseFields
<1>10. /\ Sets(d, u, s, r, next)
       /\ \A q \in Traces \ {t} : u.rows[q] = d.rows[q]
       /\ IF s = row.session THEN u.rows[t] = d.rows[t]
          ELSE u.rows[t] = [at |-> d.rows[t].at, ext |-> d.rows[t].ext,
                            body |-> d.rows[t].body, session |-> s]
  <2>1. CASE s = row.session
    BY <1>7, <1>8, <2>1
  <2>2. CASE s # row.session
    <3>. DEFINE new == [d.rows[t] EXCEPT !.session = s]
    <3>1. new = [at |-> d.rows[t].at, ext |-> d.rows[t].ext, body |-> d.rows[t].body, session |-> s]
      BY <1>9, RowFields
    <3>2. new \in Rows
      BY <1>9, <3>1 DEF Rows
    <3>3. u = [e EXCEPT !.rows = [d.rows EXCEPT ![t] = new]] /\ e \in Databases
      BY <1>7, <1>8, <2>2 DEF Sets
    <3>. HIDE DEF new
    <3>4. u.rows = [d.rows EXCEPT ![t] = new] /\ u.sessions = e.sessions /\ u.next = e.next
      BY <1>8, <3>3 DEF Databases
    <3>5. u \in Databases
      BY <1>1, <1>8, <3>2, <3>3 DEF Databases
    <3>6. u.rows[t] = new /\ \A q \in Traces \ {t} : u.rows[q] = d.rows[q]
      BY <1>1, <3>4, DatabaseFields
    <3>. QED BY <1>8, <2>2, <3>1, <3>4, <3>5, <3>6 DEF Sets
  <2>. QED BY <2>1, <2>2
<1>. QED BY <1>3, <1>4, <1>5, <1>10 DEF msgs, found, Resolved

\* The youngest of a set of rows.
LEMMA NewestRow ==
  ASSUME NEW d, NEW T \in SUBSET Traces, T # {}, \A t \in T : d.rows[t] \in Rows
  PROVE  Newest(d, T) \in T /\ \A u \in T : d.rows[u].at <= d.rows[Newest(d, T)].at
<1>. DEFINE f == [t \in T |-> d.rows[t].at]
<1>1. \A t \in T : f[t] \in Int
  <2>1. \A t \in T : f[t] \in Times
    BY DEF Rows
  <2>2. Times \subseteq Int
    BY Numbers
  <2>. HIDE DEF f
  <2>. QED BY <2>1, <2>2, Zenon
<1>2. \E x \in T : \A y \in T : f[y] <= f[x]
  <2>. HIDE DEF f
  <2>1. IsFiniteSet(T)
    BY TraceSet
  <2>. QED BY <1>1, <2>1, LargestAt
<1>3. \E x \in T : \A y \in T : d.rows[y].at <= d.rows[x].at
  BY <1>2
<1>. QED BY <1>3 DEF Newest

\* The trace of a set that is resolved last, and one step of the fold.
Youngest(T) == Newest(backfill, T)
Step(d, t)  == Resolve(d, backfill.rows[t], t)

\* g gives every subset of S what the fold makes of the tables with it.
IsRegrouping(g, S) ==
  g = [T \in SUBSET S |-> IF T = {} THEN db ELSE Step(g[T \ {Youngest(T)}], Youngest(T))]

\* Two such functions agree wherever both are defined.
LEMMA RegroupingUnique ==
  ASSUME NEW S, NEW T, NEW g, NEW h, IsRegrouping(g, S), IsRegrouping(h, T),
         NEW U \in SUBSET (S \cap T), IsFiniteSet(U),
         \A V \in SUBSET U : V # {} => Youngest(V) \in V
  PROVE  g[U] = h[U]
<1>. DEFINE C == {V \in SUBSET U : g[V] # h[V]}
<1>1. SUFFICES ASSUME C # {} PROVE FALSE
  OBVIOUS
<1>2. PICK m \in C : \A t \in C : t \subseteq m => t = m
  <2>. HIDE DEF C
  <2>1. C \in SUBSET SUBSET U
    BY DEF C
  <2>. QED BY <1>1, <2>1, MinimalSubset
<1>3. m \in SUBSET S /\ m \in SUBSET T
  OBVIOUS
<1>4. CASE m = {}
  BY <1>3, <1>4 DEF IsRegrouping
<1>5. CASE m # {}
  <2>. DEFINE r == m \ {Youngest(m)}
  <2>1. r \subseteq m /\ r # m
    BY <1>5
  <2>2. g[r] = h[r]
    BY <1>2, <2>1
  <2>3. g[m] = Step(g[r], Youngest(m)) /\ h[m] = Step(h[r], Youngest(m))
    BY <1>3, <1>5 DEF IsRegrouping
  <2>. QED BY <2>2, <2>3
<1>. QED BY <1>4, <1>5

\* The recursion has a solution on every finite set.
LEMMA RegroupingExists ==
  ASSUME NEW S, IsFiniteSet(S), \A V \in SUBSET S : V # {} => Youngest(V) \in V
  PROVE  \E g : IsRegrouping(g, S)
<1>. DEFINE C == {T \in SUBSET S : ~ \E g : IsRegrouping(g, T)}
<1>1. SUFFICES ASSUME C # {} PROVE FALSE
  OBVIOUS
<1>2. PICK m \in C : \A t \in C : t \subseteq m => t = m
  <2>. HIDE DEF C
  <2>1. C \in SUBSET SUBSET S
    BY DEF C
  <2>. QED BY <1>1, <2>1, MinimalSubset
<1>. DEFINE G(T) == CHOOSE g : IsRegrouping(g, T)
            h == [T \in SUBSET m |->
                    IF T = {} THEN db
                    ELSE Step(G(T \ {Youngest(T)})[T \ {Youngest(T)}], Youngest(T))]
<1>3. \A T \in SUBSET m : T # m => IsRegrouping(G(T), T)
  BY <1>2
<1>. HIDE DEF G
<1>4. \A T \in SUBSET m : T # m => h[T] = G(T)[T]
  <2>. SUFFICES ASSUME NEW T \in SUBSET m, T # m PROVE h[T] = G(T)[T]
    OBVIOUS
  <2>1. IsRegrouping(G(T), T)
    BY <1>3
  <2>2. CASE T = {}
    BY <2>1, <2>2 DEF IsRegrouping
  <2>3. CASE T # {}
    <3>. DEFINE r == T \ {Youngest(T)}
    <3>1. r \in SUBSET m /\ r # m /\ r \in SUBSET T
      BY <2>3
    <3>2. IsRegrouping(G(r), r)
      BY <1>3, <3>1
    <3>3. IsFiniteSet(r) /\ \A V \in SUBSET r : V # {} => Youngest(V) \in V
      BY <3>1, FS_Subset
    <3>4. G(T)[r] = G(r)[r]
      BY <2>1, <3>1, <3>2, <3>3, RegroupingUnique
    <3>5. G(T)[T] = Step(G(T)[r], Youngest(T))
      BY <2>1, <2>3 DEF IsRegrouping
    <3>6. h[T] = Step(G(r)[r], Youngest(T))
      BY <2>3
    <3>. QED BY <3>4, <3>5, <3>6
  <2>. QED BY <2>2, <2>3
<1>5. IsRegrouping(h, m)
  <2>1. \A T \in SUBSET m : T # {} =>
          h[T \ {Youngest(T)}] = G(T \ {Youngest(T)})[T \ {Youngest(T)}]
    <3>. SUFFICES ASSUME NEW T \in SUBSET m, T # {}
                  PROVE  h[T \ {Youngest(T)}] = G(T \ {Youngest(T)})[T \ {Youngest(T)}]
      OBVIOUS
    <3>1. Youngest(T) \in T
      OBVIOUS
    <3>2. T \ {Youngest(T)} \in SUBSET m /\ T \ {Youngest(T)} # m
      BY <3>1
    <3>. QED BY <1>4, <3>2
  <2>2. h = [T \in SUBSET m |-> IF T = {} THEN db ELSE Step(h[T \ {Youngest(T)}], Youngest(T))]
    BY <2>1
  <2>. QED BY <2>2 DEF IsRegrouping
<1>. QED BY <1>5

\* Regrouped is its value at all the traces that were read.
LEMMA RegroupedIs ==
  ASSUME \A V \in SUBSET Kept(backfill) : V # {} => Youngest(V) \in V
  PROVE  \E g : IsRegrouping(g, Kept(backfill)) /\ Regrouped = g[Kept(backfill)]
<1>. DEFINE S == Kept(backfill)
            h == CHOOSE iter :
              iter = [T \in SUBSET S |->
                        IF T = {} THEN db
                        ELSE Resolve(iter[T \ {Newest(backfill, T)}],
                                     backfill.rows[Newest(backfill, T)], Newest(backfill, T))]
<1>1. Regrouped = h[S]
  BY DEF Regrouped, MapThenFoldSet
<1>2. IsFiniteSet(S)
  <2>1. S \subseteq Traces
    BY DEF Kept
  <2>. QED BY <2>1, TraceSet
<1>3. \E g : IsRegrouping(g, S)
  <2>. HIDE DEF S
  <2>1. \A V \in SUBSET S : V # {} => Youngest(V) \in V
    BY DEF S
  <2>. QED BY <1>2, <2>1, RegroupingExists
<1>4. IsRegrouping(h, S)
  BY <1>3 DEF IsRegrouping, Step, Youngest
<1>. QED BY <1>1, <1>4

-----------------------------------------------------------------------------
(* The inductive invariant. *)

Typed ==
  /\ storeRaw \in BOOLEAN /\ requests \in Clients
  /\ runs \in 0 .. MaxBackfills /\ crossed \in SUBSET Traces
  /\ clock \in Times /\ db \in Databases
  /\ call \in [Traces -> CallRecords] /\ backfill \in BackfillRecords

Called      == {t \in Traces : call[t].stage # "none"}
StoredCalls == {t \in Traces : call[t].stage = "stored"}
OrphanBorn  == {t \in Kept(db) : db.rows[t].at # call[t].at}

\* Trace IDs are used in order, and each call and each orphan takes its time once.
Clocked ==
  /\ \E k \in 0 .. MaxTraces : Kept(db) \cup Called = 1 .. k
  /\ clock = Cardinality(Called) + Cardinality(OrphanBorn)
  /\ \A t \in Called : call[t].at \in 1 .. clock /\ call[t].msgs \in Lists
  /\ \A t \in Traces \ Called : call[t] = NoCall
  /\ \A t \in Kept(db) : db.rows[t].at \in 1 .. clock

\* The row of a stored call is what the call wrote, but for the session; any
\* other row is an orphan's.
RowsWritten ==
  /\ \A t \in StoredCalls :
       /\ t \in Kept(db) /\ db.rows[t].session # NoSession
       /\ db.rows[t].ext = call[t].ext
       /\ db.rows[t].body = IF storeRaw THEN Stored(call[t].msgs) ELSE NoBody
  /\ \A t \in Kept(db) \ StoredCalls :
       /\ t \in OrphanBorn /\ db.rows[t].ext = NoId /\ db.rows[t].body = NoBody
       /\ runs = 0 => db.rows[t].session = NoSession

\* Backfills that have regrouped.
Regroupings == IF backfill.stage = "regroup" THEN runs - 1 ELSE runs

\* Session IDs are given out in order, and there are enough of them.
SessionsNumbered ==
  /\ Numbered(db)
  /\ \A t \in Kept(db) : db.rows[t].session # NoSession => db.rows[t].session < db.next
  /\ \A t \in Traces : call[t].found # NoSession => call[t].found < db.next
  /\ db.next <= 1 + Cardinality(StoredCalls) + MaxTraces * Regroupings
  /\ backfill.stage # "idle" => runs >= 1

\* Calls that run beside each other, or beside a backfill, have met.
Met ==
  /\ backfill.stage # "idle" => Running \subseteq crossed
  /\ \A t, u \in Running : t # u => t \in crossed

\* What an undisturbed call has looked up still stands.
LookedUp ==
  \A t \in Traces \ crossed :
    call[t].stage = "looked" /\ call[t].found # NoSession =>
      /\ call[t].found \in Live(db)
      /\ call[t].ext # NoId => db.sessions[call[t].found].ext = call[t].ext

\* The rows a backfill has read are those there are, but for the calls it met,
\* of which it may have read the orphan.
RowsRead ==
  backfill.stage = "regroup" =>
    \A t \in Kept(backfill) :
      /\ t \in Kept(db)
      /\ \/ backfill.rows[t] = db.rows[t]
         \/ t \in crossed /\ backfill.rows[t].ext = NoId /\ backfill.rows[t].body = NoBody

\* An undisturbed trace is in a session that exists, one with the client's ID if
\* it gave one.
Belongs ==
  /\ UniqueIds(db)
  /\ \A t \in Kept(db) \ crossed :
       /\ db.rows[t].session # NoSession => db.rows[t].session \in Live(db)
       /\ db.rows[t].ext # NoId =>
            /\ db.rows[t].session \in Live(db)
            /\ db.sessions[db.rows[t].session].ext = db.rows[t].ext

\* Between backfills, and where none has met an orphan, a session has as many
\* calls as traces; until the first one it has a trace.
Counted ==
  /\ backfill.stage = "idle" /\ (runs = 0 \/ OrphanBorn = {}) =>
       \A s \in Live(db) : db.sessions[s].calls = Cardinality(TracesOf(db, s))
  /\ runs = 0 => \A s \in Live(db) : TracesOf(db, s) # {}

\* The baseline of a session, or the one a backfill is about to write, holds what
\* its undisturbed traces carry.
Instructed ==
  storeRaw =>
    \A t \in Kept(db) \ crossed :
      db.rows[t].session # NoSession /\ Text(db.rows[t]) # <<>> =>
        /\ backfill.stage = "idle" =>
             Signals(db.rows[t].body) \subseteq db.sessions[db.rows[t].session].rules
        /\ backfill.stage = "write" =>
             /\ backfill.rules[db.rows[t].session] # NoSession
             /\ Signals(db.rows[t].body) \subseteq backfill.rules[db.rows[t].session]

\* A call without an ID that found a session, and the trace of it that it continues.
Continues(t, v) ==
  \/ db.rows[v].body = NoBody
  \/ SameLineage(db.rows[v].body, call[t].msgs)

\* Until the first backfill, the traces of a session hang together.
HangTogether ==
  runs = 0 =>
    /\ \A t \in Traces :
         call[t].stage = "looked" /\ call[t].found # NoSession /\ call[t].ext = NoId =>
           \E v \in TracesOf(db, call[t].found) : Continues(t, v)
    /\ \A s \in Live(db) :
         (\A t \in TracesOf(db, s) : db.rows[t].ext = NoId /\ db.rows[t].body # NoBody) =>
           Bridged(TracesOf(db, s))

\* The stored calls with an opener, and what makes them one conversation.
Opened(o) == {t \in StoredCalls : Fingerprint(call[t].msgs) = o}
Conversation(T) ==
  /\ \A t \in T : call[t].ext = NoId /\ Range(call[t].msgs) \cap Secrets = {}
  /\ \A t, u \in T : \/ IsPrefix(call[t].msgs, call[u].msgs)
                     \/ IsPrefix(call[u].msgs, call[t].msgs)
  /\ T \cap crossed = {}

\* In the tables d the session s is the one of the opener o, and holds its calls.
HostsIn(d, s, o) ==
  /\ s \in Live(d) /\ d.sessions[s].ext = NoId
  /\ \A r \in Live(d) : d.sessions[r].fp = o <=> r = s
  /\ TracesOf(d, s) \subseteq Opened(o)
  /\ \A t \in Opened(o) : d.rows[t].session = s

\* And no other request has looked it up.
Hosts(s, o) ==
  /\ HostsIn(db, s, o)
  /\ \A t \in Traces : call[t].stage = "looked" /\ call[t].found = s =>
       call[t].ext = NoId /\ Fingerprint(call[t].msgs) = o

\* A conversation has one session from its first request on, and an undisturbed
\* call that continues it has looked up that session.
OneSession ==
  storeRaw =>
    \A o \in Messages \ Secrets :
      Conversation(Opened(o)) =>
        /\ Opened(o) = {} => \A r \in Live(db) : db.sessions[r].fp # o
        /\ Opened(o) # {} => \E s \in SessionIds : Hosts(s, o)
        /\ \A t \in Traces :
             call[t].stage = "looked" /\ Fingerprint(call[t].msgs) = o
               /\ Conversation(Opened(o) \cup {t}) =>
               /\ Opened(o) = {} => call[t].found = NoSession
               /\ Opened(o) # {} => call[t].found # NoSession /\ Hosts(call[t].found, o)

IInv ==
  /\ Typed /\ Clocked /\ RowsWritten /\ SessionsNumbered /\ Met /\ LookedUp
  /\ RowsRead /\ Belongs /\ Counted /\ Instructed /\ HangTogether /\ OneSession

-----------------------------------------------------------------------------
(* Clocks and numbers. *)

\* A set of traces that gains one is larger by one.
LEMMA OneMore ==
  ASSUME NEW T \in SUBSET Traces, NEW t \in Traces \ T
  PROVE  Cardinality(T \cup {t}) = Cardinality(T) + 1 /\ Cardinality(T) < MaxTraces
<1>1. IsFiniteSet(T)
  BY TraceSet
<1>2. Cardinality(T \cup {t}) = Cardinality(T) + 1
  BY <1>1, FS_AddElement
<1>3. Cardinality(T \cup {t}) \in 0 .. MaxTraces /\ Cardinality(T) \in 0 .. MaxTraces
  <2>1. T \cup {t} \in SUBSET Traces
    OBVIOUS
  <2>. QED BY <2>1, TraceSet
<1>. QED BY <1>2, <1>3, Numbers

\* The calls and the orphans cannot use up the clock.
LEMMA ClockBound ==
  ASSUME NEW T \in SUBSET Traces, NEW U \in SUBSET Traces
  PROVE  Cardinality(T) + Cardinality(U) \in Times
<1>1. Cardinality(T) \in 0 .. MaxTraces /\ Cardinality(U) \in 0 .. MaxTraces
  BY TraceSet
<1>. QED BY <1>1, Numbers DEF Times

\* A fresh trace ID has no row and no call.
LEMMA FreshTrace ==
  ASSUME Typed, Clocked, NEW t \in Traces, Fresh(t)
  PROVE  t \notin Kept(db) /\ t \notin Called /\ Kept(db) \cup Called \cup {t} = 1 .. t
<1>1. PICK k \in 0 .. MaxTraces : Kept(db) \cup Called = 1 .. k
  BY DEF Clocked
<1>2. Kept(db) \cup {u \in Traces : ~Is(u, "none")} = 1 .. k
  BY <1>1 DEF Called, Is
<1>3. Cardinality(1 .. k) = k /\ k \in Nat
  BY <1>1, FS_Interval, Numbers
<1>4. t = 1 + k
  BY <1>2, <1>3 DEF Fresh
<1>5. t \notin 1 .. k /\ (1 .. k) \cup {t} = 1 .. t
  BY <1>3, <1>4
<1>. QED BY <1>1, <1>5

\* What a client sends.
LEMMA RequestType ==
  ASSUME Typed, NEW r \in requests
  PROVE  r.ext \in Ids /\ r.msgs \in Lists
<1>1. r \in Requests
  BY DEF Typed, Requests
<1>. QED BY <1>1, GroupingAssumption DEF Ids, Lists

-----------------------------------------------------------------------------
(* Steps that write no session. *)

\* The sessions stay, and with them what undisturbed and stored calls rest on.
Quiet ==
  /\ storeRaw' = storeRaw /\ requests' = requests /\ crossed \subseteq crossed'
  /\ db'.sessions = db.sessions /\ db'.next = db.next
  /\ \A u \in Traces :
       \/ db'.rows[u] = db.rows[u]
       \/ /\ u \notin Kept(db) /\ u \notin StoredCalls
          /\ db'.rows[u].session = NoSession /\ db'.rows[u].ext = NoId
  /\ \A u \in Traces : call'[u] = call[u] \/ call'[u].stage \in {"arrived", "refused"}
  /\ \A u \in StoredCalls : call'[u] = call[u]
  /\ runs' = 0 => runs = 0
  /\ backfill'.stage = "idle" => backfill.stage = "idle"
  /\ OrphanBorn \subseteq OrphanBorn'

\* The traces of every session stay, and no call is stored.
LEMMA QuietTables ==
  ASSUME IInv, Typed', Quiet
  PROVE  /\ Live(db') = Live(db) /\ Kept(db) \subseteq Kept(db')
         /\ StoredCalls' = StoredCalls
         /\ \A s \in SessionIds : TracesOf(db', s) = TracesOf(db, s)
         /\ \A t \in Kept(db) : db'.rows[t] = db.rows[t]
         /\ \A t \in Kept(db') \ Kept(db) :
              db'.rows[t].session = NoSession /\ db'.rows[t].ext = NoId
<1>1. Live(db') = Live(db) /\ Kept(db) \subseteq Kept(db')
  BY DEF Live, Kept, Quiet
<1>2. StoredCalls' = StoredCalls
  <2>1. \A u \in Traces : call'[u].stage = "stored" <=> call[u].stage = "stored"
    BY DEF Quiet, StoredCalls
  <2>. QED BY <2>1 DEF StoredCalls
<1>3. \A t \in Kept(db) : db'.rows[t] = db.rows[t]
  BY DEF Kept, Quiet
<1>4. \A t \in Kept(db') \ Kept(db) : db'.rows[t].session = NoSession /\ db'.rows[t].ext = NoId
  BY DEF Kept, Quiet
<1>5. ASSUME NEW s \in SessionIds PROVE TracesOf(db', s) = TracesOf(db, s)
  <2>1. s # NoSession
    BY GroupingAssumption
  <2>2. \A t \in Traces : t \in TracesOf(db', s) <=> t \in TracesOf(db, s)
    BY <1>1, <1>3, <1>4, <2>1 DEF TracesOf
  <2>. QED BY <2>2 DEF TracesOf, Kept
<1>. QED BY <1>1, <1>2, <1>3, <1>4, <1>5

\* What rests on sessions and rows alone is kept.
LEMMA QuietBelongs ==
  ASSUME IInv, Typed', Quiet
  PROVE  LookedUp' /\ Belongs' /\ Counted'
<1>. USE QuietTables
<1>1. db'.sessions = db.sessions /\ crossed \subseteq crossed'
  BY DEF Quiet
<1>2. LookedUp'
  <2>. SUFFICES ASSUME NEW t \in Traces \ crossed', call'[t].stage = "looked",
                       call'[t].found # NoSession
                PROVE  /\ call'[t].found \in Live(db')
                       /\ call'[t].ext # NoId => db'.sessions[call'[t].found].ext = call'[t].ext
    BY DEF LookedUp
  <2>1. call'[t] = call[t] /\ t \in Traces \ crossed
    BY <1>1 DEF Quiet
  <2>. QED BY <1>1, <2>1 DEF IInv, LookedUp
<1>3. Belongs'
  <2>1. UniqueIds(db')
    BY <1>1 DEF IInv, Belongs, UniqueIds
  <2>2. ASSUME NEW t \in Kept(db') \ crossed'
        PROVE  /\ db'.rows[t].session # NoSession => db'.rows[t].session \in Live(db')
               /\ db'.rows[t].ext # NoId =>
                    /\ db'.rows[t].session \in Live(db')
                    /\ db'.sessions[db'.rows[t].session].ext = db'.rows[t].ext
    BY <1>1, <2>2 DEF IInv, Belongs
  <2>. QED BY <2>1, <2>2 DEF Belongs
<1>4. Counted'
  <2>1. \A s \in Live(db') : TracesOf(db', s) = TracesOf(db, s)
    BY DEF Live
  <2>2. backfill'.stage = "idle" /\ (runs' = 0 \/ OrphanBorn' = {}) =>
          backfill.stage = "idle" /\ (runs = 0 \/ OrphanBorn = {})
    BY DEF Quiet
  <2>3. runs' = 0 => runs = 0
    BY DEF Quiet
  <2>. QED BY <1>1, <2>1, <2>2, <2>3 DEF IInv, Counted
<1>. QED BY <1>2, <1>3, <1>4

\* A quiet step moves no trace and lets no call look.
LEMMA QuietHangTogether ==
  ASSUME IInv, Typed', Quiet
  PROVE  HangTogether'
<1>. USE QuietTables
<1>. SUFFICES ASSUME runs' = 0 PROVE HangTogether'
  BY DEF HangTogether
<1>1. runs = 0
  BY DEF Quiet
<1>2. \A s \in SessionIds : \A v \in TracesOf(db, s) : db'.rows[v] = db.rows[v]
  BY DEF TracesOf
<1>3. ASSUME NEW t \in Traces, call'[t].stage = "looked", call'[t].found # NoSession,
             call'[t].ext = NoId
      PROVE  \E v \in TracesOf(db', call'[t].found) : Continues(t, v)'
  <2>1. call'[t] = call[t]
    BY <1>3 DEF Quiet
  <2>2. call[t].found \in SessionIds
    BY <1>3, <2>1 DEF IInv, Typed, CallRecords
  <2>3. PICK v \in TracesOf(db, call[t].found) : Continues(t, v)
    BY <1>1, <1>3, <2>1 DEF IInv, HangTogether
  <2>4. Continues(t, v)'
    BY <1>2, <2>1, <2>2, <2>3 DEF Continues
  <2>. QED BY <2>1, <2>2, <2>3, <2>4
<1>4. ASSUME NEW s \in Live(db'),
             \A t \in TracesOf(db', s) : db'.rows[t].ext = NoId /\ db'.rows[t].body # NoBody
      PROVE  Bridged(TracesOf(db, s))'
  <2>1. s \in SessionIds
    BY DEF Live
  <2>2. TracesOf(db', s) = TracesOf(db, s)
    BY <2>1
  <2>3. \A t \in TracesOf(db, s) : db.rows[t].ext = NoId /\ db.rows[t].body # NoBody
    BY <1>2, <1>4, <2>1, <2>2
  <2>4. Bridged(TracesOf(db, s))
    BY <1>1, <2>3 DEF IInv, HangTogether
  <2>. QED BY <1>2, <2>1, <2>2, <2>4 DEF Bridged
<1>. QED BY <1>3, <1>4 DEF HangTogether

\* Conversations and their sessions stay as they are.
LEMMA QuietOneSession ==
  ASSUME IInv, Typed', Quiet
  PROVE  OneSession'
<1>. USE QuietTables
<1>1. /\ storeRaw' = storeRaw /\ crossed \subseteq crossed' /\ db'.sessions = db.sessions
      /\ \A u \in Traces : call'[u] = call[u] \/ call'[u].stage \in {"arrived", "refused"}
      /\ \A u \in StoredCalls : call'[u] = call[u]
  BY DEF Quiet
<1>2. ASSUME NEW o PROVE Opened(o)' = Opened(o)
  BY <1>1 DEF Opened
<1>3. ASSUME NEW T \in SUBSET Traces, \A t \in T : call'[t] = call[t], Conversation(T)'
      PROVE  Conversation(T)
  BY <1>1, <1>3 DEF Conversation
<1>4. ASSUME NEW h, NEW o, Hosts(h, o) PROVE Hosts(h, o)'
  <2>1. h \in SessionIds
    BY <1>4 DEF Hosts, HostsIn, Live
  <2>2. TracesOf(db', h) = TracesOf(db, h)
    BY <2>1
  <2>3. \A t \in Opened(o) : db'.rows[t] = db.rows[t]
    BY DEF Opened, IInv, RowsWritten
  <2>4. \A t \in Traces : call'[t].stage = "looked" => call'[t] = call[t]
    BY <1>1
  <2>5. HostsIn(db, h, o)'
    BY <1>1, <1>2, <1>4, <2>2, <2>3 DEF Hosts, HostsIn
  <2>. QED BY <1>4, <2>4, <2>5 DEF Hosts
<1>. SUFFICES ASSUME storeRaw', NEW o \in Messages \ Secrets, Conversation(Opened(o))'
              PROVE
        /\ Opened(o)' = {} => \A r \in Live(db') : db'.sessions[r].fp # o
        /\ Opened(o)' # {} => \E s \in SessionIds : Hosts(s, o)'
        /\ \A t \in Traces :
             call'[t].stage = "looked" /\ Fingerprint(call'[t].msgs) = o
               /\ Conversation(Opened(o) \cup {t})' =>
               /\ Opened(o)' = {} => call'[t].found = NoSession
               /\ Opened(o)' # {} => call'[t].found # NoSession /\ Hosts(call[t].found, o)'
  BY DEF OneSession
<1>5. Opened(o) \subseteq StoredCalls /\ Opened(o) \subseteq Traces /\ storeRaw
  BY <1>1 DEF Opened, StoredCalls
<1>6. Conversation(Opened(o))
  <2>1. Conversation(Opened(o)) \/ ~ Conversation(Opened(o))
    OBVIOUS
  <2>2. \A t \in Opened(o) : call'[t] = call[t]
    BY <1>1, <1>5
  <2>. QED BY <1>1, <1>2, <2>2 DEF Conversation
<1>7. /\ Opened(o) = {} => \A r \in Live(db) : db.sessions[r].fp # o
      /\ Opened(o) # {} => \E s \in SessionIds : Hosts(s, o)
      /\ \A t \in Traces :
           call[t].stage = "looked" /\ Fingerprint(call[t].msgs) = o
             /\ Conversation(Opened(o) \cup {t}) =>
             /\ Opened(o) = {} => call[t].found = NoSession
             /\ Opened(o) # {} => call[t].found # NoSession /\ Hosts(call[t].found, o)
  BY <1>5, <1>6 DEF IInv, OneSession
<1>8. ASSUME NEW t \in Traces, call'[t].stage = "looked", Fingerprint(call'[t].msgs) = o,
             Conversation(Opened(o) \cup {t})'
      PROVE  /\ Opened(o)' = {} => call'[t].found = NoSession
             /\ Opened(o)' # {} => call'[t].found # NoSession /\ Hosts(call[t].found, o)'
  <2>1. call'[t] = call[t]
    BY <1>1, <1>8
  <2>2. \A u \in Opened(o) \cup {t} : call'[u] = call[u]
    BY <1>1, <1>5, <2>1
  <2>3. Conversation(Opened(o) \cup {t})
    BY <1>1, <1>2, <1>8, <2>2 DEF Conversation
  <2>4. /\ Opened(o) = {} => call[t].found = NoSession
        /\ Opened(o) # {} => call[t].found # NoSession /\ Hosts(call[t].found, o)
    BY <1>7, <1>8, <2>1, <2>3
  <2>. QED BY <1>2, <1>4, <2>1, <2>4
<1>. QED BY <1>1, <1>2, <1>4, <1>7, <1>8

\* What a quiet step leaves to each action.
Rest == Typed /\ Clocked /\ RowsWritten /\ SessionsNumbered /\ Met /\ RowsRead /\ Instructed

\* A quiet step keeps the invariant when it keeps the rest.
LEMMA QuietKeeps ==
  ASSUME IInv, Quiet, Rest'
  PROVE  IInv'
<1>1. Typed'
  BY DEF Rest
<1>2. LookedUp' /\ Belongs' /\ Counted' /\ HangTogether' /\ OneSession'
  BY <1>1, QuietBelongs, QuietHangTogether, QuietOneSession
<1>. QED BY <1>2 DEF Rest, IInv

-----------------------------------------------------------------------------
(* The empty tables. *)

\* Nothing is kept, live or called at the start.
LEMMA InitTables ==
  ASSUME Init
  PROVE  /\ Typed /\ Kept(db) = {} /\ Live(db) = {} /\ Called = {} /\ OrphanBorn = {}
         /\ StoredCalls = {} /\ Cardinality({}) = 0
         /\ \A t \in Traces :
              call[t] = NoCall /\ call[t].stage = "none" /\ call[t].found = NoSession
         /\ backfill.stage = "idle" /\ runs = 0 /\ crossed = {} /\ db.next = 1
<1>1. /\ db = [rows |-> [t \in Traces |-> NoRow], next |-> 1,
               sessions |-> [s \in SessionIds |-> NoSession]]
      /\ call = [t \in Traces |-> NoCall] /\ backfill = Idle /\ runs = 0 /\ crossed = {}
      /\ clock = 0 /\ storeRaw \in BOOLEAN /\ requests \in Clients
  BY DEF Init
<1>2. db \in Databases
  BY <1>1 DEF Databases
<1>3. 0 \in Times /\ runs \in 0 .. MaxBackfills
  BY <1>1, Numbers DEF Times
<1>4. NoCall \in CallRecords
  BY <1>3 DEF NoCall, CallRecords, Ids
<1>5. Idle \in BackfillRecords /\ Idle.stage = "idle"
  BY DEF Idle, BackfillRecords
<1>6. Typed
  BY <1>1, <1>2, <1>3, <1>4, <1>5 DEF Typed
<1>7. Kept(db) = {} /\ Live(db) = {}
  BY <1>1 DEF Kept, Live
<1>8. \A t \in Traces : call[t] = NoCall /\ call[t].stage = "none" /\ call[t].found = NoSession
  BY <1>1 DEF NoCall
<1>9. Called = {} /\ OrphanBorn = {} /\ StoredCalls = {}
  BY <1>7, <1>8 DEF Called, OrphanBorn, StoredCalls
<1>. QED BY <1>1, <1>5, <1>6, <1>7, <1>8, <1>9, FS_EmptySet

\* The invariant holds of the empty tables.
LEMMA InitInvariant == Init => IInv
<1>. SUFFICES ASSUME Init PROVE IInv
  OBVIOUS
<1>. USE InitTables
<1>1. Clocked
  <2>1. 1 .. 0 = {} /\ 0 \in 0 .. MaxTraces
    BY Numbers
  <2>2. clock = 0
    BY DEF Init
  <2>. QED BY <2>1, <2>2 DEF Clocked
<1>2. RowsWritten
  BY DEF RowsWritten
<1>3. SessionsNumbered
  <2>1. MaxTraces * Regroupings = 0
    BY Numbers DEF Regroupings
  <2>. QED BY <2>1 DEF SessionsNumbered, Numbered
<1>4. Met
  BY DEF Met, Running
<1>5. LookedUp /\ RowsRead
  BY DEF LookedUp, RowsRead
<1>6. Belongs /\ Counted /\ Instructed
  BY DEF Belongs, UniqueIds, Counted, Instructed
<1>7. HangTogether
  BY DEF HangTogether
<1>8. OneSession
  <2>1. \A o : Opened(o) = {}
    BY DEF Opened
  <2>. QED BY <2>1 DEF OneSession
<1>. QED BY <1>1, <1>2, <1>3, <1>4, <1>5, <1>6, <1>7, <1>8 DEF IInv

-----------------------------------------------------------------------------
(* A call arrives, or is refused. *)

\* A call that changes keeps its place among the called ones.
LEMMA CallUpdate ==
  ASSUME Typed, NEW t \in Traces, NEW c \in CallRecords, call' = [call EXCEPT ![t] = c]
  PROVE  /\ call' \in [Traces -> CallRecords] /\ call'[t] = c
         /\ \A u \in Traces \ {t} : call'[u] = call[u]
BY DEF Typed

\* An arrival takes its time and meets who runs.
LEMMA ArriveKeeps ==
  ASSUME IInv, NEW t \in Traces, NEW r \in requests, Arrive(t, r)
  PROVE  IInv'
<1>. DEFINE c == [stage |-> "arrived", ext |-> r.ext, msgs |-> r.msgs, at |-> clock',
                  found |-> NoSession]
<1>1. /\ call[t].stage = "none" /\ (Fresh(t) \/ t \in Orphans) /\ clock' = clock + 1
      /\ call' = [call EXCEPT ![t] = c] /\ crossed' = crossed \cup MeetsNow(t)
      /\ storeRaw' = storeRaw /\ requests' = requests /\ db' = db /\ backfill' = backfill
      /\ runs' = runs
  BY DEF Arrive, Is, Cross
<1>2. Typed /\ Clocked /\ RowsWritten /\ SessionsNumbered /\ Met /\ RowsRead /\ Instructed
  BY DEF IInv
<1>3. t \notin Called /\ Called \in SUBSET Traces /\ OrphanBorn \in SUBSET Traces
  BY <1>1 DEF Called, OrphanBorn, Kept
<1>4. clock' \in Times /\ clock' = Cardinality(Called \cup {t}) + Cardinality(OrphanBorn)
  <2>1. Cardinality(Called \cup {t}) = Cardinality(Called) + 1
    BY <1>3, OneMore
  <2>2. Cardinality(Called) \in Nat /\ Cardinality(OrphanBorn) \in Nat
    BY <1>3, TraceSet
  <2>3. Cardinality(Called \cup {t}) + Cardinality(OrphanBorn) \in Times
    BY <1>3, ClockBound
  <2>. QED BY <1>1, <1>2, <2>1, <2>2, <2>3 DEF Clocked
<1>5. c \in CallRecords
  BY <1>2, <1>4, RequestType DEF CallRecords
<1>. HIDE DEF c
<1>6. /\ call' \in [Traces -> CallRecords] /\ call'[t] = c
      /\ \A u \in Traces \ {t} : call'[u] = call[u]
  BY <1>1, <1>2, <1>5, CallUpdate
<1>7. c.stage = "arrived" /\ c.at = clock' /\ c.found = NoSession /\ c.msgs = r.msgs
  BY DEF c
<1>8. Typed'
  <2>1. MeetsNow(t) \subseteq Traces
    BY DEF MeetsNow, Running
  <2>. QED BY <1>1, <1>2, <1>4, <1>6, <2>1 DEF Typed
<1>9. /\ Called' = Called \cup {t} /\ StoredCalls' = StoredCalls
      /\ Running' = Running \cup {t}
  BY <1>1, <1>6, <1>7 DEF Called, StoredCalls, Running
<1>10. OrphanBorn' = OrphanBorn
  <2>1. clock \in Nat
    BY <1>2, Numbers DEF Typed
  <2>2. t \in Kept(db) => db.rows[t].at # clock' /\ db.rows[t].at # call[t].at
    <3>1. call[t].at = 0
      BY <1>2, <1>3 DEF Clocked, NoCall
    <3>. QED BY <1>1, <1>2, <2>1, <3>1 DEF Clocked
  <2>3. \A u \in Traces \ {t} : u \in OrphanBorn' <=> u \in OrphanBorn
    BY <1>1, <1>6 DEF OrphanBorn
  <2>4. t \in OrphanBorn' <=> t \in OrphanBorn
    BY <1>1, <1>6, <1>7, <2>2 DEF OrphanBorn
  <2>. QED BY <2>3, <2>4 DEF OrphanBorn, Kept
<1>11. Clocked'
  <2>1. \E k \in 0 .. MaxTraces : Kept(db') \cup Called' = 1 .. k
    <3>1. CASE Fresh(t)
      <4>1. Kept(db) \cup Called \cup {t} = 1 .. t
        BY <1>2, <3>1, FreshTrace
      <4>2. t \in 0 .. MaxTraces
        BY Numbers DEF Traces
      <4>. QED BY <1>1, <1>9, <4>1, <4>2
    <3>2. CASE t \in Orphans
      <4>1. t \in Kept(db)
        BY <3>2 DEF Orphans
      <4>. QED BY <1>1, <1>2, <1>9, <4>1 DEF Clocked
    <3>. QED BY <1>1, <3>1, <3>2
  <2>2. clock' = Cardinality(Called') + Cardinality(OrphanBorn')
    BY <1>4, <1>9, <1>10
  <2>3. clock \in Nat
    BY <1>2, Numbers DEF Typed
  <2>4. \A u \in Called' : call'[u].at \in 1 .. clock' /\ call'[u].msgs \in Lists
    BY <1>1, <1>2, <1>3, <1>6, <1>7, <1>9, <2>3, RequestType DEF Clocked
  <2>5. \A u \in Traces \ Called' : call'[u] = NoCall
    BY <1>2, <1>6, <1>9 DEF Clocked
  <2>6. \A u \in Kept(db') : db'.rows[u].at \in 1 .. clock'
    BY <1>1, <1>2, <2>3 DEF Clocked
  <2>. QED BY <2>1, <2>2, <2>4, <2>5, <2>6 DEF Clocked
<1>12. t \notin StoredCalls
  BY <1>1 DEF StoredCalls
<1>13. RowsWritten'
  BY <1>1, <1>2, <1>6, <1>9, <1>10, <1>12 DEF RowsWritten, StoredCalls
<1>14. SessionsNumbered'
  <2>1. Regroupings' = Regroupings
    BY <1>1 DEF Regroupings
  <2>. QED BY <1>1, <1>2, <1>6, <1>7, <1>9, <2>1 DEF SessionsNumbered
<1>15. Met'
  BY <1>1, <1>2, <1>9 DEF Met, MeetsNow
<1>16. RowsRead' /\ Instructed'
  BY <1>1, <1>2 DEF RowsRead, Instructed
<1>17. Quiet
  BY <1>1, <1>6, <1>7, <1>10, <1>12 DEF Quiet, StoredCalls
<1>18. Rest'
  BY <1>8, <1>11, <1>13, <1>14, <1>15, <1>16 DEF Rest
<1>. QED BY <1>17, <1>18, QuietKeeps

\* A refused call leaves the tables alone.
LEMMA RefuseKeeps ==
  ASSUME IInv, NEW t \in Traces, Refuse(t)
  PROVE  IInv'
<1>. DEFINE c == [call[t] EXCEPT !.stage = "refused"]
<1>1. /\ call[t].stage = "looked" /\ call' = [call EXCEPT ![t] = c]
      /\ storeRaw' = storeRaw /\ requests' = requests /\ db' = db /\ backfill' = backfill
      /\ runs' = runs /\ clock' = clock /\ crossed' = crossed
  BY DEF Refuse, Is
<1>2. Typed /\ Clocked /\ RowsWritten /\ SessionsNumbered /\ Met /\ RowsRead /\ Instructed
  BY DEF IInv
<1>3. /\ c \in CallRecords /\ c.stage = "refused" /\ c.at = call[t].at /\ c.found = call[t].found
      /\ c.msgs = call[t].msgs
  BY <1>2 DEF Typed, CallRecords
<1>. HIDE DEF c
<1>4. /\ call' \in [Traces -> CallRecords] /\ call'[t] = c
      /\ \A u \in Traces \ {t} : call'[u] = call[u]
  BY <1>1, <1>2, <1>3, CallUpdate
<1>5. t \in Called /\ t \notin StoredCalls /\ t \in Running
  BY <1>1 DEF Called, StoredCalls, Running
<1>6. /\ Called' = Called /\ StoredCalls' = StoredCalls /\ Running' = Running \ {t}
      /\ OrphanBorn' = OrphanBorn
  BY <1>1, <1>3, <1>4 DEF Called, StoredCalls, Running, OrphanBorn, Kept
<1>7. Typed'
  BY <1>1, <1>2, <1>4 DEF Typed
<1>8. Clocked'
  BY <1>1, <1>2, <1>3, <1>4, <1>6 DEF Clocked, Called
<1>9. RowsWritten'
  BY <1>1, <1>2, <1>4, <1>5, <1>6 DEF RowsWritten, StoredCalls
<1>10. SessionsNumbered'
  <2>1. Regroupings' = Regroupings
    BY <1>1 DEF Regroupings
  <2>. QED BY <1>1, <1>2, <1>3, <1>4, <1>6, <2>1 DEF SessionsNumbered
<1>11. Met' /\ RowsRead' /\ Instructed'
  BY <1>1, <1>2, <1>6 DEF Met, RowsRead, Instructed
<1>12. Quiet
  BY <1>1, <1>3, <1>4, <1>5, <1>6 DEF Quiet, StoredCalls
<1>13. Rest'
  BY <1>7, <1>8, <1>9, <1>10, <1>11 DEF Rest
<1>. QED BY <1>12, <1>13, QuietKeeps

-----------------------------------------------------------------------------
(* A response comes before its request; a backfill reads. *)

\* An orphan is a row without a session.
LEMMA OrphanKeeps ==
  ASSUME IInv, NEW t \in Traces, Orphan(t)
  PROVE  IInv'
<1>. DEFINE R == Row(clock', NoId, NoBody, NoSession)
<1>1. /\ Fresh(t) /\ clock' = clock + 1 /\ db' = [db EXCEPT !.rows = [db.rows EXCEPT ![t] = R]]
      /\ storeRaw' = storeRaw /\ requests' = requests /\ call' = call /\ backfill' = backfill
      /\ runs' = runs /\ crossed' = crossed
  BY DEF Orphan
<1>2. Typed /\ Clocked /\ RowsWritten /\ SessionsNumbered /\ Met /\ RowsRead /\ Instructed
  BY DEF IInv
<1>3. t \notin Kept(db) /\ t \notin Called /\ Kept(db) \cup Called \cup {t} = 1 .. t
  BY <1>1, <1>2, FreshTrace
<1>4. Called \in SUBSET Traces /\ OrphanBorn \in SUBSET Traces /\ t \notin OrphanBorn
  BY <1>3 DEF Called, OrphanBorn, Kept
<1>5. clock' \in Times /\ clock' = Cardinality(Called) + Cardinality(OrphanBorn \cup {t})
  <2>1. Cardinality(OrphanBorn \cup {t}) = Cardinality(OrphanBorn) + 1
    BY <1>4, OneMore
  <2>2. Cardinality(Called) \in Nat /\ Cardinality(OrphanBorn) \in Nat
    BY <1>4, TraceSet
  <2>3. Cardinality(Called) + Cardinality(OrphanBorn \cup {t}) \in Times
    BY <1>4, ClockBound
  <2>. QED BY <1>1, <1>2, <2>1, <2>2, <2>3 DEF Clocked
<1>6. /\ R \in Rows /\ R # NoRow /\ R.at = clock' /\ R.ext = NoId /\ R.body = NoBody
      /\ R.session = NoSession
  BY <1>5, GroupingAssumption DEF Rows, Row
<1>. HIDE DEF R
<1>7. /\ db' \in Databases /\ db'.sessions = db.sessions /\ db'.next = db.next
      /\ db'.rows[t] = R /\ \A u \in Traces \ {t} : db'.rows[u] = db.rows[u]
  BY <1>1, <1>2, <1>6 DEF Typed, Databases
<1>8. Kept(db') = Kept(db) \cup {t}
  BY <1>6, <1>7 DEF Kept
<1>9. t \notin StoredCalls /\ StoredCalls' = StoredCalls /\ Called' = Called /\ Running' = Running
  BY <1>1, <1>3 DEF StoredCalls, Called, Running
<1>10. clock \in Nat
  BY <1>2, Numbers DEF Typed
<1>11. OrphanBorn' = OrphanBorn \cup {t}
  <2>1. call[t].at = 0
    BY <1>2, <1>3 DEF Clocked, NoCall
  <2>2. t \in OrphanBorn'
    BY <1>1, <1>6, <1>7, <1>8, <1>10, <2>1 DEF OrphanBorn
  <2>3. \A u \in Traces \ {t} : u \in OrphanBorn' <=> u \in OrphanBorn
    BY <1>1, <1>7, <1>8 DEF OrphanBorn
  <2>. QED BY <2>2, <2>3 DEF OrphanBorn, Kept
<1>12. Typed'
  BY <1>1, <1>2, <1>5, <1>7 DEF Typed
<1>13. Clocked'
  <2>1. \E k \in 0 .. MaxTraces : Kept(db') \cup Called' = 1 .. k
    <3>1. t \in 0 .. MaxTraces
      BY Numbers DEF Traces
    <3>. QED BY <1>3, <1>8, <1>9, <3>1
  <2>2. clock' = Cardinality(Called') + Cardinality(OrphanBorn')
    BY <1>5, <1>9, <1>11
  <2>3. /\ \A u \in Called' : call'[u].at \in 1 .. clock' /\ call'[u].msgs \in Lists
        /\ \A u \in Traces \ Called' : call'[u] = NoCall
    <3>1. /\ \A u \in Called : call[u].at \in 1 .. clock /\ call[u].msgs \in Lists
          /\ \A u \in Traces \ Called : call[u] = NoCall
      BY <1>2 DEF Clocked
    <3>. QED BY <1>1, <1>9, <1>10, <3>1
  <2>4. \A u \in Kept(db') : db'.rows[u].at \in 1 .. clock'
    <3>1. \A u \in Kept(db) : u # t /\ u \in Traces /\ db.rows[u].at \in 1 .. clock
      BY <1>2, <1>3 DEF Clocked, Kept
    <3>2. \A u \in Kept(db) : db'.rows[u].at \in 1 .. clock'
      BY <1>1, <1>7, <1>10, <3>1
    <3>3. db'.rows[t].at \in 1 .. clock'
      BY <1>1, <1>6, <1>7, <1>10
    <3>. QED BY <1>8, <3>2, <3>3
  <2>. QED BY <2>1, <2>2, <2>3, <2>4 DEF Clocked
<1>14. RowsWritten'
  <2>1. \A u \in StoredCalls : u \in Kept(db) /\ u # t
    BY <1>2, <1>9 DEF RowsWritten
  <2>2. \A u \in Kept(db) : u \in Traces /\ u # t
    BY <1>3 DEF Kept
  <2>. QED BY <1>1, <1>2, <1>6, <1>7, <1>8, <1>9, <1>11, <2>1, <2>2 DEF RowsWritten, StoredCalls
<1>15. SessionsNumbered'
  <2>1. Regroupings' = Regroupings
    BY <1>1 DEF Regroupings
  <2>2. Numbered(db') <=> Numbered(db)
    BY <1>7 DEF Numbered, Live
  <2>3. \A u \in Kept(db) : u \in Traces /\ u # t
    BY <1>3 DEF Kept
  <2>4. \A u \in Kept(db') : db'.rows[u].session # NoSession => db'.rows[u].session < db'.next
    BY <1>2, <1>6, <1>7, <1>8, <2>3 DEF SessionsNumbered
  <2>. QED BY <1>1, <1>2, <1>7, <1>9, <2>1, <2>2, <2>4 DEF SessionsNumbered
<1>16. Met'
  BY <1>1, <1>2, <1>9 DEF Met
<1>17. RowsRead'
  BY <1>1, <1>2, <1>3, <1>7, <1>8 DEF RowsRead, Kept
<1>18. Instructed'
  <2>. SUFFICES ASSUME storeRaw', NEW u \in Kept(db') \ crossed',
                       db'.rows[u].session # NoSession, Text(db'.rows[u]) # <<>>
                PROVE
          /\ backfill'.stage = "idle" =>
               Signals(db'.rows[u].body) \subseteq db'.sessions[db'.rows[u].session].rules
          /\ backfill'.stage = "write" =>
               /\ backfill'.rules[db'.rows[u].session] # NoSession
               /\ Signals(db'.rows[u].body) \subseteq backfill'.rules[db'.rows[u].session]
    BY DEF Instructed
  <2>1. u # t /\ u \in Kept(db) \ crossed
    BY <1>1, <1>6, <1>7, <1>8
  <2>2. db'.rows[u] = db.rows[u]
    BY <1>7, <2>1 DEF Kept
  <2>. QED BY <1>1, <1>2, <1>7, <2>1, <2>2 DEF Instructed
<1>19. Quiet
  BY <1>1, <1>3, <1>6, <1>7, <1>9, <1>11 DEF Quiet
<1>20. Rest'
  BY <1>12, <1>13, <1>14, <1>15, <1>16, <1>17, <1>18 DEF Rest
<1>. QED BY <1>19, <1>20, QuietKeeps

\* A step that changes neither the tables nor the calls leaves the clock and what
\* the calls wrote as they are.
LEMMA SameTables ==
  ASSUME IInv, storeRaw' = storeRaw, clock' = clock, db' = db, call' = call
  PROVE  /\ Clocked'
         /\ StoredCalls' = StoredCalls /\ Running' = Running /\ OrphanBorn' = OrphanBorn
<1>1. /\ StoredCalls' = StoredCalls /\ Running' = Running /\ OrphanBorn' = OrphanBorn
      /\ Called' = Called
  BY DEF StoredCalls, Running, OrphanBorn, Called
<1>. QED BY <1>1 DEF IInv, Clocked

\* A backfill that starts meets the calls that run.
LEMMA ReadTracesKeeps ==
  ASSUME IInv, ReadTraces
  PROVE  IInv'
<1>. DEFINE b == [Idle EXCEPT !.stage = "regroup", !.rows = db.rows]
<1>1. /\ backfill.stage = "idle" /\ runs < MaxBackfills /\ runs' = runs + 1
      /\ backfill' = b /\ crossed' = crossed \cup Running
      /\ storeRaw' = storeRaw /\ requests' = requests /\ clock' = clock /\ db' = db
      /\ call' = call
  BY DEF ReadTraces, Cross
<1>2. Typed /\ Clocked /\ RowsWritten /\ SessionsNumbered /\ Met
  BY DEF IInv
<1>3. /\ Clocked' /\ StoredCalls' = StoredCalls /\ Running' = Running
      /\ OrphanBorn' = OrphanBorn
  BY <1>1, SameTables
<1>4. runs' \in 0 .. MaxBackfills /\ runs' # 0 /\ runs \in Nat
  BY <1>1, <1>2, Numbers DEF Typed
<1>5. b \in BackfillRecords /\ b.stage = "regroup" /\ b.rows = db.rows
  BY <1>2 DEF Idle, BackfillRecords, Typed, Databases
<1>. HIDE DEF b
<1>6. Typed'
  BY <1>1, <1>2, <1>4, <1>5 DEF Typed, Running
<1>7. RowsWritten'
  BY <1>1, <1>2, <1>3, <1>4 DEF RowsWritten
<1>8. SessionsNumbered'
  <2>1. Regroupings' = Regroupings
    BY <1>1, <1>4, <1>5 DEF Regroupings
  <2>. QED BY <1>1, <1>2, <1>3, <1>4, <2>1 DEF SessionsNumbered
<1>9. Met'
  BY <1>1, <1>2, <1>3 DEF Met
<1>10. RowsRead'
  BY <1>1, <1>5 DEF RowsRead, Kept
<1>11. Instructed'
  BY <1>1, <1>5 DEF Instructed
<1>12. Quiet
  BY <1>1, <1>3, <1>4, <1>5 DEF Quiet
<1>13. Rest'
  BY <1>3, <1>6, <1>7, <1>8, <1>9, <1>10, <1>11 DEF Rest
<1>. QED BY <1>12, <1>13, QuietKeeps

\* The baseline of a session holds what its traces carry.
LEMMA BaselineHolds ==
  ASSUME NEW d, NEW s
  PROVE  /\ Baseline(d, s) \in (SUBSET Standing) \cup {NoSession}
         /\ \A t \in TracesOf(d, s) : Text(d.rows[t]) # <<>> =>
              Baseline(d, s) # NoSession /\ Signals(d.rows[t].body) \subseteq Baseline(d, s)
<1>. DEFINE T == {t \in TracesOf(d, s) : Text(d.rows[t]) # <<>>}
            B == UNION {Signals(d.rows[t].body) : t \in T}
<1>1. B \in SUBSET Standing
  BY DEF Signals
<1>2. Baseline(d, s) = IF T = {} THEN NoSession ELSE B
  BY DEF Baseline
<1>3. \A t \in T : Signals(d.rows[t].body) \subseteq B
  OBVIOUS
<1>4. B # NoSession
  BY <1>1, GroupingAssumption
<1>. HIDE DEF B
<1>. QED BY <1>1, <1>2, <1>3, <1>4

\* Baselines read cover what the bodies carry.
LEMMA ReadBaselinesKeeps ==
  ASSUME IInv, ReadBaselines
  PROVE  IInv'
<1>. DEFINE b == [Idle EXCEPT !.stage = "write", !.rules = [s \in SessionIds |-> Baseline(db, s)]]
<1>1. /\ backfill.stage = "read" /\ backfill' = b
      /\ storeRaw' = storeRaw /\ requests' = requests /\ clock' = clock /\ db' = db
      /\ call' = call /\ runs' = runs /\ crossed' = crossed
  BY DEF ReadBaselines
<1>2. Typed /\ Clocked /\ RowsWritten /\ SessionsNumbered /\ Met /\ Belongs
  BY DEF IInv
<1>3. /\ Clocked' /\ StoredCalls' = StoredCalls /\ Running' = Running
      /\ OrphanBorn' = OrphanBorn
  BY <1>1, SameTables
<1>4. /\ b \in BackfillRecords /\ b.stage = "write"
      /\ \A s \in SessionIds : b.rules[s] = Baseline(db, s)
  <2>1. [s \in SessionIds |-> Baseline(db, s)]
          \in [SessionIds -> (SUBSET Standing) \cup {NoSession}]
    BY BaselineHolds
  <2>. QED BY <2>1 DEF Idle, BackfillRecords
<1>. HIDE DEF b
<1>5. Typed'
  BY <1>1, <1>2, <1>4 DEF Typed
<1>6. RowsWritten'
  BY <1>1, <1>2, <1>3 DEF RowsWritten
<1>7. SessionsNumbered'
  <2>1. Regroupings' = Regroupings
    BY <1>1, <1>4 DEF Regroupings
  <2>. QED BY <1>1, <1>2, <1>3, <2>1 DEF SessionsNumbered
<1>8. Met' /\ RowsRead'
  BY <1>1, <1>2, <1>3, <1>4 DEF Met, RowsRead
<1>9. Instructed'
  <2>. SUFFICES ASSUME NEW t \in Kept(db) \ crossed, db.rows[t].session # NoSession,
                       Text(db.rows[t]) # <<>>
                PROVE  /\ backfill'.rules[db.rows[t].session] # NoSession
                       /\ Signals(db.rows[t].body) \subseteq backfill'.rules[db.rows[t].session]
    BY <1>1, <1>4 DEF Instructed
  <2>. DEFINE s == db.rows[t].session
  <2>1. s \in SessionIds
    BY <1>2 DEF Belongs, Live
  <2>2. t \in TracesOf(db, s)
    BY DEF TracesOf
  <2>3. Baseline(db, s) # NoSession /\ Signals(db.rows[t].body) \subseteq Baseline(db, s)
    BY <2>2, BaselineHolds
  <2>. QED BY <1>1, <1>4, <2>1, <2>3
<1>10. Quiet
  BY <1>1, <1>3, <1>4 DEF Quiet
<1>11. Rest'
  BY <1>3, <1>5, <1>6, <1>7, <1>8, <1>9 DEF Rest
<1>. QED BY <1>10, <1>11, QuietKeeps

-----------------------------------------------------------------------------
(* Texts that continue each other. *)

\* A prefix, element by element.
LEMMA PrefixIs ==
  ASSUME NEW S, NEW p \in Seq(S), NEW q \in Seq(S)
  PROVE  IsPrefix(p, q) <=> Len(p) <= Len(q) /\ \A i \in 1 .. Len(p) : p[i] = q[i]
<1>. Len(p) \in Nat /\ Len(q) \in Nat
  OBVIOUS
<1>1. CASE Len(p) <= Len(q)
  <2>. DEFINE a == SubSeq(p, 1, Len(p))
              b == SubSeq(q, 1, Len(p))
  <2>1. /\ a \in Seq(S) /\ Len(a) = Len(p) /\ \A i \in 1 .. Len(p) : a[i] = p[i]
        /\ b \in Seq(S) /\ Len(b) = Len(p) /\ \A i \in 1 .. Len(p) : b[i] = q[i]
    BY <1>1
  <2>2. IsPrefix(p, q) <=> a = b
    BY <1>1 DEF IsPrefix
  <2>. HIDE DEF a, b
  <2>3. a = b <=> \A i \in 1 .. Len(p) : a[i] = b[i]
    <3>1. (\A i \in 1 .. Len(a) : a[i] = b[i]) => a = b
      BY <2>1, SeqEqual
    <3>. QED BY <2>1, <3>1
  <2>. QED BY <1>1, <2>1, <2>2, <2>3
<1>2. CASE ~ (Len(p) <= Len(q))
  BY <1>2 DEF IsPrefix
<1>. QED BY <1>1, <1>2

\* Prefixes form an order, and those of one text a chain.
LEMMA PrefixOrder ==
  ASSUME NEW S, NEW p \in Seq(S), NEW q \in Seq(S), NEW r \in Seq(S)
  PROVE  /\ IsPrefix(p, p)
         /\ IsPrefix(p, q) /\ IsPrefix(q, r) => IsPrefix(p, r)
         /\ IsPrefix(p, r) /\ IsPrefix(q, r) => IsPrefix(p, q) \/ IsPrefix(q, p)
<1>. Len(p) \in Nat /\ Len(q) \in Nat /\ Len(r) \in Nat
  OBVIOUS
<1>1. IsPrefix(p, p)
  BY PrefixIs
<1>2. IsPrefix(p, q) /\ IsPrefix(q, r) => IsPrefix(p, r)
  BY PrefixIs
<1>3. ASSUME IsPrefix(p, r), IsPrefix(q, r)
      PROVE  IsPrefix(p, q) \/ IsPrefix(q, p)
  <2>1. CASE Len(p) <= Len(q)
    BY <1>3, <2>1, PrefixIs
  <2>2. CASE Len(q) <= Len(p)
    BY <1>3, <2>2, PrefixIs
  <2>. QED BY <2>1, <2>2
<1>. QED BY <1>1, <1>2, <1>3

\* What is stored of a text.
LEMMA StoredText ==
  ASSUME NEW S, NEW p \in Seq(S)
  PROVE  /\ Stored(p) \in Seq(S \cup {Redacted}) /\ Len(Stored(p)) = Len(p)
         /\ \A i \in 1 .. Len(p) : Stored(p)[i] = Redact(p[i])
<1>1. DOMAIN p = 1 .. Len(p) /\ Len(p) \in Nat
  OBVIOUS
<1>2. \A i \in DOMAIN p : Redact(p[i]) \in S \cup {Redacted}
  BY DEF Redact
<1>. QED BY <1>1, <1>2 DEF Stored

\* Of a text that holds nothing sensitive all is stored; what is stored would be
\* stored as it is; and storing keeps the order.
LEMMA StoredOrder ==
  ASSUME NEW S, Redacted \in S, NEW p \in Seq(S), NEW q \in Seq(S)
  PROVE  /\ Range(p) \cap Secrets = {} => Stored(p) = p
         /\ Stored(Stored(p)) = Stored(p)
         /\ IsPrefix(p, q) => IsPrefix(Stored(p), Stored(q))
<1>. Len(p) \in Nat /\ Len(q) \in Nat /\ DOMAIN p = 1 .. Len(p)
  OBVIOUS
<1>1. /\ Stored(p) \in Seq(S) /\ Len(Stored(p)) = Len(p)
      /\ \A i \in 1 .. Len(p) : Stored(p)[i] = Redact(p[i])
      /\ Stored(q) \in Seq(S) /\ Len(Stored(q)) = Len(q)
      /\ \A i \in 1 .. Len(q) : Stored(q)[i] = Redact(q[i])
  <2>1. S \cup {Redacted} = S
    OBVIOUS
  <2>. QED BY <2>1, StoredText
<1>2. ASSUME Range(p) \cap Secrets = {} PROVE Stored(p) = p
  <2>1. \A i \in 1 .. Len(p) : p[i] \in Range(p)
    BY DEF Range
  <2>2. \A i \in 1 .. Len(p) : Stored(p)[i] = p[i]
    BY <1>1, <1>2, <2>1 DEF Redact
  <2>. QED BY <1>1, <2>2, SeqEqual
<1>3. Stored(Stored(p)) = Stored(p)
  <2>1. /\ Stored(Stored(p)) \in Seq(S) /\ Len(Stored(Stored(p))) = Len(p)
        /\ \A i \in 1 .. Len(p) : Stored(Stored(p))[i] = Redact(Stored(p)[i])
    <3>1. S \cup {Redacted} = S
      OBVIOUS
    <3>. QED BY <1>1, <3>1, StoredText
  <2>2. \A i \in 1 .. Len(p) : Stored(Stored(p))[i] = Stored(p)[i]
    BY <1>1, <2>1 DEF Redact
  <2>. QED BY <1>1, <2>1, <2>2, SeqEqual
<1>4. ASSUME IsPrefix(p, q) PROVE IsPrefix(Stored(p), Stored(q))
  <2>1. Len(p) <= Len(q) /\ \A i \in 1 .. Len(p) : p[i] = q[i]
    BY <1>4, PrefixIs
  <2>2. \A i \in 1 .. Len(p) : Stored(p)[i] = Stored(q)[i]
    BY <1>1, <2>1
  <2>. QED BY <1>1, <2>1, <2>2, PrefixIs
<1>. QED BY <1>2, <1>3, <1>4

\* The opener of what is stored is no opener without a secret but its own.
LEMMA StoredFingerprint ==
  ASSUME NEW msgs \in Lists
  PROVE  /\ Stored(msgs) \in Texts
         /\ \A o \in Messages : Fingerprint(Stored(msgs)) = o => Fingerprint(msgs) = o
<1>1. msgs \in Texts /\ Stored(msgs) \in Texts
  BY DEF Texts, Bodies
<1>2. msgs \in Seq(Messages)
  BY TextSequences
<1>3. Len(Stored(msgs)) = Len(msgs) /\ \A i \in 1 .. Len(msgs) : Stored(msgs)[i] = Redact(msgs[i])
  BY <1>2, StoredText
<1>4. ASSUME NEW o \in Messages, Fingerprint(Stored(msgs)) = o
      PROVE  Fingerprint(msgs) = o
  <2>1. o # NoId /\ o # Redacted
    BY GroupingAssumption
  <2>2. Stored(msgs) # <<>> /\ Stored(msgs)[1] = o
    BY <1>1, <1>4, <2>1, FingerprintType
  <2>3. Len(Stored(msgs)) # 0
    BY <1>1, <2>2, TextSequences
  <2>4. msgs # <<>> /\ 1 \in 1 .. Len(msgs)
    BY <1>2, <1>3, <2>3
  <2>5. Redact(msgs[1]) = o
    BY <1>3, <2>2, <2>4
  <2>6. msgs[1] = o
    BY <2>1, <2>5 DEF Redact
  <2>. QED BY <1>1, <2>4, <2>6, FingerprintType
<1>. QED BY <1>1, <1>4

-----------------------------------------------------------------------------
(* A call looks up its session. *)

\* The row of a stored call.
LEMMA StoredRow ==
  ASSUME IInv, NEW t \in StoredCalls
  PROVE  /\ t \in Kept(db) /\ t \in Traces /\ call[t].msgs \in Lists /\ db.rows[t] \in Rows
         /\ db.rows[t].ext = call[t].ext /\ db.rows[t].session # NoSession
         /\ storeRaw =>
              /\ db.rows[t].body = Stored(call[t].msgs) /\ db.rows[t].body # NoBody
              /\ db.rows[t].body \in Texts /\ Text(db.rows[t]) = db.rows[t].body
<1>1. t \in Called /\ t \in Traces
  BY DEF StoredCalls, Called
<1>2. call[t].msgs \in Lists
  BY <1>1 DEF IInv, Clocked
<1>3. /\ t \in Kept(db) /\ db.rows[t].ext = call[t].ext /\ db.rows[t].session # NoSession
      /\ storeRaw => db.rows[t].body = Stored(call[t].msgs)
  BY DEF IInv, RowsWritten
<1>4. db.rows[t] \in Rows
  BY <1>3, DatabaseFields DEF IInv, Typed
<1>5. Stored(call[t].msgs) \in Bodies /\ NoBody \notin Bodies
  BY <1>2, GroupingAssumption DEF Bodies
<1>. QED BY <1>1, <1>2, <1>3, <1>4, <1>5 DEF Texts, Text

\* A lookup that ends at the session of an opener is for a request without an ID
\* that begins so, and such a request finds it when it is compatible.
LEMMA HostFound ==
  ASSUME NEW d \in Databases, NEW h \in Live(d), NEW o \in Messages,
         d.sessions[h].ext = NoId, \A r \in Live(d) : d.sessions[r].fp = o <=> r = h,
         NEW t \in Traces, NEW ext \in Ids, NEW msgs \in Texts
  PROVE  /\ Lookup(d, t, ext, msgs) = h => ext = NoId /\ Fingerprint(msgs) = o
         /\ ext = NoId /\ Fingerprint(msgs) = o /\ Compatible(d, h, msgs) =>
              Lookup(d, t, ext, msgs) = h
<1>. DEFINE found == Lookup(d, t, ext, msgs)
<1>1. h # NoSession /\ o # NoId /\ t # NoId
  BY GroupingAssumption DEF Live
<1>2. CASE ext # NoId
  <2>1. found = Named(d, ext)
    BY <1>2 DEF Lookup
  <2>. HIDE DEF found
  <2>2. found = NoSession \/ d.sessions[found].ext = ext
    BY <2>1, NamedSession
  <2>. QED BY <1>1, <1>2, <2>2 DEF found
<1>3. CASE ext = NoId /\ Fingerprint(msgs) # NoId
  <2>. DEFINE last == LastSeen(d, Fingerprint(msgs))
  <2>1. found = IF last # NoSession /\ Compatible(d, last, msgs) THEN last ELSE NoSession
    BY <1>3 DEF Lookup
  <2>2. \/ last = NoSession /\ \A s \in Live(d) : d.sessions[s].fp # Fingerprint(msgs)
        \/ last \in Live(d) /\ d.sessions[last].fp = Fingerprint(msgs)
    BY LastSeenSession
  <2>. HIDE DEF found, last
  <2>3. found = h => Fingerprint(msgs) = o
    BY <1>1, <2>1, <2>2
  <2>4. Fingerprint(msgs) = o => last = h
    BY <1>1, <2>2
  <2>. QED BY <1>1, <1>3, <2>1, <2>3, <2>4 DEF found
<1>4. CASE ext = NoId /\ Fingerprint(msgs) = NoId
  <2>1. found = Named(d, t)
    BY <1>4 DEF Lookup
  <2>. HIDE DEF found
  <2>2. found = NoSession \/ d.sessions[found].ext = t
    BY <2>1, NamedSession
  <2>. QED BY <1>1, <1>4, <2>2 DEF found
<1>. QED BY <1>2, <1>3, <1>4

\* A request that continues each call of a conversation is compatible with the
\* session that holds them.
LEMMA HostCompatible ==
  ASSUME IInv, storeRaw, NEW d \in Databases, NEW h, NEW o,
         HostsIn(d, h, o), Opened(o) # {}, Conversation(Opened(o)),
         \A v \in Opened(o) : v \in Kept(d) /\ d.rows[v].body = db.rows[v].body,
         NEW msgs, \A v \in Opened(o) : SameLineage(call[v].msgs, msgs)
  PROVE  Compatible(d, h, msgs)
<1>1. \A v \in Opened(o) : v \in StoredCalls /\ Range(call[v].msgs) \cap Secrets = {}
  BY DEF Opened, Conversation
<1>2. \A v \in Opened(o) : db.rows[v].body = call[v].msgs /\ db.rows[v].body # NoBody
  <2>. SUFFICES ASSUME NEW v \in Opened(o)
                PROVE  db.rows[v].body = call[v].msgs /\ db.rows[v].body # NoBody
    OBVIOUS
  <2>1. /\ call[v].msgs \in Lists /\ db.rows[v].body = Stored(call[v].msgs)
        /\ db.rows[v].body # NoBody
    BY <1>1, StoredRow
  <2>2. call[v].msgs \in Seq(Messages \cup {Redacted})
    BY <2>1, TextSequences DEF Texts
  <2>3. Redacted \in Messages \cup {Redacted}
    OBVIOUS
  <2>. QED BY <1>1, <2>1, <2>2, <2>3, StoredOrder
<1>3. WithBody(d, h) # {} /\ WithBody(d, h) \subseteq Opened(o)
  <2>1. Opened(o) \subseteq TracesOf(d, h) /\ TracesOf(d, h) \subseteq Opened(o)
    BY DEF HostsIn, TracesOf
  <2>. QED BY <1>2, <2>1 DEF WithBody
<1>4. Newest(d, WithBody(d, h)) \in WithBody(d, h)
  <2>1. WithBody(d, h) \subseteq Kept(d)
    BY DEF WithBody, TracesOf
  <2>. QED BY <1>3, <2>1, NewestRow, DatabaseFields
<1>5. SameLineage(d.rows[Newest(d, WithBody(d, h))].body, msgs)
  BY <1>2, <1>3, <1>4
<1>. QED BY <1>3, <1>5 DEF Compatible

\* What a lookup without an ID finds before any backfill holds a trace that the
\* request continues.
LEMMA FoundContinues ==
  ASSUME IInv, runs = 0, NEW t \in Traces, NEW msgs \in Texts,
         NEW s, s = Lookup(db, t, NoId, msgs), s # NoSession
  PROVE  \E v \in TracesOf(db, s) :
           db.rows[v].body = NoBody \/ SameLineage(db.rows[v].body, msgs)
<1>1. db \in Databases /\ \A q \in Live(db) : TracesOf(db, q) # {}
  BY DEF IInv, Typed, Counted
<1>2. s \in Live(db)
  BY <1>1, LookupSession DEF Ids
<1>3. CASE WithBody(db, s) = {}
  <2>1. \A v \in TracesOf(db, s) : db.rows[v].body = NoBody
    BY <1>3 DEF WithBody
  <2>. QED BY <1>1, <1>2, <2>1
<1>4. CASE WithBody(db, s) # {}
  <2>. DEFINE v == Newest(db, WithBody(db, s))
  <2>1. WithBody(db, s) \subseteq Kept(db) /\ WithBody(db, s) \subseteq TracesOf(db, s)
    BY DEF WithBody, TracesOf
  <2>2. v \in WithBody(db, s)
    BY <1>1, <1>4, <2>1, NewestRow, DatabaseFields
  <2>3. db.rows[v].body \in Texts
    <3>1. db.rows[v] \in Rows /\ db.rows[v].body # NoBody
      BY <1>1, <2>1, <2>2, DatabaseFields DEF WithBody
    <3>. HIDE DEF v
    <3>. QED BY <3>1 DEF Rows, Texts
  <2>4. msgs = <<>> => IsPrefix(msgs, db.rows[v].body)
    <3>1. /\ msgs \in Seq(Messages \cup {Redacted})
          /\ db.rows[v].body \in Seq(Messages \cup {Redacted})
      BY <2>3, TextSequences
    <3>. DEFINE body == db.rows[v].body
    <3>. HIDE DEF v, body
    <3>2. IsPrefix(msgs, body) <=>
            Len(msgs) <= Len(body) /\ \A i \in 1 .. Len(msgs) : msgs[i] = body[i]
      BY <3>1, PrefixIs DEF body
    <3>3. msgs = <<>> => Len(msgs) = 0 /\ Len(body) \in Nat
      BY <3>1 DEF body
    <3>. QED BY <3>2, <3>3 DEF body
  <2>5. msgs # <<>> => Compatible(db, s, msgs)
    <3>. HAVE msgs # <<>>
    <3>. DEFINE last == LastSeen(db, Fingerprint(msgs))
    <3>1. Fingerprint(msgs) # NoId
      BY FingerprintType
    <3>2. s = IF last # NoSession /\ Compatible(db, last, msgs) THEN last ELSE NoSession
      BY <3>1 DEF Lookup
    <3>. HIDE DEF last
    <3>. QED BY <3>2
  <2>6. SameLineage(db.rows[v].body, msgs)
    <3>. HIDE DEF v
    <3>1. msgs # <<>> => SameLineage(db.rows[v].body, msgs)
      BY <1>4, <2>5 DEF Compatible, v
    <3>. QED BY <2>4, <3>1 DEF SameLineage
  <2>. QED BY <2>1, <2>2, <2>6
<1>. QED BY <1>3, <1>4

\* The call with what it has found.
LEMMA LookCall ==
  ASSUME Typed, NEW t \in Traces, NEW F \in SessionIds \cup {NoSession},
         call' = [call EXCEPT ![t].stage = "looked", ![t].found = F]
  PROVE  /\ call' \in [Traces -> CallRecords]
         /\ call'[t].stage = "looked" /\ call'[t].found = F
         /\ call'[t].ext = call[t].ext /\ call'[t].msgs = call[t].msgs /\ call'[t].at = call[t].at
         /\ \A u \in Traces \ {t} : call'[u] = call[u]
<1>. DEFINE a == [call[t] EXCEPT !.stage = "looked"]
            c == [a EXCEPT !.found = F]
<1>1. PICK v : v = [call EXCEPT ![t] = a]
  OBVIOUS
<1>2. v[t] = a
  BY <1>1 DEF Typed
<1>3. call' = [v EXCEPT ![t] = [v[t] EXCEPT !.found = F]]
  BY <1>1 DEF Typed
<1>4. c \in CallRecords
  BY DEF Typed, CallRecords
<1>5. /\ c.stage = "looked" /\ c.found = F /\ c.ext = call[t].ext /\ c.msgs = call[t].msgs
      /\ c.at = call[t].at
  BY DEF Typed, CallRecords
<1>6. call' = [v EXCEPT ![t] = c]
  <2>. HIDE DEF a
  <2>. QED BY <1>2, <1>3
<1>. HIDE DEF c, a
<1>7. call' = [call EXCEPT ![t] = c]
  BY <1>1, <1>6 DEF Typed
<1>. QED BY <1>4, <1>5, <1>7 DEF Typed

\* What a call looks up stands when it has just been looked up.
LEMMA LookKeeps ==
  ASSUME IInv, NEW t \in Traces, Look(t)
  PROVE  IInv'
<1>. DEFINE F == Lookup(db, t, call[t].ext, call[t].msgs)
<1>1. /\ call[t].stage = "arrived" /\ call' = [call EXCEPT ![t].stage = "looked", ![t].found = F]
      /\ storeRaw' = storeRaw /\ requests' = requests /\ db' = db /\ backfill' = backfill
      /\ runs' = runs /\ clock' = clock /\ crossed' = crossed
  BY DEF Look, Is
<1>2. /\ Typed /\ Clocked /\ RowsWritten /\ SessionsNumbered /\ Met /\ LookedUp /\ RowsRead
      /\ Belongs /\ Counted /\ Instructed /\ HangTogether /\ OneSession
  BY DEF IInv
<1>3. db \in Databases /\ call[t].ext \in Ids /\ call[t].msgs \in Texts
  BY <1>2 DEF Typed, CallRecords, Texts
<1>4. /\ F \in Live(db) \cup {NoSession}
      /\ F # NoSession /\ call[t].ext # NoId => db.sessions[F].ext = call[t].ext
  BY <1>3, LookupSession
<1>. HIDE DEF F
<1>5. /\ call' \in [Traces -> CallRecords]
      /\ call'[t].stage = "looked" /\ call'[t].found = F
      /\ call'[t].ext = call[t].ext /\ call'[t].msgs = call[t].msgs /\ call'[t].at = call[t].at
      /\ \A u \in Traces \ {t} : call'[u] = call[u]
  <2>1. F \in SessionIds \cup {NoSession}
    BY <1>4 DEF Live
  <2>. QED BY <1>1, <1>2, <2>1, LookCall
<1>6. t \in Called /\ t \notin StoredCalls /\ t \in Running
  BY <1>1 DEF Called, StoredCalls, Running
<1>7. /\ Called' = Called /\ StoredCalls' = StoredCalls /\ Running' = Running
      /\ OrphanBorn' = OrphanBorn
  BY <1>1, <1>5 DEF Called, StoredCalls, Running, OrphanBorn, Kept
<1>8. Typed'
  BY <1>1, <1>2, <1>5 DEF Typed
<1>9. Clocked'
  <2>1. \A u \in Traces : call'[u].at = call[u].at /\ call'[u].msgs = call[u].msgs
    BY <1>5
  <2>2. \A u \in Traces \ Called : call'[u] = NoCall
    BY <1>2, <1>5, <1>6 DEF Clocked
  <2>3. Called \subseteq Traces
    BY DEF Called
  <2>. QED BY <1>1, <1>2, <1>7, <2>1, <2>2, <2>3 DEF Clocked
<1>10. RowsWritten'
  BY <1>1, <1>2, <1>5, <1>6, <1>7 DEF RowsWritten, StoredCalls
<1>11. SessionsNumbered'
  <2>1. Regroupings' = Regroupings
    BY <1>1 DEF Regroupings
  <2>2. F # NoSession => F < db.next
    BY <1>2, <1>4 DEF SessionsNumbered, Numbered
  <2>. QED BY <1>1, <1>2, <1>5, <1>7, <2>1, <2>2 DEF SessionsNumbered
<1>12. Met' /\ RowsRead' /\ Belongs' /\ Counted' /\ Instructed'
  BY <1>1, <1>2, <1>7 DEF Met, RowsRead, Belongs, Counted, Instructed
<1>13. LookedUp'
  BY <1>1, <1>2, <1>4, <1>5 DEF LookedUp
<1>14. HangTogether'
  <2>1. runs' = runs /\ db' = db
    BY <1>1
  <2>2. ASSUME runs = 0, NEW u \in Traces, call'[u].stage = "looked",
               call'[u].found # NoSession, call'[u].ext = NoId
        PROVE  \E v \in TracesOf(db', call'[u].found) : Continues(u, v)'
    <3>1. CASE u = t
      <4>1. \E v \in TracesOf(db, F) :
              db.rows[v].body = NoBody \/ SameLineage(db.rows[v].body, call[t].msgs)
        BY <1>3, <1>5, <2>2, <3>1, FoundContinues DEF F
      <4>. QED BY <1>1, <1>5, <3>1, <4>1 DEF Continues
    <3>2. CASE u # t
      <4>1. \E v \in TracesOf(db, call[u].found) : Continues(u, v)
        BY <1>2, <1>5, <2>2, <3>2 DEF HangTogether
      <4>. QED BY <1>1, <1>5, <3>2, <4>1 DEF Continues
    <3>. QED BY <3>1, <3>2
  <2>3. ASSUME runs = 0, NEW s \in Live(db'),
               \A u \in TracesOf(db', s) : db'.rows[u].ext = NoId /\ db'.rows[u].body # NoBody
        PROVE  Bridged(TracesOf(db, s))'
    <3>1. Bridged(TracesOf(db, s))
      BY <1>2, <2>1, <2>3 DEF HangTogether
    <3>. QED BY <2>1, <3>1 DEF Bridged
  <2>. QED BY <2>1, <2>2, <2>3 DEF HangTogether
<1>15. OneSession'
  <2>1. \A u \in Traces : call'[u].ext = call[u].ext /\ call'[u].msgs = call[u].msgs
    BY <1>5
  <2>2. ASSUME NEW o PROVE Opened(o)' = Opened(o) /\ Opened(o) \subseteq Traces
    BY <1>7, <2>1 DEF Opened, StoredCalls
  <2>3. ASSUME NEW T \in SUBSET Traces PROVE Conversation(T)' <=> Conversation(T)
    BY <1>1, <2>1 DEF Conversation
  <2>4. ASSUME NEW h, NEW o \in Messages, Hosts(h, o) PROVE Hosts(h, o)'
    <3>1. HostsIn(db, h, o)'
      BY <1>1, <2>2, <2>4 DEF Hosts, HostsIn
    <3>2. F = h => call[t].ext = NoId /\ Fingerprint(call[t].msgs) = o
      BY <1>3, <2>4, HostFound DEF F, Hosts, HostsIn
    <3>. QED BY <1>5, <2>4, <3>1, <3>2 DEF Hosts
  <2>. SUFFICES ASSUME storeRaw, NEW o \in Messages \ Secrets, Conversation(Opened(o))'
                PROVE
          /\ Opened(o)' = {} => \A r \in Live(db') : db'.sessions[r].fp # o
          /\ Opened(o)' # {} => \E s \in SessionIds : Hosts(s, o)'
          /\ \A u \in Traces :
               call'[u].stage = "looked" /\ Fingerprint(call'[u].msgs) = o
                 /\ Conversation(Opened(o) \cup {u})' =>
                 /\ Opened(o)' = {} => call'[u].found = NoSession
                 /\ Opened(o)' # {} => call'[u].found # NoSession /\ Hosts(call[u].found, o)'
    BY <1>1 DEF OneSession
  <2>5. Conversation(Opened(o))
    <3>1. Opened(o) \in SUBSET Traces /\ Opened(o)' = Opened(o)
      BY <2>2
    <3>2. Conversation(Opened(o))' <=> Conversation(Opened(o))
      BY <1>1, <2>1, <3>1 DEF Conversation
    <3>. QED BY <3>2
  <2>6. /\ Opened(o) = {} => \A r \in Live(db) : db.sessions[r].fp # o
        /\ Opened(o) # {} => \E s \in SessionIds : Hosts(s, o)
        /\ \A u \in Traces :
             call[u].stage = "looked" /\ Fingerprint(call[u].msgs) = o
               /\ Conversation(Opened(o) \cup {u}) =>
               /\ Opened(o) = {} => call[u].found = NoSession
               /\ Opened(o) # {} => call[u].found # NoSession /\ Hosts(call[u].found, o)
    BY <1>2, <2>5 DEF OneSession
  <2>7. ASSUME NEW u \in Traces, call'[u].stage = "looked", Fingerprint(call'[u].msgs) = o,
               Conversation(Opened(o) \cup {u})'
        PROVE  /\ Opened(o)' = {} => call'[u].found = NoSession
               /\ Opened(o)' # {} => call'[u].found # NoSession /\ Hosts(call[u].found, o)'
    <3>1. Conversation(Opened(o) \cup {u})
      <4>1. Opened(o)' = Opened(o) /\ Opened(o) \subseteq Traces
        BY <2>2
      <4>2. \A v \in Opened(o) \cup {u} : call'[v].ext = call[v].ext /\ call'[v].msgs = call[v].msgs
        BY <2>1, <4>1
      <4>3. crossed' = crossed
        BY <1>1
      <4>. QED BY <2>7, <4>1, <4>2, <4>3 DEF Conversation
    <3>2. CASE u # t
      <4>1. call'[u] = call[u]
        BY <1>5, <3>2
      <4>2. /\ Opened(o) = {} => call[u].found = NoSession
            /\ Opened(o) # {} => call[u].found # NoSession /\ Hosts(call[u].found, o)
        BY <2>6, <2>7, <3>1, <4>1
      <4>. QED BY <2>2, <2>4, <4>1, <4>2
    <3>3. CASE u = t
      <4>1. call[t].ext = NoId /\ Fingerprint(call[t].msgs) = o /\ o # NoId
        BY <2>1, <2>7, <3>1, <3>3, GroupingAssumption DEF Conversation
      <4>2. CASE Opened(o) = {}
        <5>1. LastSeen(db, o) = NoSession
          BY <1>3, <2>6, <4>2, LastSeenSession
        <5>2. F = NoSession
          BY <4>1, <5>1 DEF F, Lookup
        <5>. QED BY <1>5, <2>2, <3>3, <4>2, <5>2
      <4>3. CASE Opened(o) # {}
        <5>1. PICK h \in SessionIds : Hosts(h, o)
          BY <2>6, <4>3
        <5>2. \A v \in Opened(o) : SameLineage(call[v].msgs, call[t].msgs)
          BY <3>1, <3>3 DEF Conversation, SameLineage
        <5>3. \A v \in Opened(o) : v \in Kept(db)
          BY <1>2 DEF Opened, RowsWritten
        <5>4. Compatible(db, h, call[t].msgs)
          BY <1>3, <2>5, <4>3, <5>1, <5>2, <5>3, HostCompatible DEF Hosts
        <5>5. F = h
          BY <1>3, <4>1, <5>1, <5>4, HostFound DEF F, Hosts, HostsIn
        <5>6. F # NoSession
          BY <5>5, GroupingAssumption
        <5>7. Hosts(h, o)'
          BY <2>4, <5>1
        <5>8. Hosts(call[u].found, o)'
          BY <1>5, <3>3, <5>5, <5>7
        <5>9. call'[u].found # NoSession
          BY <1>5, <3>3, <5>6
        <5>. QED BY <2>2, <4>3, <5>8, <5>9
      <4>. QED BY <4>2, <4>3
    <3>. QED BY <3>2, <3>3
  <2>. QED BY <1>1, <2>2, <2>4, <2>6, <2>7
<1>. QED BY <1>8, <1>9, <1>10, <1>11, <1>12, <1>13, <1>14, <1>15 DEF IInv

-----------------------------------------------------------------------------
(* A call writes. *)

\* There are session IDs for one more.
LEMMA Room ==
  ASSUME NEW n \in Nat \ {0}, NEW a \in Nat, NEW k \in 0 .. MaxBackfills,
         a < MaxTraces, n <= 1 + a + MaxTraces * k
  PROVE  n \in SessionIds
<1>1. MaxTraces \in Nat /\ MaxBackfills \in Nat /\ k \in Nat /\ k <= MaxBackfills
  BY Numbers
<1>2. MaxTraces * k <= MaxTraces * MaxBackfills /\ MaxTraces * k \in Nat
  <2>1. MaxTraces * (MaxBackfills - k) \in Nat
    BY <1>1
  <2>2. MaxTraces * (MaxBackfills - k) = MaxTraces * MaxBackfills - MaxTraces * k
    BY <1>1
  <2>3. MaxTraces * k \in Nat /\ MaxTraces * MaxBackfills \in Nat
    BY <1>1
  <2>. QED BY <2>1, <2>2, <2>3
<1>3. MaxTraces * (1 + MaxBackfills) = MaxTraces + MaxTraces * MaxBackfills
      /\ MaxTraces * MaxBackfills \in Nat
  BY <1>1
<1>4. n <= MaxTraces * (1 + MaxBackfills)
  <2>1. 1 + a <= MaxTraces
    BY <1>1
  <2>. QED BY <1>1, <1>2, <1>3, <2>1
<1>. QED BY <1>4, Numbers DEF SessionIds

\* A call that is not stored yet finds an ID for a session.
LEMMA NextFree ==
  ASSUME IInv, NEW t \in Traces, t \notin StoredCalls
  PROVE  /\ db.next \in SessionIds
         /\ Cardinality(StoredCalls \cup {t}) = Cardinality(StoredCalls) + 1
         /\ Cardinality(StoredCalls) \in Nat
<1>1. StoredCalls \in SUBSET Traces
  BY DEF StoredCalls
<1>2. /\ Cardinality(StoredCalls \cup {t}) = Cardinality(StoredCalls) + 1
      /\ Cardinality(StoredCalls) < MaxTraces /\ Cardinality(StoredCalls) \in Nat
  BY <1>1, OneMore, TraceSet
<1>3. Regroupings \in 0 .. MaxBackfills
  <2>1. runs \in 0 .. MaxBackfills /\ (backfill.stage # "idle" => runs >= 1)
    BY DEF IInv, Typed, SessionsNumbered
  <2>. QED BY <2>1, Numbers DEF Regroupings
<1>4. db.next \in Nat \ {0} /\ db.next <= 1 + Cardinality(StoredCalls) + MaxTraces * Regroupings
  BY DatabaseFields DEF IInv, Typed, SessionsNumbered
<1>. QED BY <1>2, <1>3, <1>4, Room

\* What _merge_authorization makes of the row of a session.
Merged(r, rules) ==
  [ext |-> r.ext, fp |-> r.fp, seen |-> r.seen, calls |-> r.calls, rules |-> r.rules \cup rules]

\* It replaces the row of one session by that.
LEMMA MergeEffect ==
  ASSUME NEW d \in Databases, NEW s \in Live(d), NEW rules \in SUBSET Standing
  PROVE  /\ Merge(d, s, rules) = WithSession(d, s, Merged(d.sessions[s], rules), d.next)
         /\ Merged(d.sessions[s], rules) \in Sessions
<1>. DEFINE r == d.sessions[s]
            new == [r EXCEPT !.rules = r.rules \cup rules]
<1>1. s \in SessionIds /\ r \in Sessions
  BY DatabaseFields
<1>2. new = Merged(r, rules)
  <2>. HIDE DEF r
  <2>1. new = [ext |-> r.ext, fp |-> r.fp, seen |-> r.seen, calls |-> r.calls,
               rules |-> r.rules \cup rules]
    BY <1>1, RulesFields
  <2>. QED BY <2>1 DEF Merged
<1>3. Merged(r, rules) \in Sessions
  BY <1>1 DEF Merged, Sessions
<1>4. PICK m : m = Merge(d, s, rules)
  OBVIOUS
<1>5. m = [d EXCEPT !.sessions = [d.sessions EXCEPT ![s] = new]]
  BY <1>4 DEF Merge
<1>. HIDE DEF new
<1>6. m = [rows |-> d.rows, next |-> d.next, sessions |-> [d.sessions EXCEPT ![s] = new]]
  BY <1>5, DatabaseFields
<1>. QED BY <1>2, <1>3, <1>4, <1>6 DEF WithSession

\* What the insert or update of a trace makes of the tables.
WithRow(d, t, R) == [d EXCEPT !.rows[t] = R]

\* It replaces one row of traces.
LEMMA RowEffect ==
  ASSUME NEW d \in Databases, NEW t \in Traces, NEW R \in Rows,
         NEW e, e = WithRow(d, t, R)
  PROVE  /\ e \in Databases /\ e.sessions = d.sessions /\ e.next = d.next
         /\ e.rows[t] = R /\ \A u \in Traces \ {t} : e.rows[u] = d.rows[u]
<1>1. e = [d EXCEPT !.rows = [d.rows EXCEPT ![t] = R]]
  BY DEF WithRow
<1>2. e.rows = [d.rows EXCEPT ![t] = R] /\ e.sessions = d.sessions /\ e.next = d.next
  BY <1>1 DEF Databases
<1>3. e \in Databases
  BY <1>1 DEF Databases
<1>. QED BY <1>2, <1>3, DatabaseFields

\* The row a call writes, in the session s.
WrittenRow(t, s) ==
  [at |-> IF db.rows[t] = NoRow THEN call[t].at ELSE db.rows[t].at, ext |-> call[t].ext,
   body |-> IF storeRaw THEN Stored(call[t].msgs) ELSE NoBody, session |-> s]

\* And what that makes of the sessions: nothing if s is gone; or else the call is
\* counted and its rules are added.
WroteGone(t, s) ==
  /\ call[t].found = s /\ s \notin Live(db)
  /\ db'.sessions = db.sessions /\ db'.next = db.next
WroteLive(t, s) ==
  \E r \in Sessions :
    /\ Joins(db, call[t].found, t, call[t].ext, call[t].msgs, call[t].at, s, r, db'.next)
    /\ db'.sessions[s] = Merged(r, Signals(call[t].msgs)) /\ db'.sessions[s] \in Sessions
    /\ Sets(db, db', s, db'.sessions[s], db'.next)
    /\ Takes(db, call[t].found, Naming(t, call[t].ext, call[t].msgs), s, db'.sessions[s], db'.next)

\* Write does one of the two, and writes the row.
LEMMA WriteEffect ==
  ASSUME IInv, NEW t \in Traces, Write(t)
  PROVE  \E s \in SessionIds :
           /\ WrittenRow(t, s) \in Rows /\ db' \in Databases
           /\ db'.rows[t] = WrittenRow(t, s)
           /\ \A u \in Traces \ {t} : db'.rows[u] = db.rows[u]
           /\ WroteGone(t, s) \/ WroteLive(t, s)
<1>. DEFINE ext   == call[t].ext
            msgs  == call[t].msgs
            at    == call[t].at
            found == call[t].found
            rules == Signals(msgs)
            done  == Upsert(db, found, t, ext, msgs, at)
<1>1. /\ call[t].stage = "looked" /\ ~Refused(db, found, t, ext, msgs)
      /\ db' = [Merge(done.db, done.session, rules) EXCEPT !.rows[t] = WrittenRow(t, done.session)]
  BY DEF Write, Is, Row, WrittenRow
<1>2. /\ t \in Called /\ t \notin StoredCalls
      /\ db \in Databases /\ ext \in Ids /\ at \in Times /\ found \in SessionIds \cup {NoSession}
  BY <1>1 DEF Called, StoredCalls, IInv, Typed, CallRecords
<1>3. msgs \in Lists /\ msgs \in Texts /\ rules \in SUBSET Standing
  BY <1>2 DEF IInv, Clocked, Texts, Signals
<1>4. ASSUME NEW s \in SessionIds PROVE WrittenRow(t, s) \in Rows
  <2>1. db.rows[t] # NoRow => db.rows[t].at \in Times
    BY <1>2 DEF Databases, Rows
  <2>2. Stored(msgs) \in Bodies
    BY <1>3 DEF Bodies
  <2>. QED BY <1>2, <2>1, <2>2 DEF WrittenRow, Rows, Ids
<1>5. ASSUME NEW m \in Databases, NEW s \in SessionIds,
             db' = [m EXCEPT !.rows[t] = WrittenRow(t, s)], m.rows = db.rows
      PROVE  /\ db' \in Databases /\ db'.sessions = m.sessions /\ db'.next = m.next
             /\ db'.rows[t] = WrittenRow(t, s)
             /\ \A u \in Traces \ {t} : db'.rows[u] = db.rows[u]
  <2>1. WrittenRow(t, s) \in Rows
    BY <1>4
  <2>2. db' = WithRow(m, t, WrittenRow(t, s))
    BY <1>5 DEF WithRow
  <2>. HIDE DEF ext, msgs, at, found, rules, done
  <2>3. PICK R : R = WrittenRow(t, s)
    OBVIOUS
  <2>4. PICK e : e = db'
    OBVIOUS
  <2>5. R \in Rows /\ e = WithRow(m, t, R)
    BY <2>1, <2>2, <2>3, <2>4
  <2>6. e \in Databases /\ e.sessions = m.sessions /\ e.next = m.next
    BY <2>5, RowEffect
  <2>7. e.rows[t] = R /\ \A u \in Traces \ {t} : e.rows[u] = m.rows[u]
    BY <2>5, RowEffect
  <2>8. m.rows = db.rows
    BY <1>5
  <2>. QED BY <2>3, <2>4, <2>6, <2>7, <2>8
<1>6. CASE found \in SessionIds /\ found \notin Live(db)
  <2>1. found # NoSession
    BY <1>6, GroupingAssumption
  <2>2. done = [db |-> db, session |-> found]
    BY <1>6, <2>1 DEF Upsert, Touch
  <2>3. Merge(done.db, done.session, rules) = db
    BY <1>6, <2>2 DEF Merge
  <2>4. /\ db' \in Databases /\ db'.sessions = db.sessions /\ db'.next = db.next
        /\ db'.rows[t] = WrittenRow(t, found)
        /\ \A u \in Traces \ {t} : db'.rows[u] = db.rows[u]
    BY <1>1, <1>2, <1>5, <1>6, <2>2, <2>3
  <2>. QED BY <1>4, <1>6, <2>4 DEF WroteGone
<1>7. CASE found \in Live(db) \cup {NoSession}
  <2>1. db.next \in SessionIds
    BY <1>2, NextFree
  <2>2. PICK s \in SessionIds, r \in Sessions, next \in Nat \ {0} :
          /\ done = [db |-> WithSession(db, s, r, next), session |-> s]
          /\ Joins(db, found, t, ext, msgs, at, s, r, next)
    BY <1>2, <1>3, <1>7, <2>1, UpsertEffect
  <2>3. PICK e : e = WithSession(db, s, r, next)
    OBVIOUS
  <2>4. /\ e \in Databases /\ e.rows = db.rows /\ e.next = next /\ e.sessions[s] = r
        /\ s \in Live(e) /\ \A q \in SessionIds \ {s} : e.sessions[q] = db.sessions[q]
    BY <1>2, <2>3, WithSessionFields
  <2>5. /\ Merge(e, s, rules) = WithSession(e, s, Merged(r, rules), next)
        /\ Merged(r, rules) \in Sessions
    BY <1>3, <2>4, MergeEffect
  <2>6. PICK m : m = WithSession(e, s, Merged(r, rules), next)
    OBVIOUS
  <2>7. /\ m \in Databases /\ m.rows = db.rows /\ m.next = next /\ m.sessions[s] = Merged(r, rules)
        /\ \A q \in SessionIds \ {s} : m.sessions[q] = db.sessions[q]
    BY <2>4, <2>5, <2>6, WithSessionFields
  <2>8. db' = [m EXCEPT !.rows[t] = WrittenRow(t, s)]
    <3>1. done.db = e /\ done.session = s
      BY <2>2, <2>3
    <3>. HIDE DEF done
    <3>. QED BY <1>1, <2>5, <2>6, <3>1
  <2>9. /\ db' \in Databases /\ db'.sessions = m.sessions /\ db'.next = m.next
        /\ db'.rows[t] = WrittenRow(t, s)
        /\ \A u \in Traces \ {t} : db'.rows[u] = db.rows[u]
    BY <1>5, <2>7, <2>8
  <2>10. Sets(db, db', s, db'.sessions[s], db'.next)
    BY <2>7, <2>9 DEF Sets
  <2>11. Takes(db, found, Naming(t, ext, msgs), s, db'.sessions[s], db'.next)
    <3>1. Merged(r, rules).ext = r.ext
      BY DEF Merged
    <3>2. found = NoSession /\ Naming(t, ext, msgs) # NoId =>
            \A q \in Live(db) : db.sessions[q].ext # Naming(t, ext, msgs)
      <4>. HAVE found = NoSession /\ Naming(t, ext, msgs) # NoId
      <4>1. Named(db, Naming(t, ext, msgs)) = NoSession
        BY <1>1 DEF Refused
      <4>2. NoSession \notin Live(db)
        BY GroupingAssumption DEF Live
      <4>. QED BY <1>2, <4>1, <4>2, NamedSession
    <3>. QED BY <2>2, <2>7, <2>9, <3>1, <3>2 DEF Joins, Takes, Touched, Inserted
  <2>12. WroteLive(t, s)
    BY <2>2, <2>5, <2>7, <2>9, <2>10, <2>11 DEF WroteLive
  <2>. QED BY <1>4, <2>9, <2>12
<1>. QED BY <1>2, <1>6, <1>7

\* The call t writes, and joins the session s.
Writes(t, s) ==
  /\ call[t].stage = "looked" /\ call' = [call EXCEPT ![t].stage = "stored"]
  /\ storeRaw' = storeRaw /\ requests' = requests /\ clock' = clock /\ backfill' = backfill
  /\ runs' = runs /\ crossed' = crossed
  /\ WrittenRow(t, s) \in Rows /\ db' \in Databases
  /\ db'.rows[t] = WrittenRow(t, s)
  /\ \A u \in Traces \ {t} : db'.rows[u] = db.rows[u]
  /\ WroteGone(t, s) \/ WroteLive(t, s)

\* Write makes the call join some session.
LEMMA WriteWrites ==
  ASSUME IInv, NEW t \in Traces, Write(t)
  PROVE  \E s \in SessionIds : Writes(t, s)
<1>1. /\ call[t].stage = "looked" /\ call' = [call EXCEPT ![t].stage = "stored"]
      /\ storeRaw' = storeRaw /\ requests' = requests /\ clock' = clock /\ backfill' = backfill
      /\ runs' = runs /\ crossed' = crossed
  BY DEF Write, Is
<1>2. PICK s \in SessionIds :
        /\ WrittenRow(t, s) \in Rows /\ db' \in Databases
        /\ db'.rows[t] = WrittenRow(t, s)
        /\ \A u \in Traces \ {t} : db'.rows[u] = db.rows[u]
        /\ WroteGone(t, s) \/ WroteLive(t, s)
  BY WriteEffect
<1>. QED BY <1>1, <1>2 DEF Writes

\* The calls and the rows after it.
LEMMA WriteCalls ==
  ASSUME IInv, NEW t \in Traces, NEW s \in SessionIds, Writes(t, s)
  PROVE  /\ call' \in [Traces -> CallRecords] /\ call'[t].stage = "stored"
         /\ \A u \in Traces : /\ call'[u].ext = call[u].ext /\ call'[u].msgs = call[u].msgs
                              /\ call'[u].at = call[u].at /\ call'[u].found = call[u].found
         /\ \A u \in Traces \ {t} : call'[u] = call[u]
         /\ t \in Called /\ t \notin StoredCalls /\ t \in Running
         /\ Called' = Called /\ StoredCalls' = StoredCalls \cup {t}
         /\ Running' = Running \ {t} /\ OrphanBorn' = OrphanBorn
         /\ Kept(db') = Kept(db) \cup {t} /\ s # NoSession
         /\ TracesOf(db', s) = TracesOf(db, s) \cup {t}
         /\ \A q \in SessionIds \ {s} : TracesOf(db', q) = TracesOf(db, q) \ {t}
<1>. DEFINE c == [call[t] EXCEPT !.stage = "stored"]
<1>1. /\ call[t].stage = "looked" /\ call' = [call EXCEPT ![t] = c]
      /\ WrittenRow(t, s) \in Rows /\ db'.rows[t] = WrittenRow(t, s)
      /\ \A u \in Traces \ {t} : db'.rows[u] = db.rows[u]
  BY DEF Writes
<1>2. Typed /\ RowsWritten
  BY DEF IInv
<1>3. /\ c \in CallRecords /\ c.stage = "stored" /\ c.ext = call[t].ext /\ c.msgs = call[t].msgs
      /\ c.at = call[t].at /\ c.found = call[t].found
  BY <1>2 DEF Typed, CallRecords
<1>. HIDE DEF c
<1>4. /\ call' \in [Traces -> CallRecords] /\ call'[t] = c
      /\ \A u \in Traces \ {t} : call'[u] = call[u]
  BY <1>1, <1>2, <1>3, CallUpdate
<1>5. t \in Called /\ t \notin StoredCalls /\ t \in Running
  BY <1>1 DEF Called, StoredCalls, Running
<1>6. /\ Called' = Called /\ StoredCalls' = StoredCalls \cup {t} /\ Running' = Running \ {t}
  BY <1>1, <1>3, <1>4 DEF Called, StoredCalls, Running
<1>7. /\ db'.rows[t] # NoRow /\ db'.rows[t].session = s
      /\ db'.rows[t].at = IF db.rows[t] = NoRow THEN call[t].at ELSE db.rows[t].at
  BY <1>1, GroupingAssumption DEF WrittenRow
<1>8. Kept(db') = Kept(db) \cup {t}
  BY <1>1, <1>7 DEF Kept
<1>9. OrphanBorn' = OrphanBorn
  <2>1. \A u \in Traces \ {t} : u \in OrphanBorn' <=> u \in OrphanBorn
    BY <1>1, <1>4, <1>8 DEF OrphanBorn
  <2>2. t \in OrphanBorn' <=> t \in OrphanBorn
    BY <1>3, <1>4, <1>7, <1>8 DEF OrphanBorn, Kept
  <2>. QED BY <2>1, <2>2 DEF OrphanBorn, Kept
<1>10. s # NoSession
  BY GroupingAssumption
<1>11. TracesOf(db', s) = TracesOf(db, s) \cup {t}
  BY <1>1, <1>7, <1>8 DEF TracesOf, Kept
<1>12. \A q \in SessionIds \ {s} : TracesOf(db', q) = TracesOf(db, q) \ {t}
  BY <1>1, <1>7, <1>8 DEF TracesOf, Kept
<1>. QED BY <1>3, <1>4, <1>5, <1>6, <1>8, <1>9, <1>10, <1>11, <1>12

\* The sessions after it.
LEMMA WriteSessions ==
  ASSUME IInv, NEW t \in Traces, NEW s \in SessionIds, Writes(t, s)
  PROVE  /\ Numbered(db') /\ UniqueIds(db')
         /\ s < db'.next /\ db.next <= db'.next /\ db'.next <= db.next + 1
         /\ Live(db) \subseteq Live(db')
         /\ \A q \in Live(db) : /\ db'.sessions[q].ext = db.sessions[q].ext
                                /\ db.sessions[q].rules \subseteq db'.sessions[q].rules
         /\ \A q \in SessionIds \ {s} : db'.sessions[q] = db.sessions[q]
         /\ \A q \in Live(db') : q # s => q \in Live(db)
<1>1. db \in Databases /\ db' \in Databases /\ SessionsNumbered /\ UniqueIds(db)
  BY DEF IInv, Typed, Writes, Belongs
<1>. db.next \in Nat
  BY <1>1, DatabaseFields
<1>2. CASE WroteGone(t, s)
  <2>1. Live(db') = Live(db) /\ db'.sessions = db.sessions /\ db'.next = db.next
    BY <1>2 DEF WroteGone, Live
  <2>2. s < db.next
    BY <1>1, <1>2, GroupingAssumption DEF WroteGone, SessionsNumbered
  <2>. QED BY <1>1, <2>1, <2>2 DEF SessionsNumbered, Numbered, UniqueIds
<1>3. CASE WroteLive(t, s)
  <2>1. PICK r \in Sessions :
          /\ Joins(db, call[t].found, t, call[t].ext, call[t].msgs, call[t].at, s, r, db'.next)
          /\ db'.sessions[s] = Merged(r, Signals(call[t].msgs)) /\ db'.sessions[s] \in Sessions
          /\ Sets(db, db', s, db'.sessions[s], db'.next)
          /\ Takes(db, call[t].found, Naming(t, call[t].ext, call[t].msgs), s, db'.sessions[s],
                   db'.next)
    BY <1>3 DEF WroteLive
  <2>2. db'.next \in Nat \ {0}
    BY <1>1, DatabaseFields
  <2>3. PICK d, e, q2, n2, name, found :
          /\ d = db /\ e = db' /\ found = call[t].found /\ q2 = db'.sessions[s] /\ n2 = db'.next
          /\ name = Naming(t, call[t].ext, call[t].msgs)
    OBVIOUS
  <2>4. /\ Takes(d, found, name, s, q2, n2) /\ Sets(d, e, s, q2, n2)
        /\ q2 \in Sessions /\ n2 \in Nat \ {0} /\ Numbered(d) /\ UniqueIds(d) /\ d \in Databases
    BY <1>1, <2>1, <2>2, <2>3 DEF SessionsNumbered
  <2>5. /\ Numbered(e) /\ UniqueIds(e) /\ Live(e) = Live(d) \cup {s}
        /\ s < e.next /\ d.next <= e.next /\ e.next <= d.next + 1
        /\ \A q \in Live(d) : e.sessions[q].ext = d.sessions[q].ext
    BY <2>4, TakeEffect, SMTT(30)
  <2>6. \A q \in SessionIds \ {s} : db'.sessions[q] = db.sessions[q]
    BY <2>1 DEF Sets
  <2>7. s \in Live(db) => db.sessions[s].rules \subseteq db'.sessions[s].rules
    <3>. HAVE s \in Live(db)
    <3>1. s # db.next
      BY <1>1 DEF SessionsNumbered, Numbered
    <3>2. r.rules = db.sessions[s].rules
      BY <2>1, <3>1 DEF Joins, Touched
    <3>. QED BY <2>1, <3>2 DEF Merged
  <2>8. \A q \in Live(db) : db.sessions[q].rules \subseteq db'.sessions[q].rules
    BY <2>6, <2>7 DEF Live
  <2>. QED BY <2>3, <2>5, <2>6, <2>8
<1>. QED BY <1>2, <1>3 DEF Writes

\* The parts of the invariant about calls, clocks and rows.
LEMMA WriteFrame ==
  ASSUME IInv, NEW t \in Traces, NEW s \in SessionIds, Writes(t, s)
  PROVE  Typed' /\ Clocked' /\ RowsWritten' /\ SessionsNumbered' /\ Met' /\ RowsRead' /\ LookedUp'
<1>. USE WriteCalls
<1>1. /\ storeRaw' = storeRaw /\ requests' = requests /\ clock' = clock /\ backfill' = backfill
      /\ runs' = runs /\ crossed' = crossed /\ db' \in Databases
      /\ db'.rows[t] = WrittenRow(t, s) /\ \A u \in Traces \ {t} : db'.rows[u] = db.rows[u]
  BY DEF Writes
<1>2. Typed /\ Clocked /\ RowsWritten /\ SessionsNumbered /\ Met /\ RowsRead
  BY DEF IInv
<1>3. Typed'
  BY <1>1, <1>2 DEF Typed
<1>4. /\ db'.rows[t].session = s /\ db'.rows[t].ext = call[t].ext
      /\ db'.rows[t].body = IF storeRaw THEN Stored(call[t].msgs) ELSE NoBody
      /\ db'.rows[t].at = IF db.rows[t] = NoRow THEN call[t].at ELSE db.rows[t].at
  BY <1>1 DEF WrittenRow
<1>5. Clocked'
  <2>1. \E k \in 0 .. MaxTraces : Kept(db') \cup Called' = 1 .. k
    <3>1. Kept(db') \cup Called' = Kept(db) \cup Called
      OBVIOUS
    <3>. QED BY <1>2, <3>1 DEF Clocked
  <2>2. clock' = Cardinality(Called') + Cardinality(OrphanBorn')
    BY <1>1, <1>2 DEF Clocked
  <2>3. Called \subseteq Traces /\ t \in Called
    BY DEF Called
  <2>4. \A u \in Called' : call'[u].at \in 1 .. clock' /\ call'[u].msgs \in Lists
    BY <1>1, <1>2, <2>3 DEF Clocked
  <2>5. \A u \in Traces \ Called' : call'[u] = NoCall
    BY <1>2, <2>3 DEF Clocked
  <2>6. \A u \in Kept(db') : db'.rows[u].at \in 1 .. clock'
    <3>1. t \in Kept(db) <=> db.rows[t] # NoRow
      BY DEF Kept
    <3>2. db'.rows[t].at \in 1 .. clock'
      BY <1>1, <1>2, <1>4, <2>3, <3>1 DEF Clocked
    <3>3. \A u \in Kept(db) : u # t => db'.rows[u].at \in 1 .. clock'
      BY <1>1, <1>2 DEF Clocked, Kept
    <3>. QED BY <3>2, <3>3
  <2>. QED BY <2>1, <2>2, <2>4, <2>5, <2>6 DEF Clocked
<1>6. RowsWritten'
  <2>1. \A u \in StoredCalls : u \in Traces /\ u # t
    BY DEF StoredCalls
  <2>2. \A u \in Kept(db) : u \in Traces
    BY DEF Kept
  <2>3. \A u \in StoredCalls' :
          /\ u \in Kept(db') /\ db'.rows[u].session # NoSession
          /\ db'.rows[u].ext = call'[u].ext
          /\ db'.rows[u].body = IF storeRaw' THEN Stored(call'[u].msgs) ELSE NoBody
    BY <1>1, <1>2, <1>4, <2>1 DEF RowsWritten
  <2>4. \A u \in Kept(db') \ StoredCalls' :
          /\ u \in OrphanBorn' /\ db'.rows[u].ext = NoId /\ db'.rows[u].body = NoBody
          /\ runs' = 0 => db'.rows[u].session = NoSession
    BY <1>1, <1>2, <2>2 DEF RowsWritten
  <2>. QED BY <2>3, <2>4 DEF RowsWritten
<1>7. SessionsNumbered'
  <2>1. Regroupings' = Regroupings /\ MaxTraces * Regroupings \in Nat
    <3>1. Regroupings \in Nat
      BY <1>2, Numbers DEF Regroupings, Typed, SessionsNumbered
    <3>. QED BY <1>1, <3>1, Numbers DEF Regroupings
  <2>2. /\ Numbered(db') /\ s < db'.next /\ db.next <= db'.next /\ db'.next <= db.next + 1
        /\ db.next \in Nat /\ db'.next \in Nat /\ SessionIds \subseteq Nat
    BY <1>1, <1>2, WriteSessions, DatabaseFields, Numbers DEF Typed
  <2>3. Cardinality(StoredCalls') = Cardinality(StoredCalls) + 1 /\ Cardinality(StoredCalls) \in Nat
    BY NextFree
  <2>4. db'.next <= 1 + Cardinality(StoredCalls') + MaxTraces * Regroupings'
    BY <1>2, <2>1, <2>2, <2>3 DEF SessionsNumbered
  <2>5. \A u \in Kept(db') : db'.rows[u].session # NoSession => db'.rows[u].session < db'.next
    <3>. SUFFICES ASSUME NEW u \in Kept(db'), db'.rows[u].session # NoSession, u # t
                  PROVE  db'.rows[u].session < db'.next
      BY <1>4, <2>2
    <3>1. u \in Kept(db) /\ u \in Traces /\ db.rows[u] \in Rows /\ db'.rows[u] = db.rows[u]
      BY <1>1, <1>2, DatabaseFields DEF Typed
    <3>2. db.rows[u].session < db.next /\ db.rows[u].session \in SessionIds
      BY <1>2, <3>1 DEF SessionsNumbered, Rows
    <3>3. db.rows[u].session \in Nat /\ db'.rows[u].session = db.rows[u].session
      BY <2>2, <3>1, <3>2
    <3>. QED BY <2>2, <3>2, <3>3
  <2>6. \A u \in Traces : call'[u].found # NoSession => call'[u].found < db'.next
    <3>. SUFFICES ASSUME NEW u \in Traces, call[u].found # NoSession
                  PROVE  call[u].found < db'.next
      OBVIOUS
    <3>1. call[u].found \in SessionIds /\ call[u].found < db.next
      BY <1>2 DEF Typed, CallRecords, SessionsNumbered
    <3>. HIDE WriteCalls
    <3>2. call[u].found \in Nat /\ db.next \in Nat /\ db'.next \in Nat /\ db.next <= db'.next
      BY <2>2, <3>1
    <3>. QED BY <3>1, <3>2
  <2>. QED BY <1>1, <1>2, <2>2, <2>4, <2>5, <2>6 DEF SessionsNumbered
<1>8. Met'
  BY <1>1, <1>2 DEF Met
<1>9. RowsRead'
  <2>. SUFFICES ASSUME backfill.stage = "regroup", NEW u \in Kept(backfill)
                PROVE  /\ u \in Kept(db')
                       /\ \/ backfill.rows[u] = db'.rows[u]
                          \/ /\ u \in crossed
                             /\ backfill.rows[u].ext = NoId /\ backfill.rows[u].body = NoBody
    BY <1>1 DEF RowsRead
  <2>1. /\ u \in Kept(db)
        /\ \/ backfill.rows[u] = db.rows[u]
           \/ u \in crossed /\ backfill.rows[u].ext = NoId /\ backfill.rows[u].body = NoBody
    BY <1>2 DEF RowsRead
  <2>2. CASE u = t
    <3>1. t \in crossed
      BY <1>2 DEF Met
    <3>2. db.rows[t].ext = NoId /\ db.rows[t].body = NoBody
      BY <1>2, <2>1, <2>2 DEF RowsWritten
    <3>. QED BY <2>1, <2>2, <3>1, <3>2
  <2>3. CASE u # t
    BY <1>1, <2>1, <2>3 DEF Kept
  <2>. QED BY <2>2, <2>3
<1>10. LookedUp'
  <2>. SUFFICES ASSUME NEW u \in Traces \ crossed, call'[u].stage = "looked" PROVE FALSE
    BY <1>1 DEF LookedUp
  <2>1. u # t /\ u \in Running
    BY DEF Running
  <2>. QED BY <1>2, <2>1 DEF Met
<1>. QED BY <1>3, <1>5, <1>6, <1>7, <1>8, <1>9, <1>10

\* A call no other has met finds its session as it looked it up, or makes one.
LEMMA WriteJoined ==
  ASSUME IInv, NEW t \in Traces, NEW s \in SessionIds, Writes(t, s), t \notin crossed
  PROVE  /\ WroteLive(t, s) /\ s \in Live(db') /\ backfill.stage = "idle"
         /\ call[t].ext # NoId => db'.sessions[s].ext = call[t].ext
         /\ Signals(call[t].msgs) \subseteq db'.sessions[s].rules
<1>1. /\ call[t].stage = "looked" /\ db \in Databases /\ Numbered(db) /\ Met /\ LookedUp
  BY DEF Writes, IInv, Typed, SessionsNumbered
<1>2. backfill.stage = "idle"
  BY <1>1 DEF Met, Running
<1>3. WroteLive(t, s)
  <2>1. call[t].found # NoSession => call[t].found \in Live(db)
    BY <1>1 DEF LookedUp
  <2>. QED BY <2>1, GroupingAssumption DEF Writes, WroteGone
<1>4. PICK r \in Sessions :
        /\ Joins(db, call[t].found, t, call[t].ext, call[t].msgs, call[t].at, s, r, db'.next)
        /\ db'.sessions[s] = Merged(r, Signals(call[t].msgs)) /\ db'.sessions[s] \in Sessions
  BY <1>3 DEF WroteLive
<1>5. s \in Live(db')
  BY <1>4, GroupingAssumption DEF Live
<1>6. call[t].ext # NoId => r.ext = call[t].ext
  <2>1. CASE /\ call[t].found \in Live(db) /\ s = call[t].found
             /\ r = Touched(db.sessions[s], call[t].at, Fingerprint(call[t].msgs))
    <3>1. call[t].found # NoSession
      BY <2>1, GroupingAssumption DEF Live
    <3>. QED BY <1>1, <2>1, <3>1 DEF LookedUp, Touched
  <2>2. CASE r = Inserted(t, call[t].ext, call[t].msgs, call[t].at)
    BY <2>2 DEF Inserted, Naming
  <2>. QED BY <1>4, <2>1, <2>2 DEF Joins
<1>. QED BY <1>2, <1>3, <1>4, <1>5, <1>6 DEF Merged

\* An undisturbed call is put into a session that bears its ID.
LEMMA WriteBelongs ==
  ASSUME IInv, NEW t \in Traces, NEW s \in SessionIds, Writes(t, s)
  PROVE  Belongs'
<1>1. /\ crossed' = crossed /\ db'.rows[t] = WrittenRow(t, s)
      /\ \A u \in Traces \ {t} : db'.rows[u] = db.rows[u]
      /\ Kept(db') = Kept(db) \cup {t}
  BY WriteCalls DEF Writes
<1>2. /\ UniqueIds(db') /\ Live(db) \subseteq Live(db')
      /\ \A q \in Live(db) : db'.sessions[q].ext = db.sessions[q].ext
  BY WriteSessions
<1>3. ASSUME NEW u \in Kept(db') \ crossed'
      PROVE  /\ db'.rows[u].session # NoSession => db'.rows[u].session \in Live(db')
             /\ db'.rows[u].ext # NoId =>
                  /\ db'.rows[u].session \in Live(db')
                  /\ db'.sessions[db'.rows[u].session].ext = db'.rows[u].ext
  <2>1. CASE u = t
    <3>1. db'.rows[t].session = s /\ db'.rows[t].ext = call[t].ext
      BY <1>1 DEF WrittenRow
    <3>. QED BY <1>1, <1>3, <2>1, <3>1, WriteJoined
  <2>2. CASE u # t
    <3>1. u \in Kept(db) \ crossed /\ db'.rows[u] = db.rows[u]
      BY <1>1, <1>3, <2>2 DEF Kept
    <3>. QED BY <1>2, <3>1 DEF IInv, Belongs
  <2>. QED BY <2>1, <2>2
<1>. QED BY <1>2, <1>3 DEF Belongs

\* The call is counted in the session its trace is put into.
LEMMA WriteCounted ==
  ASSUME IInv, NEW t \in Traces, NEW s \in SessionIds, Writes(t, s)
  PROVE  Counted'
<1>1. /\ backfill' = backfill /\ runs' = runs /\ OrphanBorn' = OrphanBorn
      /\ t \notin StoredCalls
      /\ TracesOf(db', s) = TracesOf(db, s) \cup {t}
      /\ \A q \in SessionIds \ {s} : TracesOf(db', q) = TracesOf(db, q) \ {t}
  BY WriteCalls, ZenonT(30) DEF Writes
<1>2. /\ \A q \in SessionIds \ {s} : db'.sessions[q] = db.sessions[q]
      /\ \A q \in Live(db') : q # s => q \in Live(db)
  BY WriteSessions
<1>3. db \in Databases /\ SessionsNumbered /\ RowsWritten /\ Counted
  BY DEF IInv, Typed
<1>4. ASSUME runs = 0 \/ OrphanBorn = {}, NEW q \in SessionIds
      PROVE  t \notin TracesOf(db, q)
  <2>1. q # NoSession
    BY GroupingAssumption
  <2>. QED BY <1>1, <1>3, <1>4, <2>1 DEF RowsWritten, TracesOf
<1>5. Live(db') \subseteq SessionIds
  BY DEF Live
<1>6. ASSUME backfill.stage = "idle", runs = 0 \/ OrphanBorn = {}, NEW q \in Live(db')
      PROVE  db'.sessions[q].calls = Cardinality(TracesOf(db', q))
  <2>1. CASE q # s
    <3>1. TracesOf(db', q) = TracesOf(db, q)
      BY <1>1, <1>4, <1>5, <1>6, <2>1
    <3>. QED BY <1>2, <1>3, <1>5, <1>6, <2>1, <3>1 DEF Counted
  <2>2. CASE q = s
    <3>1. /\ Cardinality(TracesOf(db', s)) = Cardinality(TracesOf(db, s)) + 1
          /\ Cardinality(TracesOf(db, s)) \in Nat
      <4>1. TracesOf(db, s) \in SUBSET Traces /\ t \notin TracesOf(db, s)
        BY <1>4, <1>6 DEF TracesOf, Kept
      <4>. QED BY <1>1, <4>1, OneMore, TraceSet
    <3>2. WroteLive(t, s)
      <4>1. WroteGone(t, s) => s \notin Live(db')
        BY DEF WroteGone, Live
      <4>. QED BY <1>6, <2>2, <4>1 DEF Writes
    <3>3. PICK r \in Sessions :
            /\ Joins(db, call[t].found, t, call[t].ext, call[t].msgs, call[t].at, s, r, db'.next)
            /\ db'.sessions[s] = Merged(r, Signals(call[t].msgs))
      BY <3>2 DEF WroteLive
    <3>4. db'.sessions[s].calls = r.calls
      BY <3>3 DEF Merged
    <3>5. CASE s \in Live(db) /\ r = Touched(db.sessions[s], call[t].at, Fingerprint(call[t].msgs))
      <4>1. r.calls = db.sessions[s].calls + 1
        BY <3>5 DEF Touched
      <4>2. db.sessions[s].calls = Cardinality(TracesOf(db, s))
        BY <1>3, <1>6, <3>5 DEF Counted
      <4>. QED BY <2>2, <3>1, <3>4, <4>1, <4>2
    <3>6. CASE s = db.next /\ r = Inserted(t, call[t].ext, call[t].msgs, call[t].at)
      <4>1. r.calls = 1
        BY <3>6 DEF Inserted
      <4>2. TracesOf(db, s) = {}
        <5>1. \A u \in TracesOf(db, s) : db.next < db.next
          BY <1>3, <3>6, GroupingAssumption DEF SessionsNumbered, TracesOf
        <5>2. db.next \in Nat
          BY <1>3, DatabaseFields
        <5>. QED BY <5>1, <5>2
      <4>3. Cardinality(TracesOf(db, s)) = 0
        BY <4>2, FS_EmptySet
      <4>. QED BY <2>2, <3>1, <3>4, <4>1, <4>3
    <3>. QED BY <3>3, <3>5, <3>6 DEF Joins
  <2>. QED BY <2>1, <2>2
<1>7. ASSUME runs = 0, NEW q \in Live(db') PROVE TracesOf(db', q) # {}
  <2>1. CASE q = s
    BY <1>1, <2>1
  <2>2. CASE q # s
    <3>1. TracesOf(db', q) = TracesOf(db, q)
      BY <1>1, <1>4, <1>5, <1>7, <2>2
    <3>. QED BY <1>2, <1>3, <1>7, <2>2, <3>1 DEF Counted
  <2>. QED BY <2>1, <2>2
<1>. QED BY <1>1, <1>6, <1>7 DEF Counted

\* What is stored carries no more signals than what was sent.
LEMMA StoredSignals ==
  ASSUME NEW msgs \in Lists
  PROVE  Signals(Stored(msgs)) \subseteq Signals(msgs)
<1>1. msgs \in Seq(Messages)
  BY TextSequences
<1>2. /\ DOMAIN Stored(msgs) = DOMAIN msgs
      /\ \A i \in DOMAIN msgs : Stored(msgs)[i] \in {msgs[i], Redacted}
  BY DEF Stored, Redact
<1>3. Range(Stored(msgs)) \subseteq Range(msgs) \cup {Redacted}
  BY <1>2 DEF Range
<1>4. Redacted \notin Standing
  BY GroupingAssumption
<1>. QED BY <1>3, <1>4 DEF Signals

\* Its standing instructions are added there.
LEMMA WriteInstructed ==
  ASSUME IInv, NEW t \in Traces, NEW s \in SessionIds, Writes(t, s)
  PROVE  Instructed'
<1>1. /\ crossed' = crossed /\ storeRaw' = storeRaw /\ backfill' = backfill
      /\ db'.rows[t] = WrittenRow(t, s)
      /\ \A u \in Traces \ {t} : db'.rows[u] = db.rows[u]
      /\ Kept(db') = Kept(db) \cup {t} /\ t \in Called
  BY WriteCalls DEF Writes
<1>2. \A q \in Live(db) : db.sessions[q].rules \subseteq db'.sessions[q].rules
  BY WriteSessions
<1>. SUFFICES ASSUME storeRaw, NEW u \in Kept(db') \ crossed,
                     db'.rows[u].session # NoSession, Text(db'.rows[u]) # <<>>
              PROVE
        /\ backfill.stage = "idle" =>
             Signals(db'.rows[u].body) \subseteq db'.sessions[db'.rows[u].session].rules
        /\ backfill.stage = "write" =>
             /\ backfill.rules[db'.rows[u].session] # NoSession
             /\ Signals(db'.rows[u].body) \subseteq backfill.rules[db'.rows[u].session]
  BY <1>1 DEF Instructed
<1>3. CASE u = t
  <2>1. db'.rows[t].session = s /\ db'.rows[t].body = Stored(call[t].msgs)
    BY <1>1 DEF WrittenRow
  <2>2. backfill.stage = "idle" /\ Signals(call[t].msgs) \subseteq db'.sessions[s].rules
    BY <1>3, WriteJoined
  <2>3. call[t].msgs \in Lists
    BY <1>1 DEF IInv, Clocked
  <2>. QED BY <1>3, <2>1, <2>2, <2>3, StoredSignals
<1>4. CASE u # t
  <2>1. u \in Kept(db) \ crossed /\ db'.rows[u] = db.rows[u]
    BY <1>1, <1>4 DEF Kept
  <2>2. db.rows[u].session \in Live(db)
    BY <2>1 DEF IInv, Belongs
  <2>3. /\ backfill.stage = "idle" =>
             Signals(db.rows[u].body) \subseteq db.sessions[db.rows[u].session].rules
        /\ backfill.stage = "write" =>
             /\ backfill.rules[db.rows[u].session] # NoSession
             /\ Signals(db.rows[u].body) \subseteq backfill.rules[db.rows[u].session]
    BY <2>1 DEF IInv, Instructed
  <2>. QED BY <1>2, <2>1, <2>2, <2>3
<1>. QED BY <1>3, <1>4

\* Of two texts one continues the other, or both continue a third.
Hang(T, f) ==
  \A x, y \in T :
    \/ IsPrefix(f[x], f[y]) \/ IsPrefix(f[y], f[x])
    \/ \E b \in T : IsPrefix(f[b], f[x]) /\ IsPrefix(f[b], f[y])

\* Texts that hang together still do with one that continues one of them, or that
\* one of them continues.
LEMMA HangExtends ==
  ASSUME NEW S, NEW T, NEW t, NEW v \in T, NEW f, \A x \in T \cup {t} : f[x] \in Seq(S),
         Hang(T, f), IsPrefix(f[v], f[t]) \/ IsPrefix(f[t], f[v])
  PROVE  Hang(T \cup {t}, f)
<1>. DEFINE Tied(x, y) == \/ IsPrefix(f[x], f[y]) \/ IsPrefix(f[y], f[x])
                          \/ \E b \in T : IsPrefix(f[b], f[x]) /\ IsPrefix(f[b], f[y])
<1>1. ASSUME NEW x \in T \cup {t}, NEW y \in T \cup {t}, NEW z \in T \cup {t}
      PROVE  /\ IsPrefix(f[x], f[x])
             /\ IsPrefix(f[x], f[y]) /\ IsPrefix(f[y], f[z]) => IsPrefix(f[x], f[z])
             /\ IsPrefix(f[x], f[z]) /\ IsPrefix(f[y], f[z]) =>
                  IsPrefix(f[x], f[y]) \/ IsPrefix(f[y], f[x])
  <2>1. f[x] \in Seq(S) /\ f[y] \in Seq(S) /\ f[z] \in Seq(S)
    OBVIOUS
  <2>. QED BY <2>1, PrefixOrder
<1>2. \A x, y \in T : Tied(x, y)
  BY DEF Hang
<1>3. ASSUME NEW x \in T PROVE Tied(x, t)
  <2>1. CASE IsPrefix(f[v], f[t])
    <3>1. CASE IsPrefix(f[x], f[v])
      BY <1>1, <2>1, <3>1
    <3>2. CASE IsPrefix(f[v], f[x])
      BY <2>1, <3>2
    <3>3. CASE \E b \in T : IsPrefix(f[b], f[x]) /\ IsPrefix(f[b], f[v])
      <4>1. PICK b \in T : IsPrefix(f[b], f[x]) /\ IsPrefix(f[b], f[v])
        BY <3>3
      <4>2. IsPrefix(f[b], f[t])
        BY <1>1, <2>1, <4>1
      <4>. QED BY <4>1, <4>2
    <3>. QED BY <1>2, <3>1, <3>2, <3>3
  <2>2. CASE IsPrefix(f[t], f[v])
    <3>1. CASE IsPrefix(f[x], f[v])
      BY <1>1, <2>2, <3>1
    <3>2. CASE IsPrefix(f[v], f[x])
      BY <1>1, <2>2, <3>2
    <3>3. CASE \E b \in T : IsPrefix(f[b], f[x]) /\ IsPrefix(f[b], f[v])
      <4>1. PICK b \in T : IsPrefix(f[b], f[x]) /\ IsPrefix(f[b], f[v])
        BY <3>3
      <4>2. IsPrefix(f[b], f[t]) \/ IsPrefix(f[t], f[b])
        BY <1>1, <2>2, <4>1
      <4>3. IsPrefix(f[t], f[b]) => IsPrefix(f[t], f[x])
        BY <1>1, <4>1
      <4>. QED BY <4>1, <4>2, <4>3
    <3>. QED BY <1>2, <3>1, <3>2, <3>3
  <2>. QED BY <2>1, <2>2
<1>4. Tied(t, t)
  BY <1>1
<1>5. \A x, y \in T \cup {t} : Tied(x, y)
  <2>1. \A x \in T : Tied(t, x)
    BY <1>3
  <2>. QED BY <1>2, <1>3, <1>4, <2>1
<1>. QED BY <1>5 DEF Hang

\* What is stored of a text continues a stored one that the text continues, and
\* the other way round.
LEMMA StoredLineage ==
  ASSUME NEW msgs \in Lists, NEW old \in Lists, SameLineage(Stored(old), msgs)
  PROVE  SameLineage(Stored(old), Stored(msgs))
<1>. DEFINE S == Messages \cup {Redacted}
<1>1. msgs \in Seq(S) /\ old \in Seq(S) /\ Stored(old) \in Seq(S) /\ Redacted \in S
  BY TextSequences DEF Texts, Bodies
<1>. HIDE DEF S
<1>2. Stored(Stored(old)) = Stored(old)
  BY <1>1, StoredOrder
<1>3. IsPrefix(Stored(old), msgs) => IsPrefix(Stored(Stored(old)), Stored(msgs))
  BY <1>1, StoredOrder
<1>4. IsPrefix(msgs, Stored(old)) => IsPrefix(Stored(msgs), Stored(Stored(old)))
  BY <1>1, StoredOrder
<1>. QED BY <1>2, <1>3, <1>4 DEF SameLineage

\* Its trace continues one that the session has.
LEMMA WriteHangs ==
  ASSUME IInv, NEW t \in Traces, NEW s \in SessionIds, Writes(t, s)
  PROVE  HangTogether'
<1>1. /\ runs' = runs /\ storeRaw' = storeRaw /\ call[t].stage = "looked"
      /\ db'.rows[t] = WrittenRow(t, s) /\ db' \in Databases
      /\ \A u \in Traces \ {t} : db'.rows[u] = db.rows[u]
  BY DEF Writes
<1>2. /\ call'[t].stage = "stored"
      /\ \A u \in Traces \ {t} : call'[u] = call[u]
      /\ t \notin StoredCalls /\ t \in Called
      /\ StoredCalls' = StoredCalls \cup {t}
      /\ Kept(db') = Kept(db) \cup {t}
      /\ TracesOf(db', s) = TracesOf(db, s) \cup {t}
      /\ \A q \in SessionIds \ {s} : TracesOf(db', q) = TracesOf(db, q) \ {t}
  BY WriteCalls
<1>3. /\ Typed /\ Clocked /\ RowsWritten /\ SessionsNumbered /\ HangTogether
      /\ db \in Databases /\ call \in [Traces -> CallRecords]
  BY DEF IInv, Typed
<1>. SUFFICES ASSUME runs = 0 PROVE HangTogether'
  BY <1>1 DEF HangTogether
<1>4. ASSUME NEW q \in SessionIds
      PROVE  /\ TracesOf(db, q) \subseteq Traces \ {t} /\ TracesOf(db, q) \subseteq StoredCalls
             /\ \A u \in TracesOf(db, q) : db'.rows[u] = db.rows[u]
  <2>1. q # NoSession
    BY GroupingAssumption
  <2>2. TracesOf(db, q) \subseteq StoredCalls
    BY <1>3, <2>1 DEF RowsWritten, TracesOf
  <2>3. TracesOf(db, q) \subseteq Traces \ {t}
    BY <1>2, <2>2 DEF StoredCalls
  <2>. QED BY <1>1, <2>2, <2>3
<1>5. ASSUME NEW u \in Traces, call'[u].stage = "looked", call'[u].found # NoSession,
             call'[u].ext = NoId
      PROVE  \E v \in TracesOf(db', call'[u].found) : Continues(u, v)'
  <2>1. u # t /\ call'[u] = call[u]
    BY <1>2, <1>5
  <2>2. call[u].found \in SessionIds
    BY <1>3, <1>5, <2>1 DEF CallRecords
  <2>3. PICK v \in TracesOf(db, call[u].found) : Continues(u, v)
    BY <1>3, <1>5, <2>1 DEF HangTogether
  <2>4. db'.rows[v] = db.rows[v] /\ v # t
    BY <1>4, <2>2
  <2>5. v \in TracesOf(db', call[u].found)
    BY <1>2, <2>2, <2>4
  <2>6. Continues(u, v)'
    BY <2>1, <2>3, <2>4 DEF Continues
  <2>. QED BY <2>1, <2>5, <2>6
<1>6. ASSUME NEW q \in Live(db'),
             \A u \in TracesOf(db', q) : db'.rows[u].ext = NoId /\ db'.rows[u].body # NoBody
      PROVE  Bridged(TracesOf(db, q))'
  <2>. DEFINE f == [u \in Traces |-> db'.rows[u].body]
              S == Messages \cup {Redacted}
  <2>1. q \in SessionIds
    BY DEF Live
  <2>2. TracesOf(db', q) \subseteq Traces
    BY DEF TracesOf, Kept
  <2>3. \A u \in TracesOf(db', q) : f[u] = db'.rows[u].body
    BY <2>2
  <2>4. \A u \in TracesOf(db', q) : f[u] \in Seq(S)
    <3>1. \A u \in TracesOf(db', q) : db'.rows[u] \in Rows
      BY <1>1, DatabaseFields DEF TracesOf
    <3>2. \A u \in TracesOf(db', q) : db'.rows[u].body \in Bodies
      BY <1>6, <3>1 DEF Rows
    <3>. QED BY <2>3, <3>2, TextSequences DEF Texts
  <2>5. Bridged(TracesOf(db, q))' <=> Hang(TracesOf(db', q), f)
    BY <2>3, ZenonT(30) DEF Bridged, Hang
  <2>6. ASSUME q \in Live(db), \A u \in TracesOf(db, q) : u \in TracesOf(db', q)
        PROVE  Hang(TracesOf(db, q), f)
    <3>1. \A u \in TracesOf(db, q) : db'.rows[u] = db.rows[u]
      BY <1>4, <2>1
    <3>2. Bridged(TracesOf(db, q))
      BY <1>3, <1>6, <2>6, <3>1 DEF HangTogether
    <3>3. \A u \in TracesOf(db, q) : f[u] = db.rows[u].body
      BY <2>3, <2>6, <3>1
    <3>. HIDE DEF f
    <3>. QED BY <3>2, <3>3 DEF Bridged, Hang
  <2>7. CASE q # s
    <3>1. q \in Live(db) /\ TracesOf(db', q) = TracesOf(db, q)
      BY <1>2, <1>4, <2>1, <2>7, WriteSessions
    <3>. QED BY <2>5, <2>6, <3>1
  <2>8. CASE q = s
    <3>1. t \in TracesOf(db', s)
      BY <1>2
    <3>2. /\ call[t].ext = NoId /\ storeRaw /\ db'.rows[t].body = Stored(call[t].msgs)
      BY <1>1, <1>6, <2>8, <3>1 DEF WrittenRow
    <3>3. call[t].msgs \in Lists
      BY <1>2, <1>3 DEF Clocked
    <3>4. WroteLive(t, s)
      <4>1. WroteGone(t, s) => s \notin Live(db')
        BY DEF WroteGone, Live
      <4>. QED BY <2>8, <4>1 DEF Writes
    <3>5. \/ s \in Live(db) /\ call[t].found = s
          \/ s = db.next
      BY <3>4 DEF WroteLive, Joins
    <3>6. CASE s \in Live(db) /\ call[t].found = s
      <4>1. s # NoSession
        BY GroupingAssumption
      <4>2. PICK v \in TracesOf(db, s) : Continues(t, v)
        BY <1>1, <1>3, <3>2, <3>6, <4>1 DEF HangTogether
      <4>3. v \in TracesOf(db', s) /\ v \in StoredCalls /\ db'.rows[v] = db.rows[v]
        BY <1>2, <1>4
      <4>4. /\ call[v].msgs \in Lists /\ db.rows[v].body = Stored(call[v].msgs)
            /\ db.rows[v].body # NoBody
        BY <3>2, <4>3, StoredRow
      <4>5. SameLineage(db.rows[v].body, Stored(call[t].msgs))
        BY <3>3, <4>2, <4>4, StoredLineage DEF Continues
      <4>6. IsPrefix(f[v], f[t]) \/ IsPrefix(f[t], f[v])
        BY <2>3, <2>8, <3>1, <3>2, <4>3, <4>5 DEF SameLineage
      <4>7. Hang(TracesOf(db, s), f)
        BY <1>2, <2>6, <2>8, <3>6
      <4>. HIDE DEF f, S
      <4>8. Hang(TracesOf(db, s) \cup {t}, f)
        BY <1>2, <2>4, <2>8, <4>6, <4>7, HangExtends
      <4>. QED BY <1>2, <2>5, <2>8, <4>8
    <3>7. CASE s = db.next
      <4>1. TracesOf(db, s) = {}
        <5>1. \A u \in TracesOf(db, s) : db.next < db.next
          BY <1>3, <3>7, GroupingAssumption DEF SessionsNumbered, TracesOf
        <5>2. db.next \in Nat
          BY <1>3, DatabaseFields
        <5>. QED BY <5>1, <5>2
      <4>2. TracesOf(db', s) = {t}
        BY <1>2, <4>1
      <4>3. f[t] \in Seq(S)
        BY <2>4, <2>8, <3>1
      <4>. HIDE DEF f, S
      <4>4. IsPrefix(f[t], f[t])
        BY <4>3, PrefixOrder
      <4>5. Hang({t}, f)
        BY <4>4 DEF Hang
      <4>. QED BY <2>5, <2>8, <4>2, <4>5
    <3>. QED BY <3>5, <3>6, <3>7
  <2>. QED BY <2>7, <2>8
<1>. QED BY <1>1, <1>5, <1>6 DEF HangTogether

\* The fingerprint of the session a call has joined is the one it had, or the
\* call's; of one the call made, the call's.
LEMMA WriteFingerprint ==
  ASSUME IInv, NEW t \in Traces, NEW s \in SessionIds, Writes(t, s), WroteLive(t, s)
  PROVE  LET fp == Fingerprint(call[t].msgs)
         IN /\ s \in Live(db')
            /\ \/ /\ s \in Live(db) /\ call[t].found = s
                  /\ db'.sessions[s].fp = IF fp = NoId THEN db.sessions[s].fp ELSE fp
                  /\ db'.sessions[s].ext = db.sessions[s].ext
               \/ /\ s \notin Live(db) /\ call[t].found = NoSession /\ s = db.next
                  /\ db'.sessions[s].fp = fp
                  /\ db'.sessions[s].ext = Naming(t, call[t].ext, call[t].msgs)
<1>1. PICK r \in Sessions :
        /\ Joins(db, call[t].found, t, call[t].ext, call[t].msgs, call[t].at, s, r, db'.next)
        /\ db'.sessions[s] = Merged(r, Signals(call[t].msgs)) /\ db'.sessions[s] \in Sessions
  BY DEF WroteLive
<1>2. s \in Live(db')
  BY <1>1, GroupingAssumption DEF Live
<1>3. db'.sessions[s].fp = r.fp /\ db'.sessions[s].ext = r.ext
  BY <1>1 DEF Merged
<1>4. db.next \notin Live(db)
  <2>1. db.next \in Nat
    BY DatabaseFields DEF IInv, Typed
  <2>. QED BY <2>1 DEF IInv, SessionsNumbered, Numbered
<1>. QED BY <1>1, <1>2, <1>3, <1>4 DEF Joins, Touched, Inserted

\* It goes where its conversation is, or begins it.
LEMMA WriteOneSession ==
  ASSUME IInv, NEW t \in Traces, NEW s \in SessionIds, Writes(t, s)
  PROVE  OneSession'
<1>1. /\ storeRaw' = storeRaw /\ crossed' = crossed
      /\ db'.rows[t] = WrittenRow(t, s)
      /\ \A u \in Traces \ {t} : db'.rows[u] = db.rows[u]
      /\ call[t].stage = "looked"
  BY DEF Writes
<1>2. /\ call'[t].stage = "stored" /\ t \in Running /\ t \notin StoredCalls
      /\ \A u \in Traces : /\ call'[u].ext = call[u].ext /\ call'[u].msgs = call[u].msgs
                           /\ call'[u].found = call[u].found
      /\ \A u \in Traces \ {t} : call'[u] = call[u]
      /\ StoredCalls' = StoredCalls \cup {t}
      /\ TracesOf(db', s) = TracesOf(db, s) \cup {t} /\ s # NoSession
      /\ \A q \in SessionIds \ {s} : TracesOf(db', q) = TracesOf(db, q) \ {t}
  BY WriteCalls
<1>3. /\ Live(db) \subseteq Live(db')
      /\ \A q \in SessionIds \ {s} : db'.sessions[q] = db.sessions[q]
      /\ \A q \in Live(db') : q # s => q \in Live(db)
  BY WriteSessions
<1>4. /\ Typed /\ SessionsNumbered /\ Met /\ OneSession /\ db \in Databases
      /\ Live(db) \subseteq SessionIds /\ Live(db') \subseteq SessionIds
  BY DEF IInv, Typed, Live
<1>5. db'.rows[t].session = s
  BY <1>1 DEF WrittenRow
<1>6. ASSUME NEW o
      PROVE  Opened(o)' = IF Fingerprint(call[t].msgs) = o THEN Opened(o) \cup {t} ELSE Opened(o)
  BY <1>2 DEF Opened, StoredCalls
<1>7. ASSUME NEW T, Conversation(T)', T \subseteq Traces
      PROVE  Conversation(T)
  BY <1>1, <1>2, <1>7 DEF Conversation
<1>. SUFFICES ASSUME storeRaw, NEW o \in Messages \ Secrets, Conversation(Opened(o))'
              PROVE
        /\ Opened(o)' = {} => \A r \in Live(db') : db'.sessions[r].fp # o
        /\ Opened(o)' # {} => \E q \in SessionIds : Hosts(q, o)'
        /\ \A u \in Traces : ~ (/\ call'[u].stage = "looked"
                                /\ Conversation(Opened(o) \cup {u})')
  BY <1>1 DEF OneSession
<1>8. ASSUME NEW u \in Traces, call'[u].stage = "looked", Conversation(Opened(o) \cup {u})'
      PROVE  FALSE
  <2>1. u # t /\ u \in Running
    BY <1>2, <1>8 DEF Running
  <2>2. u \in crossed
    BY <1>2, <1>4, <2>1 DEF Met
  <2>. QED BY <1>1, <1>8, <2>2 DEF Conversation
<1>9. /\ o # NoId /\ Opened(o) \subseteq Traces /\ Opened(o) \subseteq StoredCalls
      /\ t \notin Opened(o)
  BY <1>2, GroupingAssumption DEF Opened, StoredCalls
<1>10. Conversation(Opened(o))
  <2>1. Opened(o) \subseteq Opened(o)'
    BY <1>6
  <2>. QED BY <1>1, <1>2, <1>9, <2>1 DEF Conversation
<1>11. /\ Opened(o) = {} => \A r \in Live(db) : db.sessions[r].fp # o
       /\ Opened(o) # {} => \E q \in SessionIds : Hosts(q, o)
  BY <1>4, <1>10 DEF OneSession
<1>12. CASE Fingerprint(call[t].msgs) # o
  <2>1. Opened(o)' = Opened(o)
    BY <1>6, <1>12
  <2>2. s \in Live(db') => \/ db'.sessions[s].fp # o
                           \/ s \in Live(db) /\ db'.sessions[s].fp = db.sessions[s].fp
    <3>1. CASE WroteLive(t, s)
      BY <1>12, <3>1, WriteFingerprint
    <3>2. CASE WroteGone(t, s)
      BY <3>2 DEF WroteGone, Live
    <3>. QED BY <3>1, <3>2 DEF Writes
  <2>3. ASSUME Opened(o) = {} PROVE \A r \in Live(db') : db'.sessions[r].fp # o
    BY <1>3, <1>4, <1>11, <2>2, <2>3
  <2>4. ASSUME NEW q \in SessionIds, Hosts(q, o) PROVE Hosts(q, o)'
    <3>1. q \in Live(db)
      BY <2>4 DEF Hosts, HostsIn
    <3>2. q # s
      <4>1. call[t].found # q
        BY <1>1, <1>12, <2>4 DEF Hosts
      <4>2. s = q => WroteLive(t, s)
        BY <3>1 DEF Writes, WroteGone
      <4>. QED BY <3>1, <4>1, <4>2, WriteFingerprint
    <3>3. db'.sessions[q] = db.sessions[q] /\ TracesOf(db', q) = TracesOf(db, q) \ {t}
      BY <1>2, <1>3, <3>2
    <3>4. \A r \in Live(db') : db'.sessions[r].fp = o <=> r = q
      <4>1. \A r \in Live(db) : db.sessions[r].fp = o <=> r = q
        BY <2>4 DEF Hosts, HostsIn
      <4>2. \A r \in Live(db') : r # s => (db'.sessions[r].fp = o <=> r = q)
        BY <1>3, <1>4, <4>1
      <4>3. s \in Live(db') => db'.sessions[s].fp # o
        BY <2>2, <3>2, <4>1
      <4>. QED BY <3>2, <4>2, <4>3
    <3>5. HostsIn(db, q, o)'
      BY <1>1, <1>3, <1>9, <2>1, <2>4, <3>1, <3>3, <3>4 DEF Hosts, HostsIn
    <3>6. \A u \in Traces : call'[u].stage = "looked" => call'[u] = call[u]
      BY <1>2
    <3>. QED BY <2>4, <3>5, <3>6 DEF Hosts
  <2>. QED BY <1>8, <1>11, <2>1, <2>3, <2>4
<1>13. CASE Fingerprint(call[t].msgs) = o
  <2>1. Opened(o)' = Opened(o) \cup {t}
    BY <1>6, <1>13
  <2>2. Conversation(Opened(o) \cup {t}) /\ t \notin crossed /\ call[t].ext = NoId
    <3>1. Conversation(Opened(o) \cup {t})
      BY <1>1, <1>2, <1>9, <2>1 DEF Conversation
    <3>. QED BY <3>1 DEF Conversation
  <2>3. /\ Opened(o) = {} => call[t].found = NoSession
        /\ Opened(o) # {} => call[t].found # NoSession /\ Hosts(call[t].found, o)
    BY <1>1, <1>4, <1>10, <1>13, <2>2 DEF OneSession
  <2>4. WroteLive(t, s) /\ s \in Live(db')
    BY <2>2, WriteJoined
  <2>5. db'.sessions[s].fp = o
    BY <1>9, <1>13, <2>4, WriteFingerprint
  <2>6. CASE Opened(o) = {}
    <3>1. call[t].found = NoSession
      BY <2>3, <2>6
    <3>2. NoSession \notin Live(db)
      BY GroupingAssumption DEF Live
    <3>3. /\ s \notin Live(db) /\ s = db.next
          /\ db'.sessions[s].ext = Naming(t, call[t].ext, call[t].msgs)
      BY <2>4, <3>1, <3>2, WriteFingerprint
    <3>4. db'.sessions[s].ext = NoId
      BY <1>9, <1>13, <2>2, <3>3 DEF Naming
    <3>5. \A r \in Live(db') : db'.sessions[r].fp = o <=> r = s
      BY <1>3, <1>4, <1>11, <2>5, <2>6
    <3>6. db.next \in Nat
      BY <1>4, DatabaseFields
    <3>7. TracesOf(db, s) = {}
      BY <1>2, <1>4, <3>3, <3>6 DEF SessionsNumbered, TracesOf
    <3>8. \A u \in Traces : call[u].found # s
      BY <1>2, <1>4, <3>3, <3>6 DEF SessionsNumbered
    <3>9. HostsIn(db, s, o)'
      BY <1>2, <1>5, <2>1, <2>4, <2>6, <3>4, <3>5, <3>7 DEF HostsIn
    <3>10. \A u \in Traces : call'[u].found # s
      BY <1>2, <3>8
    <3>11. Hosts(s, o)'
      BY <3>9, <3>10 DEF Hosts
    <3>. QED BY <1>8, <2>1, <3>11
  <2>7. CASE Opened(o) # {}
    <3>1. call[t].found # NoSession /\ Hosts(call[t].found, o)
      BY <2>3, <2>7
    <3>2. s = call[t].found /\ s \in Live(db) /\ db'.sessions[s].ext = db.sessions[s].ext
      BY <2>4, <3>1, WriteFingerprint
    <3>3. Hosts(s, o)
      BY <3>1, <3>2
    <3>4. \A r \in Live(db') : db'.sessions[r].fp = o <=> r = s
      <4>1. \A r \in Live(db) : db.sessions[r].fp = o <=> r = s
        BY <3>3 DEF Hosts, HostsIn
      <4>. QED BY <1>3, <1>4, <2>5, <4>1
    <3>5. db'.sessions[s].ext = NoId /\ TracesOf(db, s) \subseteq Opened(o)
          /\ \A u \in Opened(o) : db.rows[u].session = s
      BY <3>2, <3>3 DEF Hosts, HostsIn
    <3>6. HostsIn(db, s, o)'
      <4>1. TracesOf(db', s) \subseteq Opened(o) \cup {t}
        BY <1>2, <3>5
      <4>2. \A u \in Opened(o) \cup {t} : db'.rows[u].session = s
        BY <1>1, <1>5, <1>9, <3>5
      <4>. QED BY <2>1, <2>4, <3>4, <3>5, <4>1, <4>2 DEF HostsIn
    <3>7. \A u \in Traces : call'[u].stage = "looked" => call'[u] = call[u]
      BY <1>2
    <3>8. Hosts(s, o)'
      BY <3>3, <3>6, <3>7 DEF Hosts
    <3>. QED BY <1>8, <2>1, <3>8
  <2>. QED BY <2>6, <2>7
<1>. QED BY <1>12, <1>13

\* Together: the transaction of create keeps the invariant.
LEMMA WriteKeeps ==
  ASSUME IInv, NEW t \in Traces, Write(t)
  PROVE  IInv'
<1>1. PICK s \in SessionIds : Writes(t, s)
  BY WriteWrites
<1>. QED BY <1>1, WriteFrame, WriteBelongs, WriteCounted, WriteInstructed, WriteHangs,
            WriteOneSession DEF IInv

-----------------------------------------------------------------------------
(* The last transaction of a backfill. *)

\* The row of a session with the baseline that was read.
Based(s) ==
  IF backfill.rules[s] = NoSession THEN db.sessions[s]
  ELSE [db.sessions[s] EXCEPT !.rules = backfill.rules[s]]

\* Its baseline is all that changes.
LEMMA BasedFields ==
  ASSUME Typed, NEW s \in Live(db)
  PROVE  /\ Based(s) \in Sessions
         /\ Based(s).ext = db.sessions[s].ext /\ Based(s).fp = db.sessions[s].fp
         /\ Based(s).rules = IF backfill.rules[s] = NoSession THEN db.sessions[s].rules
                             ELSE backfill.rules[s]
<1>1. s \in SessionIds /\ db.sessions[s] \in Sessions
  BY DatabaseFields DEF Typed
<1>2. CASE backfill.rules[s] = NoSession
  BY <1>1, <1>2 DEF Based
<1>3. CASE backfill.rules[s] # NoSession
  <2>. DEFINE r == db.sessions[s]
  <2>1. backfill.rules[s] \in SUBSET Standing
    BY <1>1, <1>3 DEF Typed, BackfillRecords
  <2>2. PICK u : u = [r EXCEPT !.rules = backfill.rules[s]]
    OBVIOUS
  <2>. HIDE DEF r
  <2>3. u = [ext |-> r.ext, fp |-> r.fp, seen |-> r.seen, calls |-> r.calls,
             rules |-> backfill.rules[s]]
    BY <1>1, <2>2, RulesFields DEF r
  <2>4. Based(s) = u
    BY <1>3, <2>2 DEF Based, r
  <2>5. u \in Sessions
    BY <1>1, <2>1, <2>3 DEF Sessions, r
  <2>. QED BY <1>3, <2>3, <2>4, <2>5 DEF r
<1>. QED BY <1>2, <1>3

\* _rebuild_session_aggregates of a session that has traces.
LEMMA RebuiltSession ==
  ASSUME Typed, NEW s \in Live(db), TracesOf(db, s) # {}, NEW new \in Sessions,
         NEW d, d = [db EXCEPT !.sessions[s] = new]
  PROVE  /\ Rebuilt(d, s) \in Sessions
         /\ Rebuilt(d, s).ext = new.ext /\ Rebuilt(d, s).fp = new.fp
         /\ Rebuilt(d, s).rules = new.rules
         /\ Rebuilt(d, s).calls = Cardinality(TracesOf(db, s))
<1>1. db \in Databases /\ s \in SessionIds
  BY DatabaseFields DEF Typed
<1>2. d.rows = db.rows /\ d.sessions = [db.sessions EXCEPT ![s] = new]
  BY <1>1 DEF Databases
<1>3. d.sessions[s] = new
  BY <1>1, <1>2, DatabaseFields
<1>4. TracesOf(d, s) = TracesOf(db, s)
  BY <1>2 DEF TracesOf, Kept
<1>. DEFINE T == TracesOf(db, s)
            A == {db.rows[t].at : t \in T}
            n == Cardinality(T)
            m == Max({d.rows[t].at : t \in TracesOf(d, s)})
<1>5. T \in SUBSET Traces /\ \A t \in T : db.rows[t] \in Rows
  BY <1>1, DatabaseFields DEF TracesOf
<1>6. n \in Nat
  BY <1>5, TraceSet
<1>7. m = Max(A)
  <2>1. {d.rows[t].at : t \in TracesOf(d, s)} = A
    BY <1>2, <1>4
  <2>. QED BY <2>1
<1>8. m \in Times
  <2>1. A \subseteq Times /\ A # {}
    BY <1>5 DEF Rows
  <2>2. A \subseteq Int /\ IsFiniteSet(A)
    <3>1. IsFiniteSet(Times) /\ Times \subseteq Int
      <4>. DEFINE n2 == 2 * MaxTraces
      <4>1. n2 \in Int /\ 0 \in Int
        BY Numbers
      <4>. HIDE DEF n2
      <4>2. IsFiniteSet(0 .. n2)
        BY <4>1, FS_Interval
      <4>. QED BY <4>2, Numbers DEF Times, n2
    <3>. HIDE DEF A
    <3>2. IsFiniteSet(A)
      BY <2>1, <3>1, FS_Subset
    <3>3. A \subseteq Int
      BY <2>1, <3>1, Zenon
    <3>. QED BY <3>2, <3>3
  <2>. HIDE DEF A
  <2>3. Max(A) \in A
    BY <2>1, <2>2, MaxOfSet
  <2>. QED BY <1>7, <2>1, <2>3
<1>. HIDE DEF n, m
<1>9. Rebuilt(d, s) = [new EXCEPT !.calls = n, !.seen = m]
  BY <1>3, <1>4 DEF Rebuilt, n, m
<1>. QED BY <1>6, <1>8, <1>9 DEF Sessions, n

\* What the last transaction leaves of the sessions.
LEMMA RebuildEffect ==
  ASSUME IInv, Rebuild
  PROVE  /\ db' \in Databases /\ db'.rows = db.rows /\ db'.next = db.next
         /\ Live(db') \subseteq Live(db)
         /\ \A s \in Live(db) : TracesOf(db, s) # {} => s \in Live(db')
         /\ \A s \in Live(db') :
              /\ db'.sessions[s].ext = db.sessions[s].ext
              /\ db'.sessions[s].fp = db.sessions[s].fp
              /\ db'.sessions[s].rules = IF backfill.rules[s] = NoSession
                                         THEN db.sessions[s].rules ELSE backfill.rules[s]
              /\ TracesOf(db, s) # {} => db'.sessions[s].calls = Cardinality(TracesOf(db, s))
              /\ TracesOf(db, NoSession) = {} => TracesOf(db, s) # {}
<1>. DEFINE V(s) == CASE s \notin Live(db) \/ s \in Unused(db) -> NoSession
                      [] s \in Live(db) \ Unused(db) /\ TracesOf(db, s) = {} -> Based(s)
                      [] OTHER -> Rebuilt([db EXCEPT !.sessions[s] = Based(s)], s)
<1>1. db' = [db EXCEPT !.sessions = [s \in SessionIds |-> V(s)]]
  BY DEF Rebuild, Based
<1>2. Typed /\ db \in Databases /\ Live(db) \subseteq SessionIds
  BY DatabaseFields DEF IInv, Typed
<1>3. ASSUME NEW s \in Live(db), TracesOf(db, s) # {}
      PROVE  /\ V(s) \in Sessions
             /\ V(s).ext = Based(s).ext /\ V(s).fp = Based(s).fp /\ V(s).rules = Based(s).rules
             /\ V(s).calls = Cardinality(TracesOf(db, s))
  <2>1. s \notin Unused(db)
    BY <1>3 DEF Unused
  <2>2. V(s) = Rebuilt([db EXCEPT !.sessions[s] = Based(s)], s)
    BY <1>3, <2>1
  <2>. HIDE DEF V
  <2>3. PICK new \in Sessions : new = Based(s)
    BY <1>2, BasedFields
  <2>4. PICK d : d = [db EXCEPT !.sessions[s] = new]
    OBVIOUS
  <2>5. V(s) = Rebuilt(d, s)
    BY <2>2, <2>3, <2>4
  <2>. QED BY <1>2, <1>3, <2>3, <2>4, <2>5, RebuiltSession
<1>4. ASSUME NEW s \in Live(db), TracesOf(db, s) = {}
      PROVE  \/ V(s) = NoSession
             \/ V(s) = Based(s) /\ TracesOf(db, NoSession) # {}
  BY <1>4 DEF Unused
<1>5. \A s \in SessionIds : s \notin Live(db) => V(s) = NoSession
  OBVIOUS
<1>. HIDE DEF V
<1>6. \A s \in SessionIds : V(s) \in Sessions \cup {NoSession}
  BY <1>2, <1>3, <1>4, <1>5, BasedFields
<1>7. /\ db'.rows = db.rows /\ db'.next = db.next /\ db' \in Databases
      /\ \A s \in SessionIds : db'.sessions[s] = V(s)
  BY <1>1, <1>2, <1>6 DEF Databases
<1>8. Live(db') \subseteq Live(db)
  BY <1>5, <1>7 DEF Live
<1>9. \A s \in Live(db) : TracesOf(db, s) # {} => s \in Live(db')
  BY <1>2, <1>3, <1>7, GroupingAssumption DEF Live
<1>10. ASSUME NEW s \in Live(db')
       PROVE  /\ db'.sessions[s].ext = db.sessions[s].ext
              /\ db'.sessions[s].fp = db.sessions[s].fp
              /\ db'.sessions[s].rules = IF backfill.rules[s] = NoSession
                                         THEN db.sessions[s].rules ELSE backfill.rules[s]
              /\ TracesOf(db, s) # {} => db'.sessions[s].calls = Cardinality(TracesOf(db, s))
              /\ TracesOf(db, NoSession) = {} => TracesOf(db, s) # {}
  <2>1. s \in Live(db) /\ s \in SessionIds /\ db'.sessions[s] = V(s) /\ V(s) # NoSession
    BY <1>2, <1>7, <1>8 DEF Live
  <2>2. /\ Based(s).ext = db.sessions[s].ext /\ Based(s).fp = db.sessions[s].fp
        /\ Based(s).rules = IF backfill.rules[s] = NoSession THEN db.sessions[s].rules
                            ELSE backfill.rules[s]
    BY <1>2, <2>1, BasedFields
  <2>3. CASE TracesOf(db, s) # {}
    BY <1>3, <2>1, <2>2, <2>3
  <2>4. CASE TracesOf(db, s) = {}
    BY <1>4, <2>1, <2>2, <2>4
  <2>. QED BY <2>3, <2>4
<1>. QED BY <1>7, <1>8, <1>9, <1>10

\* The last transaction of a backfill keeps the invariant.
LEMMA RebuildKeeps ==
  ASSUME IInv, Rebuild
  PROVE  IInv'
<1>1. /\ backfill.stage = "write" /\ backfill' = Idle
      /\ storeRaw' = storeRaw /\ requests' = requests /\ clock' = clock
      /\ call' = call /\ runs' = runs /\ crossed' = crossed
  BY DEF Rebuild
<1>2. /\ Typed /\ Clocked /\ RowsWritten /\ SessionsNumbered /\ Met /\ Belongs /\ Instructed
      /\ OneSession /\ db \in Databases
  BY DEF IInv, Typed
<1>3. /\ db' \in Databases /\ db'.rows = db.rows /\ db'.next = db.next
      /\ Live(db') \subseteq Live(db)
      /\ \A s \in Live(db) : TracesOf(db, s) # {} => s \in Live(db')
      /\ \A s \in Live(db') :
           /\ db'.sessions[s].ext = db.sessions[s].ext
           /\ db'.sessions[s].fp = db.sessions[s].fp
           /\ db'.sessions[s].rules = IF backfill.rules[s] = NoSession
                                      THEN db.sessions[s].rules ELSE backfill.rules[s]
           /\ TracesOf(db, s) # {} => db'.sessions[s].calls = Cardinality(TracesOf(db, s))
           /\ TracesOf(db, NoSession) = {} => TracesOf(db, s) # {}
  BY RebuildEffect
<1>4. Idle.stage = "idle" /\ Idle \in BackfillRecords
  BY DEF Idle, BackfillRecords
<1>5. /\ Kept(db') = Kept(db) /\ \A s : TracesOf(db', s) = TracesOf(db, s)
      /\ Called' = Called /\ StoredCalls' = StoredCalls /\ Running' = Running
      /\ OrphanBorn' = OrphanBorn
  BY <1>1, <1>3 DEF Kept, TracesOf, Called, StoredCalls, Running, OrphanBorn
<1>6. Typed'
  BY <1>1, <1>2, <1>3, <1>4 DEF Typed
<1>7. Clocked'
  BY <1>1, <1>2, <1>3, <1>5 DEF Clocked
<1>8. RowsWritten'
  BY <1>1, <1>2, <1>3, <1>5 DEF RowsWritten
<1>9. SessionsNumbered'
  <2>1. Regroupings' = Regroupings
    BY <1>1, <1>4 DEF Regroupings
  <2>2. Numbered(db')
    BY <1>2, <1>3 DEF SessionsNumbered, Numbered
  <2>. QED BY <1>1, <1>2, <1>3, <1>4, <1>5, <2>1, <2>2 DEF SessionsNumbered
<1>10. runs # 0 /\ Running \subseteq crossed
  BY <1>1, <1>2 DEF SessionsNumbered, Met
<1>11. Met' /\ RowsRead'
  BY <1>1, <1>2, <1>4, <1>5 DEF Met, RowsRead
<1>12. LookedUp'
  BY <1>1, <1>10 DEF LookedUp, Running
<1>13. \A t \in Kept(db) \ crossed : db.rows[t].session \in Live(db) =>
         db.rows[t].session \in Live(db')
  BY <1>3 DEF TracesOf
<1>14. Belongs'
  <2>1. UniqueIds(db')
    BY <1>2, <1>3 DEF Belongs, UniqueIds
  <2>2. ASSUME NEW t \in Kept(db') \ crossed'
        PROVE  /\ db'.rows[t].session # NoSession => db'.rows[t].session \in Live(db')
               /\ db'.rows[t].ext # NoId =>
                    /\ db'.rows[t].session \in Live(db')
                    /\ db'.sessions[db'.rows[t].session].ext = db'.rows[t].ext
    BY <1>1, <1>2, <1>3, <1>5, <1>13, <2>2 DEF Belongs
  <2>. QED BY <2>1, <2>2 DEF Belongs
<1>15. Counted'
  <2>1. OrphanBorn = {} => TracesOf(db, NoSession) = {}
    BY <1>2 DEF RowsWritten, TracesOf
  <2>2. ASSUME OrphanBorn = {}, NEW s \in Live(db')
        PROVE  db'.sessions[s].calls = Cardinality(TracesOf(db, s))
    BY <1>3, <2>1, <2>2
  <2>. QED BY <1>1, <1>5, <1>10, <2>2 DEF Counted
<1>16. Instructed'
  <2>. SUFFICES ASSUME storeRaw, NEW t \in Kept(db) \ crossed, db.rows[t].session # NoSession,
                       Text(db.rows[t]) # <<>>
                PROVE  Signals(db.rows[t].body) \subseteq db'.sessions[db.rows[t].session].rules
    BY <1>1, <1>3, <1>4, <1>5 DEF Instructed
  <2>1. db.rows[t].session \in Live(db')
    BY <1>2, <1>13 DEF Belongs
  <2>2. /\ backfill.rules[db.rows[t].session] # NoSession
        /\ Signals(db.rows[t].body) \subseteq backfill.rules[db.rows[t].session]
    BY <1>1, <1>2 DEF Instructed
  <2>. QED BY <1>3, <2>1, <2>2
<1>17. HangTogether'
  BY <1>1, <1>10 DEF HangTogether
<1>18. OneSession'
  <2>1. ASSUME NEW o PROVE Opened(o)' = Opened(o)
    BY <1>1, <1>5 DEF Opened
  <2>. SUFFICES ASSUME storeRaw, NEW o \in Messages \ Secrets, Conversation(Opened(o))'
                PROVE
          /\ Opened(o)' = {} => \A r \in Live(db') : db'.sessions[r].fp # o
          /\ Opened(o)' # {} => \E q \in SessionIds : Hosts(q, o)'
          /\ \A u \in Traces : ~ (/\ call'[u].stage = "looked"
                                  /\ Conversation(Opened(o) \cup {u})')
    BY <1>1 DEF OneSession
  <2>2. \A u \in Traces : ~ (/\ call'[u].stage = "looked"
                             /\ Conversation(Opened(o) \cup {u})')
    BY <1>1, <1>10 DEF Conversation, Running
  <2>3. Conversation(Opened(o))
    BY <1>1, <2>1 DEF Conversation
  <2>4. /\ Opened(o) = {} => \A r \in Live(db) : db.sessions[r].fp # o
        /\ Opened(o) # {} => \E q \in SessionIds : Hosts(q, o)
    BY <1>2, <2>3 DEF OneSession
  <2>5. ASSUME Opened(o) = {} PROVE \A r \in Live(db') : db'.sessions[r].fp # o
    BY <1>3, <2>4, <2>5
  <2>6. ASSUME Opened(o) # {}, NEW q \in SessionIds, Hosts(q, o) PROVE Hosts(q, o)'
    <3>1. /\ q \in Live(db) /\ db.sessions[q].ext = NoId
          /\ \A r \in Live(db) : db.sessions[r].fp = o <=> r = q
          /\ TracesOf(db, q) \subseteq Opened(o)
          /\ \A t \in Opened(o) : db.rows[t].session = q
      BY <2>6 DEF Hosts, HostsIn
    <3>2. TracesOf(db, q) # {}
      BY <1>2, <2>6, <3>1 DEF Opened, RowsWritten, TracesOf
    <3>3. q \in Live(db')
      BY <1>3, <3>1, <3>2
    <3>4. HostsIn(db, q, o)'
      BY <1>3, <1>5, <2>1, <3>1, <3>3 DEF HostsIn
    <3>. QED BY <1>1, <2>6, <3>4 DEF Hosts
  <2>. QED BY <2>1, <2>2, <2>4, <2>5, <2>6
<1>. QED BY <1>6, <1>7, <1>8, <1>9, <1>11, <1>12, <1>14, <1>15, <1>16, <1>17, <1>18 DEF IInv

-----------------------------------------------------------------------------
(* The regrouping, one trace after the other. *)

\* The tables d, once the traces T have been resolved: nothing but sessions has
\* changed, and those of the undisturbed traces exist and bear the client's ID.
Regrouping(T, d) ==
  /\ d \in Databases /\ Numbered(d) /\ UniqueIds(d)
  /\ db.next <= d.next /\ d.next <= db.next + Cardinality(T)
  /\ Live(db) \subseteq Live(d)
  /\ \A s \in Live(db) : d.sessions[s].ext = db.sessions[s].ext
  /\ \A t \in Traces \ T : d.rows[t] = db.rows[t]
  /\ \A t \in T :
       /\ t \in Kept(d) /\ d.rows[t].at = db.rows[t].at /\ d.rows[t].ext = db.rows[t].ext
       /\ d.rows[t].body = db.rows[t].body
       /\ d.rows[t].session \in Live(d) \cup {db.rows[t].session}
       /\ backfill.rows[t] = db.rows[t] =>
            /\ d.rows[t].session \in Live(d)
            /\ db.rows[t].ext # NoId => d.sessions[d.rows[t].session].ext = db.rows[t].ext

\* A conversation without an ID that was one session, or none, is so in d.
Hosting(d) ==
  storeRaw =>
    \A o \in Messages \ Secrets : Conversation(Opened(o)) =>
      /\ Opened(o) = {} /\ (\A r \in Live(db) : db.sessions[r].fp # o) =>
           \A r \in Live(d) : d.sessions[r].fp # o
      /\ \A h \in SessionIds : Opened(o) # {} /\ HostsIn(db, h, o) => HostsIn(d, h, o)

\* There is an ID for a session of each trace.
LEMMA RegroupRoom ==
  ASSUME IInv, backfill.stage = "regroup", NEW T \in SUBSET Traces, Cardinality(T) < MaxTraces,
         NEW d, d.next \in Nat \ {0}, d.next <= db.next + Cardinality(T)
  PROVE  d.next \in SessionIds
<1>1. runs \in 0 .. MaxBackfills /\ runs >= 1 /\ Regroupings = runs - 1
  BY DEF IInv, Typed, SessionsNumbered, Regroupings
<1>2. /\ db.next \in Nat \ {0}
      /\ db.next <= 1 + Cardinality(StoredCalls) + MaxTraces * (runs - 1)
  BY <1>1, DatabaseFields DEF IInv, Typed, SessionsNumbered
<1>3. Cardinality(StoredCalls) \in 0 .. MaxTraces /\ Cardinality(T) \in Nat
  BY TraceSet DEF StoredCalls
<1>4. MaxTraces * (runs - 1) + MaxTraces = MaxTraces * runs /\ MaxTraces * (runs - 1) \in Nat
  BY <1>1, Numbers
<1>5. d.next <= 1 + Cardinality(T) + MaxTraces * runs
  <2>. DEFINE p == MaxTraces * (runs - 1)
              q == MaxTraces * runs
  <2>1. p + MaxTraces = q /\ p \in Nat /\ MaxTraces \in Nat
    BY <1>4, Numbers
  <2>2. db.next <= 1 + Cardinality(StoredCalls) + p
    BY <1>2
  <2>. HIDE DEF p, q
  <2>3. d.next <= 1 + Cardinality(T) + q
    BY <1>2, <1>3, <2>1, <2>2
  <2>. QED BY <2>3 DEF q
<1>. QED BY <1>1, <1>3, <1>5, Numbers, Room

\* The rows it has read, and the calls whose text begins with an opener.
LEMMA RowRead ==
  ASSUME IInv, backfill.stage = "regroup", NEW t \in Kept(backfill)
  PROVE  /\ t \in Traces /\ t \in Kept(db) /\ backfill.rows[t] \in Rows /\ db.rows[t] \in Rows
         /\ backfill.rows[t].ext \in Ids /\ Text(backfill.rows[t]) \in Texts
         /\ backfill.rows[t] = db.rows[t] \/ t \in crossed
         /\ storeRaw => \A o \in Messages :
              Fingerprint(Text(backfill.rows[t])) = o =>
                t \in Opened(o) /\ backfill.rows[t] = db.rows[t]
<1>1. t \in Traces /\ backfill.rows[t] \in Rows
  BY DEF Kept, IInv, Typed, BackfillRecords
<1>2. /\ t \in Kept(db)
      /\ \/ backfill.rows[t] = db.rows[t]
         \/ /\ t \in crossed /\ backfill.rows[t].ext = NoId /\ backfill.rows[t].body = NoBody
  BY DEF IInv, RowsRead
<1>3. backfill.rows[t].ext \in Ids /\ Text(backfill.rows[t]) \in Texts
  BY <1>1 DEF Rows, Ids, Text, Texts
<1>4. db.rows[t] \in Rows
  BY <1>2, DatabaseFields DEF IInv, Typed
<1>5. ASSUME storeRaw, NEW o \in Messages, Fingerprint(Text(backfill.rows[t])) = o
      PROVE  t \in Opened(o) /\ backfill.rows[t] = db.rows[t]
  <2>1. backfill.rows[t].body # NoBody
    BY <1>5, GroupingAssumption DEF Text, Fingerprint
  <2>2. backfill.rows[t] = db.rows[t] /\ db.rows[t].body # NoBody
    BY <1>2, <2>1
  <2>3. t \in StoredCalls
    BY <1>2, <2>2 DEF IInv, RowsWritten
  <2>4. Text(backfill.rows[t]) = Stored(call[t].msgs) /\ call[t].msgs \in Lists
    BY <1>5, <2>2, <2>3, StoredRow
  <2>5. Fingerprint(call[t].msgs) = o
    BY <1>5, <2>4, StoredFingerprint
  <2>. QED BY <2>2, <2>3, <2>5 DEF Opened
<1>. QED BY <1>1, <1>2, <1>3, <1>4, <1>5

\* Resolving a trace keeps the IDs of the sessions unique and in order.
LEMMA ResolvedTakes ==
  ASSUME NEW d \in Databases, NEW row, NEW t, NEW u, NEW s \in SessionIds, NEW r \in Sessions,
         NEW next \in Nat \ {0}, Resolved(d, row, t, u, s, r, next), Numbered(d), UniqueIds(d)
  PROVE  /\ Numbered(u) /\ UniqueIds(u) /\ Live(u) = Live(d) \cup {s}
         /\ s < u.next /\ d.next <= u.next /\ u.next <= d.next + 1
         /\ \A q \in Live(d) : u.sessions[q].ext = d.sessions[q].ext
<1>1. PICK found, name : Takes(d, found, name, s, r, next)
  BY DEF Resolved
<1>2. Sets(d, u, s, r, next)
  BY DEF Resolved
<1>3. PICK a, e, q, n : a = d /\ e = u /\ q = r /\ n = next
  OBVIOUS
<1>4. /\ Takes(a, found, name, s, q, n) /\ Sets(a, e, s, q, n)
      /\ q \in Sessions /\ n \in Nat \ {0} /\ Numbered(a) /\ UniqueIds(a) /\ a \in Databases
  BY <1>1, <1>2, <1>3
<1>5. /\ Numbered(e) /\ UniqueIds(e) /\ Live(e) = Live(a) \cup {s}
      /\ s < e.next /\ a.next <= e.next /\ e.next <= a.next + 1
      /\ \A p \in Live(a) : e.sessions[p].ext = a.sessions[p].ext
  BY <1>4, TakeEffect
<1>. QED BY <1>3, <1>5

\* One more trace.
LEMMA RegroupStep ==
  ASSUME IInv, backfill.stage = "regroup", NEW T \in SUBSET Kept(backfill),
         NEW t \in Kept(backfill) \ T, NEW d, Regrouping(T, d), NEW u, u = Step(d, t)
  PROVE  Regrouping(T \cup {t}, u)
<1>1. /\ d \in Databases /\ Numbered(d) /\ UniqueIds(d)
      /\ db.next <= d.next /\ d.next <= db.next + Cardinality(T)
      /\ Live(db) \subseteq Live(d)
      /\ \A s \in Live(db) : d.sessions[s].ext = db.sessions[s].ext
      /\ \A q \in Traces \ T : d.rows[q] = db.rows[q]
  BY DEF Regrouping
<1>2. /\ t \in Traces /\ t \in Kept(db) /\ backfill.rows[t] \in Rows /\ db.rows[t] \in Rows
  BY RowRead
<1>3. T \in SUBSET Traces /\ t \in Traces \ T
  BY <1>2 DEF Kept
<1>4. /\ Cardinality(T \cup {t}) = Cardinality(T) + 1 /\ Cardinality(T) < MaxTraces
      /\ Cardinality(T) \in Nat
  BY <1>3, OneMore, TraceSet
<1>5. d.next \in Nat \ {0} /\ db.next \in Nat \ {0}
  BY <1>1, DatabaseFields DEF IInv, Typed
<1>6. d.next \in SessionIds
  BY <1>1, <1>3, <1>4, <1>5, RegroupRoom
<1>7. d.rows[t] = db.rows[t] /\ t \in Kept(d)
  BY <1>1, <1>2, <1>3 DEF Kept
<1>8. PICK row \in Rows : row = backfill.rows[t]
  BY <1>2
<1>9. u = Resolve(d, row, t)
  BY <1>8 DEF Step
<1>10. PICK s \in SessionIds, r \in Sessions, next \in Nat \ {0} :
         Resolved(d, row, t, u, s, r, next)
  BY <1>1, <1>6, <1>7, <1>9, ResolveEffect
<1>11. /\ Sets(d, u, s, r, next)
       /\ row.ext # NoId => r.ext = row.ext
       /\ \A q \in Traces \ {t} : u.rows[q] = d.rows[q]
       /\ IF s = row.session THEN u.rows[t] = d.rows[t]
          ELSE u.rows[t] = [at |-> d.rows[t].at, ext |-> d.rows[t].ext,
                            body |-> d.rows[t].body, session |-> s]
  BY <1>10 DEF Resolved
<1>12. /\ Numbered(u) /\ UniqueIds(u) /\ Live(u) = Live(d) \cup {s}
       /\ d.next <= u.next /\ u.next <= d.next + 1
       /\ \A q \in Live(d) : u.sessions[q].ext = d.sessions[q].ext
  <2>1. d \in Databases /\ Numbered(d) /\ UniqueIds(d)
    BY <1>1
  <2>. QED BY <1>10, <2>1, ResolvedTakes, SMTT(30)
<1>13. u \in Databases /\ u.next \in Nat \ {0} /\ u.sessions[s] = r
  BY <1>11, DatabaseFields DEF Sets
<1>14. db.next <= u.next /\ u.next <= db.next + Cardinality(T \cup {t})
  BY <1>1, <1>4, <1>5, <1>12, <1>13
<1>15. /\ Live(db) \subseteq Live(u)
       /\ \A q \in Live(db) : u.sessions[q].ext = db.sessions[q].ext
  BY <1>1, <1>12
<1>16. \A q \in Traces \ (T \cup {t}) : u.rows[q] = db.rows[q]
  BY <1>1, <1>11
<1>17. ASSUME NEW q \in T
       PROVE  /\ q \in Kept(u) /\ u.rows[q].at = db.rows[q].at /\ u.rows[q].ext = db.rows[q].ext
              /\ u.rows[q].body = db.rows[q].body
              /\ u.rows[q].session \in Live(u) \cup {db.rows[q].session}
              /\ backfill.rows[q] = db.rows[q] =>
                   /\ u.rows[q].session \in Live(u)
                   /\ db.rows[q].ext # NoId => u.sessions[u.rows[q].session].ext = db.rows[q].ext
  <2>1. /\ q \in Kept(d) /\ d.rows[q].at = db.rows[q].at /\ d.rows[q].ext = db.rows[q].ext
        /\ d.rows[q].body = db.rows[q].body
        /\ d.rows[q].session \in Live(d) \cup {db.rows[q].session}
        /\ backfill.rows[q] = db.rows[q] =>
             /\ d.rows[q].session \in Live(d)
             /\ db.rows[q].ext # NoId => d.sessions[d.rows[q].session].ext = db.rows[q].ext
    BY DEF Regrouping
  <2>2. u.rows[q] = d.rows[q] /\ q \in Kept(u)
    BY <1>3, <1>11, <2>1 DEF Kept
  <2>. QED BY <1>12, <2>1, <2>2
<1>18. /\ u.rows[t].at = db.rows[t].at /\ u.rows[t].ext = db.rows[t].ext
       /\ u.rows[t].body = db.rows[t].body
       /\ u.rows[t].session \in {s, db.rows[t].session}
       /\ backfill.rows[t] = db.rows[t] => u.rows[t].session = s
  BY <1>7, <1>8, <1>11
<1>19. t \in Kept(u)
  <2>1. u.rows[t] # NoRow
    <3>1. CASE s = row.session
      BY <1>7, <1>11, <3>1 DEF Kept
    <3>2. CASE s # row.session
      <4>1. u.rows[t] = [at |-> db.rows[t].at, ext |-> db.rows[t].ext,
                         body |-> db.rows[t].body, session |-> s]
        BY <1>7, <1>11, <3>2
      <4>2. u.rows[t] \in Rows
        BY <1>2, <4>1 DEF Rows
      <4>. QED BY <4>2, GroupingAssumption
    <3>. QED BY <3>1, <3>2
  <2>. QED BY <1>2, <2>1 DEF Kept
<1>20. backfill.rows[t] = db.rows[t] /\ db.rows[t].ext # NoId =>
         u.sessions[u.rows[t].session].ext = db.rows[t].ext
  BY <1>8, <1>11, <1>13, <1>18
<1>21. \A q \in T \cup {t} :
         /\ q \in Kept(u) /\ u.rows[q].at = db.rows[q].at /\ u.rows[q].ext = db.rows[q].ext
         /\ u.rows[q].body = db.rows[q].body
         /\ u.rows[q].session \in Live(u) \cup {db.rows[q].session}
         /\ backfill.rows[q] = db.rows[q] =>
              /\ u.rows[q].session \in Live(u)
              /\ db.rows[q].ext # NoId => u.sessions[u.rows[q].session].ext = db.rows[q].ext
  BY <1>12, <1>17, <1>18, <1>19, <1>20
<1>. QED BY <1>12, <1>13, <1>14, <1>15, <1>16, <1>21 DEF Regrouping

\* The fingerprint of a session that was joined is the one it had or the request's.
LEMMA ResolvedFingerprint ==
  ASSUME NEW d, NEW row, NEW t, NEW u, NEW s \in SessionIds, NEW r, NEW next,
         Resolved(d, row, t, u, s, r, next), Numbered(d)
  PROVE  \/ /\ s = Lookup(d, t, row.ext, Text(row)) /\ s \in Live(d)
            /\ r.ext = d.sessions[s].ext
            /\ r.fp = IF Fingerprint(Text(row)) = NoId THEN d.sessions[s].fp
                      ELSE Fingerprint(Text(row))
         \/ s \notin Live(d) /\ r.fp = Fingerprint(Text(row))
<1>1. Joins(d, Lookup(d, t, row.ext, Text(row)), t, row.ext, Text(row), row.at, s, r, next)
  BY DEF Resolved
<1>2. CASE /\ Lookup(d, t, row.ext, Text(row)) \in Live(d)
           /\ s = Lookup(d, t, row.ext, Text(row))
           /\ r = Touched(d.sessions[s], row.at, Fingerprint(Text(row)))
  BY <1>2 DEF Touched
<1>3. CASE s = d.next /\ r = Inserted(t, row.ext, Text(row), row.at)
  <2>1. s \notin Live(d)
    BY <1>3, Numbers DEF Numbered
  <2>. QED BY <1>3, <2>1 DEF Inserted
<1>. QED BY <1>1, <1>2, <1>3 DEF Joins

\* The session of a conversation stays its session: who belongs to it finds it, and
\* nobody else does.
LEMMA HostStep ==
  ASSUME IInv, backfill.stage = "regroup", storeRaw, NEW T \in SUBSET Kept(backfill),
         NEW t \in Kept(backfill) \ T, NEW d, Regrouping(T, d),
         NEW u, Regrouping(T \cup {t}, u), NEW s \in SessionIds, NEW r \in Sessions, NEW next,
         Resolved(d, backfill.rows[t], t, u, s, r, next),
         NEW o \in Messages \ Secrets, Conversation(Opened(o)), Opened(o) # {},
         NEW h \in SessionIds, HostsIn(d, h, o)
  PROVE  HostsIn(u, h, o)
<1>. DEFINE row  == backfill.rows[t]
            msgs == Text(row)
<1>1. /\ d \in Databases /\ Numbered(d)
      /\ \A q \in Traces \ T : d.rows[q] = db.rows[q]
      /\ \A q \in T : q \in Kept(d) /\ d.rows[q].body = db.rows[q].body
      /\ u \in Databases
  BY DEF Regrouping
<1>2. /\ t \in Traces /\ t \in Kept(db) /\ row.ext \in Ids /\ msgs \in Texts
      /\ row = db.rows[t] \/ t \in crossed
      /\ Fingerprint(msgs) = o => t \in Opened(o) /\ row = db.rows[t]
  BY RowRead
<1>3. /\ u.sessions[s] = r /\ \A q \in SessionIds \ {s} : u.sessions[q] = d.sessions[q]
      /\ \A q \in Traces \ {t} : u.rows[q] = d.rows[q]
      /\ IF s = row.session THEN u.rows[t] = d.rows[t]
         ELSE u.rows[t] = [at |-> d.rows[t].at, ext |-> d.rows[t].ext,
                           body |-> d.rows[t].body, session |-> s]
  BY DEF Resolved, Sets
<1>4. /\ h \in Live(d) /\ d.sessions[h].ext = NoId
      /\ \A q \in Live(d) : d.sessions[q].fp = o <=> q = h
      /\ TracesOf(d, h) \subseteq Opened(o)
      /\ \A v \in Opened(o) : d.rows[v].session = h
  BY DEF HostsIn
<1>5. o # NoId
  BY GroupingAssumption
<1>6. /\ Live(u) = Live(d) \cup {s}
      /\ Live(d) \subseteq SessionIds
  BY <1>1, <1>3, GroupingAssumption DEF Live
<1>7. \/ /\ s = Lookup(d, t, row.ext, msgs) /\ s \in Live(d)
         /\ r.ext = d.sessions[s].ext
         /\ r.fp = IF Fingerprint(msgs) = NoId THEN d.sessions[s].fp ELSE Fingerprint(msgs)
      \/ s \notin Live(d) /\ r.fp = Fingerprint(msgs)
  BY <1>1, ResolvedFingerprint
<1>8. d.rows[t] = db.rows[t] /\ t \in Kept(d)
  BY <1>1, <1>2 DEF Kept
<1>9. CASE t \in Opened(o)
  <2>1. t \in StoredCalls /\ t \notin crossed /\ call[t].ext = NoId
    BY <1>9 DEF Opened, Conversation
  <2>2. row = db.rows[t] /\ row.ext = NoId /\ msgs = Stored(call[t].msgs) /\ call[t].msgs \in Lists
    BY <1>2, <2>1, StoredRow
  <2>3. msgs = call[t].msgs
    <3>1. Range(call[t].msgs) \cap Secrets = {}
      BY <1>9 DEF Conversation
    <3>2. call[t].msgs \in Seq(Messages \cup {Redacted})
      BY <2>2, TextSequences DEF Texts
    <3>. QED BY <2>2, <3>1, <3>2, StoredOrder
  <2>4. Fingerprint(msgs) = o
    BY <1>9, <2>3 DEF Opened
  <2>5. \A v \in Opened(o) : v \in Kept(d) /\ d.rows[v].body = db.rows[v].body
    <3>. SUFFICES ASSUME NEW v \in Opened(o)
                  PROVE  v \in Kept(d) /\ d.rows[v].body = db.rows[v].body
      OBVIOUS
    <3>1. v \in Kept(db) /\ v \in Traces
      BY StoredRow DEF Opened
    <3>. QED BY <1>1, <3>1 DEF Kept
  <2>6. \A v \in Opened(o) : SameLineage(call[v].msgs, msgs)
    BY <1>9, <2>3 DEF Conversation, SameLineage
  <2>. HIDE DEF row, msgs
  <2>7. Compatible(d, h, msgs)
    BY <1>1, <2>5, <2>6, HostCompatible
  <2>8. Lookup(d, t, row.ext, msgs) = h
    BY <1>1, <1>2, <1>4, <2>2, <2>4, <2>7, HostFound
  <2>9. s = h
    <3>1. h # NoSession
      BY GroupingAssumption
    <3>2. Joins(d, h, t, row.ext, msgs, row.at, s, r, next)
      BY <2>8 DEF Resolved, row, msgs
    <3>. QED BY <3>1, <3>2 DEF Joins
  <2>10. s = row.session
    BY <1>4, <1>8, <1>9, <2>2, <2>9
  <2>11. \A q \in Traces : u.rows[q] = d.rows[q]
    BY <1>3, <2>10
  <2>12. r.ext = NoId /\ r.fp = o
    BY <1>4, <1>5, <1>7, <2>4, <2>9
  <2>13. Live(u) = Live(d)
    BY <1>4, <1>6, <2>9
  <2>14. TracesOf(u, h) = TracesOf(d, h) /\ \A v \in Opened(o) : u.rows[v].session = h
    BY <1>4, <2>11 DEF TracesOf, Kept, Opened, StoredCalls
  <2>15. \A q \in Live(u) : u.sessions[q].fp = o <=> q = h
    BY <1>3, <1>4, <1>6, <2>9, <2>12, <2>13
  <2>. QED BY <1>3, <1>4, <2>9, <2>12, <2>13, <2>14, <2>15 DEF HostsIn
<1>10. CASE t \notin Opened(o)
  <2>1. Fingerprint(msgs) # o
    BY <1>2, <1>10
  <2>. HIDE DEF row, msgs
  <2>2. Lookup(d, t, row.ext, msgs) # h
    BY <1>1, <1>2, <1>4, <2>1, HostFound
  <2>3. s # h
    BY <1>4, <1>7, <2>2
  <2>4. r.fp # o
    BY <1>4, <1>7, <2>1, <2>3
  <2>5. \A q \in Live(u) : u.sessions[q].fp = o <=> q = h
    BY <1>3, <1>4, <1>6, <2>3, <2>4
  <2>6. ASSUME NEW v \in TracesOf(u, h) PROVE v \in Opened(o)
    <3>1. v \in Traces /\ v \in Kept(u) /\ u.rows[v].session = h
      BY DEF TracesOf, Kept
    <3>2. CASE v = t
      <4>1. d.rows[t].session = h
        BY <1>3, <2>3, <3>1, <3>2
      <4>. QED BY <1>4, <1>8, <3>2, <4>1 DEF TracesOf
    <3>3. CASE v # t
      <4>1. v \in TracesOf(d, h)
        BY <1>3, <3>1, <3>3 DEF TracesOf, Kept
      <4>. QED BY <1>4, <4>1
    <3>. QED BY <3>2, <3>3
  <2>7. \A v \in Opened(o) : u.rows[v].session = h
    BY <1>3, <1>4, <1>10 DEF Opened, StoredCalls
  <2>8. h \in Live(u) /\ u.sessions[h].ext = NoId
    BY <1>3, <1>4, <1>6, <2>3
  <2>. QED BY <2>5, <2>6, <2>7, <2>8 DEF HostsIn
<1>. QED BY <1>9, <1>10

\* An opener nobody has used is that of no session.
Unhosted(d, o) == \A q \in Live(d) : d.sessions[q].fp # o

\* It stays so when another trace is resolved.
LEMMA NoHostStep ==
  ASSUME IInv, backfill.stage = "regroup", storeRaw, NEW t \in Kept(backfill),
         NEW d, Numbered(d), NEW u, NEW s \in SessionIds, NEW r, NEW next,
         Resolved(d, backfill.rows[t], t, u, s, r, next),
         NEW o \in Messages, Opened(o) = {}, Unhosted(d, o)
  PROVE  Unhosted(u, o)
<1>1. u.sessions[s] = r /\ \A q \in SessionIds \ {s} : u.sessions[q] = d.sessions[q]
  BY DEF Resolved, Sets
<1>2. Fingerprint(Text(backfill.rows[t])) # o
  BY RowRead
<1>3. r.fp # o
  BY <1>2, ResolvedFingerprint DEF Unhosted
<1>. QED BY <1>1, <1>3 DEF Live, Unhosted

\* One more trace leaves every conversation in its one session.
LEMMA HostingStep ==
  ASSUME IInv, backfill.stage = "regroup", NEW T \in SUBSET Kept(backfill),
         NEW t \in Kept(backfill) \ T, NEW d, Regrouping(T, d), Hosting(d), NEW u, u = Step(d, t),
         Regrouping(T \cup {t}, u)
  PROVE  Hosting(u)
<1>1. /\ d \in Databases /\ Numbered(d) /\ UniqueIds(d)
      /\ db.next <= d.next /\ d.next <= db.next + Cardinality(T)
      /\ \A q \in Traces \ T : d.rows[q] = db.rows[q]
  BY DEF Regrouping
<1>2. t \in Traces /\ t \in Kept(db) /\ backfill.rows[t] \in Rows
  BY RowRead
<1>3. T \in SUBSET Traces /\ t \in Traces \ T
  BY <1>2 DEF Kept
<1>4. d.next \in SessionIds
  <2>1. Cardinality(T) < MaxTraces
    BY <1>3, OneMore
  <2>2. d.next \in Nat \ {0}
    BY <1>1, DatabaseFields
  <2>. QED BY <1>1, <1>3, <2>1, <2>2, RegroupRoom
<1>5. t \in Kept(d)
  BY <1>1, <1>2, <1>3 DEF Kept
<1>6. PICK row \in Rows : row = backfill.rows[t]
  BY <1>2
<1>7. u = Resolve(d, row, t)
  BY <1>6 DEF Step
<1>8. PICK s \in SessionIds, r \in Sessions, next \in Nat \ {0} :
        Resolved(d, row, t, u, s, r, next)
  BY <1>1, <1>4, <1>5, <1>7, ResolveEffect
<1>9. Resolved(d, backfill.rows[t], t, u, s, r, next)
  BY <1>6, <1>8
<1>. SUFFICES ASSUME storeRaw, NEW o \in Messages \ Secrets, Conversation(Opened(o))
              PROVE
       /\ Opened(o) = {} /\ (\A q \in Live(db) : db.sessions[q].fp # o) =>
            \A q \in Live(u) : u.sessions[q].fp # o
       /\ \A h \in SessionIds : Opened(o) # {} /\ HostsIn(db, h, o) => HostsIn(u, h, o)
  BY DEF Hosting
<1>10. /\ Opened(o) = {} /\ (\A q \in Live(db) : db.sessions[q].fp # o) =>
            \A q \in Live(d) : d.sessions[q].fp # o
       /\ \A h \in SessionIds : Opened(o) # {} /\ HostsIn(db, h, o) => HostsIn(d, h, o)
  BY DEF Hosting
<1>11. ASSUME Opened(o) = {}, \A q \in Live(db) : db.sessions[q].fp # o
       PROVE  \A q \in Live(u) : u.sessions[q].fp # o
  <2>1. Unhosted(d, o)
    BY <1>10, <1>11 DEF Unhosted
  <2>2. o \in Messages /\ t \in Kept(backfill) /\ Numbered(d) /\ Opened(o) = {}
    BY <1>1, <1>11
  <2>3. Unhosted(u, o)
    BY <1>9, <2>1, <2>2, NoHostStep
  <2>. QED BY <2>3 DEF Unhosted
<1>12. ASSUME NEW h \in SessionIds, Opened(o) # {}, HostsIn(db, h, o) PROVE HostsIn(u, h, o)
  <2>1. HostsIn(d, h, o)
    BY <1>10, <1>12
  <2>. QED BY <1>9, <1>12, <2>1, HostStep
<1>. QED BY <1>11, <1>12

\* Every subset of the traces that were read, resolved the oldest first, leaves
\* the tables so.
LEMMA RegroupInduction ==
  ASSUME IInv, backfill.stage = "regroup", NEW g, IsRegrouping(g, Kept(backfill)),
         \A V \in SUBSET Kept(backfill) : V # {} => Youngest(V) \in V
  PROVE  Regrouping(Kept(backfill), g[Kept(backfill)]) /\ Hosting(g[Kept(backfill)])
<1>. DEFINE S == Kept(backfill)
            C == {T \in SUBSET S : ~ (Regrouping(T, g[T]) /\ Hosting(g[T]))}
<1>1. SUFFICES ASSUME C # {} PROVE FALSE
  OBVIOUS
<1>2. IsFiniteSet(S)
  <2>1. S \subseteq Traces
    BY DEF Kept
  <2>. QED BY <2>1, TraceSet
<1>3. PICK m \in C : \A T \in C : T \subseteq m => T = m
  <2>. HIDE DEF C
  <2>1. C \in SUBSET SUBSET S
    BY DEF C
  <2>. HIDE DEF S
  <2>. QED BY <1>1, <1>2, <2>1, MinimalSubset
<1>4. m \in SUBSET S /\ ~ (Regrouping(m, g[m]) /\ Hosting(g[m]))
  OBVIOUS
<1>5. CASE m = {}
  <2>1. g[m] = db
    BY <1>5 DEF IsRegrouping
  <2>2. db \in Databases /\ Numbered(db) /\ UniqueIds(db) /\ db.next \in Nat
    BY DatabaseFields DEF IInv, Typed, SessionsNumbered, Belongs
  <2>3. Cardinality({}) = 0
    BY FS_EmptySet
  <2>4. Regrouping({}, db)
    <3>1. db.next <= db.next /\ db.next <= db.next + Cardinality({})
      BY <2>2, <2>3
    <3>. QED BY <2>2, <3>1, Zenon DEF Regrouping
  <2>5. Hosting(db)
    BY DEF Hosting
  <2>. QED BY <1>4, <1>5, <2>1, <2>4, <2>5
<1>6. CASE m # {}
  <2>. DEFINE t == Youngest(m)
              T == m \ {t}
  <2>1. t \in m /\ T \in SUBSET S /\ T # m /\ T \subseteq m /\ T \cup {t} = m /\ t \in S \ T
    BY <1>4, <1>6
  <2>2. Regrouping(T, g[T]) /\ Hosting(g[T])
    <3>1. T \notin C
      BY <1>3, <2>1
    <3>. QED BY <2>1, <3>1
  <2>3. g[m] = Step(g[T], t)
    BY <1>4, <1>6 DEF IsRegrouping
  <2>. HIDE DEF t, T
  <2>4. PICK d, u : d = g[T] /\ u = g[m]
    OBVIOUS
  <2>5. Regrouping(T \cup {t}, u)
    BY <2>1, <2>2, <2>3, <2>4, RegroupStep
  <2>6. Hosting(u)
    BY <2>1, <2>2, <2>3, <2>4, <2>5, HostingStep
  <2>. QED BY <1>4, <2>1, <2>4, <2>5, <2>6
<1>. QED BY <1>4, <1>5, <1>6

\* That is what the transaction of the regrouping does.
LEMMA RegroupEffect ==
  ASSUME IInv, Regroup
  PROVE  Regrouping(Kept(backfill), db') /\ Hosting(db')
<1>1. backfill.stage = "regroup" /\ db' = Regrouped
  BY DEF Regroup
<1>2. ASSUME NEW V \in SUBSET Kept(backfill), V # {} PROVE Youngest(V) \in V
  <2>1. V \in SUBSET Traces /\ \A t \in V : backfill.rows[t] \in Rows
    BY <1>1, RowRead DEF Kept
  <2>. QED BY <1>2, <2>1, NewestRow DEF Youngest
<1>3. PICK g : IsRegrouping(g, Kept(backfill)) /\ Regrouped = g[Kept(backfill)]
  BY <1>2, RegroupedIs
<1>4. Regrouping(Kept(backfill), g[Kept(backfill)]) /\ Hosting(g[Kept(backfill)])
  BY <1>1, <1>2, <1>3, RegroupInduction
<1>. QED BY <1>1, <1>3, <1>4

\* The transaction of the regrouping keeps the invariant.
LEMMA RegroupKeeps ==
  ASSUME IInv, Regroup
  PROVE  IInv'
<1>. DEFINE K == Kept(backfill)
<1>1. /\ backfill.stage = "regroup" /\ backfill' = [Idle EXCEPT !.stage = "read"]
      /\ storeRaw' = storeRaw /\ requests' = requests /\ clock' = clock /\ call' = call
      /\ runs' = runs /\ crossed' = crossed
  BY DEF Regroup
<1>2. /\ Typed /\ Clocked /\ RowsWritten /\ SessionsNumbered /\ Met /\ Belongs /\ OneSession
      /\ db \in Databases
  BY DEF IInv, Typed
<1>3. Regrouping(K, db') /\ Hosting(db')
  BY RegroupEffect
<1>4. backfill'.stage = "read" /\ backfill' \in BackfillRecords
  BY <1>1 DEF Idle, BackfillRecords
<1>5. /\ db' \in Databases /\ Numbered(db') /\ UniqueIds(db')
      /\ db.next <= db'.next /\ db'.next <= db.next + Cardinality(K)
      /\ Live(db) \subseteq Live(db')
      /\ \A s \in Live(db) : db'.sessions[s].ext = db.sessions[s].ext
      /\ \A t \in Traces \ K : db'.rows[t] = db.rows[t]
      /\ \A t \in K :
           /\ t \in Kept(db') /\ db'.rows[t].at = db.rows[t].at /\ db'.rows[t].ext = db.rows[t].ext
           /\ db'.rows[t].body = db.rows[t].body
           /\ db'.rows[t].session \in Live(db') \cup {db.rows[t].session}
           /\ backfill.rows[t] = db.rows[t] =>
                /\ db'.rows[t].session \in Live(db')
                /\ db.rows[t].ext # NoId => db'.sessions[db'.rows[t].session].ext = db.rows[t].ext
  BY <1>3 DEF Regrouping
<1>6. \A t \in K :
        t \in Traces /\ t \in Kept(db) /\ (backfill.rows[t] = db.rows[t] \/ t \in crossed)
  BY <1>1, RowRead
<1>. HIDE DEF K
<1>7. \A t \in Traces :
        /\ t \in Kept(db') <=> t \in Kept(db)
        /\ db'.rows[t].at = db.rows[t].at /\ db'.rows[t].ext = db.rows[t].ext
        /\ db'.rows[t].body = db.rows[t].body
        /\ db'.rows[t].session \in Live(db') \cup {db.rows[t].session}
  BY <1>5, <1>6 DEF Kept
<1>8. /\ Kept(db') = Kept(db) /\ Called' = Called /\ StoredCalls' = StoredCalls
      /\ Running' = Running /\ OrphanBorn' = OrphanBorn
      /\ Kept(db) \subseteq Traces /\ StoredCalls \subseteq Traces
  BY <1>1, <1>7 DEF Kept, Called, StoredCalls, Running, OrphanBorn
<1>9. NoSession \notin Live(db')
  BY GroupingAssumption DEF Live
<1>10. runs >= 1 /\ runs \in Nat /\ runs # 0 /\ Running \subseteq crossed
  BY <1>1, <1>2, Numbers DEF SessionsNumbered, Met, Typed
<1>11. Typed'
  BY <1>1, <1>2, <1>4, <1>5 DEF Typed
<1>12. Clocked'
  BY <1>1, <1>2, <1>7, <1>8 DEF Clocked
<1>13. RowsWritten'
  BY <1>1, <1>2, <1>7, <1>8, <1>9, <1>10 DEF RowsWritten
<1>14. SessionsNumbered'
  <2>1. Regroupings = runs - 1 /\ Regroupings' = runs
    BY <1>1, <1>4 DEF Regroupings
  <2>2. db.next \in Nat /\ db'.next \in Nat
    BY <1>2, <1>5, DatabaseFields
  <2>3. db'.next <= 1 + Cardinality(StoredCalls) + MaxTraces * runs
    <3>. DEFINE p == MaxTraces * (runs - 1)
                q == MaxTraces * runs
    <3>1. p + MaxTraces = q /\ p \in Nat /\ MaxTraces \in Nat
      BY <1>10, Numbers
    <3>2. db.next <= 1 + Cardinality(StoredCalls) + p
      BY <1>2, <2>1 DEF SessionsNumbered
    <3>3. Cardinality(StoredCalls) \in Nat /\ Cardinality(K) \in 0 .. MaxTraces
      <4>1. K \subseteq Traces
        BY <1>6
      <4>. QED BY <1>8, <4>1, TraceSet
    <3>. HIDE DEF p, q
    <3>4. db'.next <= 1 + Cardinality(StoredCalls) + q
      BY <1>5, <2>2, <3>1, <3>2, <3>3
    <3>. QED BY <3>4 DEF q
  <2>4. \A t \in Kept(db') : db'.rows[t].session # NoSession => db'.rows[t].session < db'.next
    <3>. SUFFICES ASSUME NEW t \in Kept(db), db'.rows[t].session # NoSession
                  PROVE  db'.rows[t].session < db'.next
      BY <1>8
    <3>1. CASE db'.rows[t].session \in Live(db')
      BY <1>5, <3>1 DEF Numbered
    <3>2. CASE db'.rows[t].session = db.rows[t].session
      <4>1. db.rows[t].session < db.next
        BY <1>2, <3>2 DEF SessionsNumbered
      <4>2. db.rows[t].session \in Nat
        <5>1. db.rows[t] \in Rows
          BY <1>2, DatabaseFields
        <5>. QED BY <3>2, <5>1, Numbers DEF Rows
      <4>. QED BY <1>5, <2>2, <3>2, <4>1, <4>2
    <3>. QED BY <1>7, <1>8, <3>1, <3>2
  <2>5. \A t \in Traces : call'[t].found # NoSession => call'[t].found < db'.next
    <3>. SUFFICES ASSUME NEW t \in Traces, call[t].found # NoSession
                  PROVE  call[t].found < db'.next
      BY <1>1
    <3>1. call[t].found < db.next
      BY <1>2 DEF SessionsNumbered
    <3>2. call[t].found \in Nat
      BY <1>2, Numbers DEF Typed, CallRecords
    <3>. QED BY <1>5, <2>2, <3>1, <3>2
  <2>6. backfill'.stage # "idle" => runs' >= 1
    BY <1>1, <1>10
  <2>7. db'.next <= 1 + Cardinality(StoredCalls') + MaxTraces * Regroupings'
    BY <1>8, <2>1, <2>3
  <2>. QED BY <1>5, <2>4, <2>5, <2>6, <2>7 DEF SessionsNumbered
<1>15. Met' /\ RowsRead'
  BY <1>1, <1>2, <1>4, <1>8 DEF Met, RowsRead
<1>16. LookedUp'
  BY <1>1, <1>10 DEF LookedUp, Running
<1>17. Belongs'
  <2>. SUFFICES ASSUME NEW t \in Kept(db') \ crossed'
                PROVE  /\ db'.rows[t].session # NoSession => db'.rows[t].session \in Live(db')
                       /\ db'.rows[t].ext # NoId =>
                            /\ db'.rows[t].session \in Live(db')
                            /\ db'.sessions[db'.rows[t].session].ext = db'.rows[t].ext
    BY <1>5 DEF Belongs
  <2>1. t \in Kept(db) /\ t \in Traces /\ t \notin crossed
    BY <1>1, <1>8
  <2>2. CASE t \in K
    BY <1>5, <1>6, <1>7, <2>1, <2>2
  <2>3. CASE t \notin K
    <3>1. db'.rows[t] = db.rows[t]
      BY <1>5, <2>1, <2>3
    <3>. QED BY <1>2, <1>5, <2>1, <3>1 DEF Belongs
  <2>. QED BY <2>2, <2>3
<1>18. Counted' /\ Instructed' /\ HangTogether'
  BY <1>1, <1>4, <1>10 DEF Counted, Instructed, HangTogether
<1>19. OneSession'
  <2>1. ASSUME NEW o PROVE Opened(o)' = Opened(o)
    BY <1>1, <1>8 DEF Opened
  <2>. SUFFICES ASSUME storeRaw, NEW o \in Messages \ Secrets, Conversation(Opened(o))'
                PROVE
          /\ Opened(o)' = {} => \A r \in Live(db') : db'.sessions[r].fp # o
          /\ Opened(o)' # {} => \E q \in SessionIds : Hosts(q, o)'
          /\ \A u \in Traces : ~ (/\ call'[u].stage = "looked"
                                  /\ Conversation(Opened(o) \cup {u})')
    BY <1>1 DEF OneSession
  <2>2. \A u \in Traces : ~ (/\ call'[u].stage = "looked"
                             /\ Conversation(Opened(o) \cup {u})')
    BY <1>1, <1>10 DEF Conversation, Running
  <2>3. Conversation(Opened(o))
    BY <1>1, <2>1 DEF Conversation
  <2>4. /\ Opened(o) = {} => \A r \in Live(db) : db.sessions[r].fp # o
        /\ Opened(o) # {} => \E q \in SessionIds : Hosts(q, o)
    BY <1>2, <2>3 DEF OneSession
  <2>5. /\ Opened(o) = {} /\ (\A r \in Live(db) : db.sessions[r].fp # o) =>
             \A r \in Live(db') : db'.sessions[r].fp # o
        /\ \A h \in SessionIds : Opened(o) # {} /\ HostsIn(db, h, o) => HostsIn(db', h, o)
    BY <1>3, <2>3 DEF Hosting
  <2>6. ASSUME Opened(o) # {}, NEW q \in SessionIds, Hosts(q, o) PROVE Hosts(q, o)'
    <3>1. HostsIn(db', q, o)
      BY <2>5, <2>6 DEF Hosts
    <3>2. HostsIn(db, q, o)'
      BY <2>1, <3>1 DEF HostsIn
    <3>. QED BY <1>1, <2>6, <3>2 DEF Hosts
  <2>. QED BY <2>1, <2>2, <2>4, <2>5, <2>6
<1>. QED BY <1>11, <1>12, <1>13, <1>14, <1>15, <1>16, <1>17, <1>18, <1>19 DEF IInv

-----------------------------------------------------------------------------
(* Every step, and what follows. *)

\* Nothing changes.
LEMMA StutterKeeps ==
  ASSUME IInv, UNCHANGED vars
  PROVE  IInv'
<1>1. /\ storeRaw' = storeRaw /\ requests' = requests /\ clock' = clock /\ db' = db
      /\ call' = call /\ backfill' = backfill /\ runs' = runs /\ crossed' = crossed
  BY DEF vars
<1>2. /\ Typed /\ Clocked /\ RowsWritten /\ SessionsNumbered /\ Met /\ RowsRead /\ Instructed
  BY DEF IInv
<1>3. /\ Called' = Called /\ StoredCalls' = StoredCalls /\ Running' = Running
      /\ OrphanBorn' = OrphanBorn /\ Regroupings' = Regroupings
  BY <1>1 DEF Called, StoredCalls, Running, OrphanBorn, Regroupings
<1>4. Typed'
  BY <1>1, <1>2 DEF Typed
<1>5. Clocked'
  BY <1>1, <1>2, <1>3 DEF Clocked
<1>6. RowsWritten'
  BY <1>1, <1>2, <1>3 DEF RowsWritten
<1>7. SessionsNumbered'
  BY <1>1, <1>2, <1>3 DEF SessionsNumbered
<1>8. Met' /\ RowsRead' /\ Instructed'
  BY <1>1, <1>2, <1>3 DEF Met, RowsRead, Instructed
<1>9. Quiet
  BY <1>1, <1>3 DEF Quiet
<1>10. Rest'
  BY <1>4, <1>5, <1>6, <1>7, <1>8 DEF Rest
<1>. QED BY <1>9, <1>10, QuietKeeps

\* Every step keeps the invariant.
LEMMA NextKeeps ==
  ASSUME IInv, [Next]_vars
  PROVE  IInv'
<1>1. CASE \E t \in Traces : \E r \in requests : Arrive(t, r)
  BY <1>1, ArriveKeeps
<1>2. CASE \E t \in Traces : Look(t)
  BY <1>2, LookKeeps
<1>3. CASE \E t \in Traces : Write(t)
  BY <1>3, WriteKeeps
<1>4. CASE \E t \in Traces : Refuse(t)
  BY <1>4, RefuseKeeps
<1>5. CASE \E t \in Traces : Orphan(t)
  BY <1>5, OrphanKeeps
<1>6. CASE ReadTraces
  BY <1>6, ReadTracesKeeps
<1>7. CASE Regroup
  BY <1>7, RegroupKeeps
<1>8. CASE ReadBaselines
  BY <1>8, ReadBaselinesKeeps
<1>9. CASE Rebuild
  BY <1>9, RebuildKeeps
<1>10. CASE UNCHANGED vars
  BY <1>10, StutterKeeps
<1>. QED BY <1>1, <1>2, <1>3, <1>4, <1>5, <1>6, <1>7, <1>8, <1>9, <1>10 DEF Next

\* Whatever calls, orphans and backfills run beside each other, the invariant
\* holds: every write of create and of backfill_sessions keeps it.
THEOREM Invariant == Spec => []IInv
<1>1. Init => IInv
  BY InitInvariant
<1>2. IInv /\ [Next]_vars => IInv'
  BY NextKeeps
<1>. QED BY <1>1, <1>2, PTL DEF Spec

\* The tables hold what create, record_orphan_response and backfill_sessions
\* write into them, session IDs do not run out, and no undisturbed trace refers
\* to a session that the backfill's DELETE has removed.
THEOREM TypeCorrect == Spec => []TypeOK
<1>1. ASSUME IInv PROVE TypeOK
  <2>1. /\ Typed /\ SessionsNumbered /\ Belongs /\ db \in Databases
    BY <1>1 DEF IInv, Typed
  <2>2. db.next \in 1 .. Cardinality(SessionIds) + 1
    <3>1. db.next \in Nat \ {0}
      BY <2>1, DatabaseFields
    <3>2. Cardinality(StoredCalls) \in 0 .. MaxTraces
      BY TraceSet DEF StoredCalls
    <3>3. Regroupings \in 0 .. MaxBackfills
      BY <2>1, Numbers DEF Typed, SessionsNumbered, Regroupings
    <3>. DEFINE p == MaxTraces * Regroupings
                q == MaxTraces * (MaxBackfills - Regroupings)
                n == MaxTraces * (1 + MaxBackfills)
    <3>4. p \in Nat /\ q \in Nat /\ n = MaxTraces + p + q /\ MaxTraces \in Nat
      BY <3>3, Numbers
    <3>5. db.next <= 1 + Cardinality(StoredCalls) + p
      BY <2>1 DEF SessionsNumbered
    <3>6. Cardinality(SessionIds) = n
      BY Numbers
    <3>. HIDE DEF p, q, n
    <3>. QED BY <3>1, <3>2, <3>4, <3>5, <3>6
  <2>3. \A s \in SessionIds : db.sessions[s] # NoSession =>
          s < db.next /\ db.sessions[s] \in Sessions
    BY <2>1, DatabaseFields DEF SessionsNumbered, Numbered, Live
  <2>4. \A t \in Kept(db) : db.rows[t] \in Rows
    BY <2>1, DatabaseFields
  <2>5. SessionKept
    BY <2>1 DEF SessionKept, Belongs
  <2>. QED BY <2>1, <2>2, <2>3, <2>4, <2>5 DEF TypeOK, Typed
<1>. QED BY <1>1, Invariant, PTL

\* Requests with an explicit ID share a session just when they share the ID: the
\* lookups of _upsert_session, the refused insert of a second session with it,
\* and every backfill keep that.
THEOREM ExplicitIdCorrect == Spec => []ExplicitIdDecides
<1>1. ASSUME IInv PROVE ExplicitIdDecides
  <2>. SUFFICES ASSUME NEW t \in Kept(db) \ crossed, NEW u \in Kept(db) \ crossed,
                       db.rows[t].ext # NoId, db.rows[u].ext # NoId
                PROVE  db.rows[t].ext = db.rows[u].ext <=> db.rows[t].session = db.rows[u].session
    BY DEF ExplicitIdDecides
  <2>1. /\ db.rows[t].session \in Live(db)
        /\ db.sessions[db.rows[t].session].ext = db.rows[t].ext
        /\ db.rows[u].session \in Live(db)
        /\ db.sessions[db.rows[u].session].ext = db.rows[u].ext
    BY <1>1 DEF IInv, Belongs
  <2>2. UniqueIds(db)
    BY <1>1 DEF IInv, Belongs
  <2>. QED BY <2>1, <2>2 DEF UniqueIds
<1>. QED BY <1>1, Invariant, PTL

\* Between backfills call_count is the number of the session's traces, whatever
\* calls of create ran beside each other, where no backfill has met an orphan.
THEOREM CountsCorrect == Spec => []CallsCounted
<1>1. ASSUME IInv PROVE CallsCounted
  <2>. SUFFICES ASSUME backfill.stage = "idle",
                       runs = 0 \/ \A t \in Kept(db) : db.rows[t].at = call[t].at,
                       NEW s \in Live(db)
                PROVE  db.sessions[s].calls = Cardinality(TracesOf(db, s))
    BY DEF CallsCounted
  <2>1. runs = 0 \/ OrphanBorn = {}
    BY DEF OrphanBorn
  <2>. QED BY <1>1, <2>1 DEF IInv, Counted
<1>. QED BY <1>1, Invariant, PTL

\* Standing instructions stay in force: _merge_authorization only adds, a call
\* that has not met a backfill adds to the session that its trace is in, and a
\* backfill writes the baselines it has read for every session that has one.
THEOREM InstructionsCorrect == Spec => []InstructionsKept
<1>1. ASSUME IInv PROVE InstructionsKept
  <2>. SUFFICES ASSUME storeRaw, backfill.stage = "idle", NEW t \in Kept(db) \ crossed,
                       db.rows[t].session # NoSession, db.rows[t].body # NoBody
                PROVE  Signals(db.rows[t].body) \subseteq db.sessions[db.rows[t].session].rules
    BY DEF InstructionsKept
  <2>1. CASE db.rows[t].body = <<>>
    <3>1. Signals(<<>>) = {}
      BY DEF Signals, Range
    <3>. QED BY <2>1, <3>1
  <2>2. CASE db.rows[t].body # <<>>
    BY <1>1, <2>2 DEF IInv, Instructed, Text
  <2>. QED BY <2>1, <2>2
<1>. QED BY <1>1, Invariant, PTL

\* A conversation whose client sends no ID, whose opener nobody else uses and
\* which holds nothing sensitive is one session, and a backfill keeps it one.
THEOREM OneConversationCorrect == Spec => []OneConversation
<1>1. ASSUME IInv PROVE OneConversation
  <2>. SUFFICES ASSUME storeRaw, NEW o \in Messages \ Secrets, Conversation(Opened(o)),
                       NEW t \in Opened(o), NEW u \in Opened(o)
                PROVE  db.rows[t].session = db.rows[u].session
    <3>1. ASSUME NEW o
          PROVE  {t \in Kept(db) : Is(t, "stored") /\ Fingerprint(call[t].msgs) = o} = Opened(o)
      BY <1>1 DEF IInv, RowsWritten, Opened, StoredCalls, Is, Kept
    <3>. QED BY <3>1 DEF OneConversation, Conversation
  <2>1. PICK s \in SessionIds : Hosts(s, o)
    BY <1>1 DEF IInv, OneSession
  <2>. QED BY <2>1 DEF Hosts, HostsIn
<1>. QED BY <1>1, Invariant, PTL

\* Until the first backfill, two requests without an ID share a session only over
\* a third one that both continue, whatever calls of create run beside each other:
\* what _fingerprint_session_compatible has found cannot be taken away.
THEOREM LineagesBridged == Spec => []DivergentBridged
<1>1. IInv => DivergentBridged
  BY DEF IInv, HangTogether, DivergentBridged
<1>. QED BY <1>1, Invariant, PTL
=============================================================================
