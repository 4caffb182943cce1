-------------------------- MODULE ProxyAudit_proofs --------------------------
(***************************************************************************)
(* Proofs about ProxyAudit, for any calls, sizes, limits and number of     *)
(* faults.                                                                 *)
(*                                                                         *)
(* None of the properties is inductive.  What the audit loop may do to the *)
(* item in hand depends on where it stands (Placed); that nothing is       *)
(* offered, queued or settled twice, on the futures and the order of the   *)
(* queue (Buffering).                                                      *)
(***************************************************************************)
EXTENDS ProxyAudit, OperatorLemmas, TLAPS

Loops == {"waiting", "create", "accept", "resolve", "respond", "classify", "dead", "stopped"}

\* The places where the loop has an item in hand.
InHand == {"create", "accept", "resolve", "respond", "classify"}

Typed ==
  /\ durable \in BOOLEAN
  /\ stop \in {"running", "joining", "closed"}
  /\ queue \in Seq(Items)
  /\ held \in Items \cup {Nothing}
  /\ loop \in Loops
  /\ bytes \in Int
  /\ future \in [Items -> {"none", "pending", "id", "null", "cancelled"}]
  /\ handler \in [Calls -> {"idle", "forwarding", "awaiting", "finishing", "done"}]
  /\ trace \in [Calls -> {"none", "created", "orphan", "answered"}]
  /\ persisted \subseteq Items
  /\ dropped \in Nat /\ failed \in Nat /\ faults \in Nat

\* What the loop knows of the item in hand from where it stands.
Placed ==
  /\ held # Nothing <=> loop \in InHand
  /\ loop \in {"accept", "resolve", "respond"} => durable
  /\ loop = "create" /\ durable => held.kind = "request"
  /\ loop = "respond" => held.kind = "response"
  /\ loop \in {"resolve", "respond", "classify"} => held \in persisted
  /\ loop = "classify" => ~durable
  /\ stop = "closed" => loop \in {"dead", "stopped"}

\* No copy is in a queue twice, and a request comes before its response.
Once(q) == \A m, n \in 1 .. Len(q) : q[m] = q[n] => m = n

InOrder(q) ==
  \A c \in Calls : \A m, n \in 1 .. Len(q) : q[m] = Req(c) /\ q[n] = Resp(c) => m < n

Counted(q) == IsFiniteSet(ToSet(q)) /\ Cardinality(ToSet(q)) = Len(q)

Unanswered(i) == future[i] \in {"pending", "cancelled"}

\* The buffer holds each offered copy once, unanswered until the loop is done
\* with it, and a call offers its request before its response.
Buffering ==
  /\ Once(queue) /\ InOrder(queue) /\ Counted(queue)
  /\ held \notin ToSet(queue)
  /\ \A i \in ToSet(queue) : i \notin persisted /\ Unanswered(i)
  /\ held # Nothing /\ loop # "classify" => Unanswered(held)
  /\ held # Nothing => future[held] # "none"
  /\ \A i \in persisted : future[i] # "none"
  /\ \A c \in Calls :
       /\ handler[c] = "idle" => future[Req(c)] = "none"
       /\ handler[c] \in {"idle", "forwarding"} => future[Resp(c)] = "none"
       /\ held = Resp(c) => Req(c) \notin ToSet(queue)

IInv == Typed /\ Placed /\ Buffering

-----------------------------------------------------------------------------
(* The queue. *)

LEMMA ItemsOfCalls ==
  ASSUME NEW c \in Calls
  PROVE  Req(c) \in Items /\ Resp(c) \in Items /\ Req(c) # Resp(c)
BY DEF Req, Resp, Items

\* What a copy put into the buffer leaves of it.
LEMMA PutLast ==
  ASSUME NEW q \in Seq(Items), NEW i \in Items, i \notin ToSet(q),
         Once(q), InOrder(q), Counted(q),
         \A c \in Calls : i = Req(c) => Resp(c) \notin ToSet(q)
  PROVE  /\ Append(q, i) \in Seq(Items)
         /\ ToSet(Append(q, i)) = ToSet(q) \cup {i}
         /\ Once(Append(q, i)) /\ InOrder(Append(q, i)) /\ Counted(Append(q, i))
<1>. DEFINE p == Append(q, i)
<1>1. /\ p \in Seq(Items) /\ Len(p) = Len(q) + 1 /\ Len(q) \in Nat
      /\ DOMAIN p = 1 .. Len(p) /\ DOMAIN q = 1 .. Len(q)
      /\ p[Len(p)] = i
      /\ \A m \in 1 .. Len(q) : p[m] = q[m] /\ q[m] \in ToSet(q)
  BY DEF ToSet
<1>2. \A m \in 1 .. Len(p) : m \in 1 .. Len(q) \/ m = Len(p)
  BY <1>1
<1>. HIDE DEF p
<1>3. ToSet(p) = ToSet(q) \cup {i}
  <2>1. ToSet(p) \subseteq ToSet(q) \cup {i}
    BY <1>1, <1>2 DEF ToSet
  <2>2. i \in ToSet(p)
    BY <1>1 DEF ToSet
  <2>3. ASSUME NEW j \in ToSet(q) PROVE j \in ToSet(p)
    <3>1. PICK m \in 1 .. Len(q) : q[m] = j
      BY <1>1 DEF ToSet
    <3>2. m \in 1 .. Len(p) /\ p[m] = j
      BY <1>1, <3>1
    <3>. QED BY <1>1, <3>2 DEF ToSet
  <2>. QED BY <2>1, <2>2, <2>3
<1>4. Once(p)
  BY <1>1, <1>2 DEF Once
<1>5. InOrder(p)
  <2>. SUFFICES ASSUME NEW c \in Calls, NEW m \in 1 .. Len(p), NEW n \in 1 .. Len(p),
                       p[m] = Req(c), p[n] = Resp(c)
                PROVE  m < n
    BY DEF InOrder
  <2>1. m # n
    BY ItemsOfCalls
  <2>2. CASE n = Len(p)
    BY <1>1, <2>1, <2>2
  <2>3. CASE n # Len(p)
    <3>1. n \in 1 .. Len(q) /\ Resp(c) \in ToSet(q)
      BY <1>1, <1>2, <2>3
    <3>2. m \in 1 .. Len(q)
      BY <1>1, <1>2, <3>1
    <3>. QED BY <1>1, <3>1, <3>2 DEF InOrder
  <2>. QED BY <2>2, <2>3
<1>6. Counted(p)
  <2>1. IsFiniteSet(ToSet(q)) /\ Cardinality(ToSet(q)) = Len(q)
    BY DEF Counted
  <2>2. /\ IsFiniteSet(ToSet(q) \cup {i})
        /\ Cardinality(ToSet(q) \cup {i}) = Cardinality(ToSet(q)) + 1
    BY <2>1, FS_AddElement
  <2>. QED BY <1>1, <1>3, <2>1, <2>2 DEF Counted
<1>. QED BY <1>1, <1>3, <1>4, <1>5, <1>6 DEF p

\* The copy taken from the buffer is its oldest.
LEMMA TakeFirst ==
  ASSUME NEW q \in Seq(Items), q # << >>, Once(q), InOrder(q), Counted(q)
  PROVE  /\ Head(q) \in Items /\ Head(q) \in ToSet(q)
         /\ Tail(q) \in Seq(Items)
         /\ ToSet(Tail(q)) = ToSet(q) \ {Head(q)}
         /\ Once(Tail(q)) /\ InOrder(Tail(q)) /\ Counted(Tail(q))
         /\ \A c \in Calls : Head(q) = Resp(c) => Req(c) \notin ToSet(Tail(q))
<1>. DEFINE t == Tail(q)
<1>1. /\ Len(q) \in Nat /\ Len(q) > 0 /\ DOMAIN q = 1 .. Len(q)
      /\ t \in Seq(Items) /\ Len(t) = Len(q) - 1 /\ DOMAIN t = 1 .. Len(t)
      /\ \A m \in 1 .. Len(t) : t[m] = q[m + 1]
      /\ Head(q) = q[1] /\ q[1] \in Items
  OBVIOUS
<1>. HIDE DEF t
<1>2. Head(q) \in ToSet(q)
  BY <1>1 DEF ToSet
<1>3. ToSet(t) \subseteq ToSet(q) \ {Head(q)}
  <2>. SUFFICES ASSUME NEW m \in 1 .. Len(t)
                PROVE  t[m] \in ToSet(q) /\ t[m] # q[1]
    BY <1>1 DEF ToSet
  <2>1. m + 1 \in 1 .. Len(q) /\ 1 \in 1 .. Len(q) /\ m + 1 # 1
    BY <1>1
  <2>. QED BY <1>1, <2>1 DEF ToSet, Once
<1>4. ASSUME NEW j \in ToSet(q), j # Head(q) PROVE j \in ToSet(t)
  <2>1. PICK m \in 1 .. Len(q) : q[m] = j
    BY <1>1 DEF ToSet
  <2>2. m # 1
    BY <1>1, <1>4, <2>1
  <2>3. m - 1 \in 1 .. Len(t) /\ t[m - 1] = q[m]
    BY <1>1, <2>2
  <2>. QED BY <1>1, <2>1, <2>3 DEF ToSet
<1>5. ToSet(t) = ToSet(q) \ {Head(q)}
  BY <1>3, <1>4
<1>6. Once(t)
  BY <1>1 DEF Once
<1>7. InOrder(t)
  <2>. SUFFICES ASSUME NEW c \in Calls, NEW m \in 1 .. Len(t), NEW n \in 1 .. Len(t),
                       t[m] = Req(c), t[n] = Resp(c)
                PROVE  m < n
    BY DEF InOrder
  <2>1. /\ m + 1 \in 1 .. Len(q) /\ n + 1 \in 1 .. Len(q)
        /\ q[m + 1] = Req(c) /\ q[n + 1] = Resp(c)
    BY <1>1
  <2>2. m + 1 < n + 1
    BY <2>1 DEF InOrder
  <2>. QED BY <2>2
<1>8. Counted(t)
  <2>1. IsFiniteSet(ToSet(q)) /\ Cardinality(ToSet(q)) = Len(q)
    BY DEF Counted
  <2>2. /\ IsFiniteSet(ToSet(q) \ {Head(q)})
        /\ Cardinality(ToSet(q) \ {Head(q)}) = Cardinality(ToSet(q)) - 1
    BY <1>2, <2>1, FS_RemoveElement
  <2>. QED BY <1>1, <1>5, <2>1, <2>2 DEF Counted
<1>9. ASSUME NEW c \in Calls, Head(q) = Resp(c), Req(c) \in ToSet(t)
      PROVE  FALSE
  <2>1. PICK m \in 1 .. Len(q) : q[m] = Req(c)
    BY <1>1, <1>5, <1>9 DEF ToSet
  <2>2. m < 1
    BY <1>1, <1>9, <2>1 DEF InOrder
  <2>. QED BY <2>2
<1>. QED BY <1>1, <1>2, <1>5, <1>6, <1>7, <1>8, <1>9 DEF t

-----------------------------------------------------------------------------
(* What the parts of an action do. *)

\* A refused copy is counted and answered; another joins the buffer.
LEMMA Offers ==
  ASSUME IInv, NEW i \in Items, future[i] = "none", Enqueue(i), UNCHANGED <<held, persisted>>,
         \A c \in Calls : i = Req(c) => handler[c] = "idle"
  PROVE  /\ queue' \in Seq(Items) /\ Once(queue') /\ InOrder(queue') /\ Counted(queue')
         /\ bytes' \in Int /\ dropped' \in Nat
         /\ i \notin ToSet(queue) /\ held # i /\ i \notin persisted
         /\ \/ /\ queue' = queue /\ dropped' = dropped + 1
               /\ future' = [future EXCEPT ![i] = "null"]
            \/ /\ ToSet(queue') = ToSet(queue) \cup {i} /\ dropped' = dropped
               /\ future' = [future EXCEPT ![i] = "pending"] /\ stop = "running"
<1>1. /\ queue \in Seq(Items) /\ Once(queue) /\ InOrder(queue) /\ Counted(queue)
      /\ bytes \in Int /\ dropped \in Nat
  BY DEF IInv, Typed, Buffering
<1>2. i \notin ToSet(queue) /\ held # i /\ i \notin persisted
  BY ProxyAssumption DEF IInv, Buffering, Unanswered
<1>3. \A c \in Calls : i = Req(c) => Resp(c) \notin ToSet(queue)
  BY DEF IInv, Buffering, Unanswered
<1>4. CASE Refused(i)
  BY <1>1, <1>2, <1>4 DEF Enqueue
<1>5. CASE ~Refused(i)
  <2>1. queue' = Append(queue, i) /\ UNCHANGED dropped /\ stop = "running"
        /\ future' = [future EXCEPT ![i] = "pending"] /\ bytes' = bytes + Size[i]
    BY <1>5 DEF Enqueue, Put, Refused
  <2>2. Size[i] \in Int
    BY ProxyAssumption
  <2>. QED BY <1>1, <1>2, <1>3, <2>1, <2>2, PutLast
<1>. QED BY <1>4, <1>5

LEMMA InitIInv == Init => IInv
<1>. SUFFICES ASSUME Init PROVE IInv
  OBVIOUS
<1>1. ToSet(queue) = {} /\ Len(queue) = 0 /\ queue \in Seq(Items)
  BY DEF Init, ToSet
<1>2. Counted(queue)
  BY <1>1, FS_EmptySet DEF Counted
<1>3. Typed /\ Placed
  BY <1>1 DEF Init, Typed, Placed, Loops, InHand
<1>4. Buffering
  <2>1. Once(queue) /\ InOrder(queue)
    BY <1>1 DEF Once, InOrder
  <2>2. \A c \in Calls : future[Req(c)] = "none" /\ future[Resp(c)] = "none"
    BY ItemsOfCalls DEF Init
  <2>. QED BY <1>1, <1>2, <2>1, <2>2, ItemsOfCalls, ProxyAssumption DEF Init, Buffering
<1>. QED BY <1>3, <1>4 DEF IInv

\* The item in hand is settled: it leaves the buffer, and only a future that
\* was pending gets a result.
LEMMA Settled ==
  ASSUME IInv, NEW r \in {"id", "null"}, held # Nothing, SetResult(r)
  PROVE  /\ held \in Items
         /\ future' \in [Items -> {"none", "pending", "id", "null", "cancelled"}]
         /\ \A i \in Items : i # held => future'[i] = future[i]
         /\ \A i \in Items : future[i] # "pending" => future'[i] = future[i]
         /\ future'[held] \in {"id", "null", "cancelled"}
<1>1. held \in Items /\ future[held] # "none"
  BY DEF IInv, Typed, Buffering
<1>. QED BY <1>1 DEF SetResult, IInv, Typed

\* The loop or the shutdown goes on with the item in hand, or gives it up, and
\* leaves the rest of the buffer alone.
LEMMA ItemBuffering ==
  ASSUME IInv, held # Nothing, UNCHANGED <<queue, handler>>,
         future' = future \/ (\E r \in {"id", "null"} : SetResult(r)),
         persisted \subseteq persisted', persisted' \subseteq persisted \cup {held},
         held' = Nothing \/ (held' = held /\ (loop' = "classify" \/ UNCHANGED future)),
         loop' = "classify" \/ loop # "classify" \/ held' = Nothing
  PROVE  Buffering'
<1>1. /\ held \in Items /\ future[held] # "none" /\ held \notin ToSet(queue)
      /\ ToSet(queue) \subseteq Items /\ persisted \subseteq Items
  BY DEF IInv, Typed, Buffering, ToSet
<1>2. /\ \A i \in Items : i # held => future'[i] = future[i]
      /\ future'[held] # "none"
  BY <1>1, Settled
<1>3. \A c \in Calls :
        /\ handler'[c] = "idle" => future'[Req(c)] = "none"
        /\ handler'[c] \in {"idle", "forwarding"} => future'[Resp(c)] = "none"
  BY <1>1, <1>2, ItemsOfCalls DEF IInv, Buffering
<1>4. \A c \in Calls : held' = Resp(c) => Req(c) \notin ToSet(queue')
  BY ItemsOfCalls, ProxyAssumption DEF IInv, Buffering
<1>5. \A i \in ToSet(queue') : i \notin persisted' /\ Unanswered(i)'
  BY <1>1, <1>2 DEF IInv, Buffering, Unanswered
<1>6. held' # Nothing /\ loop' # "classify" => Unanswered(held)'
  BY <1>1 DEF IInv, Buffering, Unanswered
<1>7. held' # Nothing => future'[held'] # "none"
  BY <1>1, <1>2
<1>8. \A i \in persisted' : future'[i] # "none"
  BY <1>1, <1>2 DEF IInv, Buffering
<1>9. held' \notin ToSet(queue')
  BY <1>1, ProxyAssumption
<1>. QED BY <1>3, <1>4, <1>5, <1>6, <1>7, <1>8, <1>9 DEF IInv, Buffering

\* A call that offers a copy leaves the rest of the buffer alone.
LEMMA OfferBuffering ==
  ASSUME IInv, NEW i \in Items, future[i] = "none", Enqueue(i), UNCHANGED <<held, persisted, loop>>,
         \A c \in Calls :
           /\ i = Req(c) => handler[c] = "idle"
           /\ handler'[c] = "idle" => handler[c] = "idle" /\ i # Req(c)
           /\ handler'[c] \in {"idle", "forwarding"} =>
                handler[c] \in {"idle", "forwarding"} /\ i # Resp(c)
  PROVE  /\ Buffering'
         /\ queue' \in Seq(Items) /\ bytes' \in Int /\ dropped' \in Nat
         /\ future' \in [Items -> {"none", "pending", "id", "null", "cancelled"}]
<1>1. /\ queue' \in Seq(Items) /\ Once(queue') /\ InOrder(queue') /\ Counted(queue')
      /\ bytes' \in Int /\ dropped' \in Nat
      /\ i \notin ToSet(queue) /\ held # i /\ i \notin persisted
      /\ ToSet(queue') \subseteq ToSet(queue) \cup {i}
      /\ future' \in [Items -> {"none", "pending", "id", "null", "cancelled"}]
      /\ \A j \in Items : j # i => future'[j] = future[j]
      /\ i \in ToSet(queue') => future'[i] = "pending"
  BY Offers DEF IInv, Typed
<1>2. ToSet(queue) \subseteq Items /\ persisted \subseteq Items /\ held \in Items \cup {Nothing}
  BY DEF IInv, Typed, ToSet
<1>3. \A c \in Calls :
        /\ handler'[c] = "idle" => future'[Req(c)] = "none"
        /\ handler'[c] \in {"idle", "forwarding"} => future'[Resp(c)] = "none"
  BY <1>1, ItemsOfCalls DEF IInv, Buffering
<1>4. ASSUME NEW c \in Calls, held = Resp(c), i = Req(c)
      PROVE  FALSE
  <2>1. future[held] = "none" /\ held # Nothing
    BY <1>4, ItemsOfCalls, ProxyAssumption DEF IInv, Buffering
  <2>. QED BY <2>1 DEF IInv, Buffering
<1>5. \A c \in Calls : held' = Resp(c) => Req(c) \notin ToSet(queue')
  BY <1>1, <1>4 DEF IInv, Buffering
<1>6. \A j \in ToSet(queue') : j \notin persisted' /\ Unanswered(j)'
  BY <1>1, <1>2 DEF IInv, Buffering, Unanswered
<1>7. /\ held' # Nothing /\ loop' # "classify" => Unanswered(held)'
      /\ held' # Nothing => future'[held'] # "none"
  BY <1>1, <1>2 DEF IInv, Buffering, Unanswered
<1>8. \A j \in persisted' : future'[j] # "none"
  BY <1>1, <1>2 DEF IInv, Buffering
<1>9. held' \notin ToSet(queue')
  BY <1>1 DEF IInv, Buffering
<1>. QED BY <1>1, <1>3, <1>5, <1>6, <1>7, <1>8, <1>9 DEF Buffering

-----------------------------------------------------------------------------
(* Every action keeps the invariant. *)

LEMMA RequestKeeps == ASSUME IInv, NEW c \in Calls, Request(c) PROVE IInv'
<1>1. /\ Req(c) \in Items /\ future[Req(c)] = "none"
      /\ Enqueue(Req(c)) /\ UNCHANGED <<held, persisted, loop>>
      /\ handler[c] = "idle" /\ handler' = [handler EXCEPT ![c] = "forwarding"]
      /\ handler \in [Calls -> {"idle", "forwarding", "awaiting", "finishing", "done"}]
  BY ItemsOfCalls DEF Request, IInv, Typed, Buffering
<1>2. \A d \in Calls :
        /\ Req(c) = Req(d) <=> d = c
        /\ Req(c) # Resp(d)
  BY DEF Req, Resp
<1>3. /\ Buffering'
      /\ queue' \in Seq(Items) /\ bytes' \in Int /\ dropped' \in Nat
      /\ future' \in [Items -> {"none", "pending", "id", "null", "cancelled"}]
  BY <1>1, <1>2, OfferBuffering
<1>. QED BY <1>1, <1>3 DEF Request, IInv, Typed, Placed

LEMMA UpstreamKeeps == ASSUME IInv, NEW c \in Calls, Upstream(c) PROVE IInv'
<1>1. /\ handler[c] = "forwarding"
      /\ handler \in [Calls -> {"idle", "forwarding", "awaiting", "finishing", "done"}]
      /\ Resp(c) \in Items /\ future[Resp(c)] = "none"
  BY ItemsOfCalls DEF Upstream, IInv, Typed, Buffering
<1>2. CASE durable
  <2>1. /\ Enqueue(Resp(c)) /\ UNCHANGED <<held, persisted, loop>>
        /\ handler' = [handler EXCEPT ![c] = "done"]
    BY <1>2 DEF Upstream
  <2>2. \A d \in Calls :
          /\ Resp(c) = Resp(d) <=> d = c
          /\ Resp(c) # Req(d)
    BY DEF Req, Resp
  <2>3. /\ Buffering'
        /\ queue' \in Seq(Items) /\ bytes' \in Int /\ dropped' \in Nat
        /\ future' \in [Items -> {"none", "pending", "id", "null", "cancelled"}]
    BY <1>1, <2>1, <2>2, OfferBuffering
  <2>. QED BY <1>1, <2>1, <2>3 DEF Upstream, IInv, Typed, Placed
<1>3. CASE ~durable
  <2>1. /\ UNCHANGED <<queue, bytes, future, dropped, held, loop, persisted>>
        /\ handler' = [handler EXCEPT ![c] = "awaiting"]
    BY <1>3 DEF Upstream
  <2>2. Buffering'
    BY <1>1, <2>1 DEF IInv, Buffering, Unanswered
  <2>. QED BY <1>1, <2>1, <2>2 DEF Upstream, IInv, Typed, Placed
<1>. QED BY <1>2, <1>3

\* What a handler does once it waits.
LEMMA HandlerKeeps ==
  ASSUME IInv, NEW c \in Calls, Resume(c) \/ Finish(c) \/ CancelHandler(c)
  PROVE  IInv'
<1>1. handler \in [Calls -> {"idle", "forwarding", "awaiting", "finishing", "done"}]
  BY DEF IInv, Typed
<1>2. CASE Resume(c)
  BY <1>1, <1>2 DEF Resume, IInv, Typed, Placed, Buffering, Unanswered
<1>3. CASE Finish(c)
  BY <1>1, <1>3 DEF Finish, IInv, Typed, Placed, Buffering, Unanswered
<1>4. CASE CancelHandler(c)
  <2>1. /\ future[Req(c)] = "pending" /\ Req(c) \in Items
        /\ future' = [future EXCEPT ![Req(c)] = "cancelled"]
        /\ handler' = [handler EXCEPT ![c] = "done"]
        /\ UNCHANGED <<queue, held, loop, persisted>>
    BY <1>4, ItemsOfCalls DEF CancelHandler
  <2>2. future \in [Items -> {"none", "pending", "id", "null", "cancelled"}]
    BY DEF IInv, Typed
  <2>3. \A i \in Items : /\ Unanswered(i) => Unanswered(i)'
                         /\ future[i] # "none" <=> future'[i] # "none"
    BY <2>1, <2>2 DEF Unanswered
  <2>4. ToSet(queue) \subseteq Items /\ persisted \subseteq Items /\ held \in Items \cup {Nothing}
    BY DEF IInv, Typed, ToSet
  <2>5. \A d \in Calls :
        /\ handler'[d] = "idle" => future'[Req(d)] = "none"
        /\ handler'[d] \in {"idle", "forwarding"} => future'[Resp(d)] = "none"
    BY <1>1, <2>1, <2>3, ItemsOfCalls DEF IInv, Buffering
  <2>6. Buffering'
    <3>1. \A i \in ToSet(queue') : i \notin persisted' /\ Unanswered(i)'
      BY <2>1, <2>3, <2>4 DEF IInv, Buffering
    <3>2. held' # Nothing /\ loop' # "classify" => Unanswered(held)'
      <4>1. held # Nothing /\ loop # "classify" => Unanswered(held)
        BY DEF IInv, Buffering
      <4>. QED BY <2>1, <2>2, <2>4, <4>1 DEF Unanswered
    <3>3. held' # Nothing => future'[held'] # "none"
      BY <2>1, <2>3, <2>4 DEF IInv, Buffering
    <3>4. \A i \in persisted' : future'[i] # "none"
      BY <2>1, <2>3, <2>4 DEF IInv, Buffering
    <3>. QED BY <2>1, <2>5, <3>1, <3>2, <3>3, <3>4 DEF IInv, Buffering
  <2>. QED BY <1>4, <2>1, <2>2, <2>6 DEF CancelHandler, IInv, Typed, Placed
<1>. QED BY <1>2, <1>3, <1>4

LEMMA TakeKeeps == ASSUME IInv, Take PROVE IInv'
<1>1. /\ queue \in Seq(Items) /\ queue # << >>
      /\ Once(queue) /\ InOrder(queue) /\ Counted(queue)
      /\ held' = Head(queue) /\ queue' = Tail(queue) /\ held = Nothing
      /\ UNCHANGED <<future, handler, persisted>>
      /\ loop' = IF durable /\ held'.kind = "response" THEN "accept" ELSE "create"
  BY DEF Take, At, IInv, Typed, Placed, Buffering, InHand
<1>2. /\ held' \in Items /\ held' \in ToSet(queue)
      /\ queue' \in Seq(Items) /\ ToSet(queue') = ToSet(queue) \ {held'}
      /\ Once(queue') /\ InOrder(queue') /\ Counted(queue')
      /\ \A c \in Calls : held' = Resp(c) => Req(c) \notin ToSet(queue')
  BY <1>1, TakeFirst
<1>3. held'.kind \in {"request", "response"} /\ held' # Nothing
  BY <1>2, ProxyAssumption DEF Items
<1>4. Unanswered(held)' /\ held' \notin persisted
  BY <1>1, <1>2 DEF IInv, Buffering, Unanswered
<1>5. Typed'
  BY <1>1, <1>2 DEF Take, IInv, Typed, Loops
<1>6. Placed'
  BY <1>1, <1>3 DEF Take, At, IInv, Typed, Placed, InHand
<1>7. Buffering'
  BY <1>1, <1>2, <1>4 DEF IInv, Buffering, Unanswered
<1>. QED BY <1>5, <1>6, <1>7 DEF IInv

\* What a failed item leaves.
LEMMA FailGives ==
  ASSUME IInv, loop \in InHand, Fail
  PROVE  /\ held' = Nothing /\ bytes' \in Int /\ SetResult("null")
         /\ future' \in [Items -> {"none", "pending", "id", "null", "cancelled"}]
         /\ failed' = failed + 1 /\ faults' = faults + 1
         /\ loop' \in {"dead", "waiting"}
         /\ loop' = "dead" => future[held] = "id"
<1>1. held \in Items /\ Size[held] \in Int /\ bytes \in Int /\ held # Nothing
  BY ProxyAssumption DEF IInv, Typed, Placed
<1>. QED BY <1>1, Settled DEF Fail, Fault, Release

\* What a settled item leaves.
LEMMA SettleGives ==
  ASSUME IInv, loop \in InHand, Settle
  PROVE  /\ held' = Nothing /\ bytes' \in Int /\ SetResult("id") /\ loop' = "waiting"
         /\ future' \in [Items -> {"none", "pending", "id", "null", "cancelled"}]
<1>1. held \in Items /\ Size[held] \in Int /\ bytes \in Int /\ held # Nothing
  BY ProxyAssumption DEF IInv, Typed, Placed
<1>. QED BY <1>1, Settled DEF Settle, Release

\* The rows the loop writes.
LEMMA RowsTyped ==
  ASSUME IInv, held \in Items, CreateRow \/ RespondRow
  PROVE  trace' \in [Calls -> {"none", "created", "orphan", "answered"}]
BY DEF IInv, Typed, Items, CreateRow, RespondRow

LEMMA CreateKeeps == ASSUME IInv, Create PROVE IInv'
<1>1. /\ loop = "create" /\ loop \in InHand /\ held \in Items /\ held # Nothing
      /\ stop # "closed" /\ UNCHANGED <<durable, stop, queue, handler, dropped>>
  BY DEF Create, At, IInv, Typed, Placed, InHand
<1>2. CASE durable
  <2>1. /\ loop' = "accept" /\ UNCHANGED <<held, bytes, future, persisted, failed>>
        /\ CreateRow \/ UNCHANGED trace
        /\ faults' \in Nat
    BY <1>2 DEF Create, Fault, IInv, Typed
  <2>2. Typed'
    BY <1>1, <2>1, RowsTyped DEF IInv, Typed, Loops
  <2>3. Placed'
    BY <1>1, <1>2, <2>1 DEF IInv, Placed, InHand
  <2>4. Buffering'
    BY <1>1, <2>1, ItemBuffering
  <2>. QED BY <2>2, <2>3, <2>4 DEF IInv
<1>3. CASE ~durable /\ Fail /\ UNCHANGED <<trace, persisted>>
  <2>1. Typed' /\ Placed'
    BY <1>1, <1>3, FailGives DEF IInv, Typed, Placed, Loops, InHand
  <2>2. Buffering'
    BY <1>1, <1>3, FailGives, ItemBuffering
  <2>. QED BY <2>1, <2>2 DEF IInv
<1>4. CASE /\ ~durable /\ CreateRow /\ persisted' = persisted \cup {held}
           /\ UNCHANGED <<failed, faults>>
           /\ SetResult("id") /\ loop' = "classify" /\ UNCHANGED <<held, bytes>>
  <2>1. Typed' /\ Placed'
    BY <1>1, <1>4, RowsTyped, Settled DEF IInv, Typed, Placed, Loops, InHand
  <2>2. Buffering'
    BY <1>1, <1>4, ItemBuffering
  <2>. QED BY <2>1, <2>2 DEF IInv
<1>5. CASE /\ ~durable /\ CreateRow /\ persisted' = persisted \cup {held}
           /\ UNCHANGED <<failed, faults>>
           /\ Settle
  <2>1. Typed' /\ Placed'
    BY <1>1, <1>5, RowsTyped, SettleGives DEF IInv, Typed, Placed, Loops, InHand
  <2>2. Buffering'
    BY <1>1, <1>5, SettleGives, ItemBuffering
  <2>. QED BY <2>1, <2>2 DEF IInv
<1>. QED BY <1>2, <1>3, <1>4, <1>5 DEF Create

LEMMA AcceptKeeps == ASSUME IInv, Accept PROVE IInv'
<1>1. /\ loop = "accept" /\ loop \in InHand /\ held \in Items /\ held # Nothing /\ durable
      /\ stop # "closed" /\ UNCHANGED <<durable, stop, queue, handler, trace, dropped>>
  BY DEF Accept, At, IInv, Typed, Placed, InHand
<1>2. CASE Fail /\ UNCHANGED persisted
  <2>1. Typed' /\ Placed'
    BY <1>1, <1>2, FailGives DEF IInv, Typed, Placed, Loops, InHand
  <2>2. Buffering'
    BY <1>1, <1>2, FailGives, ItemBuffering
  <2>. QED BY <2>1, <2>2 DEF IInv
<1>3. CASE /\ persisted' = persisted \cup {held} /\ loop' = "resolve"
           /\ UNCHANGED <<held, bytes, future, failed, faults>>
  <2>1. Typed' /\ Placed'
    BY <1>1, <1>3 DEF IInv, Typed, Placed, Loops, InHand
  <2>2. Buffering'
    BY <1>1, <1>3, ItemBuffering
  <2>. QED BY <2>1, <2>2 DEF IInv
<1>. QED BY <1>2, <1>3 DEF Accept, Accepted

LEMMA ResolveKeeps == ASSUME IInv, Resolve PROVE IInv'
<1>1. /\ loop = "resolve" /\ loop \in InHand /\ held \in Items /\ held # Nothing /\ durable
      /\ stop # "closed" /\ UNCHANGED <<durable, stop, queue, handler, trace, persisted, dropped>>
  BY DEF Resolve, At, IInv, Typed, Placed, InHand
<1>2. CASE Fail
  <2>1. Typed' /\ Placed'
    BY <1>1, <1>2, FailGives DEF IInv, Typed, Placed, Loops, InHand
  <2>2. Buffering'
    BY <1>1, <1>2, FailGives, ItemBuffering
  <2>. QED BY <2>1, <2>2 DEF IInv
<1>3. CASE Settle /\ UNCHANGED <<failed, faults>>
  <2>1. Typed' /\ Placed'
    BY <1>1, <1>3, SettleGives DEF IInv, Typed, Placed, Loops, InHand
  <2>2. Buffering'
    BY <1>1, <1>3, SettleGives, ItemBuffering
  <2>. QED BY <2>1, <2>2 DEF IInv
<1>4. CASE /\ held.kind = "response" /\ loop' = "respond"
           /\ UNCHANGED <<held, bytes, future, failed, faults>>
  <2>1. Typed' /\ Placed'
    BY <1>1, <1>4 DEF IInv, Typed, Placed, Loops, InHand
  <2>2. Buffering'
    BY <1>1, <1>4, ItemBuffering
  <2>. QED BY <2>1, <2>2 DEF IInv
<1>. QED BY <1>2, <1>3, <1>4 DEF Resolve, Resolved

LEMMA RespondKeeps == ASSUME IInv, Respond PROVE IInv'
<1>1. /\ loop = "respond" /\ loop \in InHand /\ held \in Items /\ held # Nothing
      /\ stop # "closed" /\ UNCHANGED <<durable, stop, queue, handler, persisted, dropped, failed>>
      /\ RespondRow \/ UNCHANGED trace
      /\ faults' \in Nat /\ Settle
  BY DEF Respond, At, IInv, Typed, Placed, InHand, Fault
<1>2. Typed' /\ Placed'
  BY <1>1, RowsTyped, SettleGives DEF IInv, Typed, Placed, Loops, InHand
<1>3. Buffering'
  BY <1>1, SettleGives, ItemBuffering
<1>. QED BY <1>2, <1>3 DEF IInv

LEMMA ClassifyKeeps == ASSUME IInv, Classify PROVE IInv'
<1>1. /\ loop = "classify" /\ loop \in InHand /\ held \in Items /\ held # Nothing
      /\ stop # "closed" /\ UNCHANGED <<durable, stop, queue, handler, trace, persisted, dropped>>
      /\ Size[held] \in Int
  BY ProxyAssumption DEF Classify, At, IInv, Typed, Placed, InHand
<1>2. CASE Fail
  <2>1. Typed' /\ Placed'
    BY <1>1, <1>2, FailGives DEF IInv, Typed, Placed, Loops, InHand
  <2>2. Buffering'
    BY <1>1, <1>2, FailGives, ItemBuffering
  <2>. QED BY <2>1, <2>2 DEF IInv
<1>3. CASE Release /\ loop' = "waiting" /\ UNCHANGED <<future, failed, faults>>
  <2>1. Typed' /\ Placed'
    BY <1>1, <1>3 DEF Release, IInv, Typed, Placed, Loops, InHand
  <2>2. Buffering'
    BY <1>1, <1>3, ItemBuffering DEF Release
  <2>. QED BY <2>1, <2>2 DEF IInv
<1>. QED BY <1>2, <1>3 DEF Classify

\* A buffer with nothing in it.
LEMMA Emptied == ASSUME IInv, Buffered = 0 PROVE held = Nothing /\ queue = << >>
BY DEF IInv, Typed, Buffered

LEMMA StopKeeps == ASSUME IInv, Stop \/ Joined \/ JoinTimeout PROVE IInv'
<1>1. CASE Stop
  BY <1>1 DEF Stop, IInv, Typed, Placed, Buffering, Unanswered
<1>2. CASE Joined
  <2>1. held = Nothing /\ loop' \in {"dead", "stopped"}
    BY <1>2, Emptied DEF Joined, Cancelled
  <2>. QED BY <1>2, <2>1 DEF Joined, IInv, Typed, Placed, Buffering, Unanswered, Loops, InHand
<1>3. CASE JoinTimeout
  <2>1. /\ stop' = "closed" /\ loop' \in {"dead", "stopped"} /\ dropped' \in Nat
        /\ UNCHANGED <<durable, queue, handler, failed, faults>>
    BY <1>3 DEF JoinTimeout, Cancelled, Undelivered, Buffered, IInv, Typed
  <2>2. CASE held = Nothing
    <3>1. UNCHANGED <<held, bytes, future, trace, persisted>>
      BY <1>3, <2>2 DEF JoinTimeout
    <3>. QED BY <2>1, <2>2, <3>1 DEF IInv, Typed, Placed, Buffering, Unanswered, Loops, InHand
  <2>3. CASE held # Nothing
    <3>1. /\ held \in Items /\ loop \in InHand /\ Size[held] \in Int
      BY <2>3, ProxyAssumption DEF IInv, Typed, Placed
    <3>2. /\ SetResult("null") /\ held' = Nothing /\ bytes' = bytes - Size[held]
          /\ CreateRow \/ UNCHANGED trace
          /\ persisted \subseteq persisted' /\ persisted' \subseteq persisted \cup {held}
      BY <1>3, <2>3 DEF JoinTimeout, Release, ThreadEnds
    <3>3. Typed' /\ Placed'
      BY <2>1, <3>1, <3>2, <2>3, Settled, RowsTyped DEF IInv, Typed, Placed, Loops, InHand
    <3>4. Buffering'
      BY <2>1, <2>3, <3>2, ItemBuffering
    <3>. QED BY <3>3, <3>4 DEF IInv
  <2>. QED BY <2>2, <2>3
<1>. QED BY <1>1, <1>2, <1>3

LEMMA NextKeeps == IInv /\ [Next]_vars => IInv'
<1>. SUFFICES ASSUME IInv, [Next]_vars PROVE IInv'
  OBVIOUS
<1>1. ASSUME NEW c \in Calls,
             Request(c) \/ Upstream(c) \/ Resume(c) \/ Finish(c) \/ CancelHandler(c)
      PROVE  IInv'
  BY <1>1, RequestKeeps, UpstreamKeeps, HandlerKeeps
<1>2. CASE LoopStep
  BY <1>2, TakeKeeps, CreateKeeps, AcceptKeeps, ResolveKeeps, RespondKeeps, ClassifyKeeps
  DEF LoopStep
<1>3. CASE Stop \/ Joined \/ JoinTimeout
  BY <1>3, StopKeeps
<1>4. CASE UNCHANGED vars
  BY <1>4 DEF vars, IInv, Typed, Placed, Buffering, Unanswered
<1>. QED BY <1>1, <1>2, <1>3, <1>4 DEF Next

THEOREM AuditInvariant == Spec => []IInv
BY InitIInv, NextKeeps, PTL DEF Spec

-----------------------------------------------------------------------------
(* What a step of the loop does to the item in hand. *)

\* The item stays in hand, leaves the buffer persisted, or fails.
LEMMA ItemStep ==
  ASSUME IInv, Create \/ Accept \/ Resolve \/ Respond \/ Classify
  PROVE  /\ held \in Items /\ loop \in InHand /\ stop # "closed"
         /\ UNCHANGED <<durable, stop, queue, handler, dropped>>
         /\ future' = future \/ (\E r \in {"id", "null"} : SetResult(r))
         /\ persisted' = persisted \/ persisted' = persisted \cup {held}
         /\ \/ /\ held' = held /\ failed' = failed /\ faults' >= faults /\ loop' \in InHand
            \/ /\ held' = Nothing /\ held \in persisted' /\ failed' = failed /\ faults' >= faults
               /\ loop' = "waiting"
            \/ /\ held' = Nothing /\ persisted' = persisted
               /\ failed' = failed + 1 /\ faults' = faults + 1
               /\ loop' = "dead" => future[held] = "id"
         /\ CreateRow \/ UNCHANGED trace \/ (loop = "respond" /\ RespondRow /\ held' = Nothing)
<1>1. faults \in Nat
  BY DEF IInv, Typed
<1>2. CASE Create
  <2>1. loop = "create" /\ loop \in InHand /\ held \in Items /\ stop # "closed"
    BY <1>2 DEF Create, At, IInv, Typed, Placed, InHand
  <2>2. CASE durable
    BY <1>1, <1>2, <2>1, <2>2 DEF Create, Fault, InHand
  <2>3. CASE ~durable
    BY <1>1, <1>2, <2>1, <2>3, FailGives, SettleGives DEF Create, InHand
  <2>. QED BY <2>2, <2>3
<1>3. CASE Accept
  <2>1. loop = "accept" /\ loop \in InHand /\ held \in Items /\ stop # "closed"
    BY <1>3 DEF Accept, At, IInv, Typed, Placed, InHand
  <2>. QED BY <1>1, <1>3, <2>1, FailGives DEF Accept, Accepted, InHand
<1>4. CASE Resolve
  <2>1. /\ loop = "resolve" /\ loop \in InHand /\ held \in Items /\ stop # "closed"
        /\ held \in persisted
    BY <1>4 DEF Resolve, At, IInv, Typed, Placed, InHand
  <2>. QED BY <1>1, <1>4, <2>1, FailGives, SettleGives DEF Resolve, Resolved, InHand
<1>5. CASE Respond
  <2>1. /\ loop = "respond" /\ loop \in InHand /\ held \in Items /\ stop # "closed"
        /\ held \in persisted
    BY <1>5 DEF Respond, At, IInv, Typed, Placed, InHand
  <2>. QED BY <1>1, <1>5, <2>1, SettleGives DEF Respond, Fault
<1>6. CASE Classify
  <2>1. /\ loop = "classify" /\ loop \in InHand /\ held \in Items /\ stop # "closed"
        /\ held \in persisted
    BY <1>6 DEF Classify, At, IInv, Typed, Placed, InHand
  <2>. QED BY <1>1, <1>6, <2>1, FailGives DEF Classify, Release
<1>. QED BY <1>2, <1>3, <1>4, <1>5, <1>6

\* Nothing offered is forgotten, and no answer taken back.
LEMMA FutureStands ==
  ASSUME IInv, held # Nothing, \E r \in {"id", "null"} : SetResult(r)
  PROVE  \A i \in Items : /\ future[i] # "none" <=> future'[i] # "none"
                          /\ future[i] = "id" => future'[i] = "id"
<1>1. held \in Items /\ future[held] # "none"
  BY DEF IInv, Typed, Buffering
<1>. QED BY <1>1, Settled

-----------------------------------------------------------------------------
(* The loop. *)

\* What is answered or persisted stays so; the mode is never left.
LEMMA AnswersStand ==
  ASSUME IInv, [Next]_vars
  PROVE  /\ durable' = durable /\ failed' >= failed /\ persisted \subseteq persisted'
         /\ \A i \in Items : future[i] = "id" => future'[i] = "id"
<1>1. failed \in Nat /\ future \in [Items -> {"none", "pending", "id", "null", "cancelled"}]
  BY DEF IInv, Typed
<1>2. ASSUME NEW c \in Calls,
             Request(c) \/ Upstream(c) \/ Resume(c) \/ Finish(c) \/ CancelHandler(c)
      PROVE  /\ UNCHANGED <<durable, failed, persisted>>
             /\ \A i \in Items : future[i] = "id" => future'[i] = "id"
  <2>1. UNCHANGED <<durable, failed, persisted>>
    BY <1>2 DEF Request, Upstream, Resume, Finish, CancelHandler
  <2>2. \/ UNCHANGED future
        \/ \E i \in Items, r \in {"null", "pending", "cancelled"} :
             future[i] # "id" /\ future' = [future EXCEPT ![i] = r]
    <3>1. CASE Request(c)
      <4>1. Req(c) \in Items /\ future[Req(c)] = "none"
        BY <3>1, ItemsOfCalls DEF Request, IInv, Buffering
      <4>. QED BY <3>1, <4>1 DEF Request, Enqueue
    <3>2. CASE Upstream(c)
      <4>1. Resp(c) \in Items /\ future[Resp(c)] = "none"
        BY <3>2, ItemsOfCalls DEF Upstream, IInv, Buffering
      <4>. QED BY <3>2, <4>1 DEF Upstream, Enqueue
    <3>3. CASE Resume(c) \/ Finish(c) \/ CancelHandler(c)
      BY <3>3, ItemsOfCalls DEF Resume, Finish, CancelHandler
    <3>. QED BY <1>2, <3>1, <3>2, <3>3
  <2>3. ASSUME NEW i \in Items, future[i] = "id" PROVE future'[i] = "id"
    BY <1>1, <2>2, <2>3
  <2>. QED BY <2>1, <2>3
<1>3. CASE Take
  BY <1>1, <1>3 DEF Take
<1>4. CASE Create \/ Accept \/ Resolve \/ Respond \/ Classify
  <2>1. held # Nothing
    BY <1>4, ItemStep, ProxyAssumption
  <2>. QED BY <1>1, <1>4, <2>1, ItemStep, FutureStands
<1>5. CASE Stop \/ Joined
  BY <1>1, <1>5 DEF Stop, Joined
<1>6. CASE JoinTimeout
  <2>1. /\ UNCHANGED <<durable, failed>> /\ persisted \subseteq persisted'
        /\ UNCHANGED future \/ (held # Nothing /\ SetResult("null"))
    BY <1>6 DEF JoinTimeout, ThreadEnds
  <2>. QED BY <1>1, <2>1, FutureStands
<1>7. CASE UNCHANGED vars
  BY <1>1, <1>7 DEF vars
<1>. QED BY <1>1, <1>2, <1>3, <1>4, <1>5, <1>6, <1>7 DEF Next, LoopStep

\* The audit loop of the encrypted mode survives every fault; the other one is
\* killed only by a failure that follows the answer of the item in hand.
THEOREM LoopSurvivesFaults == Spec => []LoopSurvives
<1>1. Init => LoopSurvives
  BY DEF Init, LoopSurvives
<1>2. IInv /\ IInv' /\ LoopSurvives /\ [Next]_vars => LoopSurvives'
  <2>. SUFFICES ASSUME IInv, IInv', LoopSurvives, [Next]_vars, loop' = "dead"
                PROVE  ~durable' /\ failed' > 0 /\ (\E i \in persisted' : future'[i] = "id")
    BY DEF LoopSurvives
  <2>1. persisted \subseteq Items /\ failed \in Nat /\ failed' \in Nat
    BY DEF IInv, Typed
  <2>2. CASE loop = "dead"
    <3>1. PICK i \in persisted : future[i] = "id"
      BY <2>2 DEF LoopSurvives
    <3>. QED BY <2>1, <2>2, <3>1, AnswersStand DEF LoopSurvives
  <2>3. CASE loop # "dead"
    <3>1. Create \/ Accept \/ Resolve \/ Respond \/ Classify
      BY <2>3 DEF Next, LoopStep, Request, Upstream, Resume, Finish, CancelHandler, Take, Stop,
                  Joined, JoinTimeout, Cancelled, vars
    <3>2. future[held] = "id" /\ failed' = failed + 1 /\ held \in Items /\ loop \in InHand
      BY <3>1, ItemStep DEF InHand
    <3>3. loop = "classify"
      BY <3>2 DEF IInv, Placed, Buffering, Unanswered
    <3>4. ~durable /\ held \in persisted
      BY <3>3 DEF IInv, Placed
    <3>. QED BY <2>1, <3>2, <3>4, AnswersStand
  <2>. QED BY <2>2, <2>3
<1>. QED BY <1>1, <1>2, AuditInvariant, PTL DEF Spec

-----------------------------------------------------------------------------
(* The order of a call's copies. *)

\* A call whose trace is an orphan has made its request.
OrphanInv == OrphanLast /\ \A c \in Calls : trace[c] = "orphan" => handler[c] # "idle"

LEMMA InBufferTyped ==
  ASSUME IInv
  PROVE  InBuffer \subseteq Items /\ \A i \in InBuffer : future[i] # "none"
BY DEF IInv, Typed, Buffering, InBuffer, ToSet, Unanswered

\* A step that writes no orphan and puts no request into the buffer but a new
\* one's keeps OrphanInv.
LEMMA OrphansKeep ==
  ASSUME OrphanInv,
         \A c \in Calls :
           /\ trace'[c] = "orphan" => trace[c] = "orphan"
           /\ Req(c) \in InBuffer' => Req(c) \in InBuffer \/ handler[c] = "idle"
           /\ handler'[c] = "idle" => handler[c] = "idle"
  PROVE  OrphanInv'
BY DEF OrphanInv, OrphanLast

\* The response in hand finds no trace: its request is neither queued nor in hand.
LEMMA OrphanOfItem ==
  ASSUME IInv, OrphanInv, loop = "respond", RespondRow, held' = Nothing, UNCHANGED <<queue, handler>>
  PROVE  OrphanInv'
<1>1. held \in Items /\ held.kind = "response" /\ held # Nothing
  BY DEF IInv, Typed, Placed, InHand
<1>2. PICK d \in Calls : held = Resp(d) /\ held.call = d
  BY <1>1 DEF Items, Resp
<1>3. InBuffer' = ToSet(queue) /\ InBuffer' \subseteq InBuffer
  BY DEF InBuffer
<1>4. Req(d) \notin InBuffer'
  BY <1>2, <1>3 DEF IInv, Buffering
<1>5. handler[d] # "idle"
  BY <1>1, <1>2 DEF IInv, Buffering
<1>6. \A c \in Calls : c # d => trace'[c] = trace[c]
  BY <1>2 DEF RespondRow, IInv, Typed
<1>. QED BY <1>3, <1>4, <1>5, <1>6 DEF OrphanInv, OrphanLast

LEMMA OrphanStep == IInv /\ OrphanInv /\ [Next]_vars => OrphanInv'
<1>. SUFFICES ASSUME IInv, OrphanInv, [Next]_vars PROVE OrphanInv'
  OBVIOUS
<1>1. /\ handler \in [Calls -> {"idle", "forwarding", "awaiting", "finishing", "done"}]
      /\ trace \in [Calls -> {"none", "created", "orphan", "answered"}]
  BY DEF IInv, Typed
<1>2. ASSUME NEW c \in Calls, Request(c) PROVE OrphanInv'
  <2>1. /\ Req(c) \in Items /\ future[Req(c)] = "none" /\ Enqueue(Req(c))
        /\ UNCHANGED <<held, persisted, trace>> /\ handler[c] = "idle"
        /\ handler' = [handler EXCEPT ![c] = "forwarding"]
    BY <1>2, ItemsOfCalls DEF Request, IInv, Buffering
  <2>2. \A d \in Calls : Req(c) = Req(d) => d = c
    BY DEF Req
  <2>3. ToSet(queue') \subseteq ToSet(queue) \cup {Req(c)}
    BY <2>1, <2>2, Offers
  <2>. QED BY <1>1, <2>1, <2>2, <2>3, OrphansKeep DEF InBuffer
<1>3. ASSUME NEW c \in Calls, Upstream(c) PROVE OrphanInv'
  <2>1. /\ UNCHANGED <<held, trace, persisted>>
        /\ handler' = [handler EXCEPT ![c] = "done"] \/ handler' = [handler EXCEPT ![c] = "awaiting"]
    BY <1>3 DEF Upstream
  <2>2. ToSet(queue') \subseteq ToSet(queue) \cup {Resp(c)}
    <3>1. CASE durable
      <4>1. Resp(c) \in Items /\ future[Resp(c)] = "none" /\ Enqueue(Resp(c))
        BY <1>3, <3>1, ItemsOfCalls DEF Upstream, IInv, Buffering
      <4>2. \A d \in Calls : Resp(c) # Req(d)
        BY DEF Req, Resp
      <4>. QED BY <2>1, <4>1, <4>2, Offers
    <3>2. CASE ~durable
      BY <1>3, <3>2 DEF Upstream
    <3>. QED BY <3>1, <3>2
  <2>3. \A d \in Calls : Resp(c) # Req(d)
    BY DEF Req, Resp
  <2>. QED BY <1>1, <2>1, <2>2, <2>3, OrphansKeep DEF InBuffer
<1>4. ASSUME NEW c \in Calls, Resume(c) \/ Finish(c) \/ CancelHandler(c) PROVE OrphanInv'
  <2>1. UNCHANGED <<held, queue>>
    BY <1>4 DEF Resume, Finish, CancelHandler
  <2>2. \A d \in Calls : /\ trace'[d] = "orphan" => trace[d] = "orphan"
                         /\ handler'[d] = "idle" => handler[d] = "idle"
    BY <1>1, <1>4 DEF Resume, Finish, CancelHandler
  <2>. QED BY <2>1, <2>2, OrphansKeep DEF InBuffer
<1>5. CASE Take
  <2>1. /\ queue \in Seq(Items) /\ queue # << >> /\ held = Nothing
        /\ Once(queue) /\ InOrder(queue) /\ Counted(queue)
        /\ held' = Head(queue) /\ queue' = Tail(queue) /\ UNCHANGED <<handler, trace>>
    BY <1>5 DEF Take, At, IInv, Typed, Placed, Buffering, InHand
  <2>2. InBuffer' \subseteq InBuffer
    BY <2>1, TakeFirst DEF InBuffer
  <2>. QED BY <2>1, <2>2, OrphansKeep
<1>6. CASE Create \/ Accept \/ Resolve \/ Respond \/ Classify
  <2>1. /\ UNCHANGED <<queue, handler>> /\ held' \in {held, Nothing} /\ held \in Items
        /\ CreateRow \/ UNCHANGED trace \/ (loop = "respond" /\ RespondRow /\ held' = Nothing)
    BY <1>6, ItemStep
  <2>2. CASE CreateRow \/ UNCHANGED trace
    <3>1. \A d \in Calls : trace'[d] = "orphan" => trace[d] = "orphan"
      BY <1>1, <2>2 DEF CreateRow
    <3>. QED BY <2>1, <3>1, OrphansKeep DEF InBuffer
  <2>. QED BY <2>1, <2>2, OrphanOfItem
<1>7. CASE Stop \/ Joined \/ JoinTimeout
  <2>1. /\ UNCHANGED <<queue, handler>> /\ held' \in {held, Nothing}
        /\ CreateRow \/ UNCHANGED trace
    BY <1>7 DEF Stop, Joined, JoinTimeout, Release, ThreadEnds
  <2>2. \A d \in Calls : trace'[d] = "orphan" => trace[d] = "orphan"
    BY <1>1, <2>1 DEF CreateRow
  <2>. QED BY <2>1, <2>2, OrphansKeep DEF InBuffer
<1>8. CASE UNCHANGED vars
  BY <1>8, OrphansKeep DEF vars, InBuffer
<1>. QED BY <1>2, <1>3, <1>4, <1>5, <1>6, <1>7, <1>8 DEF Next, LoopStep

\* A response finds its trace missing only after the audit had done with the
\* request: no create of that request meets the row it leaves.
THEOREM RequestsFirst == Spec => []OrphanLast
<1>1. Init => OrphanInv
  BY DEF Init, OrphanInv, OrphanLast
<1>2. OrphanInv => OrphanLast
  BY DEF OrphanInv
<1>. QED BY <1>1, <1>2, OrphanStep, AuditInvariant, PTL DEF Spec

-----------------------------------------------------------------------------
(* The accounts. *)

Accounts == IsFiniteSet(Lost) /\ LossReported

Counters == dropped \in Nat /\ failed \in Nat /\ faults \in Nat

LEMMA SameLoss ==
  ASSUME Accounts, Counters, Counters', Lost' = Lost, dropped' = dropped, failed' = failed,
         faults' >= faults, stop = "closed" => stop' = "closed"
  PROVE  Accounts'
<1>1. Cardinality(Lost) \in Nat
  BY FS_CardinalityType DEF Accounts
<1>. QED BY <1>1 DEF Accounts, LossReported, Reported, Counters

LEMMA OneMoreLost ==
  ASSUME Accounts, Counters, Counters', NEW i, i \notin Lost, Lost' = Lost \cup {i},
         Reported' = Reported + 1, faults' >= faults, stop = "closed" => stop' = "closed"
  PROVE  Accounts'
<1>1. IsFiniteSet(Lost) /\ Cardinality(Lost) \in Nat
  BY FS_CardinalityType DEF Accounts
<1>2. IsFiniteSet(Lost') /\ Cardinality(Lost') = Cardinality(Lost) + 1
  BY <1>1, FS_AddElement
<1>3. Reported \in Nat
  BY DEF Reported, Counters
<1>. QED BY <1>1, <1>2, <1>3 DEF Accounts, LossReported, Counters

\* A copy that fails after its commit is counted though not lost: one fault more.
LEMMA SameLossOneFault ==
  ASSUME Accounts, Counters, Counters', Lost' = Lost, Reported' = Reported + 1,
         faults' = faults + 1, stop' = stop
  PROVE  Accounts'
<1>1. Cardinality(Lost) \in Nat /\ Reported \in Nat
  BY FS_CardinalityType DEF Accounts, Reported, Counters
<1>. QED BY <1>1 DEF Accounts, LossReported, Counters

\* A refused copy is lost and counted; another is in the buffer.
LEMMA OfferAccounts ==
  ASSUME IInv, IInv', Accounts, NEW i \in Items, future[i] = "none", Enqueue(i),
         UNCHANGED <<held, persisted, stop, failed, faults>>,
         \A c \in Calls : i = Req(c) => handler[c] = "idle"
  PROVE  Accounts'
<1>1. /\ i \notin ToSet(queue) /\ held # i /\ i \notin persisted
      /\ \/ /\ queue' = queue /\ dropped' = dropped + 1
            /\ future' = [future EXCEPT ![i] = "null"]
         \/ /\ ToSet(queue') = ToSet(queue) \cup {i} /\ dropped' = dropped
            /\ future' = [future EXCEPT ![i] = "pending"] /\ stop = "running"
  BY Offers
<1>2. /\ future \in [Items -> {"none", "pending", "id", "null", "cancelled"}]
      /\ Counters /\ Counters'
  BY DEF IInv, Typed, Counters
<1>3. i \notin Lost
  BY DEF Lost, Offered
<1>4. CASE queue' = queue /\ dropped' = dropped + 1 /\ future' = [future EXCEPT ![i] = "null"]
  <2>1. Offered' = Offered \cup {i}
    BY <1>2, <1>4 DEF Offered
  <2>2. InBuffer' = InBuffer /\ i \notin InBuffer
    BY <1>1, <1>4 DEF InBuffer
  <2>3. Lost' = Lost \cup {i}
    BY <1>1, <2>1, <2>2 DEF Lost
  <2>4. Reported' = Reported + 1
    BY <1>2, <1>4 DEF Reported, Counters
  <2>. QED BY <1>2, <1>3, <2>3, <2>4, OneMoreLost DEF Counters
<1>5. CASE /\ ToSet(queue') = ToSet(queue) \cup {i} /\ dropped' = dropped
           /\ future' = [future EXCEPT ![i] = "pending"] /\ stop = "running"
  <2>1. Offered' = Offered \cup {i}
    BY <1>2, <1>5 DEF Offered
  <2>2. InBuffer' = InBuffer \cup {i}
    BY <1>5 DEF InBuffer
  <2>3. Lost' = Lost
    BY <1>3, <1>5, <2>1, <2>2 DEF Lost, Offered
  <2>. QED BY <1>2, <1>5, <2>3, SameLoss DEF Counters
<1>. QED BY <1>1, <1>4, <1>5

\* The item in hand stays in the buffer, is persisted, or is counted.
LEMMA ItemAccounts ==
  ASSUME IInv, IInv', Accounts, Create \/ Accept \/ Resolve \/ Respond \/ Classify
  PROVE  Accounts'
<1>1. /\ held \in Items /\ held # Nothing /\ stop # "closed" /\ UNCHANGED <<stop, queue, dropped>>
      /\ future' = future \/ (\E r \in {"id", "null"} : SetResult(r))
      /\ persisted' = persisted \/ persisted' = persisted \cup {held}
  BY ItemStep, ProxyAssumption
<1>2. /\ Offered' = Offered /\ Counters /\ Counters' /\ held \in Offered /\ held \in InBuffer
      /\ held \notin ToSet(queue)
  BY <1>1, FutureStands, InBufferTyped DEF Offered, InBuffer, Counters, IInv, Typed, Buffering
<1>3. CASE held' = held /\ failed' = failed /\ faults' >= faults
  <2>1. Lost' = Lost
    BY <1>1, <1>2, <1>3 DEF Lost, InBuffer
  <2>. QED BY <1>1, <1>2, <1>3, <2>1, SameLoss
<1>4. CASE held' = Nothing /\ held \in persisted' /\ failed' = failed /\ faults' >= faults
  <2>1. InBuffer' = InBuffer \ {held}
    BY <1>1, <1>2, <1>4 DEF InBuffer
  <2>2. Lost' = Lost
    BY <1>1, <1>2, <1>4, <2>1 DEF Lost
  <2>. QED BY <1>1, <1>2, <1>4, <2>2, SameLoss
<1>5. CASE held' = Nothing /\ persisted' = persisted /\ failed' = failed + 1 /\ faults' = faults + 1
  <2>1. InBuffer' = InBuffer \ {held}
    BY <1>1, <1>2, <1>5 DEF InBuffer
  <2>2. Reported' = Reported + 1 /\ faults' >= faults
    BY <1>1, <1>2, <1>5 DEF Reported, Counters
  <2>3. CASE held \in persisted
    <3>1. Lost' = Lost
      BY <1>1, <1>2, <1>5, <2>1, <2>3 DEF Lost
    <3>. QED BY <1>1, <1>2, <1>5, <2>2, <2>3, <3>1, SameLossOneFault
  <2>4. CASE held \notin persisted
    <3>1. Lost' = Lost \cup {held} /\ held \notin Lost
      BY <1>1, <1>2, <1>5, <2>1, <2>4 DEF Lost
    <3>. QED BY <1>1, <1>2, <2>2, <3>1, OneMoreLost
  <2>. QED BY <2>3, <2>4
<1>. QED BY <1>3, <1>4, <1>5, ItemStep

\* Shutdown counts what is queued and in hand.
LEMMA TimeoutAccounts ==
  ASSUME IInv, IInv', Accounts, JoinTimeout
  PROVE  Accounts'
<1>. DEFINE Q == ToSet(queue)
<1>1. /\ stop = "joining" /\ stop' = "closed" /\ dropped' = dropped + Buffered
      /\ UNCHANGED <<queue, failed, faults>>
      /\ persisted \subseteq persisted' /\ persisted' \subseteq persisted \cup ({held} \ {Nothing})
      /\ UNCHANGED future \/ (held # Nothing /\ SetResult("null"))
  BY DEF JoinTimeout, Undelivered, ThreadEnds
<1>2. /\ Q \subseteq Items /\ held \in Items \cup {Nothing} /\ held \notin Q
      /\ \A i \in Q : i \notin persisted
      /\ IsFiniteSet(Q) /\ Cardinality(Q) = Len(queue) /\ Len(queue) \in Nat
      /\ Counters /\ InBuffer = Q \cup ({held} \ {Nothing})
  BY DEF IInv, Typed, Buffering, Counted, InBuffer, ToSet, Counters
<1>3. Offered' = Offered
  BY <1>1, FutureStands DEF Offered
<1>4. InBuffer \subseteq Offered
  BY InBufferTyped DEF Offered
<1>5. /\ IsFiniteSet(Lost) /\ Cardinality(Lost) \in Nat
      /\ Cardinality(Lost) <= Reported /\ Reported <= Cardinality(Lost) + faults
  <2>1. IsFiniteSet(Lost) /\ Cardinality(Lost) \in Nat
    BY FS_CardinalityType DEF Accounts
  <2>2. Reported \in Nat /\ faults \in Nat
    BY <1>2 DEF Reported, Counters
  <2>. QED BY <1>1, <2>1, <2>2 DEF Accounts, LossReported
<1>6. Lost = Offered \ (persisted \cup InBuffer) /\ Lost' = Offered \ persisted'
  BY <1>1, <1>3 DEF Lost
<1>. HIDE DEF Q
<1>7. IsFiniteSet(Lost \cup Q) /\ Cardinality(Lost \cup Q) = Cardinality(Lost) + Len(queue)
  <2>1. Lost \cap Q = {}
    BY <1>2, <1>6
  <2>2. /\ IsFiniteSet(Lost \cup Q)
        /\ Cardinality(Lost \cup Q) = Cardinality(Lost) + Cardinality(Q) - Cardinality({})
    BY <1>2, <1>5, <2>1, FS_Union
  <2>. QED BY <1>2, <1>5, <2>2, FS_EmptySet
<1>8. CASE held = Nothing
  <2>1. Lost' = Lost \cup Q
    BY <1>1, <1>2, <1>4, <1>6, <1>8
  <2>2. Reported' = Reported + Len(queue)
    BY <1>1, <1>2, <1>8 DEF Reported, Buffered, Counters
  <2>. QED BY <1>1, <1>2, <1>5, <1>7, <2>1, <2>2 DEF Accounts, LossReported, Counters, Reported
<1>9. CASE held # Nothing
  <2>1. Reported' = Reported + Len(queue) + 1
    BY <1>1, <1>2, <1>9 DEF Reported, Buffered, Counters
  <2>2. CASE held \in persisted'
    <3>1. Lost' = Lost \cup Q
      BY <1>1, <1>2, <1>4, <1>6, <2>2
    <3>. QED BY <1>1, <1>2, <1>5, <1>7, <2>1, <3>1 DEF Accounts, LossReported, Counters, Reported
  <2>3. CASE held \notin persisted'
    <3>1. Lost' = (Lost \cup Q) \cup {held} /\ held \notin Lost \cup Q
      BY <1>1, <1>2, <1>4, <1>6, <1>9, <2>3
    <3>2. /\ IsFiniteSet((Lost \cup Q) \cup {held})
          /\ Cardinality((Lost \cup Q) \cup {held}) = Cardinality(Lost \cup Q) + 1
      BY <1>7, <3>1, FS_AddElement
    <3>3. /\ IsFiniteSet(Lost')
          /\ Cardinality(Lost') = Cardinality(Lost) + Len(queue) + 1
      BY <1>7, <3>1, <3>2
    <3>. QED BY <1>1, <1>2, <1>5, <2>1, <3>3 DEF Accounts, LossReported, Counters, Reported
  <2>. QED BY <2>2, <2>3
<1>. QED BY <1>8, <1>9

LEMMA AccountsStep == IInv /\ IInv' /\ Accounts /\ [Next]_vars => Accounts'
<1>. SUFFICES ASSUME IInv, IInv', Accounts, [Next]_vars PROVE Accounts'
  OBVIOUS
<1>1. /\ Counters /\ Counters' /\ faults <= faults
      /\ future \in [Items -> {"none", "pending", "id", "null", "cancelled"}]
  BY DEF IInv, Typed, Counters
<1>2. ASSUME NEW c \in Calls, Request(c) PROVE Accounts'
  <2>1. /\ Req(c) \in Items /\ future[Req(c)] = "none" /\ Enqueue(Req(c))
        /\ UNCHANGED <<held, persisted, stop, failed, faults>> /\ handler[c] = "idle"
    BY <1>2, ItemsOfCalls DEF Request, IInv, Buffering
  <2>2. \A d \in Calls : Req(c) = Req(d) => d = c
    BY DEF Req
  <2>. QED BY <2>1, <2>2, OfferAccounts
<1>3. ASSUME NEW c \in Calls, Upstream(c), durable PROVE Accounts'
  <2>1. /\ Resp(c) \in Items /\ future[Resp(c)] = "none" /\ Enqueue(Resp(c))
        /\ UNCHANGED <<held, persisted, stop, failed, faults>>
    BY <1>3, ItemsOfCalls DEF Upstream, IInv, Buffering
  <2>2. \A d \in Calls : Resp(c) # Req(d)
    BY DEF Req, Resp
  <2>. QED BY <2>1, <2>2, OfferAccounts
<1>4. ASSUME NEW c \in Calls,
             (Upstream(c) /\ ~durable) \/ Resume(c) \/ Finish(c) \/ CancelHandler(c)
      PROVE  Accounts'
  <2>1. UNCHANGED <<stop, queue, held, persisted, dropped, failed, faults>>
    BY <1>4 DEF Upstream, Resume, Finish, CancelHandler
  <2>2. Offered' = Offered
    BY <1>1, <1>4, ItemsOfCalls DEF Upstream, Resume, Finish, CancelHandler, Offered
  <2>3. Lost' = Lost
    BY <2>1, <2>2 DEF Lost, InBuffer
  <2>. QED BY <1>1, <2>1, <2>3, SameLoss
<1>5. CASE Take
  <2>1. /\ queue \in Seq(Items) /\ queue # << >> /\ held = Nothing
        /\ Once(queue) /\ InOrder(queue) /\ Counted(queue)
        /\ held' = Head(queue) /\ queue' = Tail(queue)
        /\ UNCHANGED <<stop, future, persisted, dropped, failed, faults>>
    BY <1>5 DEF Take, At, IInv, Typed, Placed, Buffering, InHand
  <2>2. ToSet(queue') = ToSet(queue) \ {held'} /\ held' \in ToSet(queue) /\ held' # Nothing
    BY <2>1, TakeFirst, ProxyAssumption
  <2>3. Lost' = Lost
    BY <2>1, <2>2 DEF Lost, InBuffer, Offered
  <2>. QED BY <1>1, <2>1, <2>3, SameLoss
<1>6. CASE Create \/ Accept \/ Resolve \/ Respond \/ Classify
  BY <1>6, ItemAccounts
<1>7. CASE Stop
  <2>1. Lost' = Lost
    BY <1>7 DEF Stop, Lost, InBuffer, Offered
  <2>. QED BY <1>1, <1>7, <2>1, SameLoss DEF Stop
<1>8. CASE Joined
  <2>1. held = Nothing /\ queue = << >>
    BY <1>8, Emptied DEF Joined
  <2>2. Lost' = Lost
    BY <1>8, <2>1 DEF Joined, Lost, InBuffer, Offered, ToSet
  <2>. QED BY <1>1, <1>8, <2>2, SameLoss DEF Joined
<1>9. CASE JoinTimeout
  BY <1>9, TimeoutAccounts
<1>10. CASE UNCHANGED vars
  <2>1. Lost' = Lost
    BY <1>10 DEF vars, Lost, InBuffer, Offered
  <2>. QED BY <1>1, <1>10, <2>1, SameLoss DEF vars
<1>. QED BY <1>2, <1>3, <1>4, <1>5, <1>6, <1>7, <1>8, <1>9, <1>10 DEF Next, LoopStep

\* No copy of the traffic disappears unreported, and the counters exceed the
\* loss by at most the faults and the item in hand at shutdown.
THEOREM LossesReported == Spec => []LossReported
<1>1. Init => Accounts
  <2>. SUFFICES ASSUME Init PROVE Accounts
    OBVIOUS
  <2>1. Lost = {}
    BY DEF Init, Lost, Offered
  <2>. QED BY <2>1, FS_EmptySet DEF Init, Accounts, LossReported, Reported
<1>2. Accounts => LossReported
  BY DEF Accounts
<1>. QED BY <1>1, <1>2, AccountsStep, AuditInvariant, PTL DEF Spec

-----------------------------------------------------------------------------
(* The bytes. *)

Reserved == Bounded /\ faults <= MaxFaults

LEMMA InBufferFinite ==
  ASSUME IInv
  PROVE  /\ IsFiniteSet(InBuffer) /\ InBuffer \subseteq Items
         /\ \A i \in InBuffer : Size[i] \in Nat
         /\ SumFunctionOnSet(Size, InBuffer) \in Nat
<1>1. IsFiniteSet(ToSet(queue)) /\ InBuffer \subseteq Items
  BY InBufferTyped DEF IInv, Buffering, Counted
<1>2. IsFiniteSet(ToSet(queue) \cup {held})
  BY <1>1, FS_AddElement
<1>3. IsFiniteSet(InBuffer)
  BY <1>2, FS_Subset DEF InBuffer
<1>4. \A i \in InBuffer : Size[i] \in Nat
  BY <1>1, ProxyAssumption
<1>. QED BY <1>1, <1>3, <1>4, SumNat

\* Nothing enters the buffer and nothing leaves it.
LEMMA SameReserved ==
  ASSUME Reserved, InBuffer' = InBuffer, bytes' = bytes, Buffered' = Buffered,
         faults' <= MaxFaults
  PROVE  Reserved'
BY DEF Reserved, Bounded

\* A copy is only let in where there is room for it.
LEMMA OfferReserves ==
  ASSUME IInv, Reserved, NEW i \in Items, future[i] = "none", Enqueue(i),
         UNCHANGED <<held, faults>>
  PROVE  Reserved'
<1>1. /\ queue \in Seq(Items) /\ Len(queue) \in Nat /\ bytes \in Int
      /\ i \notin InBuffer /\ Size[i] \in Nat
  BY InBufferTyped, ProxyAssumption DEF IInv, Typed
<1>2. CASE Refused(i)
  BY <1>2, SameReserved DEF Enqueue, InBuffer, Buffered, Reserved
<1>3. CASE ~Refused(i)
  <2>1. queue' = Append(queue, i) /\ bytes' = bytes + Size[i]
    BY <1>3 DEF Enqueue, Put
  <2>2. ToSet(queue') = ToSet(queue) \cup {i} /\ Len(queue') = Len(queue) + 1
    BY <1>1, <2>1 DEF ToSet
  <2>3. InBuffer' = InBuffer \cup {i}
    <3>1. i # Nothing
      BY ProxyAssumption
    <3>. QED BY <2>2, <3>1 DEF InBuffer
  <2>4. SumFunctionOnSet(Size, InBuffer \cup {i}) = Size[i] + SumFunctionOnSet(Size, InBuffer)
    BY <1>1, InBufferFinite, SumAdd
  <2>5. bytes' = SumFunctionOnSet(Size, InBuffer')
    BY <1>1, <2>1, <2>3, <2>4 DEF Reserved, Bounded
  <2>6. bytes' <= MaxBytes /\ Buffered' <= MaxEvents
    BY <1>1, <1>3, <2>1, <2>2, ProxyAssumption DEF Refused, Buffered
  <2>. QED BY <2>5, <2>6 DEF Reserved, Bounded
<1>. QED BY <1>2, <1>3

\* The item in hand takes its bytes with it.
LEMMA ReleaseReserves ==
  ASSUME IInv, Reserved, held # Nothing, Release, UNCHANGED queue, faults' <= MaxFaults
  PROVE  Reserved'
<1>1. /\ held \in Items /\ held \notin ToSet(queue) /\ Len(queue) \in Nat /\ Size[held] \in Nat
      /\ held \in InBuffer /\ held' = Nothing /\ bytes' = bytes - Size[held]
  BY ProxyAssumption DEF IInv, Typed, Buffering, InBuffer, Release
<1>2. InBuffer' = InBuffer \ {held}
  BY <1>1 DEF InBuffer
<1>3. SumFunctionOnSet(Size, InBuffer) = Size[held] + SumFunctionOnSet(Size, InBuffer \ {held})
  BY <1>1, InBufferFinite, SumRemove
<1>4. SumFunctionOnSet(Size, InBuffer \ {held}) \in Nat
  <2>1. IsFiniteSet(InBuffer \ {held}) /\ \A i \in InBuffer \ {held} : Size[i] \in Nat
    BY InBufferFinite, FS_RemoveElement
  <2>. QED BY <2>1, SumNat
<1>5. bytes' = SumFunctionOnSet(Size, InBuffer') /\ bytes' <= MaxBytes
  BY <1>1, <1>2, <1>3, <1>4, ProxyAssumption DEF Reserved, Bounded
<1>6. Buffered' <= MaxEvents
  BY <1>1, ProxyAssumption DEF Reserved, Bounded, Buffered
<1>. QED BY <1>5, <1>6 DEF Reserved, Bounded

\* Each step of the loop keeps the item and its bytes, or gives up both.
LEMMA ItemReserves ==
  ASSUME IInv, Reserved, Create \/ Accept \/ Resolve \/ Respond \/ Classify
  PROVE  Reserved'
<1>1. held # Nothing /\ UNCHANGED queue
  BY ItemStep, ProxyAssumption
<1>2. faults' = faults \/ Fault
  BY DEF Create, Accept, Resolve, Respond, Classify, Fail
<1>3. faults' <= MaxFaults
  BY <1>2, ProxyAssumption DEF Fault, Reserved, IInv, Typed
<1>4. UNCHANGED <<held, bytes>> \/ Release
  BY DEF Create, Accept, Resolve, Respond, Classify, Fail, Settle, Accepted, Resolved
<1>5. CASE UNCHANGED <<held, bytes>>
  BY <1>1, <1>3, <1>5, SameReserved DEF InBuffer, Buffered
<1>. QED BY <1>1, <1>3, <1>4, <1>5, ReleaseReserves

LEMMA ReservedStep == IInv /\ Reserved /\ [Next]_vars => Reserved'
<1>. SUFFICES ASSUME IInv, Reserved, [Next]_vars PROVE Reserved'
  OBVIOUS
<1>1. ASSUME UNCHANGED <<queue, held, bytes, faults>> PROVE Reserved'
  BY <1>1, SameReserved DEF InBuffer, Buffered, Reserved
<1>2. ASSUME NEW c \in Calls, Request(c) PROVE Reserved'
  <2>1. Req(c) \in Items /\ future[Req(c)] = "none"
    BY <1>2, ItemsOfCalls DEF Request, IInv, Buffering
  <2>. QED BY <1>2, <2>1, OfferReserves DEF Request
<1>3. ASSUME NEW c \in Calls, Upstream(c) PROVE Reserved'
  <2>1. Resp(c) \in Items /\ future[Resp(c)] = "none"
    BY <1>3, ItemsOfCalls DEF Upstream, IInv, Buffering
  <2>. QED BY <1>1, <1>3, <2>1, OfferReserves DEF Upstream
<1>4. ASSUME NEW c \in Calls, Resume(c) \/ Finish(c) \/ CancelHandler(c) PROVE Reserved'
  BY <1>1, <1>4 DEF Resume, Finish, CancelHandler
<1>5. CASE Take
  <2>1. /\ queue \in Seq(Items) /\ queue # << >> /\ held = Nothing
        /\ Once(queue) /\ InOrder(queue) /\ Counted(queue)
        /\ held' = Head(queue) /\ queue' = Tail(queue) /\ UNCHANGED <<bytes, faults>>
    BY <1>5 DEF Take, At, IInv, Typed, Placed, Buffering, InHand
  <2>2. ToSet(queue') = ToSet(queue) \ {held'} /\ held' \in ToSet(queue) /\ held' # Nothing
    BY <2>1, TakeFirst, ProxyAssumption
  <2>3. InBuffer' = InBuffer
    BY <2>1, <2>2 DEF InBuffer
  <2>4. Len(queue') = Len(queue) - 1 /\ Len(queue) \in Nat
    BY <2>1
  <2>5. Buffered' = Buffered
    BY <2>1, <2>2, <2>4 DEF Buffered
  <2>. QED BY <2>1, <2>3, <2>5, SameReserved DEF Reserved
<1>6. CASE Create \/ Accept \/ Resolve \/ Respond \/ Classify
  BY <1>6, ItemReserves
<1>7. CASE Stop \/ Joined \/ UNCHANGED vars
  BY <1>1, <1>7 DEF Stop, Joined, vars
<1>8. CASE JoinTimeout
  <2>1. UNCHANGED <<queue, faults>>
    BY <1>8 DEF JoinTimeout
  <2>2. CASE held = Nothing
    BY <1>1, <1>8, <2>1, <2>2 DEF JoinTimeout
  <2>3. CASE held # Nothing
    <3>1. Release /\ faults' <= MaxFaults
      BY <1>8, <2>1, <2>3 DEF JoinTimeout, Reserved
    <3>. QED BY <2>1, <2>3, <3>1, ReleaseReserves
  <2>. QED BY <2>2, <2>3
<1>. QED BY <1>2, <1>3, <1>4, <1>5, <1>6, <1>7, <1>8 DEF Next, LoopStep

\* The audit path is in states the code has, the bytes reserved are exactly
\* those of the copies queued and in hand, and neither limit of the buffer is
\* ever exceeded; so no release takes the counter below zero.  (Gateway.
\* _enqueue_proxy_audit, _proxy_audit_loop and stop)
THEOREM BufferExact == Spec => []TypeOK
<1>1. Init => Reserved
  <2>. SUFFICES ASSUME Init PROVE Reserved
    OBVIOUS
  <2>1. InBuffer = {} /\ Buffered = 0
    BY DEF Init, InBuffer, Buffered, ToSet
  <2>2. SumFunctionOnSet(Size, InBuffer) = 0
    BY <2>1, SumEmpty
  <2>. QED BY <2>1, <2>2, ProxyAssumption DEF Init, Reserved, Bounded
<1>2. IInv /\ Reserved => TypeOK
  <2>. SUFFICES ASSUME IInv, Reserved PROVE TypeOK
    OBVIOUS
  <2>1. bytes \in Nat
    BY InBufferFinite DEF Reserved, Bounded
  <2>2. faults \in 0..MaxFaults
    BY ProxyAssumption DEF Reserved, IInv, Typed
  <2>. QED BY <2>1, <2>2 DEF TypeOK, Reserved, IInv, Typed, Loops
<1>. QED BY <1>1, <1>2, ReservedStep, AuditInvariant, PTL DEF Spec
=============================================================================
