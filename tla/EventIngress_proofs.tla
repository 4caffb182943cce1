------------------------- MODULE EventIngress_proofs -------------------------
(***************************************************************************)
(* Proofs about EventIngress, for any keys, contents, IDs, handlers, sizes *)
(* and limits, and any number of faults and crashes.                       *)
(*                                                                         *)
(* The safety properties are not inductive: that a reservation is nobody   *)
(* else's, and that its file is or is not there yet, is known only from    *)
(* where its handler stands.  IInv says so for every handler.              *)
(***************************************************************************)
EXTENDS EventIngress, OperatorLemmas, TLAPS

Persisting == {"write", "finalize", "unlink", "unreserve"}

\* The handlers that hold the reservation of their key.
Holds(h) == pc[h] \in Persisting

\* A handler past "idle" works on its own row, in a process that is up; whether
\* the row's file is there is known from its place.
Placed(h) ==
  pc[h] # "idle" =>
    /\ mode = "up"
    /\ req[h] \in Requests
    /\ rows[req[h].key] = Row(rows[req[h].key].state, req[h].id, req[h].content)
    /\ Holds(h) => rows[req[h].key].state = "persisting"
    /\ pc[h] = "answer" => IsAccepted(req[h].key)
    /\ pc[h] \in {"write", "unreserve"} => files[req[h].id] = NoFile
    /\ pc[h] \in {"finalize", "unlink"} => files[req[h].id] = req[h].content

HandlersPlaced == \A h \in Handlers : Placed(h)

\* No reservation is held twice, though the proxy loop takes no lock.
OneHolder ==
  \A g, h \in Handlers : Holds(g) /\ Holds(h) /\ req[g].key = req[h].key => g = h

\* No two rows share an internal ID.
IdsDistinct ==
  \A j, k \in Keys : OnRecord(j) /\ OnRecord(k) /\ rows[j].id = rows[k].id => j = k

\* Only what was finished has its body deleted, and a completed row was finished.
OnlyFinished ==
  \A k \in Keys :
    /\ k \in releasing => k \in finished /\ IsAccepted(k)
    /\ rows[k].state = "completed" => k \in finished

IInv ==
  /\ StateTypes
  /\ HandlersPlaced
  /\ OneHolder
  /\ IdsDistinct
  /\ FilesOwned
  /\ PendingHasBody
  /\ AnsweredIsDurable
  /\ OnlyFinished

USE DEF deletions

-----------------------------------------------------------------------------

LEMMA InitEstablishes == Init => IInv
BY DEF Init, IInv, StateTypes, HandlersPlaced, Placed, OneHolder, Holds, Persisting, IdsDistinct,
       FilesOwned, PendingHasBody, AnsweredIsDurable, OnlyFinished, Unfinished, OnRecord, NoRow

\* What a handler past "idle" knows of its row.
LEMMA HandlerRow ==
  ASSUME IInv, NEW h \in Handlers, pc[h] # "idle"
  PROVE  /\ mode = "up"
         /\ req[h] \in Requests
         /\ req[h].key \in Keys /\ req[h].id \in Ids /\ req[h].content \in Contents
         /\ OnRecord(req[h].key)
         /\ rows[req[h].key].id = req[h].id
         /\ rows[req[h].key].content = req[h].content
<1>1. Placed(h)
  BY DEF IInv, HandlersPlaced
<1>2. pc[h] \in Persisting \cup {"answer"}
  BY DEF IInv, StateTypes, Persisting
<1>. QED BY <1>1, <1>2 DEF Placed, Requests, Row, OnRecord, Holds, IsAccepted

\* Another handler works on another row and another file than one that holds a
\* reservation.
LEMMA OthersElsewhere ==
  ASSUME IInv, NEW h \in Handlers, Holds(h), NEW g \in Handlers, g # h, pc[g] # "idle"
  PROVE  req[g].key # req[h].key /\ req[g].id # req[h].id
<1>1. pc[h] # "idle"
  BY DEF Holds, Persisting
<1>2. Placed(g) /\ Placed(h)
  BY DEF IInv, HandlersPlaced
<1>3. pc[g] \in Persisting \cup {"answer"}
  BY DEF IInv, StateTypes, Persisting
<1>4. req[g].key # req[h].key
  BY <1>1, <1>2, <1>3 DEF IInv, OneHolder, Placed, Holds, IsAccepted
<1>5. req[g].id # req[h].id
  BY <1>1, <1>4, HandlerRow DEF IInv, IdsDistinct
<1>. QED BY <1>4, <1>5

\* A handler that a step leaves where it is, with its row and its file, is still
\* placed after the step.
LEMMA OtherPlaced ==
  ASSUME IInv, NEW g \in Handlers,
         pc[g] # "idle" =>
           /\ req'[g] = req[g] /\ mode' = mode
           /\ rows'[req[g].key] = rows[req[g].key]
           /\ files'[req[g].id] = files[req[g].id],
         pc'[g] = pc[g]
  PROVE  Placed(g)'
<1>1. Placed(g)
  BY DEF IInv, HandlersPlaced
<1>. QED BY <1>1 DEF Placed, Row, Holds, IsAccepted

\* The steps of accept_standard_event.

LEMMA SubmitKeeps ==
  ASSUME IInv, NEW h \in Handlers, Submit(h)
  PROVE  IInv'
<1>1. PICK k \in Keys, c \in Contents : Reserve(h, k, c) \/ Duplicate(h, k, c) \/ Refuse(h, k, c)
  BY DEF Submit
<1>2. UNCHANGED <<files, mode>> /\ mode = "up" /\ pc[h] = "idle" /\ UNCHANGED deletions
  BY DEF Submit
<1>3. CASE Reserve(h, k, c)
  <2>1. PICK i \in Fresh :
          /\ rows' = [rows EXCEPT ![k] = Row("persisting", i, c)]
          /\ req' = [req EXCEPT ![h] = [key |-> k, content |-> c, id |-> i]]
    BY <1>3 DEF Reserve
  <2>2. pc' = [pc EXCEPT ![h] = "write"] /\ rows[k].state = "none" /\ UNCHANGED answered
    BY <1>3 DEF Reserve, Goto, OnRecord
  <2>3. i \in Ids /\ files[i] = NoFile /\ \A j \in Keys : OnRecord(j) => rows[j].id # i
    BY DEF Fresh
  <2>. USE <1>2, <2>1, <2>2, <2>3 DEF IInv
  <2>4. StateTypes'
    BY DEF StateTypes, RowsOf, Row, Requests
  <2>5. HandlersPlaced'
    <3>1. \A g \in Handlers \ {h} : Placed(g)'
      <4>1. \A j \in Keys : OnRecord(j) => rows'[j] = rows[j]
        BY DEF OnRecord, StateTypes
      <4>. QED BY <4>1, HandlerRow, OtherPlaced DEF StateTypes
    <3>2. Placed(h)'
      BY DEF Placed, StateTypes, RowsOf, Row, Requests, Holds, Persisting
    <3>. QED BY <3>1, <3>2 DEF HandlersPlaced
  <2>6. OneHolder'
    BY DEF OneHolder, HandlersPlaced, Placed, StateTypes, Requests, Holds, Persisting
  <2>7. IdsDistinct'
    BY DEF IdsDistinct, OnRecord, StateTypes, Row
  <2>8. FilesOwned'
    BY DEF FilesOwned, OnRecord, StateTypes, Row
  <2>9. PendingHasBody' /\ AnsweredIsDurable' /\ OnlyFinished'
    BY DEF PendingHasBody, AnsweredIsDurable, OnlyFinished, Unfinished, IsAccepted, StateTypes, Row
  <2>. QED BY <2>4, <2>5, <2>6, <2>7, <2>8, <2>9
<1>4. CASE Duplicate(h, k, c)
  BY <1>2, <1>4 DEF Duplicate, IInv, StateTypes, HandlersPlaced, Placed, OneHolder, Holds,
       IdsDistinct,
     FilesOwned, PendingHasBody, AnsweredIsDurable, OnlyFinished, Unfinished, IsAccepted, OnRecord
<1>5. CASE Refuse(h, k, c)
  BY <1>2, <1>5 DEF Refuse, IInv, StateTypes, HandlersPlaced, Placed, OneHolder, Holds, IdsDistinct,
     FilesOwned, PendingHasBody, AnsweredIsDurable, OnlyFinished, Unfinished, IsAccepted, OnRecord
<1>. QED BY <1>1, <1>3, <1>4, <1>5

LEMMA WriteKeeps ==
  ASSUME IInv, NEW h \in Handlers, Write(h)
  PROVE  IInv'
<1>. DEFINE i == req[h].id
            c == req[h].content
<1>1. /\ pc[h] = "write" /\ Holds(h)
      /\ UNCHANGED <<rows, req, answered, deletions, mode>>
      /\ \/ files' = [files EXCEPT ![i] = c] /\ pc' = [pc EXCEPT ![h] = "finalize"]
         \/ UNCHANGED files /\ pc' = [pc EXCEPT ![h] = "unreserve"]
  BY DEF Write, Goto, Holds, Persisting
<1>2. Placed(h) /\ files[i] = NoFile
  BY <1>1 DEF IInv, HandlersPlaced, Placed
<1>3. /\ i \in Ids /\ c \in Contents /\ req[h].key \in Keys
      /\ OnRecord(req[h].key) /\ rows[req[h].key].id = i /\ rows[req[h].key].content = c
      /\ rows[req[h].key].state = "persisting"
  BY <1>1, <1>2, HandlerRow DEF Placed
<1>4. \A g \in Handlers \ {h} : pc[g] # "idle" => req[g].id # i
  BY <1>1, OthersElsewhere
<1>5. \A k \in Keys \ {req[h].key} : OnRecord(k) => rows[k].id # i
  BY <1>3 DEF IInv, IdsDistinct
<1>. USE DEF IInv
<1>6. StateTypes'
  BY <1>1, <1>3 DEF StateTypes
<1>7. HandlersPlaced'
  <2>1. \A g \in Handlers \ {h} : Placed(g)'
    <3>1. \A j \in Ids \ {i} : files'[j] = files[j]
      BY <1>1, <1>3 DEF StateTypes
    <3>. QED BY <1>1, <1>4, <3>1, HandlerRow, OtherPlaced DEF StateTypes
  <2>2. Placed(h)'
    BY <1>1, <1>2, <1>3 DEF Placed, StateTypes, Requests, Holds, Persisting
  <2>. QED BY <2>1, <2>2 DEF HandlersPlaced
<1>8. OneHolder' /\ IdsDistinct'
  BY <1>1 DEF OneHolder, IdsDistinct, OnRecord, Holds, Persisting, StateTypes
<1>9. FilesOwned'
  BY <1>1, <1>3 DEF FilesOwned, OnRecord, StateTypes
<1>10. PendingHasBody' /\ AnsweredIsDurable' /\ OnlyFinished'
  <2>1. \A k \in Keys : IsAccepted(k) => files'[rows[k].id] = files[rows[k].id]
    BY <1>1, <1>3, <1>5 DEF IsAccepted, OnRecord, StateTypes, RowsOf, NoRow
  <2>. QED BY <1>1, <2>1 DEF PendingHasBody, AnsweredIsDurable, OnlyFinished, Unfinished,
       IsAccepted, StateTypes
<1>. QED BY <1>6, <1>7, <1>8, <1>9, <1>10

LEMMA FinalizeKeeps ==
  ASSUME IInv, NEW h \in Handlers, Finalize(h)
  PROVE  IInv'
<1>. DEFINE k == req[h].key
<1>1. /\ pc[h] = "finalize" /\ Holds(h)
      /\ UNCHANGED <<files, req, answered, deletions, mode>>
      /\ \/ rows' = [rows EXCEPT ![k].state = "pending"] /\ pc' = [pc EXCEPT ![h] = "answer"]
         \/ UNCHANGED rows /\ pc' = [pc EXCEPT ![h] = "unlink"]
  BY DEF Finalize, Goto, Holds, Persisting
<1>2. Placed(h) /\ rows[k] = Row("persisting", req[h].id, req[h].content)
      /\ files[req[h].id] = req[h].content
  BY <1>1 DEF IInv, HandlersPlaced, Placed
<1>3. k \in Keys /\ req[h].id \in Ids /\ req[h].content \in Contents /\ req[h] \in Requests
  BY <1>1, HandlerRow
<1>4. \A g \in Handlers \ {h} : pc[g] # "idle" => req[g].key # k
  BY <1>1, OthersElsewhere
<1>5. \/ rows' = [rows EXCEPT ![k] = Row("pending", req[h].id, req[h].content)]
         /\ pc' = [pc EXCEPT ![h] = "answer"]
      \/ UNCHANGED rows /\ pc' = [pc EXCEPT ![h] = "unlink"]
  <2>1. [rows[k] EXCEPT !.state = "pending"] = Row("pending", req[h].id, req[h].content)
    BY <1>2 DEF Row
  <2>. QED BY <1>1, <2>1
<1>. USE DEF IInv, Row
<1>6. StateTypes'
  BY <1>1, <1>5, <1>3 DEF StateTypes, RowsOf
<1>7. HandlersPlaced'
  <2>1. \A g \in Handlers \ {h} : Placed(g)'
    <3>1. \A j \in Keys \ {k} : rows'[j] = rows[j]
      BY <1>3, <1>5 DEF StateTypes
    <3>. QED BY <1>1, <1>4, <1>5, <3>1, HandlerRow, OtherPlaced DEF StateTypes
  <2>2. Placed(h)'
    BY <1>1, <1>5, <1>2, <1>3 DEF Placed, StateTypes, Holds, Persisting, IsAccepted
  <2>. QED BY <2>1, <2>2 DEF HandlersPlaced
<1>8. OneHolder'
  BY <1>1, <1>5 DEF OneHolder, Holds, Persisting, StateTypes
<1>9. IdsDistinct'
  BY <1>2, <1>3, <1>5 DEF IdsDistinct, OnRecord, StateTypes
<1>10. FilesOwned'
  BY <1>1, <1>2, <1>3, <1>5 DEF FilesOwned, OnRecord, StateTypes
<1>11. PendingHasBody' /\ AnsweredIsDurable' /\ OnlyFinished'
  BY <1>1, <1>2, <1>3, <1>5 DEF PendingHasBody, AnsweredIsDurable, OnlyFinished, Unfinished,
       IsAccepted, StateTypes
<1>. QED BY <1>6, <1>7, <1>8, <1>9, <1>10, <1>11

LEMMA AnswerKeeps ==
  ASSUME IInv, NEW h \in Handlers, Answer(h)
  PROVE  IInv'
<1>. DEFINE k == req[h].key
            c == req[h].content
<1>1. /\ pc[h] = "answer"
      /\ answered' = answered \cup {<<k, c>>}
      /\ pc' = [pc EXCEPT ![h] = "idle"] /\ req' = [req EXCEPT ![h] = NoReq]
      /\ UNCHANGED <<rows, files, deletions, mode>>
  BY DEF Answer, Return
<1>2. k \in Keys /\ c \in Contents /\ rows[k].content = c /\ IsAccepted(k)
  BY <1>1, HandlerRow DEF IInv, HandlersPlaced, Placed
<1>. USE <1>1 DEF IInv
<1>3. StateTypes'
  BY <1>2 DEF StateTypes
<1>4. HandlersPlaced'
  BY DEF HandlersPlaced, Placed, Holds, Persisting, StateTypes, IsAccepted
<1>5. OneHolder' /\ IdsDistinct' /\ FilesOwned'
  BY DEF OneHolder, Holds, Persisting, StateTypes, IdsDistinct, FilesOwned, OnRecord
<1>6. PendingHasBody' /\ AnsweredIsDurable' /\ OnlyFinished'
  BY <1>2 DEF PendingHasBody, AnsweredIsDurable, OnlyFinished, Unfinished, IsAccepted
<1>. QED BY <1>3, <1>4, <1>5, <1>6

\* Deleting the file of a reservation that failed takes nobody else's file.
LEMMA UnlinkKeeps ==
  ASSUME IInv, NEW h \in Handlers, Unlink(h)
  PROVE  IInv'
<1>. DEFINE i == req[h].id
            k == req[h].key
<1>1. /\ pc[h] = "unlink" /\ Holds(h)
      /\ UNCHANGED <<rows, answered, deletions, mode>>
      /\ \/ /\ files' = [files EXCEPT ![i] = NoFile]
            /\ pc' = [pc EXCEPT ![h] = "unreserve"] /\ UNCHANGED req
         \/ /\ UNCHANGED files
            /\ pc' = [pc EXCEPT ![h] = "idle"] /\ req' = [req EXCEPT ![h] = NoReq]
  BY DEF Unlink, Goto, Return, Holds, Persisting
<1>2. Placed(h) /\ mode = "up" /\ rows[k].state = "persisting" /\ rows[k].id = i
  BY <1>1, HandlerRow DEF IInv, HandlersPlaced, Placed
<1>3. i \in Ids /\ k \in Keys /\ req[h] \in Requests
  BY <1>1, HandlerRow
<1>4. \A g \in Handlers \ {h} : pc[g] # "idle" => req[g].id # i
  BY <1>1, OthersElsewhere
<1>5. \A j \in Keys \ {k} : OnRecord(j) => rows[j].id # i
  BY <1>2, <1>3 DEF IInv, IdsDistinct, OnRecord
<1>. USE DEF IInv
<1>6. StateTypes'
  BY <1>1, <1>3 DEF StateTypes
<1>7. HandlersPlaced'
  <2>1. \A g \in Handlers \ {h} : Placed(g)'
    <3>1. \A j \in Ids \ {i} : files'[j] = files[j]
      BY <1>1, <1>3 DEF StateTypes
    <3>. QED BY <1>1, <1>4, <3>1, HandlerRow, OtherPlaced DEF StateTypes
  <2>2. Placed(h)'
    BY <1>1, <1>2, <1>3 DEF Placed, StateTypes, Holds, Persisting
  <2>. QED BY <2>1, <2>2 DEF HandlersPlaced
<1>8. OneHolder' /\ IdsDistinct'
  BY <1>1 DEF OneHolder, Holds, Persisting, StateTypes, IdsDistinct, OnRecord
<1>9. FilesOwned'
  BY <1>1, <1>3 DEF FilesOwned, StateTypes, OnRecord
<1>10. PendingHasBody' /\ AnsweredIsDurable' /\ OnlyFinished'
  <2>1. \A j \in Keys : IsAccepted(j) => files'[rows[j].id] = files[rows[j].id]
    <3>1. \A j \in Keys : IsAccepted(j) => j # k /\ OnRecord(j)
      BY <1>2 DEF IsAccepted, OnRecord
    <3>2. \A j \in Keys : OnRecord(j) => rows[j].id \in Ids
      BY DEF OnRecord, StateTypes, RowsOf, NoRow
    <3>. QED BY <1>1, <1>3, <1>5, <3>1, <3>2 DEF StateTypes
  <2>. QED BY <1>1, <2>1 DEF PendingHasBody, AnsweredIsDurable, OnlyFinished, Unfinished,
       IsAccepted, StateTypes
<1>. QED BY <1>6, <1>7, <1>8, <1>9, <1>10

LEMMA UnreserveKeeps ==
  ASSUME IInv, NEW h \in Handlers, Unreserve(h)
  PROVE  IInv'
<1>. DEFINE i == req[h].id
            k == req[h].key
<1>1. /\ pc[h] = "unreserve" /\ Holds(h)
      /\ UNCHANGED <<files, answered, deletions, mode>>
      /\ rows' = [rows EXCEPT ![k] = NoRow] \/ UNCHANGED rows
      /\ pc' = [pc EXCEPT ![h] = "idle"] /\ req' = [req EXCEPT ![h] = NoReq]
  BY DEF Unreserve, Return, Holds, Persisting
<1>2. files[i] = NoFile /\ rows[k].state = "persisting" /\ rows[k].id = i
  BY <1>1, HandlerRow DEF IInv, HandlersPlaced, Placed
<1>3. k \in Keys
  BY <1>1, HandlerRow
<1>4. \A g \in Handlers \ {h} : pc[g] # "idle" => req[g].key # k
  BY <1>1, OthersElsewhere
<1>5. \A j \in Keys \ {k} : rows'[j] = rows[j]
  BY <1>1, <1>3 DEF IInv, StateTypes
<1>6. rows'[k] = NoRow \/ rows'[k] = rows[k]
  BY <1>1, <1>3 DEF IInv, StateTypes
<1>. USE DEF IInv
<1>7. StateTypes'
  BY <1>1, <1>3 DEF StateTypes
<1>8. HandlersPlaced'
  <2>1. \A g \in Handlers \ {h} : Placed(g)'
    BY <1>1, <1>4, <1>5, HandlerRow, OtherPlaced DEF StateTypes
  <2>2. Placed(h)'
    BY <1>1 DEF Placed, StateTypes
  <2>. QED BY <2>1, <2>2 DEF HandlersPlaced
<1>9. OneHolder'
  BY <1>1 DEF OneHolder, Holds, Persisting, StateTypes
<1>10. IdsDistinct'
  BY <1>5, <1>6 DEF IdsDistinct, OnRecord, NoRow
<1>11. FilesOwned'
  BY <1>1, <1>2, <1>5, <1>6 DEF FilesOwned, OnRecord
<1>12. PendingHasBody' /\ AnsweredIsDurable' /\ OnlyFinished'
  BY <1>1, <1>2, <1>3, <1>5, <1>6 DEF PendingHasBody, AnsweredIsDurable, OnlyFinished,
       Unfinished, IsAccepted, NoRow, StateTypes
<1>. QED BY <1>7, <1>8, <1>9, <1>10, <1>11, <1>12

\* The worker's steps.

\* A step that moves an accepted row between pending and completed and touches
\* no file; an event that becomes pending again is one that was finished.
LEMMA MovesKeep ==
  ASSUME IInv, NEW k \in Keys, NEW st \in {"pending", "completed"},
         IsAccepted(k),
         rows' = [rows EXCEPT ![k].state = st],
         UNCHANGED <<files, pc, req, answered, mode>>,
         k \in finished',
         st = "pending" => k \in finished,
         finished' \in SUBSET Keys, lost' \in SUBSET Keys,
         finished \subseteq finished',
         releasing' \subseteq releasing \cup (finished' \cap {k})
  PROVE  IInv'
<1>. DEFINE new == Row(st, rows[k].id, rows[k].content)
<1>1. rows[k] \in RowsOf({"pending", "completed"})
  BY DEF IInv, StateTypes, RowsOf, NoRow, IsAccepted
<1>2. rows' = [rows EXCEPT ![k] = new]
  <2>1. [rows[k] EXCEPT !.state = st] = new
    BY <1>1 DEF Row, RowsOf
  <2>. QED BY <2>1
<1>3. (\A j \in Keys \ {k} : rows'[j] = rows[j]) /\ rows'[k] = new
  BY <1>2 DEF IInv, StateTypes
<1>. USE DEF IInv
<1>4. StateTypes'
  BY <1>1, <1>2 DEF StateTypes, RowsOf, Row
<1>5. HandlersPlaced'
  <2>. SUFFICES ASSUME NEW g \in Handlers PROVE Placed(g)'
    BY DEF HandlersPlaced
  <2>1. CASE pc[g] # "idle" /\ req[g].key = k
    <3>1. Placed(g) /\ pc[g] = "answer"
      BY <2>1 DEF HandlersPlaced, Placed, StateTypes, Holds, Persisting, IsAccepted
    <3>. QED BY <1>3, <2>1, <3>1 DEF Placed, Row, Holds, Persisting, IsAccepted
  <2>2. CASE pc[g] = "idle" \/ req[g].key # k
    BY <1>3, <2>2, HandlerRow, OtherPlaced
  <2>. QED BY <2>1, <2>2
<1>6. OneHolder'
  BY DEF OneHolder, Holds
<1>7. IdsDistinct' /\ FilesOwned'
  BY <1>1, <1>3 DEF IdsDistinct, FilesOwned, OnRecord, Row, RowsOf
<1>8. PendingHasBody'
  BY <1>3 DEF PendingHasBody, Unfinished, Row
<1>9. AnsweredIsDurable'
  <2>. SUFFICES ASSUME NEW p \in answered
                PROVE  /\ IsAccepted(p[1])'
                       /\ rows'[p[1]].content = p[2]
                       /\ Unfinished(p[1])' => files'[rows'[p[1]].id] = p[2]
    BY DEF AnsweredIsDurable
  <2>1. p[1] \in Keys
    BY DEF StateTypes
  <2>. QED BY <1>3, <2>1 DEF AnsweredIsDurable, IsAccepted, Unfinished, Row
<1>10. OnlyFinished'
  BY <1>3 DEF OnlyFinished, IsAccepted, Row, StateTypes
<1>. QED BY <1>4, <1>5, <1>6, <1>7, <1>8, <1>9, <1>10

LEMMA CompleteKeeps ==
  ASSUME IInv, NEW k \in Keys, Complete(k)
  PROVE  IInv'
<1>1. IsAccepted(k) /\ rows' = [rows EXCEPT ![k].state = "completed"]
  BY DEF Complete, IsAccepted
<1>2. finished' \in SUBSET Keys /\ lost' \in SUBSET Keys /\ k \in finished'
  BY DEF Complete, IInv, StateTypes
<1>3. UNCHANGED <<files, pc, req, answered, mode>> /\ finished \subseteq finished'
  BY DEF Complete
<1>4. releasing' \subseteq releasing \cup (finished' \cap {k})
  BY DEF Complete
<1>. QED BY <1>1, <1>2, <1>3, <1>4, MovesKeep

LEMMA ReopenKeeps ==
  ASSUME IInv, NEW k \in Keys, Reopen(k)
  PROVE  IInv'
<1>1. IsAccepted(k) /\ k \in finished /\ rows' = [rows EXCEPT ![k].state = "pending"]
  BY DEF Reopen, IsAccepted, IInv, OnlyFinished
<1>2. finished' \in SUBSET Keys /\ lost' \in SUBSET Keys
  BY DEF Reopen, IInv, StateTypes
<1>3. UNCHANGED <<files, pc, req, answered, mode, deletions>>
  BY DEF Reopen
<1>. QED BY <1>1, <1>2, <1>3, MovesKeep

\* The file of a finished event is nobody's who still needs it.
LEMMA DeletedKeeps ==
  ASSUME IInv, NEW k \in Keys, Release(k), Deleted(k)
  PROVE  IInv'
<1>. DEFINE i == rows[k].id
<1>1. /\ IsAccepted(k) /\ k \in finished
      /\ files' = [files EXCEPT ![i] = NoFile]
      /\ releasing' = releasing \ {k}
      /\ UNCHANGED <<rows, pc, req, answered, mode, finished, lost>>
  <2>1. IsAccepted(k) /\ k \in finished
    BY DEF Release, MayRelease, IsAccepted, IInv, OnlyFinished
  <2>. QED BY <2>1 DEF Release, Deleted
<1>2. i \in Ids /\ OnRecord(k)
  BY <1>1 DEF IInv, StateTypes, RowsOf, NoRow, OnRecord, IsAccepted
<1>3. \A j \in Ids \ {i} : files'[j] = files[j]
  BY <1>1, <1>2 DEF IInv, StateTypes
<1>4. \A j \in Keys \ {k} : OnRecord(j) => rows[j].id # i
  BY <1>2 DEF IInv, IdsDistinct
<1>. USE DEF IInv
<1>5. StateTypes'
  BY <1>1, <1>2 DEF StateTypes
<1>6. HandlersPlaced'
  <2>. SUFFICES ASSUME NEW g \in Handlers PROVE Placed(g)'
    BY DEF HandlersPlaced
  <2>1. CASE pc[g] # "idle" /\ req[g].key = k
    <3>1. Placed(g) /\ pc[g] = "answer"
      BY <1>1, <2>1 DEF HandlersPlaced, Placed, StateTypes, Holds, Persisting, IsAccepted
    <3>. QED BY <1>1, <2>1, <3>1 DEF Placed, Row, Holds, Persisting, IsAccepted
  <2>2. CASE pc[g] = "idle" \/ req[g].key # k
    BY <1>1, <1>3, <1>4, <2>2, HandlerRow, OtherPlaced
  <2>. QED BY <2>1, <2>2
<1>7. OneHolder' /\ IdsDistinct' /\ OnlyFinished'
  BY <1>1 DEF OneHolder, Holds, IdsDistinct, OnRecord, OnlyFinished, IsAccepted
<1>8. FilesOwned'
  BY <1>1, <1>2, <1>3 DEF FilesOwned, OnRecord, StateTypes
<1>9. PendingHasBody' /\ AnsweredIsDurable'
  <2>1. \A j \in Keys : Unfinished(j) => files'[rows[j].id] = files[rows[j].id]
    BY <1>1, <1>3, <1>4 DEF StateTypes, RowsOf, NoRow, OnRecord, Unfinished
  <2>. QED BY <1>1, <2>1 DEF PendingHasBody, AnsweredIsDurable, IsAccepted, Unfinished, StateTypes
<1>. QED BY <1>5, <1>6, <1>7, <1>8, <1>9

LEMMA ReleaseKeeps ==
  ASSUME IInv, NEW k \in Keys, Release(k)
  PROVE  IInv'
<1>1. CASE Deleted(k)
  BY <1>1, DeletedKeeps
<1>2. CASE DeletionFails(k)
  <2>1. IsAccepted(k) /\ k \in finished /\ rows' = [rows EXCEPT ![k].state = "pending"]
    BY <1>2 DEF Release, MayRelease, DeletionFails, IsAccepted, IInv, OnlyFinished
  <2>2. /\ UNCHANGED <<files, pc, req, answered, mode, finished, lost>>
        /\ releasing' = releasing \ {k}
    BY <1>2 DEF Release, DeletionFails
  <2>3. finished' \in SUBSET Keys /\ lost' \in SUBSET Keys
    BY <2>2 DEF IInv, StateTypes
  <2>. QED BY <2>1, <2>2, <2>3, MovesKeep
<1>3. CASE DeletionLost(k)
  <2>1. /\ UNCHANGED <<rows, files, pc, req, answered, mode, finished>>
        /\ releasing' = releasing \ {k} /\ lost' = lost \cup {k}
    BY <1>3 DEF Release, DeletionLost
  <2>. QED BY <2>1 DEF IInv, StateTypes, HandlersPlaced, Placed, OneHolder, Holds, IdsDistinct,
       FilesOwned, PendingHasBody, AnsweredIsDurable, OnlyFinished, Unfinished,
       IsAccepted, OnRecord
<1>. QED BY <1>1, <1>2, <1>3 DEF Release

\* Crashes and startup.

LEMMA CrashKeeps ==
  ASSUME IInv, Crash
  PROVE  IInv'
<1>1. /\ pc' = [h \in Handlers |-> "idle"] /\ req' = [h \in Handlers |-> NoReq]
      /\ releasing' = {} /\ lost' = {} /\ mode' = "down"
      /\ UNCHANGED <<rows, files, answered, finished>>
  BY DEF Crash
<1>. QED BY <1>1 DEF IInv, StateTypes, HandlersPlaced, Placed, OneHolder, Holds, Persisting,
     IdsDistinct,
            FilesOwned, PendingHasBody, AnsweredIsDurable, OnlyFinished, Unfinished, IsAccepted,
            OnRecord

\* While the process is not up no handler runs, so the mode may change.
LEMMA ModeKeeps ==
  ASSUME IInv, mode # "up", mode' \in {"up", "recovering"},
         UNCHANGED <<rows, files, pc, req, answered, deletions>>
  PROVE  IInv'
<1>1. \A h \in Handlers : pc[h] = "idle"
  BY HandlerRow
<1>. QED BY <1>1 DEF IInv, StateTypes, HandlersPlaced, Placed, OneHolder, Holds, IdsDistinct,
            FilesOwned, PendingHasBody, AnsweredIsDurable, OnlyFinished, Unfinished, IsAccepted,
            OnRecord

LEMMA RecoverRowKeeps ==
  ASSUME IInv, NEW k \in Keys, RecoverRow(k)
  PROVE  IInv'
<1>. DEFINE i == rows[k].id
            new == IF files[i] # NoFile THEN Row("pending", i, rows[k].content) ELSE NoRow
<1>1. /\ mode = "recovering" /\ rows[k].state = "persisting"
      /\ rows' = [rows EXCEPT ![k] = new]
      /\ UNCHANGED <<files, pc, req, answered, deletions, mode>>
  BY DEF RecoverRow
<1>2. \A h \in Handlers : pc[h] = "idle"
  BY <1>1, HandlerRow
<1>3. i \in Ids /\ rows[k].content \in Contents /\ OnRecord(k)
  BY <1>1 DEF IInv, StateTypes, RowsOf, NoRow, OnRecord
<1>4. (\A j \in Keys \ {k} : rows'[j] = rows[j]) /\ rows'[k] = new
  BY <1>1 DEF IInv, StateTypes
<1>. USE DEF IInv
<1>5. files[i] # NoFile => files[i] = rows[k].content
  BY <1>3 DEF FilesOwned, IdsDistinct
<1>6. StateTypes'
  BY <1>1, <1>3 DEF StateTypes, RowsOf, Row
<1>7. HandlersPlaced' /\ OneHolder'
  BY <1>1, <1>2 DEF HandlersPlaced, Placed, OneHolder, Holds, Persisting
<1>8. IdsDistinct' /\ FilesOwned'
  BY <1>1, <1>3, <1>4 DEF IdsDistinct, FilesOwned, OnRecord, Row, NoRow
<1>9. PendingHasBody' /\ AnsweredIsDurable' /\ OnlyFinished'
  BY <1>1, <1>4, <1>5 DEF PendingHasBody, AnsweredIsDurable, OnlyFinished, Unfinished,
       IsAccepted, StateTypes, Row, NoRow
<1>. QED BY <1>6, <1>7, <1>8, <1>9

-----------------------------------------------------------------------------

LEMMA StepKeeps == IInv /\ [Next]_vars => IInv'
<1>. SUFFICES ASSUME IInv, [Next]_vars PROVE IInv'
  OBVIOUS
<1>1. ASSUME NEW h \in Handlers, Submit(h) \/ Handle(h) PROVE IInv'
  BY <1>1, SubmitKeeps, WriteKeeps, FinalizeKeeps, AnswerKeeps, UnlinkKeeps, UnreserveKeeps DEF
       Handle
<1>2. ASSUME NEW k \in Keys, Complete(k) \/ Release(k) \/ Reopen(k) \/ RecoverRow(k) PROVE IInv'
  BY <1>2, CompleteKeeps, ReleaseKeeps, ReopenKeeps, RecoverRowKeeps
<1>3. CASE Crash
  BY <1>3, CrashKeeps
<1>4. CASE Restart \/ Ready
  BY <1>4, ModeKeeps DEF Restart, Ready
<1>5. CASE UNCHANGED vars
  BY <1>5 DEF vars, IInv, StateTypes, HandlersPlaced, Placed, OneHolder, Holds, IdsDistinct,
     FilesOwned, PendingHasBody, AnsweredIsDurable, OnlyFinished, Unfinished, IsAccepted, OnRecord
<1>. QED BY <1>1, <1>2, <1>3, <1>4, <1>5 DEF Next

LEMMA Invariance == Spec => []IInv
<1>. QED BY InitEstablishes, StepKeeps, PTL DEF Spec

\* What a 202 promises is kept: the event stays on record with its content, and
\* its body on disk until the analysis has once finished.  Nothing waits for its
\* analysis without its body, and no file is left that no row knows.  (accept_standard_event,
\* EventWorker.recover)
THEOREM Durable == Spec => [](AnsweredIsDurable /\ PendingHasBody /\ FilesOwned)
<1>1. IInv => AnsweredIsDurable /\ PendingHasBody /\ FilesOwned
  BY DEF IInv
<1>. QED BY <1>1, Invariance, PTL

\* The events table and the disk agree through faults, their undoing, crashes and
\* restarts.  (accept_standard_event, DiskBuffer, EventWorker.recover)
THEOREM TableMatchesDisk == Spec => []RowsMatchFiles
<1>1. IInv => RowsMatchFiles
  BY DEF IInv, RowsMatchFiles
<1>. QED BY <1>1, Invariance, PTL

-----------------------------------------------------------------------------
(* The refinement: InboxView of every step is a step of ReliableInbox. *)

\* A step that changes no row's place and gives no 202 is invisible.
LEMMA Invisible ==
  ASSUME UNCHANGED answered, \A k \in Keys : PlaceOf(rows'[k]) = PlaceOf(rows[k])
  PROVE  UNCHANGED Inbox!vars
BY DEF Inbox!vars, InboxView

\* A step that changes one row changes one place of the inbox.
LEMMA OnePlace ==
  ASSUME NEW k \in Keys, NEW r,
         rows \in [Keys -> {NoRow} \cup RowsOf({"persisting", "pending", "completed"})],
         rows' = [rows EXCEPT ![k] = r]
  PROVE  InboxView' = [InboxView EXCEPT ![k] = PlaceOf(r)]
BY DEF InboxView

LEMMA InitImplements == Init => Inbox!Init
BY DEF Init, Inbox!Init, InboxView, PlaceOf, NoRow, Inbox!Nothing

LEMMA SubmitImplements ==
  ASSUME IInv, NEW h \in Handlers, Submit(h)
  PROVE  [Inbox!Next]_Inbox!vars
<1>1. PICK k \in Keys, c \in Contents : Reserve(h, k, c) \/ Duplicate(h, k, c) \/ Refuse(h, k, c)
  BY DEF Submit
<1>2. CASE Reserve(h, k, c)
  <2>1. PICK i \in Fresh : rows' = [rows EXCEPT ![k] = Row("persisting", i, c)]
    BY <1>2 DEF Reserve
  <2>2. UNCHANGED answered /\ rows[k].state = "none"
    BY <1>2 DEF Reserve, OnRecord
  <2>. QED BY <2>1, <2>2, Invisible DEF PlaceOf, Row, IInv, StateTypes
<1>3. CASE Duplicate(h, k, c)
  <2>1. answered' = answered \cup {<<k, c>>} /\ UNCHANGED rows /\ rows[k].content = c
    BY <1>3 DEF Duplicate
  <2>2. InboxView[k] \in {Inbox!Accepted(c), Inbox!Finished(c)}
    BY <1>3 DEF Duplicate, IsAccepted, InboxView, PlaceOf, Inbox!Accepted, Inbox!Finished
  <2>3. UNCHANGED InboxView
    BY <2>1 DEF InboxView
  <2>. QED BY <2>1, <2>2, <2>3 DEF Inbox!Next, Inbox!Answer
<1>4. CASE Refuse(h, k, c)
  BY <1>4, Invisible DEF Refuse
<1>. QED BY <1>1, <1>2, <1>3, <1>4

LEMMA FinalizeImplements ==
  ASSUME IInv, NEW h \in Handlers, Finalize(h)
  PROVE  [Inbox!Next]_Inbox!vars
<1>. DEFINE k == req[h].key
            c == req[h].content
<1>1. /\ pc[h] = "finalize" /\ UNCHANGED answered
      /\ rows' = [rows EXCEPT ![k].state = "pending"] \/ UNCHANGED rows
  BY DEF Finalize
<1>2. k \in Keys /\ c \in Contents /\ rows[k] = Row("persisting", req[h].id, c)
  BY <1>1, HandlerRow DEF IInv, HandlersPlaced, Placed, Holds, Persisting
<1>3. CASE rows' = [rows EXCEPT ![k].state = "pending"]
  <2>1. [rows[k] EXCEPT !.state = "pending"] = Row("pending", req[h].id, c)
    BY <1>2 DEF Row
  <2>2. rows' = [rows EXCEPT ![k] = Row("pending", req[h].id, c)]
    BY <1>3, <2>1
  <2>3. InboxView' = [InboxView EXCEPT ![k] = Inbox!Accepted(c)]
    BY <1>2, <2>2, OnePlace DEF IInv, StateTypes, PlaceOf, Row, Inbox!Accepted
  <2>4. InboxView[k] = Inbox!Nothing
    BY <1>2 DEF InboxView, PlaceOf, Row, Inbox!Nothing
  <2>. QED BY <1>1, <1>2, <2>3, <2>4 DEF Inbox!Next, Inbox!Accept
<1>4. CASE UNCHANGED rows
  BY <1>1, <1>4, Invisible
<1>. QED BY <1>1, <1>3, <1>4

LEMMA AnswerImplements ==
  ASSUME IInv, NEW h \in Handlers, Answer(h)
  PROVE  [Inbox!Next]_Inbox!vars
<1>. DEFINE k == req[h].key
            c == req[h].content
<1>1. pc[h] = "answer" /\ answered' = answered \cup {<<k, c>>} /\ UNCHANGED rows
  BY DEF Answer
<1>2. k \in Keys /\ c \in Contents /\ IsAccepted(k) /\ rows[k].content = c
  BY <1>1, HandlerRow DEF IInv, HandlersPlaced, Placed
<1>3. InboxView[k] \in {Inbox!Accepted(c), Inbox!Finished(c)}
  BY <1>2 DEF IsAccepted, InboxView, PlaceOf, Inbox!Accepted, Inbox!Finished
<1>4. UNCHANGED InboxView
  BY <1>1 DEF InboxView
<1>. QED BY <1>1, <1>2, <1>3, <1>4 DEF Inbox!Next, Inbox!Answer

LEMMA UnreserveImplements ==
  ASSUME IInv, NEW h \in Handlers, Unreserve(h)
  PROVE  [Inbox!Next]_Inbox!vars
<1>. DEFINE k == req[h].key
<1>1. /\ pc[h] = "unreserve" /\ UNCHANGED answered
      /\ rows' = [rows EXCEPT ![k] = NoRow] \/ UNCHANGED rows
  BY DEF Unreserve
<1>2. k \in Keys /\ rows[k].state = "persisting"
  BY <1>1, HandlerRow DEF IInv, HandlersPlaced, Placed, Holds, Persisting
<1>. QED BY <1>1, <1>2, Invisible DEF PlaceOf, NoRow, IInv, StateTypes

\* A row that goes from pending to completed or back takes its event along.
LEMMA MoveView ==
  ASSUME IInv, NEW k \in Keys, NEW st \in {"pending", "completed"}, IsAccepted(k),
         rows' = [rows EXCEPT ![k].state = st]
  PROVE  /\ rows[k].content \in Contents
         /\ InboxView' = [InboxView EXCEPT ![k] =
              IF st = "pending" THEN Inbox!Accepted(rows[k].content)
              ELSE Inbox!Finished(rows[k].content)]
<1>. DEFINE new == Row(st, rows[k].id, rows[k].content)
<1>1. rows[k] \in RowsOf({"pending", "completed"})
  BY DEF IInv, StateTypes, RowsOf, NoRow, IsAccepted
<1>2. [rows[k] EXCEPT !.state = st] = new
  BY <1>1 DEF Row, RowsOf
<1>3. rows' = [rows EXCEPT ![k] = new]
  BY <1>2
<1>4. InboxView' = [InboxView EXCEPT ![k] = PlaceOf(new)]
  BY <1>3, OnePlace DEF IInv, StateTypes
<1>. QED BY <1>1, <1>4 DEF PlaceOf, Row, RowsOf, Inbox!Accepted, Inbox!Finished

LEMMA CompleteImplements ==
  ASSUME IInv, NEW k \in Keys, Complete(k)
  PROVE  [Inbox!Next]_Inbox!vars
<1>. DEFINE c == rows[k].content
<1>1. /\ rows[k].state = "pending" /\ UNCHANGED answered
      /\ rows' = [rows EXCEPT ![k].state = "completed"]
  BY DEF Complete
<1>2. c \in Contents /\ InboxView' = [InboxView EXCEPT ![k] = Inbox!Finished(c)]
  BY <1>1, MoveView DEF IsAccepted
<1>3. InboxView[k] = Inbox!Accepted(c)
  BY <1>1 DEF InboxView, PlaceOf, Inbox!Accepted
<1>. QED BY <1>1, <1>2, <1>3 DEF Inbox!Next, Inbox!Finish

\* A failure after the end reopens the event in the inbox.
LEMMA BackImplements ==
  ASSUME IInv, NEW k \in Keys, IsAccepted(k), UNCHANGED answered,
         rows' = [rows EXCEPT ![k].state = "pending"]
  PROVE  [Inbox!Next]_Inbox!vars
<1>. DEFINE c == rows[k].content
<1>1. c \in Contents /\ InboxView' = [InboxView EXCEPT ![k] = Inbox!Accepted(c)]
  BY MoveView
<1>2. CASE rows[k].state = "completed"
  <2>1. InboxView[k] = Inbox!Finished(c)
    BY <1>2 DEF InboxView, PlaceOf, Inbox!Finished
  <2>. QED BY <1>1, <2>1 DEF Inbox!Next, Inbox!Reopen
<1>3. CASE rows[k].state = "pending"
  <2>1. InboxView[k] = Inbox!Accepted(c)
    BY <1>3 DEF InboxView, PlaceOf, Inbox!Accepted
  <2>. QED BY <1>1, <2>1 DEF InboxView, Inbox!vars
<1>. QED BY <1>2, <1>3 DEF IsAccepted

LEMMA ReleaseImplements ==
  ASSUME IInv, NEW k \in Keys, Release(k)
  PROVE  [Inbox!Next]_Inbox!vars
<1>1. UNCHANGED answered
  BY DEF Release
<1>2. CASE Deleted(k) \/ DeletionLost(k)
  BY <1>1, <1>2, Invisible DEF Deleted, DeletionLost
<1>3. CASE DeletionFails(k)
  <2>1. IsAccepted(k) /\ rows' = [rows EXCEPT ![k].state = "pending"]
    BY <1>3 DEF Release, MayRelease, DeletionFails, IInv, OnlyFinished
  <2>. QED BY <1>1, <2>1, BackImplements
<1>. QED BY <1>2, <1>3 DEF Release

LEMMA ReopenImplements ==
  ASSUME IInv, NEW k \in Keys, Reopen(k)
  PROVE  [Inbox!Next]_Inbox!vars
BY BackImplements DEF Reopen, IsAccepted

LEMMA RecoverRowImplements ==
  ASSUME IInv, NEW k \in Keys, RecoverRow(k)
  PROVE  [Inbox!Next]_Inbox!vars
<1>. DEFINE c == rows[k].content
            i == rows[k].id
<1>1. rows[k].state = "persisting" /\ UNCHANGED answered
  BY DEF RecoverRow
<1>2. c \in Contents
  BY <1>1 DEF IInv, StateTypes, RowsOf, NoRow
<1>3. CASE files[i] # NoFile
  <2>1. rows' = [rows EXCEPT ![k] = Row("pending", i, c)]
    BY <1>3 DEF RecoverRow
  <2>2. InboxView' = [InboxView EXCEPT ![k] = Inbox!Accepted(c)]
    BY <2>1, OnePlace DEF IInv, StateTypes, PlaceOf, Row, Inbox!Accepted
  <2>3. InboxView[k] = Inbox!Nothing
    BY <1>1 DEF InboxView, PlaceOf, Inbox!Nothing
  <2>. QED BY <1>1, <1>2, <2>2, <2>3 DEF Inbox!Next, Inbox!Accept
<1>4. CASE files[i] = NoFile
  <2>1. rows' = [rows EXCEPT ![k] = NoRow]
    BY <1>4 DEF RecoverRow
  <2>. QED BY <1>1, <2>1, Invisible DEF PlaceOf, NoRow, IInv, StateTypes
<1>. QED BY <1>3, <1>4

LEMMA StepImplements == IInv /\ [Next]_vars => [Inbox!Next]_Inbox!vars
<1>. SUFFICES ASSUME IInv, [Next]_vars PROVE [Inbox!Next]_Inbox!vars
  OBVIOUS
<1>1. ASSUME NEW h \in Handlers, Submit(h) \/ Handle(h) PROVE [Inbox!Next]_Inbox!vars
  <2>1. CASE Write(h) \/ Unlink(h)
    BY <2>1, Invisible DEF Write, Unlink
  <2>. QED BY <1>1, <2>1, SubmitImplements, FinalizeImplements, AnswerImplements,
       UnreserveImplements DEF Handle
<1>2. ASSUME NEW k \in Keys, Complete(k) \/ Release(k) \/ Reopen(k) \/ RecoverRow(k)
      PROVE  [Inbox!Next]_Inbox!vars
  BY <1>2, CompleteImplements, ReleaseImplements, ReopenImplements, RecoverRowImplements
<1>3. CASE Crash \/ Restart \/ Ready \/ UNCHANGED vars
  BY <1>3, Invisible DEF Crash, Restart, Ready, vars
<1>. QED BY <1>1, <1>2, <1>3 DEF Next

\* Reserving, writing, undoing, crashing and recovering implement the promise of
\* ReliableInbox: an event is accepted once, with one content, is answered 202
\* only while or after it is accepted with that content, is finished only after
\* it, and a failure that takes a finished event up again, a failed deletion of
\* its body among them, leaves it accepted with the same content.
\* (accept_standard_event, EventWorker.recover, _handle_failure)
THEOREM Implements == Spec => ImplementsInbox
<1>1. Init => Inbox!Init
  BY InitImplements
<1>2. IInv /\ [Next]_vars => [Inbox!Next]_Inbox!vars
  BY StepImplements
<1>. QED BY <1>1, <1>2, Invariance, PTL DEF Spec, ImplementsInbox, Inbox!Spec

-----------------------------------------------------------------------------
(* The counter of the buffer. *)

Bytes(b) == IF b = NoFile THEN 0 ELSE Size[b]

FileBytes == [i \in Ids |-> Bytes(files[i])]

\* The counter is exact while the process lives, and the faults and crashes stay
\* within their bounds.
CountedInv ==
  /\ IInv
  /\ BufferAccounted
  /\ mode = "down" => used = 0
  /\ faults \in 0..MaxFaults /\ crashes \in 0..MaxCrashes

LEMMA BytesNat ==
  ASSUME NEW b \in {NoFile} \cup Contents
  PROVE  Bytes(b) \in Nat
BY IngressAssumption DEF Bytes

LEMMA UsedIsSum ==
  /\ UsedBytes = SumFunctionOnSet(FileBytes, Ids)
  /\ UsedBytes' = SumFunctionOnSet(FileBytes', Ids)
BY DEF UsedBytes, SumFunction, FileBytes, Bytes

LEMMA UsedNat == StateTypes => UsedBytes \in Nat
<1>. SUFFICES ASSUME StateTypes PROVE UsedBytes \in Nat
  OBVIOUS
<1>1. \A i \in Ids : FileBytes[i] \in Nat
  BY BytesNat DEF FileBytes, StateTypes
<1>. QED BY <1>1, UsedIsSum, SumNat, IngressAssumption

\* What writing or deleting one file does to the sum.
LEMMA UsedAfter ==
  ASSUME StateTypes, NEW i \in Ids, NEW b \in {NoFile} \cup Contents,
         files' = [files EXCEPT ![i] = b]
  PROVE  /\ UsedBytes \in Nat /\ UsedBytes' \in Nat
         /\ UsedBytes' + Bytes(files[i]) = UsedBytes + Bytes(b)
<1>1. \A j \in Ids : files[j] \in {NoFile} \cup Contents /\ files'[j] \in {NoFile} \cup Contents
  BY DEF StateTypes
<1>2. \A j \in Ids : FileBytes[j] \in Nat /\ FileBytes'[j] \in Nat
  BY <1>1, BytesNat DEF FileBytes
<1>3. \A j \in Ids \ {i} : FileBytes'[j] = FileBytes[j]
  BY DEF FileBytes, StateTypes
<1>4. FileBytes[i] = Bytes(files[i]) /\ FileBytes'[i] = Bytes(b)
  BY DEF FileBytes, StateTypes
<1>5. SumFunctionOnSet(FileBytes', Ids) + FileBytes[i]
        = SumFunctionOnSet(FileBytes, Ids) + FileBytes'[i]
  BY <1>2, <1>3, SumUpdate, IngressAssumption
<1>6. SumFunctionOnSet(FileBytes, Ids) \in Nat /\ SumFunctionOnSet(FileBytes', Ids) \in Nat
  BY <1>2, SumNat, IngressAssumption
<1>. QED BY <1>4, <1>5, <1>6, UsedIsSum

LEMMA CountedInit == Init => CountedInv
<1>. SUFFICES ASSUME Init PROVE CountedInv
  OBVIOUS
<1>1. IInv
  BY InitEstablishes
<1>2. \A i \in Ids : FileBytes[i] = 0
  BY DEF FileBytes, Bytes, Init
<1>. DEFINE zero == [i \in Ids |-> 0]
<1>3. FileBytes = zero
  BY DEF FileBytes, Bytes, Init
<1>4. UsedBytes = 0
  BY <1>3, UsedIsSum, SumZero, IngressAssumption
<1>. QED BY <1>1, <1>4, IngressAssumption DEF CountedInv, BufferAccounted, Init

\* The steps that touch a file.

LEMMA WriteCounted ==
  ASSUME CountedInv, NEW h \in Handlers, Write(h)
  PROVE  BufferAccounted' /\ faults' \in 0..MaxFaults /\ mode' = "up"
<1>. DEFINE c == req[h].content
            i == req[h].id
<1>1. StateTypes /\ mode = "up" /\ UNCHANGED mode /\ pc[h] = "write" /\ BufferAccounted
  BY DEF CountedInv, IInv, Write
<1>2. i \in Ids /\ c \in Contents /\ files[i] = NoFile
  BY <1>1, HandlerRow DEF CountedInv, IInv, HandlersPlaced, Placed
<1>3. UsedBytes \in Nat /\ used = UsedBytes /\ Size[c] \in Nat
  BY <1>1, <1>2, UsedNat, IngressAssumption DEF BufferAccounted
<1>4. CASE Fits(c) /\ files' = [files EXCEPT ![i] = c] /\ used' = used + Size[c] /\ NoFault
  <2>1. UsedBytes' = UsedBytes + Size[c]
    <3>1. UsedBytes' \in Nat /\ UsedBytes' + Bytes(NoFile) = UsedBytes + Bytes(c)
      BY <1>1, <1>2, <1>4, UsedAfter
    <3>. QED BY <1>2, <1>3, <3>1, IngressAssumption DEF Bytes
  <2>2. UsedBytes' <= MaxBufferBytes
    BY <1>3, <1>4, <2>1 DEF Fits
  <2>. QED BY <1>1, <1>3, <1>4, <2>1, <2>2 DEF BufferAccounted, NoFault, CountedInv
<1>5. CASE UNCHANGED <<files, used>> /\ (NoFault \/ Fault)
  <2>1. UNCHANGED UsedBytes
    BY <1>5 DEF UsedBytes
  <2>. QED BY <1>1, <1>5, <2>1, IngressAssumption DEF BufferAccounted, NoFault, Fault, CountedInv
<1>. QED BY <1>4, <1>5 DEF Write

LEMMA UnlinkCounted ==
  ASSUME CountedInv, NEW h \in Handlers, Unlink(h)
  PROVE  BufferAccounted' /\ faults' \in 0..MaxFaults /\ mode' = "up"
<1>. DEFINE c == req[h].content
            i == req[h].id
<1>1. StateTypes /\ mode = "up" /\ UNCHANGED mode /\ pc[h] = "unlink" /\ BufferAccounted
  BY DEF CountedInv, IInv, Unlink
<1>2. i \in Ids /\ c \in Contents /\ files[i] = c /\ c # NoFile
  BY <1>1, HandlerRow, IngressAssumption DEF CountedInv, IInv, HandlersPlaced, Placed
<1>3. UsedBytes \in Nat /\ used = UsedBytes /\ Size[c] \in Nat
  BY <1>1, <1>2, UsedNat, IngressAssumption DEF BufferAccounted
<1>4. CASE files' = [files EXCEPT ![i] = NoFile] /\ used' = used - Size[c] /\ NoFault
  <2>1. UsedBytes' + Size[c] = UsedBytes /\ UsedBytes' \in Nat
    <3>1. UsedBytes' \in Nat /\ UsedBytes' + Bytes(c) = UsedBytes + Bytes(NoFile)
      BY <1>1, <1>2, <1>4, UsedAfter
    <3>. QED BY <1>2, <1>3, <3>1 DEF Bytes
  <2>2. UsedBytes' = used' /\ UsedBytes' <= MaxBufferBytes
    BY <1>1, <1>3, <1>4, <2>1, IngressAssumption DEF BufferAccounted
  <2>. QED BY <1>1, <1>4, <2>2 DEF BufferAccounted, NoFault, CountedInv
<1>5. CASE UNCHANGED <<files, used>> /\ Fault
  <2>1. UNCHANGED UsedBytes
    BY <1>5 DEF UsedBytes
  <2>. QED BY <1>1, <1>5, <2>1, IngressAssumption DEF BufferAccounted, Fault, CountedInv
<1>. QED BY <1>4, <1>5 DEF Unlink

LEMMA DeletedCounted ==
  ASSUME CountedInv, NEW k \in Keys, Release(k), Deleted(k)
  PROVE  BufferAccounted' /\ mode' # "down"
<1>. DEFINE c == rows[k].content
            i == rows[k].id
<1>1. /\ StateTypes /\ BufferAccounted
      /\ mode # "down" /\ UNCHANGED mode /\ IsAccepted(k)
  BY DEF CountedInv, IInv, Release, MayRelease, OnlyFinished, IsAccepted
<1>2. i \in Ids /\ c \in Contents /\ files[i] # NoFile
  BY <1>1 DEF StateTypes, RowsOf, NoRow, Release, IsAccepted
<1>3. files[i] = c
  BY <1>1, <1>2 DEF CountedInv, IInv, FilesOwned, IdsDistinct, OnRecord, IsAccepted
<1>4. UsedBytes \in Nat /\ used = UsedBytes /\ Size[c] \in Nat
  BY <1>1, <1>2, UsedNat, IngressAssumption DEF BufferAccounted
<1>5. files' = [files EXCEPT ![i] = NoFile] /\ used' = used - Size[c]
  BY DEF Deleted
<1>6. UsedBytes' + Size[c] = UsedBytes /\ UsedBytes' \in Nat
  <2>1. UsedBytes' \in Nat /\ UsedBytes' + Bytes(c) = UsedBytes + Bytes(NoFile)
    BY <1>1, <1>2, <1>3, <1>5, UsedAfter
  <2>. QED BY <1>2, <1>3, <1>4, <2>1 DEF Bytes
<1>. QED BY <1>1, <1>4, <1>5, <1>6, IngressAssumption DEF BufferAccounted

LEMMA CountedStep == CountedInv /\ [Next]_vars => CountedInv'
<1>. SUFFICES ASSUME CountedInv, [Next]_vars PROVE CountedInv'
  OBVIOUS
<1>1. IInv'
  BY StepKeeps DEF CountedInv
<1>2. ASSUME UNCHANGED <<files, used, mode>>
      PROVE  BufferAccounted'
  BY <1>2 DEF CountedInv, BufferAccounted, UsedBytes
<1>3. ASSUME NEW h \in Handlers, Submit(h) \/ Handle(h) PROVE CountedInv'
  <2>1. crashes' = crashes
    BY <1>3 DEF Submit, Handle, Write, Finalize, Answer, Unlink, Unreserve
  <2>2. CASE Write(h) \/ Unlink(h)
    BY <1>1, <2>1, <2>2, WriteCounted, UnlinkCounted DEF CountedInv
  <2>3. CASE Submit(h) \/ Finalize(h) \/ Answer(h) \/ Unreserve(h)
    <3>1. UNCHANGED <<files, used, mode>> /\ (NoFault \/ Fault)
      BY <2>3 DEF Submit, Finalize, Answer, Unreserve, NoFault
    <3>2. faults' \in 0..MaxFaults
      BY <3>1, IngressAssumption DEF NoFault, Fault, CountedInv
    <3>. QED BY <1>1, <1>2, <2>1, <3>1, <3>2 DEF CountedInv
  <2>. QED BY <1>3, <2>2, <2>3 DEF Handle
<1>4. ASSUME NEW k \in Keys, Complete(k) \/ Release(k) \/ Reopen(k) \/ RecoverRow(k)
      PROVE  CountedInv'
  <2>1. crashes' = crashes /\ faults' \in {faults, faults + 1, faults + 2} /\ faults' <= MaxFaults
    BY <1>4, IngressAssumption DEF Complete, Release, Deleted, DeletionFails, DeletionLost, Reopen,
       RecoverRow, NoFault, Fault, CountedInv
  <2>2. faults' \in 0..MaxFaults
    BY <2>1, IngressAssumption DEF CountedInv
  <2>3. CASE Release(k) /\ Deleted(k)
    BY <1>1, <2>1, <2>2, <2>3, DeletedCounted DEF CountedInv
  <2>4. CASE UNCHANGED <<files, used, mode>>
    BY <1>1, <1>2, <2>1, <2>2, <2>4 DEF CountedInv
  <2>. QED BY <1>4, <2>3, <2>4 DEF Complete, Release, DeletionFails, DeletionLost, Reopen,
       RecoverRow
<1>5. CASE Crash
  <2>1. mode' = "down" /\ used' = 0 /\ UNCHANGED <<files, faults>> /\ crashes' \in 0..MaxCrashes
    BY <1>5, IngressAssumption DEF Crash, CountedInv
  <2>2. UNCHANGED UsedBytes
    BY <2>1 DEF UsedBytes
  <2>. QED BY <1>1, <2>1, <2>2 DEF CountedInv, BufferAccounted
<1>6. CASE Restart
  <2>1. /\ UNCHANGED UsedBytes /\ used' = UsedBytes
        /\ mode' = "recovering" /\ UNCHANGED <<faults, crashes>>
    BY <1>6 DEF Restart, UsedBytes
  <2>. QED BY <1>1, <2>1 DEF CountedInv, BufferAccounted
<1>7. CASE Ready
  <2>1. UNCHANGED <<files, used, faults, crashes>> /\ mode = "recovering" /\ mode' = "up"
    BY <1>7 DEF Ready
  <2>2. UNCHANGED UsedBytes
    BY <2>1 DEF UsedBytes
  <2>. QED BY <1>1, <2>1, <2>2 DEF CountedInv, BufferAccounted
<1>8. CASE UNCHANGED vars
  <2>1. UNCHANGED <<files, used, mode, faults, crashes>>
    BY <1>8 DEF vars
  <2>. QED BY <1>1, <1>2, <2>1 DEF CountedInv
<1>. QED BY <1>3, <1>4, <1>5, <1>6, <1>7, <1>8 DEF Next

LEMMA Counted == Spec => []CountedInv
<1>1. Init => CountedInv
  BY CountedInit
<1>2. CountedInv /\ [Next]_vars => CountedInv'
  BY CountedStep
<1>. QED BY <1>1, <1>2, PTL DEF Spec

\* Every variable has its type, the byte counter of the disk buffer among them:
\* no subtraction of DiskBuffer.delete takes it below zero.
THEOREM TypeCorrect == Spec => []TypeOK
<1>1. CountedInv => TypeOK
  <2>. SUFFICES ASSUME CountedInv PROVE TypeOK
    OBVIOUS
  <2>1. StateTypes /\ UsedBytes \in Nat
    BY UsedNat DEF CountedInv, IInv
  <2>2. used \in Nat
    BY <2>1 DEF CountedInv, BufferAccounted
  <2>. QED BY <2>1, <2>2 DEF CountedInv, TypeOK
<1>. QED BY <1>1, Counted, PTL

\* The counter on which backpressure is decided is the bytes of the files on
\* disk, through overlapping writers, failed writes, deletions, crashes and
\* restarts, and the files never outgrow the configured maximum.
THEOREM CounterExact == Spec => []BufferAccounted
<1>1. CountedInv => BufferAccounted
  BY DEF CountedInv
<1>. QED BY <1>1, Counted, PTL
=============================================================================
