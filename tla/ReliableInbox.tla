----------------------------- MODULE ReliableInbox -----------------------------
(***************************************************************************)
(* What the standard event ingress promises its sources (docs/event-       *)
(* ingress.md, section "202"): an event that was accepted stays on record  *)
(* with the content it was accepted with, only an accepted event is        *)
(* finished, and a 202 is only ever given to that content.  The analysis   *)
(* runs at least once: a failure after its end may take the event up again.*)
(* There is nothing here about files, reservations, crashes or retries.    *)
(***************************************************************************)
CONSTANTS Keys,      \* (source, external event ID) pairs
          Contents   \* canonical event contents

VARIABLES
  inbox,     \* per key: the accepted content and what became of it
  answered   \* the <<key, content>> pairs a source was given a 202 for

vars == <<inbox, answered>>

Nothing == [state |-> "none"]
Accepted(c) == [state |-> "accepted", content |-> c]
Finished(c) == [state |-> "finished", content |-> c]

Init ==
  /\ inbox = [k \in Keys |-> Nothing]
  /\ answered = {}

\* The body and the index entry of a new event are both durable.
Accept(k, c) ==
  /\ inbox[k] = Nothing
  /\ inbox' = [inbox EXCEPT ![k] = Accepted(c)]
  /\ UNCHANGED answered

\* A 202: to the first submission, and to every identical one after it.
Answer(k, c) ==
  /\ inbox[k] \in {Accepted(c), Finished(c)}
  /\ answered' = answered \cup {<<k, c>>}
  /\ UNCHANGED inbox

\* The analysis of the event is over.
Finish(k, c) ==
  /\ inbox[k] = Accepted(c)
  /\ inbox' = [inbox EXCEPT ![k] = Finished(c)]
  /\ UNCHANGED answered

\* A failure after the end takes the event up again, with the same content.
Reopen(k, c) ==
  /\ inbox[k] = Finished(c)
  /\ inbox' = [inbox EXCEPT ![k] = Accepted(c)]
  /\ UNCHANGED answered

Next ==
  \E k \in Keys, c \in Contents :
    Accept(k, c) \/ Answer(k, c) \/ Finish(k, c) \/ Reopen(k, c)

Spec == Init /\ [][Next]_vars
=============================================================================
