---------------------------- MODULE MCEventAlerts ----------------------------
(***************************************************************************)
(* Instances of EventAlerts for TLC: two events that are two observations, *)
(* two requests of one observation (sent under two event IDs), or a        *)
(* request and the full call that contains it.                             *)
(***************************************************************************)
EXTENDS EventAlerts, TLC

CONSTANTS e1, e2, body, answer

Event(call, type) ==
  [call |-> call, event_type |-> type, request |-> body, response |-> answer]

Result(severity, review) == [severity |-> severity, needs_llm_review |-> review]

Apart    == (e1 :> Event(1, "request")) @@ (e2 :> Event(2, "request"))
Repeated == (e1 :> Event(1, "request")) @@ (e2 :> Event(1, "request"))
Enclosed == (e1 :> Event(1, "request")) @@ (e2 :> Event(1, "full_call"))

Sharing == {Repeated}
All  == {Apart, Repeated, Enclosed}

\* Policies may change between two attempts of e1; e2 is always a hit.
Varied == {Result(None, FALSE), Result(None, TRUE), Result("medium", TRUE), Result("critical", TRUE)}
Mixed == (e1 :> Varied) @@ (e2 :> {Result("high", TRUE)})
=============================================================================
