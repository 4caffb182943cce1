---------------------------- MODULE MCEventWorker ----------------------------
(***************************************************************************)
(* Instances of EventWorker for TLC: events of two calls, or a request and *)
(* the response of its call.                                               *)
(***************************************************************************)
EXTENDS EventWorker

CONSTANTS e1, e2

Envelope(kind1, call1, kind2, call2) ==
  [e \in Events |-> IF e = e1 THEN [kind |-> kind1, call |-> call1]
                             ELSE [kind |-> kind2, call |-> call2]]

Apart == Envelope("request", 1, "full_call", 2)
Pair  == Envelope("request", 1, "response", 1)

Requests == {Apart}
All      == {Apart, Pair}

V(hit, review) == [hit |-> hit, review |-> review]

\* e1 is a hit or has no clue; e2 has a clue that alerts nobody, or none.
Mixed == [e \in Events |-> IF e = e1 THEN {V(TRUE, TRUE), V(FALSE, FALSE)}
                                     ELSE {V(FALSE, TRUE), V(FALSE, FALSE)}]
Clean == [e \in Events |-> {V(FALSE, FALSE)}]
=============================================================================
