---------------------------- MODULE MCProxyTraces ----------------------------
(* Two calls, which may hit a rule, need the reviewer or neither, with texts  *)
(* that assess settles, or leaves to a reviewer.                              *)
EXTENDS ProxyTraces, TLC

CONSTANTS c1, c2

TextOf(p, t) == [purpose |-> p, transfer |-> t]
Call(rule, ask, text) == [rule |-> rule, ask |-> ask, text |-> text]

First  == {Call(None, FALSE, TextOf("benign", "none")), Call("high", TRUE, NoText),
           Call(None, TRUE, TextOf("dual_use", "none"))}
Second == {Call(None, FALSE, NoText), Call("high", TRUE, TextOf("physical_harm", "none")),
           Call(None, TRUE, TextOf("dual_use", "none"))}
MCInputs == {(c1 :> f) @@ (c2 :> s) : f \in First, s \in Second}

\* A second opinion may be worse than none.
MCReviewed == {Assessment(TextOf("dual_use", "none"), "critical", "llm")}
=============================================================================
