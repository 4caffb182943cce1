---------------------------- MODULE MCEventIngress ----------------------------
(***************************************************************************)
(* An instance of EventIngress for TLC: a small, a large and a too large   *)
(* content in a buffer that holds one large and one small file, so that    *)
(* 413 and 507 happen; the proxy loop writes beside the HTTP handlers.     *)
(***************************************************************************)
EXTENDS EventIngress

CONSTANTS small, large, huge

MCSize == [c \in Contents |-> CASE c = small -> 1 [] c = large -> 2 [] c = huge -> 3]
=============================================================================
