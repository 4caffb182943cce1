----------------------------- MODULE MCProxyAudit -----------------------------
(***************************************************************************)
(* An instance of ProxyAudit for TLC: copies that fit together, copies     *)
(* that do not, and one that is larger than the whole buffer.              *)
(***************************************************************************)
EXTENDS ProxyAudit

CONSTANTS c1, c2, c3

Sizes == [i \in Items |-> CASE i.kind = "response" -> 1
                            [] i.call = c1 -> 1
                            [] i.call = c2 -> 2
                            [] OTHER -> 4]
=============================================================================
