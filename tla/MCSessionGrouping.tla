-------------------------- MODULE MCSessionGrouping --------------------------
(* Clients of two conversations with one opener, without and with explicit    *)
(* IDs; a conversation whose opener is sensitive, and one without messages.   *)
EXTENDS SessionGrouping

CONSTANTS opener, blue, red, other, secret, S1, S2

Request(ext, msgs) == [ext |-> ext, msgs |-> msgs]
Anonymous == {Request(NoId, msgs) : msgs \in {<<opener>>, <<opener, blue>>, <<opener, red>>}}
Explicit  == {Request(S1, <<opener, blue>>), Request(S2, <<opener, red>>), Request(NoId, <<opener>>)}
Odd       == {Request(NoId, msgs) : msgs \in {<<>>, <<secret, other>>}}
MCClients == {Anonymous, Explicit, Odd}

\* The two conversations are alike.
Symmetry == {p \in Permutations({blue, red, S1, S2}) :
               p[blue] \in {blue, red} /\ (p[blue] = blue <=> p[S1] = S1)}
==============================================================================
