--------------------------- MODULE MCConnections ---------------------------
(***************************************************************************)
(* Instances of Connections for the model checker.                         *)
(***************************************************************************)
EXTENDS Connections

CONSTANTS h1, h2, c1, c2, c3

OneThread == {h1}
TwoThreads == {h1, h2}
TwoClients == {c1, c2}
ThreeClients == {c1, c2, c3}

\* Threads are alike: the first client may as well reach the first of them.
Reached == [c \in Clients |-> IF c = c1 THEN {h1} ELSE Threads]

\* One client sends two requests of two units each, the others one of one.
Streams == [c \in Clients |-> IF c = c1 THEN <<1, 1, 2, 2>> ELSE <<1>>]
=============================================================================
