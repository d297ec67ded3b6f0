---------------------------- MODULE MCOutputPath ----------------------------
(***************************************************************************)
(* Instances of OutputPath for the model checker.                          *)
(***************************************************************************)
EXTENDS OutputPath

CONSTANTS m1, m2, m3

TwoMessages == {m1, m2}
ThreeMessages == {m1, m2, m3}

\* Shorter than, as long as and longer than the room in the socket.
Lengths == [m \in Messages |-> CASE m = m1 -> 1 [] m = m2 -> 3 [] OTHER -> 4]
=============================================================================
