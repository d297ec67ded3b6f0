----------------------------- MODULE MCGateway -----------------------------
(***************************************************************************)
(* Instances of Gateway for the model checker.                             *)
(***************************************************************************)
EXTENDS Gateway

CONSTANTS h1, h2, c1, c2, c3

TwoThreads == {h1, h2}
TwoClients == {c1, c2}
ThreeClients == {c1, c2, c3}
OneClient == {c2}
NoClient == {}

\* Clients are alike: they may as well connect in this order.
InOrder ==
  [c \in Clients |-> CASE c = c1 -> {} [] c = c2 -> {c1} [] OTHER -> {c2}]
=============================================================================
