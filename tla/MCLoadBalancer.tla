--------------------------- MODULE MCLoadBalancer ---------------------------
(***************************************************************************)
(* Instances of LoadBalancer and Selection for the model checker.          *)
(***************************************************************************)
EXTENDS LoadBalancer, Selection, TLC

CONSTANTS p1, p2, h1, h2, s1, s2, a1, a2, a3

OneRegistrar == {p1}
TwoRegistrars == {p1, p2}
OneThread == {h1}
TwoThreads == {h1, h2}
TwoNames == {s1, s2}
TwoAddresses == {a1, a2}
ThreeAddresses == {a1, a2, a3}

\* Names, addresses and threads are interchangeable.
Symmetry ==
  Permutations(TwoRegistrars) \cup Permutations(TwoThreads)
    \cup Permutations(TwoNames)
    \cup Permutations(ThreeAddresses)

\* Up to three instances, with mixtures of weights and of connections.
Instance(weights, connections) ==
  [healthy : BOOLEAN, weight : weights, connections : connections]
AllGroups ==
  [1 .. 1 -> Instance(0 .. 3, {0})] \cup [1 .. 2 -> Instance(0 .. 3, {0})]
    \cup [1 .. 3 -> Instance(0 .. 2, {0})] \cup [1 .. 3 -> Instance({1}, {0, 1, 3})]
NoGroups == {}
AllMarks == [index : {0, 2}, weight : {0, 1, 5}]

\* Either the registry is at work, or a selection on instances given to it.
NoSelection ==
  /\ group = <<>> /\ mark = [index |-> 0, weight |-> 0]
  /\ policy = "none" /\ turns = <<>>

RunInit == Init /\ (NoSelection \/ SelectionInit)
RunNext ==
  \/ group = <<>> /\ Next /\ UNCHANGED selectionVars
  \/ SelectionNext /\ UNCHANGED vars
RunSpec == RunInit /\ [][RunNext]_<<vars, selectionVars>>
=============================================================================
