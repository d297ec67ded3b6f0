------------------------------ MODULE Selection ------------------------------
(***************************************************************************)
(* The two choices of load_balancer.c that load_balancer_select does not   *)
(* make yet: by weight and by connections.  Each runs from end to end      *)
(* under the mutex of the service, so each is a function of its instances, *)
(* the first also of the index and the weight kept for the service's name  *)
(* (LoadBalancerState).  A step is a call of load_balancer_select, were it *)
(* to make that choice, on instances that stay registered.                 *)
(***************************************************************************)
EXTENDS Integers, Sequences, FiniteSets

CONSTANTS
  Groups,       \* instances of a service, each [healthy, weight, connections]
  Marks,        \* what may be left of earlier choices, [index, weight]
  MaxChoices,   \* choices by connections in a row: a bound on the run
  MaxCycles     \* cycles of choices by weight in a row: the same

ASSUME GroupsAssumption ==
  Groups \subseteq
    Seq([healthy : BOOLEAN, weight : Nat, connections : Nat]) \ {<<>>}
ASSUME MarksAssumption ==
  Marks \subseteq [index : Nat, weight : Nat]
    /\ MaxChoices \in Nat /\ MaxCycles \in Nat

VARIABLES
  group,        \* the instances of the service
  mark,         \* current_index and current_weight of its name
  policy,       \* which of the two choices is made
  turns         \* history: what was chosen, in order; {} is NULL

selectionVars == <<group, mark, policy, turns>>

SelectionInit ==
  /\ group \in Groups /\ mark \in Marks
  /\ policy \in {"weight", "connections"}
  /\ turns = <<>>

-----------------------------------------------------------------------------
(* select_weighted_round_robin *)

\* C counts the instances from 0.
Inst(g, k) == g[k + 1]
Healthy(g) == {k \in 0 .. Len(g) - 1 : Inst(g, k).healthy}
HealthyWeight(g) ==
  LET sum[k \in -1 .. Len(g) - 1] ==
        IF k = -1 THEN 0
        ELSE sum[k - 1] + (IF Inst(g, k).healthy THEN Inst(g, k).weight ELSE 0)
  IN sum[Len(g) - 1]

\* Mutation: a pass more for weight 0.
NextWeightToZero(g, w) == IF w - 1 >= 0 THEN w - 1 ELSE HealthyWeight(g)
\* current_weight for the next pass over the instances.
NextWeight(g, w) == IF w - 1 > 0 THEN w - 1 ELSE HealthyWeight(g)

Fits(g, k, w) == Inst(g, k).healthy /\ Inst(g, k).weight >= w

\* The loop: LoadBalancerState when it is left, with what is returned.
WeightedChoice(g, left) ==
  LET loop[c \in [index : Nat, weight : Nat]] ==
        LET k == (c.index + 1) % Len(g)
            w == IF k = 0 THEN NextWeight(g, c.weight) ELSE c.weight
            next == [index |-> k, weight |-> w]
        IN IF k = 0 /\ w <= 0 THEN [mark |-> next, chosen |-> {}]
           ELSE IF Fits(g, k, w) THEN [mark |-> next, chosen |-> {k}]
           ELSE loop[next]
  IN loop[left]

-----------------------------------------------------------------------------
(* select_least_connections *)

NoBest == [chosen |-> {}, min |-> -1]

\* Mutation: min_connections keeps its first value.
FirstMin(best, g, k) == IF best.min = -1 THEN Inst(g, k).connections ELSE best.min
MinConnections(best, g, k) == Inst(g, k).connections

LeastConnections(g) ==
  LET best[k \in -1 .. Len(g) - 1] ==
        IF k = -1 THEN NoBest
        ELSE LET b == best[k - 1] IN
             IF Inst(g, k).healthy
                  /\ (b.min = -1 \/ Inst(g, k).connections < b.min)
             THEN [chosen |-> {k}, min |-> MinConnections(b, g, k)]
             ELSE b
  IN best[Len(g) - 1].chosen

-----------------------------------------------------------------------------
(* load_balancer_select *)

\* The choice counts as a connection; none is ever taken off.
Connected(g, chosen) ==
  [i \in DOMAIN g |->
     IF i - 1 \in chosen THEN [g[i] EXCEPT !.connections = @ + 1] ELSE g[i]]

\* Before the weights are honoured, what was left of a pass at weight 0 may
\* come: a choice of each instance at most.
Lead(g) == Len(g)
MaxTurns(g) == Lead(g) + MaxCycles * HealthyWeight(g) + 1

SelectByWeight ==
  /\ policy = "weight" /\ Len(turns) < MaxTurns(group)
  /\ LET choice == WeightedChoice(group, mark) IN
       /\ mark' = choice.mark
       /\ group' = Connected(group, choice.chosen)
       /\ turns' = Append(turns, choice.chosen)
  /\ UNCHANGED policy

SelectByConnections ==
  /\ policy = "connections" /\ Len(turns) < MaxChoices
  /\ group' = Connected(group, LeastConnections(group))
  /\ turns' = Append(turns, LeastConnections(group))
  /\ UNCHANGED <<mark, policy>>

SelectionNext == SelectByWeight \/ SelectByConnections

SelectionSpec == SelectionInit /\ [][SelectionNext]_selectionVars

-----------------------------------------------------------------------------
(* Properties *)

(***************************************************************************)
(* The weighted choice gives each healthy instance its share: whatever     *)
(* index and weight were left from other instances, after a lead any run   *)
(* of as many choices as the weights add up to has each healthy instance   *)
(* as many times as its weight says.  No other is ever chosen, and none is *)
(* chosen only if no healthy one has a weight.                             *)
(***************************************************************************)
LastTurns(n) == {i \in DOMAIN turns : i > Len(turns) - n}

WeightsHonoured ==
  policy = "weight" =>
    LET cycle == HealthyWeight(group) IN
      /\ \A i \in DOMAIN turns :
           turns[i] \subseteq Healthy(group) /\ (turns[i] = {} => cycle = 0)
      /\ Len(turns) >= Lead(group) + cycle =>
           \A k \in Healthy(group) :
             Cardinality({i \in LastTurns(cycle) : turns[i] = {k}})
               = Inst(group, k).weight

(***************************************************************************)
(* Choices by connections level the healthy instances: one that was chosen *)
(* is at no time more than one connection ahead of any of them, however    *)
(* uneven they were; others are not chosen, and there is a choice whenever *)
(* one is healthy.                                                         *)
(***************************************************************************)
ConnectionsLevelled ==
  policy = "connections" =>
    \A i \in DOMAIN turns :
      /\ turns[i] = {} <=> Healthy(group) = {}
      /\ \A k \in turns[i] :
           /\ k \in Healthy(group)
           /\ \A h \in Healthy(group) :
                Inst(group, k).connections <= Inst(group, h).connections + 1
=============================================================================
