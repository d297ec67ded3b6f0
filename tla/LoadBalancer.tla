---------------------------- MODULE LoadBalancer ----------------------------
(***************************************************************************)
(* load_balancer_select (load_balancer.c) at work on the table of          *)
(* ServiceRegistry, as the gateway's threads call it: a lookup under       *)
(* service_registry_mutex, then the round-robin choice under the mutex of  *)
(* the slot, with the cursor that is kept for the service's name.          *)
(***************************************************************************)
EXTENDS ServiceRegistry

CONSTANTS
  Threads,      \* the gateway's threads
  MaxStates,    \* MAX_SERVICES, the number of names that can have a cursor
  MaxSelects    \* choices made: the bound on the run

ASSUME SelectsAssumption == MaxStates \in Nat \ {0} /\ MaxSelects \in Nat

VARIABLES
  cursor,       \* current_index, by the names in `states'
  pick,         \* the lookup of each thread that has not chosen yet
  selects,      \* history: choices made
  served,       \* history: the choices for each name, since it last changed
  stray         \* history: a choice was off, and not for a known reason

balancerVars == <<cursor, pick, selects, served, stray>>
vars == <<registryVars, balancerVars>>

NoPick == [at |-> "idle"]
NoCursors == [n \in {} |-> 0]

Init ==
  /\ RegistryInit
  /\ cursor = NoCursors
  /\ pick = [t \in Threads |-> NoPick]
  /\ selects = 0
  /\ served = [n \in Names |-> <<>>]
  /\ stray = FALSE

\* A registrar's step.  The histories note which names it changed, and the
\* lookups that a removed service has made stale.
Registration ==
  /\ \E p \in Registrars : Registrar(p)
  /\ served' = [n \in Names |->
                  IF {r \in registered : r[1] = n} = {r \in registered' : r[1] = n}
                  THEN served[n] ELSE <<>>]
  /\ pick' = [t \in Threads |->
                IF pick[t] # NoPick /\ serviceCount' < serviceCount
                THEN [pick[t] EXCEPT !.moved = TRUE] ELSE pick[t]]
  /\ UNCHANGED <<cursor, selects, stray>>

-----------------------------------------------------------------------------
(* service_registry_get *)

SelectFinds(t, n) ==
  /\ pick[t] = NoPick /\ Holding(n) # {}
  /\ pick' = [pick EXCEPT ![t] =
                [at |-> "choose", name |-> n, index |-> IndexOf(n), moved |-> FALSE]]
  /\ UNCHANGED <<registryVars, cursor, selects, served, stray>>

-----------------------------------------------------------------------------
(* select_round_robin *)

HasState(n) == n \in DOMAIN cursor

\* The place the loop starts at.
Start(n) == IF HasState(n) THEN cursor[n] ELSE 0

\* Mutation: the cursor advances without wrapping.
NextUnwrapped(k, count) == k + 1
NextIndex(k, count) == (k + 1) % count

\* An instance in use is healthy; memory never written may look as it likes.
Looked(s, k) ==
  IF heap[s.instances][k] = Garbage THEN {k, NextIndex(k, s.count)} ELSE {k}

\* No instance, or no room for the state of another name.
SelectNone(t) ==
  /\ pick[t].at = "choose"
  /\ LET s == services[pick[t].index] IN
       s.count = 0 \/ (~HasState(s.name) /\ Cardinality(DOMAIN cursor) >= MaxStates)
  /\ pick' = [pick EXCEPT ![t] = NoPick]
  /\ UNCHANGED <<registryVars, cursor, selects, served, stray>>

\* Mutation: the cursor is not advanced after a choice.
Stays(n, k, count) == [m \in DOMAIN cursor \cup {n} |-> IF m = n THEN k ELSE cursor[m]]
Advanced(n, k, count) ==
  [m \in DOMAIN cursor \cup {n} |->
     IF m = n THEN NextIndex(k, count) ELSE cursor[m]]

\* What the histories say of a choice: it may be off once arrays are shared,
\* services were moved since the lookup, or the cursor is past the instances.
Note(t, s, k) ==
  LET got == heap[s.instances][k]
      stale == shared \/ pick[t].moved
  IN /\ stray' = (stray \/ ~(\/ <<pick[t].name, got.address>> \in registered
                              \/ stale \/ Start(s.name) >= s.count))
     /\ served' = IF stale THEN [n \in Names |-> <<>>]
                  ELSE [served EXCEPT ![s.name] = Append(@, k)]

SelectChooses(t) ==
  /\ pick[t].at = "choose" /\ selects < MaxSelects
  /\ LET s == services[pick[t].index] IN
       /\ s.count > 0
       /\ HasState(s.name) \/ Cardinality(DOMAIN cursor) < MaxStates
       /\ \E k \in Looked(s, Start(s.name)) :
            /\ cursor' = Advanced(s.name, k, s.count)
            /\ Note(t, s, k)
  /\ pick' = [pick EXCEPT ![t] = NoPick]
  /\ selects' = selects + 1
  /\ UNCHANGED registryVars

Next ==
  \/ Registration
  \/ ~raced /\ \E t \in Threads :
       \/ \E n \in Names : SelectFinds(t, n)
       \/ SelectNone(t) \/ SelectChooses(t)

Spec == Init /\ [][Next]_vars

-----------------------------------------------------------------------------
(* Properties *)

TypeOK ==
  /\ RegistryTypeOK
  /\ DOMAIN cursor \subseteq Names /\ Cardinality(DOMAIN cursor) <= MaxStates
  /\ \A n \in DOMAIN cursor : cursor[n] \in Places
  /\ selects \in 0 .. MaxSelects

(***************************************************************************)
(* Round robin over a set of instances that stays as it is: between two    *)
(* choices of the same instance every other one has its turn, whichever    *)
(* threads make them and wherever the cursor stood when the set changed.   *)
(***************************************************************************)
Rotation ==
  \A i \in Live :
    LET s == services[i]
        turns == served[s.name]
    IN \A a, b \in DOMAIN turns :
         a < b /\ turns[a] = turns[b] => shared \/ raced \/ b - a >= s.count

(***************************************************************************)
(* A choice is an instance registered at that moment for the name asked    *)
(* for, although the lookup and the choice hold different locks, as long   *)
(* as no service was removed in between, no array is shared, and no        *)
(* unregistration has left the cursor past the instances.                  *)
(***************************************************************************)
ChoiceRegistered == ~stray
=============================================================================
