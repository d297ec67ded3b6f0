-------------------------- MODULE ServiceRegistry ---------------------------
(***************************************************************************)
(* The gateway's table of services (service_registry.c): an array of       *)
(* Service structures, each with a pointer to an array of instances that   *)
(* service_registry_init allocated for the slot.                           *)
(*                                                                         *)
(* A call is made of critical sections, one action each: it finds its      *)
(* service under service_registry_mutex, gives that up, and goes on with   *)
(* the index under the mutex of the slot.  Removing a service closes the   *)
(* gap by assigning whole structures, pointer included.  (The mutex of the *)
(* slot as well, locked or not, and beside sections under the mutexes of   *)
(* the slots: sections are kept whole here, and mutexes sound.)            *)
(*                                                                         *)
(* Nothing in the repository registers a service: who calls is up to the   *)
(* constant Registrars.  An address stands for ip and port.  Left out are  *)
(* the status, which is always 0 (healthy) in an instance, and what no     *)
(* selection in use reads: the weight and the count of connections.        *)
(***************************************************************************)
EXTENDS Integers, Sequences, FiniteSets

CONSTANTS
  Registrars,     \* the threads that register and unregister
  Names,          \* the names of services
  Addresses,      \* the addresses of instances
  NoName,         \* the empty service_name
  ServiceSize,    \* service_capacity
  InstanceSize,   \* instance_capacity
  MaxCalls        \* calls that find or create a service: the bound on the run

ASSUME NamesAssumption == NoName \notin Names
ASSUME SizesAssumption ==
  {ServiceSize, InstanceSize, MaxCalls} \subseteq Nat \ {0}

VARIABLES
  services,       \* the array of Service structures
  heap,           \* the arrays of instances, by pointer
  serviceCount,   \* service_count
  call,           \* where each registrar is in its call
  calls,          \* history: calls begun
  registered,     \* history: what was registered and not unregistered
  shared,         \* history: two services were once given the same array
  raced           \* history: a call went on with an index that was no longer right

table == <<services, heap, serviceCount>>
registryVars == <<table, call, calls, registered, shared, raced>>

Slots == 0 .. ServiceSize - 1
Places == 0 .. InstanceSize - 1

\* What malloc returned, and an instance as service_registry_register makes it.
Garbage == [service |-> NoName, address |-> NoName]
NewInstance(n, a) == [service |-> n, address |-> a]

Idle == [at |-> "idle"]

RegistryInit ==
  /\ services = [i \in Slots |-> [name |-> NoName, instances |-> i, count |-> 0]]
  /\ heap = [i \in Slots |-> [k \in Places |-> Garbage]]
  /\ serviceCount = 0
  /\ call = [p \in Registrars |-> Idle]
  /\ calls = 0
  /\ registered = {}
  /\ shared = FALSE /\ raced = FALSE

Live == 0 .. serviceCount - 1
Holding(n) == {i \in Live : services[i].name = n}
IndexOf(n) == CHOOSE i \in Holding(n) : \A j \in Holding(n) : i <= j

InstancesOf(s) == {heap[s.instances][k] : k \in 0 .. s.count - 1}
PlaceOf(s, a) ==
  CHOOSE k \in 0 .. s.count - 1 : heap[s.instances][k].address = a
Has(s, a) == \E x \in InstancesOf(s) : x.address = a

-----------------------------------------------------------------------------
(* service_registry_register *)

Go(p, at, i) == call' = [call EXCEPT ![p] = [@ EXCEPT !.at = at, !.index = i]]

Begin(p, op, n, a, i) ==
  /\ call[p] = Idle /\ calls < MaxCalls
  /\ calls' = calls + 1
  /\ call' = [call EXCEPT ![p] =
                [at |-> op, name |-> n, address |-> a, index |-> i]]

Return(p) == call' = [call EXCEPT ![p] = Idle]

RegisterFound(p, n, a) ==
  /\ Holding(n) # {}
  /\ Begin(p, "insert", n, a, IndexOf(n))
  /\ UNCHANGED <<table, registered, shared, raced>>

\* The next free slot becomes the service; it keeps the array it points to.
RegisterCreates(p, n, a) ==
  /\ Holding(n) = {}
  /\ serviceCount \in Slots
  /\ services' = [services EXCEPT ![serviceCount].name = n,
                                  ![serviceCount].count = 0]
  /\ shared' = (shared \/ \E i \in Live : services[i].instances =
                                            services[serviceCount].instances)
  /\ serviceCount' = serviceCount + 1
  /\ Begin(p, "insert", n, a, serviceCount)
  /\ UNCHANGED <<heap, registered, raced>>

\* What is at the index a call found under service_registry_mutex: its service
\* still, if it is there and no other registrar removed it since.
Right(p) ==
  call[p].index < serviceCount /\ services[call[p].index].name = call[p].name

RegisterInserts(p) ==
  /\ call[p].at = "insert"
  /\ LET i == call[p].index
         n == call[p].name
         a == call[p].address
         s == services[i]
     IN IF Has(s, a) \/ s.count >= InstanceSize
        THEN UNCHANGED <<services, heap, registered>>
        ELSE /\ heap' = [heap EXCEPT ![s.instances][s.count] = NewInstance(n, a)]
             /\ services' = [services EXCEPT ![i].count = @ + 1]
             /\ registered' = registered \cup {<<n, a>>}
  /\ raced' = ~Right(p)
  /\ Return(p)
  /\ UNCHANGED <<serviceCount, calls, shared>>

-----------------------------------------------------------------------------
(* service_registry_unregister *)

UnregisterFound(p, n, a) ==
  /\ Holding(n) # {}
  /\ Begin(p, "remove", n, a, IndexOf(n))
  /\ UNCHANGED <<table, registered, shared, raced>>

\* Mutation: the instances after the removed one are not moved up.
LastForgotten(s, a) == heap[s.instances]
MovedUp(s, a) ==
  [k \in Places |-> IF PlaceOf(s, a) <= k /\ k < s.count - 1
                    THEN heap[s.instances][k + 1]
                    ELSE heap[s.instances][k]]

UnregisterRemoves(p) ==
  /\ call[p].at = "remove"
  /\ LET i == call[p].index
         a == call[p].address
         s == services[i]
     IN IF ~Has(s, a)
        THEN Return(p) /\ UNCHANGED <<services, heap, registered>>
        ELSE /\ heap' = [heap EXCEPT ![s.instances] = MovedUp(s, a)]
             /\ services' = [services EXCEPT ![i].count = @ - 1]
             /\ registered' = registered \ {<<call[p].name, a>>}
             /\ IF s.count = 1 THEN Go(p, "delete", i) ELSE Return(p)
  /\ raced' = ~Right(p)
  /\ UNCHANGED <<serviceCount, calls, shared>>

\* Mutation: the loop stops one structure short.
ClosedShort(i) ==
  [j \in Slots |-> IF i <= j /\ j < serviceCount - 2 THEN services[j + 1]
                   ELSE services[j]]
Closed(i) ==
  [j \in Slots |-> IF i <= j /\ j < serviceCount - 1 THEN services[j + 1]
                   ELSE services[j]]

\* The service goes although somebody registered with it meanwhile.
UnregisterDeletes(p) ==
  /\ call[p].at = "delete"
  /\ raced' = (~Right(p) \/ services[call[p].index].count > 0)
  /\ services' = Closed(call[p].index)
  /\ serviceCount' = serviceCount - 1
  /\ Return(p)
  /\ UNCHANGED <<heap, calls, registered, shared>>

\* The model ends with the first call that goes on with a wrong index.
Registrar(p) ==
  /\ ~raced
  /\ \/ \E n \in Names, a \in Addresses :
          RegisterFound(p, n, a) \/ RegisterCreates(p, n, a) \/ UnregisterFound(p, n, a)
     \/ RegisterInserts(p) \/ UnregisterRemoves(p) \/ UnregisterDeletes(p)

-----------------------------------------------------------------------------
(* Properties *)

Instances ==
  [service : Names \cup {NoName}, address : Addresses \cup {NoName}]

RegistryTypeOK ==
  /\ services \in [Slots -> [name : Names \cup {NoName}, instances : Slots,
                             count : 0 .. InstanceSize]]
  /\ heap \in [Slots -> [Places -> Instances]]
  /\ serviceCount \in (IF raced THEN -1 ELSE 0) .. ServiceSize
  /\ registered \in SUBSET (Names \X Addresses)
  /\ shared \in BOOLEAN /\ raced \in BOOLEAN

(***************************************************************************)
(* However registrars overlap, the table is exactly what was registered    *)
(* and not unregistered: no service twice, every instance under its own    *)
(* service and once, none forgotten when a service before it in the array  *)
(* goes away.  So it is until two services are given the same array, or a  *)
(* call goes on, under the mutex of the slot, with an index at which its   *)
(* service is no longer, or deletes a service that is in use again.        *)
(***************************************************************************)
Entries(s) == {<<s.name, x.address>> : x \in InstancesOf(s)}
Table == UNION {Entries(services[i]) : i \in Live}

TableExact ==
  \/ shared \/ raced
  \/ /\ Table = registered
     /\ \A i, j \in Live : services[i].name = services[j].name => i = j
     /\ \A i \in Live : \A x \in InstancesOf(services[i]) :
          x.service = services[i].name
     /\ \A i \in Live :
          Cardinality(InstancesOf(services[i])) = services[i].count

(***************************************************************************)
(* "If the service has no instances left, remove it" (service_registry.c,  *)
(* on the loop that closes the gap) removes that service only: an instance *)
(* registered and not unregistered stays in the table.  The structure left *)
(* behind the last service still points to that service's array, and the   *)
(* next service to be created writes into it.                              *)
(***************************************************************************)
RegisteredKept == registered \subseteq Table
=============================================================================
