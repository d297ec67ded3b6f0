------------------------- MODULE LoadBalancerProof --------------------------
(***************************************************************************)
(* Theorems about the gateway's registry and its round-robin choices, for  *)
(* every number of registrars, threads, names and addresses, every size of *)
(* the table and any number of calls and choices: the table is what was    *)
(* registered, a choice is registered, and every instance has its turn.    *)
(* And about the choices by connections and by weight, for any instances:  *)
(* the one levels them, the other gives each its share.                    *)
(*                                                                         *)
(* The invariant adds to the table of TableExact what its steps rely on:   *)
(* no two services share an array of instances, and no address is twice in *)
(* one.  Of a call only its index is used, and the two histories `shared'  *)
(* and `raced' say when the index, or the array, was the wrong one.        *)
(***************************************************************************)
EXTENDS LoadBalancer, Selection, ReadyListProof, FiniteSetTheorems

-----------------------------------------------------------------------------
(* The invariant of the registry, and what its steps promise the choices   *)

Services ==
  [name : Names \cup {NoName}, instances : Slots, count : 0 .. InstanceSize]
Calls ==
  {Idle} \cup [at : {"insert", "remove", "delete"}, name : Names,
               address : Addresses, index : Slots]
Picks ==
  {NoPick} \cup [at : {"choose"}, name : Names, index : Slots, moved : BOOLEAN]

\* A structure that a call or a choice may use has been a service once.
Named ==
  /\ \A i \in Live : services[i].name \in Names
  /\ \A p \in Registrars : call[p] # Idle => services[call[p].index].name \in Names

\* The reservation of TableExact.
Sound == ~shared /\ ~raced

Used(s) == 0 .. s.count - 1

Distinct ==
  \A i, j \in Live : services[i].name = services[j].name => i = j
Unshared ==
  \A i, j \in Live : services[i].instances = services[j].instances => i = j
Owned ==
  \A i \in Live : \A k \in Used(services[i]) :
    heap[services[i].instances][k].service = services[i].name
OnceEach ==
  \A i \in Live : \A k, l \in Used(services[i]) :
    heap[services[i].instances][k].address = heap[services[i].instances][l].address
      => k = l

Exact == Table = registered /\ Distinct /\ Unshared /\ Owned /\ OnceEach

RegistryInv ==
  /\ RegistryTypeOK
  /\ call \in [Registrars -> Calls]
  /\ Named
  /\ Sound => Exact

\* What a call changes, as the threads that choose see it.
NamesKept ==
  \A i \in Slots : services[i].name \in Names => services'[i].name \in Names
PlacesKept ==
  serviceCount' < serviceCount
    \/ \A i \in Live : i \in Live' /\ services'[i].name = services[i].name
Under(n, set) == {r \in set : r[1] = n}
CountsKept ==
  \A i \in Live' : services'[i].count > 0 =>
    \E j \in Live :
      /\ services[j].name = services'[i].name
      /\ \/ services[j].count = services'[i].count
         \/ Under(services'[i].name, registered) # Under(services'[i].name, registered')

Effect ==
  /\ RegistryInv'
  /\ NamesKept
  /\ Sound' => PlacesKept /\ CountsKept

\* The constants, in the form the steps use.
LEMMA Sizes ==
  /\ ServiceSize \in Nat \ {0} /\ InstanceSize \in Nat \ {0}
  /\ Slots = 0 .. ServiceSize - 1 /\ Places = 0 .. InstanceSize - 1
  /\ NoName \notin Names
  BY SizesAssumption, NamesAssumption DEF Slots, Places

\* What the type invariant of the registry gives.
LEMMA Typing ==
  ASSUME RegistryTypeOK
  PROVE  /\ services \in [Slots -> Services]
         /\ heap \in [Slots -> [Places -> Instances]]
         /\ serviceCount \in Int /\ serviceCount <= ServiceSize
         /\ ~raced => serviceCount \in Nat
         /\ Live \subseteq Slots
<1>1. serviceCount \in Int /\ serviceCount <= ServiceSize
      /\ (~raced => serviceCount \in Nat)
  BY Sizes DEF RegistryTypeOK
<1>2. Live \subseteq Slots
  BY <1>1, Sizes DEF Live
<1> QED
  BY <1>1, <1>2 DEF RegistryTypeOK, Services

\* serviceCount passes 0 only in the step that goes on with a wrong index.
LEMMA TypingPrime ==
  ASSUME services' \in [Slots -> Services],
         heap' \in [Slots -> [Places -> Instances]],
         serviceCount' \in Int, serviceCount' <= ServiceSize,
         serviceCount' >= 0 \/ (raced' /\ serviceCount' = -1),
         registered' \in SUBSET (Names \X Addresses),
         shared' \in BOOLEAN, raced' \in BOOLEAN
  PROVE  RegistryTypeOK'
<1>1. serviceCount' \in (IF raced' THEN -1 ELSE 0) .. ServiceSize
  <2>1. CASE raced'
    BY <2>1, Sizes
  <2>2. CASE ~raced'
    BY <2>2, Sizes
  <2> QED
    BY <2>1, <2>2
<1> QED
  BY <1>1 DEF RegistryTypeOK, Services

\* A structure is its three fields.
LEMMA SameService ==
  ASSUME NEW s \in Services, NEW r \in Services,
         s.name = r.name, s.instances = r.instances, s.count = r.count
  PROVE  s = r
  BY DEF Services

\* An entry is an instance at a place in use of a service in use.
LEMMA TableMember ==
  ASSUME NEW r
  PROVE  r \in Table <=>
           \E i \in Live : \E k \in Used(services[i]) :
             r = <<services[i].name, heap[services[i].instances][k].address>>
  BY DEF Table, Entries, InstancesOf, Used

\* The same of the next state.
LEMMA TableMemberPrime ==
  ASSUME NEW r
  PROVE  r \in Table' <=>
           \E i \in Live' : \E k \in Used(services'[i]) :
             r = <<services'[i].name, heap'[services'[i].instances][k].address>>
  BY DEF Table, Entries, InstancesOf, Used

\* The lowest index at which a name is held.
LEMMA IndexOfHolding ==
  ASSUME RegistryTypeOK, NEW n, Holding(n) # {}
  PROVE  IndexOf(n) \in Live /\ services[IndexOf(n)].name = n
<1>1. Holding(n) \subseteq Nat
  BY Typing DEF Holding, Live
<1>2. IsWellFoundedOn(OpToRel(<, Nat), Nat)
  BY NatLessThanWellFounded
<1>3. PICK i \in Holding(n) :
        \A j \in Holding(n) : ~(<<j, i>> \in OpToRel(<, Nat))
  BY <1>1, <1>2, WFMin
<1>4. ASSUME NEW j \in Holding(n) PROVE i <= j
  <2>1. i \in Nat /\ j \in Nat /\ ~(j < i)
    BY <1>1, <1>3 DEF OpToRel
  <2> QED
    BY <2>1
<1> QED
  BY <1>3, <1>4 DEF IndexOf, Holding

\* The three things a step does with a call: it begins, ends or goes on.
LEMMA BeginTyped ==
  ASSUME call \in [Registrars -> Calls], NEW p \in Registrars,
         NEW op \in {"insert", "remove"}, NEW n \in Names, NEW a \in Addresses,
         NEW i \in Slots, Begin(p, op, n, a, i)
  PROVE  /\ call' \in [Registrars -> Calls]
         /\ \A q \in Registrars :
              call'[q] # Idle => (q = p /\ call'[q].index = i) \/ call'[q] = call[q]
<1> DEFINE new == [at |-> op, name |-> n, address |-> a, index |-> i]
<1>1. new \in Calls
  BY DEF Calls
<1>2. call' = [call EXCEPT ![p] = new]
  BY DEF Begin
<1>3. new.index = i
  OBVIOUS
<1> HIDE DEF new
<1> QED
  BY <1>1, <1>2, <1>3

LEMMA ReturnTyped ==
  ASSUME call \in [Registrars -> Calls], NEW p \in Registrars, Return(p)
  PROVE  /\ call' \in [Registrars -> Calls]
         /\ \A q \in Registrars : call'[q] # Idle => call'[q] = call[q]
<1>1. Idle \in Calls
  BY DEF Calls
<1> QED
  BY <1>1 DEF Return

\* A step that leaves the table and the history of it alone.
LEMMA TableSame ==
  ASSUME RegistryInv, UNCHANGED <<table, registered, shared>>,
         ~raced, raced' \in BOOLEAN, call' \in [Registrars -> Calls],
         \A q \in Registrars :
           call'[q] # Idle => services[call'[q].index].name \in Names
  PROVE  Effect
<1>1. /\ services' = services /\ heap' = heap /\ serviceCount' = serviceCount
      /\ registered' = registered /\ shared' = shared
  BY DEF table
<1>2. Live' = Live
  BY <1>1 DEF Live
<1>3. RegistryTypeOK'
  <2>1. /\ registered \in SUBSET (Names \X Addresses) /\ shared \in BOOLEAN
        /\ raced' \in BOOLEAN
    BY DEF RegistryInv, RegistryTypeOK
  <2>2. /\ services \in [Slots -> Services]
        /\ heap \in [Slots -> [Places -> Instances]]
        /\ serviceCount \in Nat /\ serviceCount <= ServiceSize
    BY Typing DEF RegistryInv
  <2> QED
    BY <1>1, <2>1, <2>2, TypingPrime
<1>4. Named'
  BY <1>1, <1>2 DEF RegistryInv, Named
<1>5. Sound' => Exact'
  <2>1. Sound' => Sound
    BY <1>1 DEF Sound
  <2>2. Exact => Exact'
    BY <1>1, <1>2 
     DEF Exact, Distinct, Unshared, Owned, OnceEach,
         Table, Entries, InstancesOf, Used
  <2> QED
    BY <2>1, <2>2 DEF RegistryInv
<1>6. NamesKept
  BY <1>1 DEF NamesKept
<1>7. PlacesKept /\ CountsKept
  BY <1>1, <1>2 DEF PlacesKept, CountsKept
<1> QED
  BY <1>3, <1>4, <1>5, <1>6, <1>7 DEF Effect, RegistryInv

\* Nor does one of the threads that choose disturb it.
LEMMA RegistrySame ==
  ASSUME RegistryInv, UNCHANGED <<table, call, registered, shared, raced>>
  PROVE  RegistryInv' /\ Live' = Live /\ (Sound' <=> Sound)
<1>1. /\ services' = services /\ heap' = heap /\ serviceCount' = serviceCount
      /\ call' = call /\ registered' = registered
      /\ shared' = shared /\ raced' = raced
  BY DEF table
<1>2. Live' = Live /\ (Sound' <=> Sound)
  BY <1>1 DEF Live, Sound
<1>3. RegistryTypeOK'
  BY <1>1 DEF RegistryInv, RegistryTypeOK
<1>4. Named'
  BY <1>1, <1>2 DEF RegistryInv, Named
<1>5. Exact => Exact'
  BY <1>1, <1>2 DEF Exact, Distinct, Unshared, Owned, OnceEach,
                    Table, Entries, InstancesOf, Used
<1> QED
  BY <1>1, <1>2, <1>3, <1>4, <1>5 DEF RegistryInv

\* The lookups of register and unregister change no service.
LEMMA FoundStep ==
  ASSUME RegistryInv, ~raced, NEW p \in Registrars, NEW n \in Names,
         NEW a \in Addresses, RegisterFound(p, n, a) \/ UnregisterFound(p, n, a)
  PROVE  Effect
<1>1. PICK op \in {"insert", "remove"} : Begin(p, op, n, a, IndexOf(n))
  BY DEF RegisterFound, UnregisterFound
<1>2. /\ Holding(n) # {} /\ raced' = raced
      /\ UNCHANGED <<table, registered, shared>>
  BY DEF RegisterFound, UnregisterFound
<1>3. IndexOf(n) \in Slots /\ services[IndexOf(n)].name = n
  BY <1>2, IndexOfHolding, Typing DEF RegistryInv
<1>4. call' \in [Registrars -> Calls]
  BY <1>1, <1>3, BeginTyped DEF RegistryInv
<1>5. ASSUME NEW q \in Registrars, call'[q] # Idle
      PROVE  services[call'[q].index].name \in Names
  <2>1. (q = p /\ call'[q].index = IndexOf(n)) \/ call'[q] = call[q]
    BY <1>1, <1>3, <1>5, BeginTyped DEF RegistryInv
  <2> QED
    BY <2>1, <1>3, <1>5 DEF RegistryInv, Named
<1> QED
  <2>1. raced' \in BOOLEAN /\ UNCHANGED <<registered, shared>>
    BY <1>2 DEF RegistryInv, RegistryTypeOK
  <2> QED
    BY <1>2, <2>1, <1>4, <1>5, TableSame

\* A new service is empty, and unless `shared' its array is its own.
LEMMA CreatesStep ==
  ASSUME RegistryInv, ~raced, NEW p \in Registrars, NEW n \in Names,
         NEW a \in Addresses, RegisterCreates(p, n, a)
  PROVE  Effect
<1> DEFINE c == serviceCount
           fresh == [name |-> n, instances |-> services[c].instances, count |-> 0]
<1>1. /\ services \in [Slots -> Services] /\ heap \in [Slots -> [Places -> Instances]]
      /\ c \in Slots /\ c \in Nat /\ Live = 0 .. c - 1 /\ Live' = 0 .. c
      /\ c \notin Live /\ Live' = Live \cup {c} /\ Live' \subseteq Slots
  BY Typing, Sizes DEF RegistryInv, RegisterCreates, Live
<1>2. fresh \in Services
  <2>1. services[c].instances \in Slots
    BY <1>1 DEF Services
  <2> QED
    BY <2>1, Sizes DEF Services
<1>3. services' = [services EXCEPT ![c] = fresh]
  <2> DEFINE s == services[c]
             once == [s EXCEPT !.name = n]
             twice == [once EXCEPT !.count = 0]
  <2>1. s \in Services
    BY <1>1
  <2>2. twice \in Services
    <3>1. 0 \in 0 .. InstanceSize
      BY Sizes
    <3>2. once \in Services
      BY <2>1 DEF Services
    <3> HIDE DEF once
    <3> QED
      BY <3>1, <3>2 DEF Services
  <2>3. twice.name = n /\ twice.count = 0 /\ twice.instances = s.instances
    BY <2>1 DEF Services
  <2>4. fresh.name = n /\ fresh.count = 0 /\ fresh.instances = s.instances
    OBVIOUS
  <2>5. twice = fresh
    <3> HIDE DEF twice, fresh
    <3> QED
      BY <1>2, <2>2, <2>3, <2>4, SameService
  <2>6. services' = [services EXCEPT ![c] = twice]
    BY <1>1 DEF RegisterCreates
  <2> QED
    BY <2>5, <2>6
<1>4. /\ fresh.name = n /\ fresh.count = 0
      /\ fresh.instances = services[c].instances
  OBVIOUS
<1> HIDE DEF fresh
<1>5. /\ services'[c] = fresh
      /\ \A i \in Slots : i # c => services'[i] = services[i]
      /\ services' \in [Slots -> Services]
  BY <1>1, <1>2, <1>3
<1>6. /\ heap' = heap /\ registered' = registered /\ raced' = raced
      /\ serviceCount' = c + 1 /\ Holding(n) = {}
      /\ shared' = (shared \/ \E i \in Live : services[i].instances = services[c].instances)
      /\ Begin(p, "insert", n, a, c)
  BY DEF RegisterCreates
<1>7. RegistryTypeOK'
  <2>1. serviceCount' \in Nat /\ serviceCount' <= ServiceSize
    BY <1>1, <1>6, Sizes
  <2>2. /\ registered' \in SUBSET (Names \X Addresses)
        /\ shared' \in BOOLEAN /\ raced' \in BOOLEAN
    BY <1>6 DEF RegistryInv, RegistryTypeOK
  <2> QED
    BY <1>1, <1>5, <1>6, <2>1, <2>2, TypingPrime
<1>8. /\ call' \in [Registrars -> Calls]
      /\ \A q \in Registrars :
           call'[q] # Idle => (q = p /\ call'[q].index = c) \/ call'[q] = call[q]
  BY <1>1, <1>6, BeginTyped DEF RegistryInv
<1>9. NamesKept
  BY <1>4, <1>5 DEF NamesKept
<1>10. Named'
  <2>1. ASSUME NEW i \in Live' PROVE services'[i].name \in Names
    BY <1>1, <1>4, <1>5 DEF RegistryInv, Named
  <2>2. ASSUME NEW q \in Registrars, call'[q] # Idle
        PROVE  services'[call'[q].index].name \in Names
    <3>1. CASE q = p /\ call'[q].index = c
      BY <3>1, <1>4, <1>5
    <3>2. CASE call'[q] = call[q]
      <4>1. call[q] \in Calls /\ call[q] # Idle
        BY <3>2, <2>2 DEF RegistryInv
      <4>2. call[q].index \in Slots
        BY <4>1 DEF Calls
      <4> QED
        BY <3>2, <4>1, <4>2, <1>9 DEF RegistryInv, Named, NamesKept
    <3> QED
      BY <3>1, <3>2, <1>8, <2>2
  <2> QED
    BY <2>1, <2>2 DEF Named
<1>11. Sound' => Exact'
  <2> SUFFICES ASSUME Sound' PROVE Exact'
    OBVIOUS
  <2>1. Sound /\ \A i \in Live : services[i].instances # services[c].instances
    BY <1>6 DEF Sound
  <2>2. Exact
    BY <2>1 DEF RegistryInv
  <2>3. Used(services'[c]) = {}
    BY <1>4, <1>5 DEF Used
  <2>4. \A i \in Live : services'[i] = services[i]
    BY <1>1, <1>5
  <2>5. Table' = registered'
    <3>1. ASSUME NEW r PROVE r \in Table' <=> r \in Table
      <4>1. r \in Table' <=>
              \E i \in Live : \E k \in Used(services'[i]) :
                r = <<services'[i].name, heap'[services'[i].instances][k].address>>
        BY <2>3, <1>1, TableMemberPrime
      <4>2. r \in Table' <=>
              \E i \in Live : \E k \in Used(services[i]) :
                r = <<services[i].name, heap[services[i].instances][k].address>>
        BY <4>1, <2>4, <1>6
      <4> QED
        BY <4>2, TableMember
    <3>2. Table' \subseteq Table /\ Table \subseteq Table'
      BY <3>1
    <3> QED
      BY <3>2, <2>2, <1>6 DEF Exact
  <2>6. \A i \in Live : services[i].name # n
    BY <1>6 DEF Holding
  <2>7. \A i, j \in Live' : services'[i].name = services'[j].name => i = j
    BY <1>1, <1>4, <1>5, <2>2, <2>4, <2>6 DEF Exact, Distinct
  <2>8. \A i, j \in Live' : services'[i].instances = services'[j].instances => i = j
    BY <1>1, <1>4, <1>5, <2>1, <2>2, <2>4 DEF Exact, Unshared
  <2>9. \A i \in Live' : \A k \in Used(services'[i]) :
          heap'[services'[i].instances][k].service = services'[i].name
    BY <1>1, <1>6, <2>2, <2>3, <2>4 DEF Exact, Owned
  <2>10. \A i \in Live' : \A k, l \in Used(services'[i]) :
           heap'[services'[i].instances][k].address = heap'[services'[i].instances][l].address
             => k = l
    BY <1>1, <1>6, <2>2, <2>3, <2>4 DEF Exact, OnceEach
  <2> QED
    BY <2>5, <2>7, <2>8, <2>9, <2>10 DEF Exact, Distinct, Unshared, Owned, OnceEach, Used
<1>12. PlacesKept
  BY <1>1, <1>5 DEF PlacesKept
<1>13. CountsKept
  BY <1>1, <1>4, <1>5 DEF CountsKept
<1> QED
  BY <1>7, <1>8, <1>9, <1>10, <1>11, <1>12, <1>13 DEF Effect, RegistryInv

\* What a call in progress holds.
LEMMA CallTyped ==
  ASSUME RegistryInv, NEW p \in Registrars,
         call[p].at \in {"insert", "remove", "delete"}
  PROVE  /\ call[p] # Idle /\ call[p].index \in Slots
         /\ call[p].name \in Names /\ call[p].address \in Addresses
         /\ services[call[p].index] \in Services
         /\ services[call[p].index].name \in Names
<1>1. call[p] \in Calls /\ call[p] # Idle
  BY DEF RegistryInv, Idle
<1>2. call[p].index \in Slots /\ call[p].name \in Names /\ call[p].address \in Addresses
  BY <1>1 DEF Calls
<1> QED
  BY <1>1, <1>2, Typing DEF RegistryInv, Named

\* At an index that is still right there is the service of the call.
LEMMA RightPlace ==
  ASSUME RegistryInv, NEW p \in Registrars, Right(p),
         call[p].at \in {"insert", "remove", "delete"}
  PROVE  call[p].index \in Live /\ services[call[p].index].name = call[p].name
<1>1. call[p].index \in Nat /\ serviceCount \in Int
  BY CallTyped, Typing, Sizes DEF RegistryInv
<1> QED
  BY <1>1 DEF Right, Live

\* The places in use before and after an insert.
LEMMA OneMore ==
  ASSUME NEW c \in Nat, c < InstanceSize
  PROVE  /\ 0 .. (c + 1) - 1 = (0 .. c - 1) \cup {c}
         /\ 0 .. c - 1 \subseteq Places /\ c \notin 0 .. c - 1
<1>1. 0 .. (c + 1) - 1 = (0 .. c - 1) \cup {c}
  OBVIOUS
<1> QED
  BY <1>1, Sizes

\* An insert uses one place more, with an address not there yet.
LEMMA InsertsStep ==
  ASSUME RegistryInv, ~raced, NEW p \in Registrars, RegisterInserts(p)
  PROVE  Effect
<1> DEFINE i == call[p].index
           n == call[p].name
           a == call[p].address
           s == services[i]
<1>1. /\ call[p] # Idle /\ i \in Slots /\ n \in Names /\ a \in Addresses
      /\ s \in Services /\ s.name \in Names
  BY CallTyped DEF RegisterInserts
<1>2. /\ services \in [Slots -> Services] /\ heap \in [Slots -> [Places -> Instances]]
      /\ serviceCount \in Nat /\ serviceCount <= ServiceSize /\ Live \subseteq Slots
  BY Typing DEF RegistryInv
<1>3. /\ call' \in [Registrars -> Calls]
      /\ \A q \in Registrars : call'[q] # Idle => call'[q] = call[q]
  BY ReturnTyped DEF RegistryInv, RegisterInserts
<1>4. raced' = ~Right(p) /\ serviceCount' = serviceCount /\ shared' = shared
  BY DEF RegisterInserts
<1>5. raced' \in BOOLEAN /\ (~raced' => Right(p))
  BY <1>4
<1>6. CASE Has(s, a) \/ s.count >= InstanceSize
  <2>1. UNCHANGED <<table, registered, shared>>
    BY <1>6 DEF RegisterInserts, table
  <2>2. ASSUME NEW q \in Registrars, call'[q] # Idle
        PROVE  services[call'[q].index].name \in Names
    BY <1>3, <2>2 DEF RegistryInv, Named
  <2> QED
    BY <2>1, <2>2, <1>3, <1>5, TableSame
<1>7. CASE ~(Has(s, a) \/ s.count >= InstanceSize)
  <2> DEFINE new == NewInstance(n, a)
  <2>1. /\ heap' = [heap EXCEPT ![s.instances][s.count] = new]
        /\ services' = [services EXCEPT ![i].count = @ + 1]
        /\ registered' = registered \cup {<<n, a>>}
    BY <1>7 DEF RegisterInserts
  <2>2. /\ s.count \in Places /\ s.count \in Nat /\ s.instances \in Slots
        /\ s.count + 1 \in 0 .. InstanceSize
    <3>1. s.count \in 0 .. InstanceSize /\ s.instances \in Slots
      BY <1>1 DEF Services
    <3>2. ~(s.count >= InstanceSize)
      BY <1>7
    <3> HIDE DEF s
    <3> QED
      BY <3>1, <3>2, Sizes
  <2>3. new \in Instances /\ new.service = n /\ new.address = a
    BY <1>1 DEF NewInstance, Instances
  <2> HIDE DEF new
  <2>4. /\ services'[i].name = s.name /\ services'[i].instances = s.instances
        /\ services'[i].count = s.count + 1
        /\ services'[i] \in Services
    <3>1. services'[i] = [s EXCEPT !.count = s.count + 1]
      BY <2>1, <1>1, <1>2
    <3> QED
      BY <3>1, <1>1, <2>2 DEF Services
  <2>5. /\ \A j \in Slots : j # i => services'[j] = services[j]
        /\ services' \in [Slots -> Services]
    BY <2>1, <2>4, <1>1, <1>2
  <2>6. /\ heap' \in [Slots -> [Places -> Instances]]
        /\ \A b \in Slots : b # s.instances => heap'[b] = heap[b]
        /\ \A k \in Places : k # s.count => heap'[s.instances][k] = heap[s.instances][k]
        /\ heap'[s.instances][s.count] = new
    BY <2>1, <2>2, <2>3, <1>2
  <2>7. RegistryTypeOK'
    <3>1. registered' \in SUBSET (Names \X Addresses) /\ shared' \in BOOLEAN
      BY <2>1, <1>1, <1>4 DEF RegistryInv, RegistryTypeOK
    <3>2. serviceCount' \in Int /\ serviceCount' <= ServiceSize /\ serviceCount' >= 0
      BY <1>2, <1>4
    <3> QED
      BY <3>1, <3>2, <2>5, <2>6, <1>5, TypingPrime
  <2>8. \A j \in Slots : services'[j].name = services[j].name
    BY <2>4, <2>5
  <2>9. Live' = Live
    BY <1>4 DEF Live
  <2>10. Named'
    <3>1. ASSUME NEW j \in Live' PROVE services'[j].name \in Names
      BY <2>8, <2>9, <1>2 DEF RegistryInv, Named
    <3>2. ASSUME NEW q \in Registrars, call'[q] # Idle
          PROVE  services'[call'[q].index].name \in Names
      <4>1. call'[q] = call[q] /\ call[q] \in Calls /\ call[q] # Idle
        BY <3>2, <1>3 DEF RegistryInv
      <4>2. call[q].index \in Slots
        BY <4>1 DEF Calls
      <4> QED
        BY <4>1, <4>2, <2>8 DEF RegistryInv, Named
    <3> QED
      BY <3>1, <3>2 DEF Named
  <2>11. NamesKept /\ PlacesKept
    BY <2>8, <2>9, <1>2 DEF NamesKept, PlacesKept
  <2>12. ASSUME Sound' PROVE Exact' /\ CountsKept
    <3>1. Exact /\ Right(p)
      BY <2>12, <1>4, <1>5 DEF Sound, RegistryInv
    <3>2. i \in Live /\ s.name = n
      BY <3>1, RightPlace DEF RegisterInserts
    <3>3. /\ Used(services'[i]) = Used(s) \cup {s.count} /\ Used(s) \subseteq Places
          /\ s.count \notin Used(s)
      <4>1. Used(services'[i]) = 0 .. (s.count + 1) - 1 /\ Used(s) = 0 .. s.count - 1
        BY <2>4 DEF Used
      <4>2. s.count < InstanceSize
        BY <2>2, Sizes
      <4> QED
        BY <4>1, <4>2, <2>2, OneMore
    <3>4. \A j \in Live : j # i =>
            services'[j] = services[j]
              /\ heap'[services[j].instances] = heap[services[j].instances]
      <4>1. ASSUME NEW j \in Live, j # i PROVE services[j].instances \in Slots
        BY <1>2 DEF Services
      <4> QED
        BY <4>1, <2>5, <2>6, <3>1, <3>2, <1>2 DEF Exact, Unshared
    <3>5. \A k \in Used(s) : /\ heap'[s.instances][k] = heap[s.instances][k]
                             /\ heap[s.instances][k].address # a
      BY <3>3, <2>6, <1>7 DEF Has, InstancesOf, Used
    <3>6. \A k \in Used(s) : heap[s.instances][k].service = s.name
      BY <3>1, <3>2 DEF Exact, Owned
    <3>7. \A k, l \in Used(s) :
             heap[s.instances][k].address = heap[s.instances][l].address => k = l
      BY <3>1, <3>2 DEF Exact, OnceEach
    <3>8. <<n, a>> \notin registered
      <4>1. ASSUME <<n, a>> \in Table PROVE FALSE
        <5>1. PICK j \in Live : \E k \in Used(services[j]) :
                <<n, a>> = <<services[j].name, heap[services[j].instances][k].address>>
          BY <4>1, TableMember
        <5>2. j = i
          BY <5>1, <3>1, <3>2 DEF Exact, Distinct
        <5> QED
          BY <5>1, <5>2, <3>5
      <4> QED
        BY <4>1, <3>1 DEF Exact
    <3>9. Table' = registered'
      <4>1. ASSUME NEW r PROVE r \in Table' <=> r \in Table \/ r = <<n, a>>
        <5>1. ASSUME r \in Table' PROVE r \in Table \/ r = <<n, a>>
          <6>1. PICK j, k : j \in Live /\ k \in Used(services'[j]) /\
                  r = <<services'[j].name, heap'[services'[j].instances][k].address>>
            BY <5>1, <2>9, TableMemberPrime
          <6>2. CASE j # i
            BY <6>1, <6>2, <3>4, TableMember
          <6>3. CASE j = i /\ k \in Used(s)
            BY <6>1, <6>3, <3>2, <3>5, <2>4, TableMember
          <6>4. CASE j = i /\ k = s.count
            BY <6>1, <6>4, <3>2, <2>3, <2>4, <2>6
          <6> QED
            BY <6>1, <6>2, <6>3, <6>4, <3>3
        <5>2. ASSUME r \in Table PROVE r \in Table'
          <6>1. PICK j, k : j \in Live /\ k \in Used(services[j]) /\
                  r = <<services[j].name, heap[services[j].instances][k].address>>
            BY <5>2, TableMember
          <6>2. CASE j # i
            BY <6>1, <6>2, <3>4, <2>9, TableMemberPrime
          <6>3. CASE j = i
            BY <6>1, <6>3, <3>3, <3>5, <2>4, <2>9, TableMemberPrime
          <6> QED
            BY <6>2, <6>3
        <5>3. ASSUME r = <<n, a>> PROVE r \in Table'
          <6>1. /\ i \in Live' /\ s.count \in Used(services'[i])
                /\ r = <<services'[i].name, heap'[services'[i].instances][s.count].address>>
            BY <5>3, <3>2, <3>3, <2>3, <2>4, <2>6, <2>9
          <6> QED
            BY <6>1, TableMemberPrime
        <5> QED
          BY <5>1, <5>2, <5>3
      <4>2. Table' = Table \cup {<<n, a>>}
        BY <4>1
      <4> QED
        BY <4>2, <2>1, <3>1 DEF Exact
    <3>10. /\ \A j, l \in Live' : services'[j].name = services'[l].name => j = l
          /\ \A j, l \in Live' : services'[j].instances = services'[l].instances => j = l
      <4>1. \A j \in Live : /\ services'[j].name = services[j].name
                             /\ services'[j].instances = services[j].instances
        BY <2>4, <2>5, <1>2
      <4> QED
        BY <4>1, <2>9, <3>1 DEF Exact, Distinct, Unshared
    <3>11. \A j \in Live' : \A k \in Used(services'[j]) :
            heap'[services'[j].instances][k].service = services'[j].name
      <4> SUFFICES ASSUME NEW j \in Live, NEW k \in Used(services'[j])
                   PROVE  heap'[services'[j].instances][k].service = services'[j].name
        BY <2>9
      <4>1. CASE j # i
        BY <4>1, <3>1, <3>4 DEF Exact, Owned
      <4>2. CASE j = i /\ k \in Used(s)
        <5>1. /\ services'[j].instances = s.instances /\ services'[j].name = s.name
              /\ heap'[s.instances][k] = heap[s.instances][k]
          BY <4>2, <3>5, <2>4
        <5> QED
          BY <5>1, <4>2, <3>6
      <4>3. CASE j = i /\ k = s.count
        BY <4>3, <3>2, <2>3, <2>4, <2>6
      <4> QED
        BY <4>1, <4>2, <4>3, <3>3
    <3>12. \A j \in Live' : \A k, l \in Used(services'[j]) :
             heap'[services'[j].instances][k].address = heap'[services'[j].instances][l].address
               => k = l
      <4> SUFFICES ASSUME NEW j \in Live, NEW k \in Used(services'[j]),
                          NEW l \in Used(services'[j]),
                          heap'[services'[j].instances][k].address =
                            heap'[services'[j].instances][l].address
                   PROVE  k = l
        BY <2>9
      <4>1. CASE j # i
        BY <4>1, <3>1, <3>4 DEF Exact, OnceEach
      <4>2. CASE j = i
        <5>1. /\ services'[j].instances = s.instances
              /\ heap'[s.instances][k].address = heap'[s.instances][l].address
          BY <4>2, <2>4
        <5>2. heap'[s.instances][s.count].address = a
          BY <2>3, <2>6
        <5>3. (k \in Used(s) \/ k = s.count) /\ (l \in Used(s) \/ l = s.count)
          BY <4>2, <3>3
        <5>4. CASE k \in Used(s) /\ l \in Used(s)
          <6>1. heap[s.instances][k].address = heap[s.instances][l].address
            BY <5>1, <5>4, <3>5
          <6> QED
            BY <5>4, <6>1, <3>7, Zenon
        <5>5. \A m \in Used(s) : heap'[s.instances][m].address # a
          BY <3>5
        <5>6. CASE k = s.count \/ l = s.count
          BY <5>1, <5>2, <5>3, <5>5, <5>6
        <5> QED
          BY <5>3, <5>4, <5>6
      <4> QED
        BY <4>1, <4>2
    <3>13. CountsKept
      <4> SUFFICES ASSUME NEW j \in Live
                   PROVE  \/ services[j].count = services'[j].count
                          \/ Under(services'[j].name, registered) #
                               Under(services'[j].name, registered')
        BY <2>8, <2>9, <1>2 DEF CountsKept
      <4>1. CASE j # i
        BY <4>1, <3>4
      <4>2. CASE j = i
        <5>1. services'[j].name = n
          BY <4>2, <3>2, <2>4
        <5>2. <<n, a>> \in Under(n, registered') /\ <<n, a>> \notin Under(n, registered)
          BY <3>8, <2>1 DEF Under
        <5> QED
          BY <5>1, <5>2
      <4> QED
        BY <4>1, <4>2
    <3> QED
      BY <3>9, <3>10, <3>11, <3>12, <3>13 DEF Exact, Distinct, Unshared, Owned, OnceEach, Used
  <2> QED
    BY <2>7, <2>10, <2>11, <2>12, <1>3 DEF Effect, RegistryInv
<1> QED
  BY <1>6, <1>7

LEMMA GoTyped ==
  ASSUME call \in [Registrars -> Calls], NEW p \in Registrars, call[p] # Idle,
         Go(p, "delete", call[p].index)
  PROVE  /\ call' \in [Registrars -> Calls]
         /\ \A q \in Registrars :
              call'[q] # Idle => call[q] # Idle /\ call'[q].index = call[q].index
<1> DEFINE i == call[p].index
           to == [call[p] EXCEPT !.at = "delete", !.index = i]
<1>1. to \in Calls /\ to.index = i
  <2>1. call[p] \in Calls
    OBVIOUS
  <2> QED
    BY <2>1 DEF Calls
<1>2. call' = [call EXCEPT ![p] = to]
  BY DEF Go
<1> HIDE DEF to
<1> QED
  BY <1>1, <1>2

\* The place of an address that is there.
LEMMA PlaceOfHas ==
  ASSUME NEW s, NEW a, Has(s, a)
  PROVE  PlaceOf(s, a) \in Used(s) /\ heap[s.instances][PlaceOf(s, a)].address = a
  BY DEF Has, InstancesOf, PlaceOf, Used

\* A removal moves up the instances after the one removed: `from' is where
\* the instance at a place came from.
LEMMA RemovesStep ==
  ASSUME RegistryInv, ~raced, NEW p \in Registrars, UnregisterRemoves(p)
  PROVE  Effect
<1> DEFINE i == call[p].index
           n == call[p].name
           a == call[p].address
           s == services[i]
<1>1. /\ call[p] # Idle /\ i \in Slots /\ n \in Names /\ a \in Addresses
      /\ s \in Services /\ s.name \in Names
  BY CallTyped DEF UnregisterRemoves
<1>2. /\ services \in [Slots -> Services] /\ heap \in [Slots -> [Places -> Instances]]
      /\ serviceCount \in Nat /\ serviceCount <= ServiceSize /\ Live \subseteq Slots
  BY Typing DEF RegistryInv
<1>3. raced' = ~Right(p) /\ serviceCount' = serviceCount /\ shared' = shared
  BY DEF UnregisterRemoves
<1>4. raced' \in BOOLEAN /\ (~raced' => Right(p))
  BY <1>3
<1>5. CASE ~Has(s, a)
  <2>1. UNCHANGED <<table, registered, shared>> /\ Return(p)
    BY <1>5 DEF UnregisterRemoves, table
  <2>2. /\ call' \in [Registrars -> Calls]
        /\ \A q \in Registrars : call'[q] # Idle => call'[q] = call[q]
    BY <2>1, ReturnTyped DEF RegistryInv
  <2>3. ASSUME NEW q \in Registrars, call'[q] # Idle
        PROVE  services[call'[q].index].name \in Names
    BY <2>2, <2>3 DEF RegistryInv, Named
  <2> QED
    BY <2>1, <2>2, <2>3, <1>4, TableSame
<1>6. CASE Has(s, a)
  <2> DEFINE at == PlaceOf(s, a)
             moved == MovedUp(s, a)
             from(k) == IF at <= k THEN k + 1 ELSE k
             row == heap[s.instances]
  <2>1. /\ heap' = [heap EXCEPT ![s.instances] = moved]
        /\ services' = [services EXCEPT ![i].count = @ - 1]
        /\ registered' = registered \ {<<n, a>>}
        /\ Go(p, "delete", i) \/ Return(p)
    BY <1>6 DEF UnregisterRemoves
  <2>2. at \in Used(s) /\ row[at].address = a
    BY <1>6, PlaceOfHas
  <2>3. /\ s.count \in Nat /\ s.count <= InstanceSize /\ s.instances \in Slots
        /\ s.count - 1 \in 0 .. InstanceSize /\ at \in Nat /\ at < s.count
        /\ row \in [Places -> Instances]
    <3>1. s.count \in 0 .. InstanceSize /\ s.instances \in Slots
      BY <1>1 DEF Services
    <3>2. row \in [Places -> Instances]
      BY <3>1, <1>2
    <3>3. at \in 0 .. s.count - 1
      BY <2>2 DEF Used
    <3> HIDE DEF at, row, s
    <3> QED
      BY <3>1, <3>2, <3>3, Sizes
  <2> HIDE DEF at
  <2>4. /\ moved \in [Places -> Instances]
        /\ \A k \in 0 .. s.count - 2 : moved[k] = row[from(k)]
    <3>1. \A k \in Places : moved[k] = IF at <= k /\ k < s.count - 1
                                       THEN row[k + 1] ELSE row[k]
      BY DEF MovedUp, at
    <3>2. moved = [k \in Places |-> moved[k]]
      BY DEF MovedUp
    <3> HIDE DEF moved, row
    <3>3. ASSUME NEW k \in Places, k < s.count - 1 PROVE k + 1 \in Places
      <4> HIDE DEF s
      <4> QED
        BY <2>3, <3>3, Sizes
    <3>4. ASSUME NEW k \in 0 .. s.count - 2 PROVE k \in Places /\ k < s.count - 1
      <4> HIDE DEF s
      <4> QED
        BY <2>3, Sizes
    <3>5. \A k \in Places : moved[k] \in Instances
      BY <3>1, <3>3, <2>3
    <3>6. moved \in [Places -> Instances]
      BY <3>2, <3>5
    <3>7. \A k \in 0 .. s.count - 2 : moved[k] = row[from(k)]
      BY <3>1, <3>4
    <3> QED
      BY <3>6, <3>7
  <2> HIDE DEF moved
  <2>5. /\ services'[i].name = s.name /\ services'[i].instances = s.instances
        /\ services'[i].count = s.count - 1
        /\ services'[i] \in Services
    <3>1. services'[i] = [s EXCEPT !.count = s.count - 1]
      BY <2>1, <1>1, <1>2
    <3> QED
      BY <3>1, <1>1, <2>3 DEF Services
  <2>6. /\ \A j \in Slots : j # i => services'[j] = services[j]
        /\ services' \in [Slots -> Services]
    BY <2>1, <2>5, <1>1, <1>2
  <2>7. /\ heap' \in [Slots -> [Places -> Instances]]
        /\ \A b \in Slots : b # s.instances => heap'[b] = heap[b]
        /\ heap'[s.instances] = moved
    BY <2>1, <2>3, <2>4, <1>2
  <2>8. RegistryTypeOK'
    <3>1. registered' \in SUBSET (Names \X Addresses) /\ shared' \in BOOLEAN
      BY <2>1, <1>3 DEF RegistryInv, RegistryTypeOK
    <3>2. serviceCount' \in Int /\ serviceCount' <= ServiceSize /\ serviceCount' >= 0
      BY <1>2, <1>3
    <3> QED
      BY <3>1, <3>2, <2>6, <2>7, <1>4, TypingPrime
  <2>9. \A j \in Slots : /\ services'[j].name = services[j].name
                         /\ services'[j].instances = services[j].instances
    BY <2>5, <2>6
  <2>10. Live' = Live
    BY <1>3 DEF Live
  <2>11. /\ call' \in [Registrars -> Calls]
         /\ \A q \in Registrars :
              call'[q] # Idle => call[q] # Idle /\ call'[q].index = call[q].index
    <3>1. CASE Go(p, "delete", i)
      BY <3>1, <1>1, GoTyped DEF RegistryInv
    <3>2. CASE Return(p)
      BY <3>2, ReturnTyped DEF RegistryInv
    <3> QED
      BY <3>1, <3>2, <2>1
  <2>12. Named'
    <3>1. ASSUME NEW j \in Live' PROVE services'[j].name \in Names
      BY <2>9, <2>10, <1>2 DEF RegistryInv, Named
    <3>2. ASSUME NEW q \in Registrars, call'[q] # Idle
          PROVE  services'[call'[q].index].name \in Names
      <4>1. call[q] \in Calls /\ call[q] # Idle /\ call'[q].index = call[q].index
        BY <3>2, <2>11 DEF RegistryInv
      <4>2. call[q].index \in Slots
        BY <4>1 DEF Calls
      <4> QED
        BY <4>1, <4>2, <2>9 DEF RegistryInv, Named
    <3> QED
      BY <3>1, <3>2 DEF Named
  <2>13. NamesKept /\ PlacesKept
    BY <2>9, <2>10, <1>2 DEF NamesKept, PlacesKept
  <2>14. ASSUME Sound' PROVE Exact' /\ CountsKept
    <3>1. Exact /\ Right(p)
      BY <2>14, <1>3, <1>4 DEF Sound, RegistryInv
    <3>2. i \in Live /\ s.name = n
      BY <3>1, RightPlace DEF UnregisterRemoves
    <3>3. Used(s) = 0 .. s.count - 1 /\ Used(services'[i]) = 0 .. s.count - 2
      <4>1. Used(services'[i]) = 0 .. (s.count - 1) - 1
        BY <2>5 DEF Used
      <4> QED
        BY <4>1, <2>3 DEF Used
    <3>4. \A j \in Live : j # i =>
            services'[j] = services[j]
              /\ heap'[services[j].instances] = heap[services[j].instances]
      <4>1. ASSUME NEW j \in Live, j # i PROVE services[j].instances \in Slots
        BY <1>2 DEF Services
      <4> QED
        BY <4>1, <2>6, <2>7, <3>1, <3>2, <1>2 DEF Exact, Unshared
    <3>5. \A k \in Used(services'[i]) :
            /\ from(k) \in Used(s) /\ from(k) # at
            /\ heap'[services'[i].instances][k] = row[from(k)]
      <4>1. \A k \in 0 .. s.count - 2 : from(k) \in 0 .. s.count - 1 /\ from(k) # at
        BY <2>3
      <4> QED
        BY <4>1, <3>3, <2>4, <2>5, <2>7
    <3>6. \A k, l \in Used(services'[i]) : from(k) = from(l) => k = l
      <4>1. \A k, l \in 0 .. s.count - 2 : from(k) = from(l) => k = l
        BY <2>3
      <4> QED
        BY <4>1, <3>3
    <3>7. \A l \in Used(s) : l # at => \E k \in Used(services'[i]) : l = from(k)
      <4> SUFFICES ASSUME NEW l \in 0 .. s.count - 1, l # at
                   PROVE  \E k \in 0 .. s.count - 2 : l = from(k)
        BY <3>3
      <4>1. CASE l < at
        BY <4>1, <2>3
      <4>2. CASE at < l
        <5>1. l - 1 \in 0 .. s.count - 2 /\ l = from(l - 1)
          BY <4>2, <2>3
        <5> QED
          BY <5>1
      <4> QED
        BY <4>1, <4>2, <2>3
    <3> HIDE DEF from
    <3>8. \A l \in Used(s) : row[l].address = a => l = at
      BY <2>2, <3>1, <3>2 DEF Exact, OnceEach
    <3>9. <<n, a>> \in registered
      BY <2>2, <3>1, <3>2, TableMember DEF Exact
    <3>10. Table' = registered'
      <4>1. ASSUME NEW r PROVE r \in Table' <=> r \in Table /\ r # <<n, a>>
        <5>1. ASSUME r \in Table' PROVE r \in Table /\ r # <<n, a>>
          <6>1. PICK j, k : j \in Live /\ k \in Used(services'[j]) /\
                  r = <<services'[j].name, heap'[services'[j].instances][k].address>>
            BY <5>1, <2>10, TableMemberPrime
          <6>2. CASE j # i
            <7>1. services[j].name # n
              BY <6>1, <6>2, <3>1, <3>2 DEF Exact, Distinct
            <7> QED
              BY <6>1, <6>2, <7>1, <3>4, TableMember
          <6>3. CASE j = i
            <7>1. /\ from(k) \in Used(s) /\ from(k) # at
                  /\ r = <<n, row[from(k)].address>>
              BY <6>1, <6>3, <3>2, <3>5, <2>5
            <7>2. row[from(k)].address # a
              BY <7>1, <3>8
            <7>3. r \in Table
              BY <7>1, <3>2, TableMember
            <7> QED
              BY <7>1, <7>2, <7>3
          <6> QED
            BY <6>2, <6>3
        <5>2. ASSUME r \in Table, r # <<n, a>> PROVE r \in Table'
          <6>1. PICK j, k : j \in Live /\ k \in Used(services[j]) /\
                  r = <<services[j].name, heap[services[j].instances][k].address>>
            BY <5>2, TableMember
          <6>2. CASE j # i
            BY <6>1, <6>2, <3>4, <2>10, TableMemberPrime
          <6>3. CASE j = i
            <7>1. k # at
              BY <6>1, <6>3, <5>2, <2>2, <3>2
            <7>2. PICK l \in Used(services'[i]) : k = from(l)
              BY <7>1, <6>1, <6>3, <3>7
            <7>3. /\ i \in Live'
                  /\ r = <<services'[i].name, heap'[services'[i].instances][l].address>>
              BY <6>1, <6>3, <7>2, <3>5, <3>2, <2>5, <2>10
            <7> QED
              BY <7>3, TableMemberPrime
          <6> QED
            BY <6>2, <6>3
        <5> QED
          BY <5>1, <5>2
      <4>2. Table' = Table \ {<<n, a>>}
        BY <4>1
      <4> QED
        BY <4>2, <2>1, <3>1 DEF Exact
    <3>11. /\ \A j, l \in Live' : services'[j].name = services'[l].name => j = l
           /\ \A j, l \in Live' : services'[j].instances = services'[l].instances => j = l
      BY <2>9, <2>10, <1>2, <3>1 DEF Exact, Distinct, Unshared
    <3>12. \A j \in Live' : \A k \in Used(services'[j]) :
             heap'[services'[j].instances][k].service = services'[j].name
      <4> SUFFICES ASSUME NEW j \in Live, NEW k \in Used(services'[j])
                   PROVE  heap'[services'[j].instances][k].service = services'[j].name
        BY <2>10
      <4>1. CASE j # i
        BY <4>1, <3>1, <3>4 DEF Exact, Owned
      <4>2. CASE j = i
        BY <4>2, <3>1, <3>2, <3>5, <2>5 DEF Exact, Owned
      <4> QED
        BY <4>1, <4>2
    <3>13. \A j \in Live' : \A k, l \in Used(services'[j]) :
             heap'[services'[j].instances][k].address = heap'[services'[j].instances][l].address
               => k = l
      <4> SUFFICES ASSUME NEW j \in Live, NEW k \in Used(services'[j]),
                          NEW l \in Used(services'[j]),
                          heap'[services'[j].instances][k].address =
                            heap'[services'[j].instances][l].address
                   PROVE  k = l
        BY <2>10
      <4>1. CASE j # i
        BY <4>1, <3>1, <3>4 DEF Exact, OnceEach
      <4>2. CASE j = i
        <5>1. /\ from(k) \in Used(s) /\ from(l) \in Used(s)
              /\ row[from(k)].address = row[from(l)].address
          BY <4>2, <3>5
        <5>2. from(k) = from(l)
          BY <5>1, <3>1, <3>2 DEF Exact, OnceEach
        <5> QED
          BY <5>2, <4>2, <3>6
      <4> QED
        BY <4>1, <4>2
    <3>14. CountsKept
      <4> SUFFICES ASSUME NEW j \in Live
                   PROVE  \/ services[j].count = services'[j].count
                          \/ Under(services'[j].name, registered) #
                               Under(services'[j].name, registered')
        BY <2>9, <2>10, <1>2 DEF CountsKept
      <4>1. CASE j # i
        BY <4>1, <3>4
      <4>2. CASE j = i
        <5>1. services'[j].name = n
          BY <4>2, <3>2, <2>5
        <5>2. <<n, a>> \notin Under(n, registered') /\ <<n, a>> \in Under(n, registered)
          BY <3>9, <2>1 DEF Under
        <5> QED
          BY <5>1, <5>2
      <4> QED
        BY <4>1, <4>2
    <3> QED
      BY <3>10, <3>11, <3>12, <3>13, <3>14 DEF Exact, Distinct, Unshared, Owned, OnceEach, Used
  <2> QED
    BY <2>8, <2>11, <2>12, <2>13, <2>14 DEF Effect, RegistryInv
<1> QED
  BY <1>5, <1>6

\* An empty service goes, and those after it move up by one.
LEMMA DeletesStep ==
  ASSUME RegistryInv, ~raced, NEW p \in Registrars, UnregisterDeletes(p)
  PROVE  Effect
<1> DEFINE i == call[p].index
           from(j) == IF i <= j THEN j + 1 ELSE j
<1>1. call[p] # Idle /\ i \in Slots /\ i \in Nat
  BY CallTyped, Sizes DEF UnregisterDeletes
<1>2. /\ services \in [Slots -> Services] /\ heap \in [Slots -> [Places -> Instances]]
      /\ serviceCount \in Nat /\ serviceCount <= ServiceSize /\ Live \subseteq Slots
      /\ Live = 0 .. serviceCount - 1
  BY Typing DEF RegistryInv, Live
<1>3. /\ call' \in [Registrars -> Calls]
      /\ \A q \in Registrars : call'[q] # Idle => call'[q] = call[q]
  BY ReturnTyped DEF RegistryInv, UnregisterDeletes
<1>4. /\ raced' = (~Right(p) \/ services[i].count > 0)
      /\ serviceCount' = serviceCount - 1 /\ shared' = shared
      /\ heap' = heap /\ registered' = registered /\ services' = Closed(i)
  BY DEF UnregisterDeletes
<1>5. raced' \in BOOLEAN /\ (~raced' => Right(p) /\ ~(services[i].count > 0))
  BY <1>4
<1>6. Right(p) => i \in Live
  BY <1>1, <1>2 DEF Right
<1>7. \A j \in Slots :
        /\ services'[j] = services[j]
             \/ (j + 1 \in Live /\ services'[j] = services[j + 1])
        /\ j < serviceCount - 1 => services'[j] = services[from(j)]
  <2> SUFFICES ASSUME NEW j \in Slots
               PROVE  /\ services'[j] = services[j]
                           \/ (j + 1 \in Live /\ services'[j] = services[j + 1])
                      /\ j < serviceCount - 1 => services'[j] = services[from(j)]
    OBVIOUS
  <2>1. j \in Nat
    BY Sizes
  <2>2. services'[j] = IF i <= j /\ j < serviceCount - 1 THEN services[j + 1]
                       ELSE services[j]
    BY <1>4 DEF Closed
  <2> QED
    BY <2>1, <2>2, <1>1, <1>2
<1>8. services' \in [Slots -> Services]
  <2>1. \A j \in Slots : services'[j] \in Services
    BY <1>7, <1>2
  <2> QED
    BY <2>1, <1>4 DEF Closed
<1>9. RegistryTypeOK'
  <2>1. registered' \in SUBSET (Names \X Addresses) /\ shared' \in BOOLEAN
    BY <1>4 DEF RegistryInv, RegistryTypeOK
  <2>2. /\ serviceCount' \in Int /\ serviceCount' <= ServiceSize
        /\ serviceCount' >= 0 \/ (raced' /\ serviceCount' = -1)
    <3>1. CASE serviceCount = 0
      BY <3>1, <1>1, <1>2, <1>4, <1>5, <1>6, Sizes
    <3>2. CASE serviceCount # 0
      BY <3>2, <1>2, <1>4, Sizes
    <3> QED
      BY <3>1, <3>2
  <2> QED
    BY <2>1, <2>2, <1>2, <1>4, <1>5, <1>8, TypingPrime
<1>10. NamesKept
  BY <1>7 DEF NamesKept, RegistryInv, Named
<1>11. Live' = 0 .. serviceCount - 2 /\ Live' \subseteq Live
  <2>1. Live' = 0 .. (serviceCount - 1) - 1
    BY <1>4 DEF Live
  <2> QED
    BY <2>1, <1>2
<1>12. Named'
  <2>1. ASSUME NEW j \in Live' PROVE services'[j].name \in Names
    <3>1. j \in Live /\ j \in Slots /\ services[j].name \in Names
      BY <1>2, <1>11 DEF RegistryInv, Named
    <3> QED
      BY <3>1, <1>10 DEF NamesKept
  <2>2. ASSUME NEW q \in Registrars, call'[q] # Idle
        PROVE  services'[call'[q].index].name \in Names
    <3>1. call'[q] = call[q] /\ call[q] \in Calls /\ call[q] # Idle
      BY <2>2, <1>3 DEF RegistryInv
    <3>2. call[q].index \in Slots
      BY <3>1 DEF Calls
    <3> QED
      BY <3>1, <3>2, <1>10 DEF RegistryInv, Named, NamesKept
  <2> QED
    BY <2>1, <2>2 DEF Named
<1>13. ASSUME Sound' PROVE Exact' /\ CountsKept /\ PlacesKept
  <2>1. Exact /\ i \in Live /\ ~(services[i].count > 0)
    BY <1>13, <1>4, <1>5, <1>6 DEF Sound, RegistryInv
  <2>2. /\ \A j \in Live' : from(j) \in Live /\ from(j) # i /\ services'[j] = services[from(j)]
        /\ \A j, l \in Live' : from(j) = from(l) => j = l
        /\ \A m \in Live : m # i => \E j \in Live' : m = from(j)
    <3>1. \A j \in Live' : j \in Nat /\ j \in Slots /\ j < serviceCount - 1
      BY <1>2, <1>11
    <3>2. \A j \in Live' : from(j) \in Live /\ from(j) # i /\ services'[j] = services[from(j)]
      BY <3>1, <1>1, <1>2, <1>7
    <3>3. \A j, l \in Live' : from(j) = from(l) => j = l
      BY <3>1, <1>1
    <3>4. ASSUME NEW m \in Live, m # i PROVE \E j \in Live' : m = from(j)
      <4>1. CASE m < i
        BY <4>1, <2>1, <1>1, <1>2, <1>11
      <4>2. CASE i < m
        <5>1. m - 1 \in Live' /\ m = from(m - 1)
          BY <4>2, <1>1, <1>2, <1>11
        <5> QED
          BY <5>1
      <4> QED
        BY <4>1, <4>2, <3>4, <1>1, <1>2
    <3> QED
      BY <3>2, <3>3, <3>4
  <2> HIDE DEF from
  <2>3. Used(services[i]) = {}
    <3>1. services[i].count \in Nat
      BY <1>1, <1>2 DEF Services
    <3> QED
      BY <3>1, <2>1 DEF Used
  <2>4. Table' = registered'
    <3>1. ASSUME NEW r PROVE r \in Table' <=> r \in Table
      <4>1. ASSUME r \in Table' PROVE r \in Table
        <5>1. PICK j, k : j \in Live' /\ k \in Used(services'[j]) /\
                r = <<services'[j].name, heap'[services'[j].instances][k].address>>
          BY <4>1, TableMemberPrime
        <5> QED
          BY <5>1, <2>2, <1>4, TableMember
      <4>2. ASSUME r \in Table PROVE r \in Table'
        <5>1. PICK m, k : m \in Live /\ k \in Used(services[m]) /\
                r = <<services[m].name, heap[services[m].instances][k].address>>
          BY <4>2, TableMember
        <5>2. m # i
          BY <5>1, <2>3
        <5>3. PICK j \in Live' : m = from(j)
          BY <5>1, <5>2, <2>2
        <5> QED
          BY <5>1, <5>3, <2>2, <1>4, TableMemberPrime
      <4> QED
        BY <4>1, <4>2
    <3>2. Table' \subseteq Table /\ Table \subseteq Table'
      BY <3>1
    <3> QED
      BY <3>2, <2>1, <1>4 DEF Exact
  <2>5. /\ \A j, l \in Live' : services'[j].name = services'[l].name => j = l
        /\ \A j, l \in Live' : services'[j].instances = services'[l].instances => j = l
    BY <2>1, <2>2 DEF Exact, Distinct, Unshared
  <2>6. \A j \in Live' : \A k \in Used(services'[j]) :
          heap'[services'[j].instances][k].service = services'[j].name
    BY <2>1, <2>2, <1>4 DEF Exact, Owned
  <2>7. \A j \in Live' : \A k, l \in Used(services'[j]) :
          heap'[services'[j].instances][k].address = heap'[services'[j].instances][l].address
            => k = l
    <3> SUFFICES ASSUME NEW j \in Live'
                 PROVE  \A k, l \in Used(services'[j]) :
                          heap'[services'[j].instances][k].address =
                            heap'[services'[j].instances][l].address => k = l
      OBVIOUS
    <3>1. from(j) \in Live /\ services'[j] = services[from(j)] /\ heap' = heap
      BY <2>2, <1>4
    <3>2. \A k, l \in Used(services[from(j)]) :
            heap[services[from(j)].instances][k].address =
              heap[services[from(j)].instances][l].address => k = l
      BY <3>1, <2>1 DEF Exact, OnceEach
    <3> QED
      BY <3>1, <3>2
  <2>8. CountsKept
    BY <2>2 DEF CountsKept
  <2>9. PlacesKept
    BY <1>2, <1>4 DEF PlacesKept
  <2> QED
    BY <2>4, <2>5, <2>6, <2>7, <2>8, <2>9 DEF Exact, Distinct, Unshared, Owned, OnceEach, Used
<1> QED
  BY <1>3, <1>9, <1>10, <1>12, <1>13 DEF Effect, RegistryInv

LEMMA RegistrarStep ==
  ASSUME RegistryInv, NEW p \in Registrars, Registrar(p)
  PROVE  Effect
<1>1. ~raced
  BY DEF Registrar
<1>2. CASE \E n \in Names, a \in Addresses :
             RegisterFound(p, n, a) \/ RegisterCreates(p, n, a) \/ UnregisterFound(p, n, a)
  BY <1>1, <1>2, FoundStep, CreatesStep
<1>3. CASE RegisterInserts(p) \/ UnregisterRemoves(p) \/ UnregisterDeletes(p)
  BY <1>1, <1>3, InsertsStep, RemovesStep, DeletesStep
<1> QED
  BY <1>2, <1>3 DEF Registrar

-----------------------------------------------------------------------------
(* The choices                                                             *)

Wrapped(v, c) == IF v < c THEN v ELSE v - c

\* Turns q of c instances, and the cursors that they leave under a name.
InTurn(q, c, cursors, n) ==
  /\ \A b \in DOMAIN q : b > 1 => q[b] < c
  /\ q # <<>> => /\ n \in DOMAIN cursors /\ cursors[n] < c
                 /\ q[Len(q)] < c => cursors[n] = Wrapped(q[Len(q)] + 1, c)
  /\ \A a, b \in DOMAIN q :
       a < b /\ b - a < c /\ q[a] < c => q[b] = Wrapped(q[a] + (b - a), c)

Turns ==
  \A i \in Live :
    LET n == services[i].name
        c == services[i].count
    IN c > 0 => InTurn(served[n], c, cursor, n)

\* A lookup is right until a service is removed.
Found ==
  \A t \in Threads :
    pick[t] # NoPick /\ ~pick[t].moved =>
      pick[t].index \in Live /\ services[pick[t].index].name = pick[t].name

BalancerTyped ==
  /\ DOMAIN cursor \subseteq Names /\ IsFiniteSet(DOMAIN cursor)
  /\ Cardinality(DOMAIN cursor) <= MaxStates
  /\ \A n \in DOMAIN cursor : cursor[n] \in Places
  /\ selects \in 0 .. MaxSelects
  /\ pick \in [Threads -> Picks]
  /\ served \in [Names -> Seq(Places)]
  /\ \A t \in Threads :
       pick[t] # NoPick => services[pick[t].index].name \in Names

IInv ==
  /\ RegistryInv
  /\ BalancerTyped
  /\ Sound => Found /\ Turns
  /\ ~stray

\* The remainder, as one wrap.
LEMMA NextIndexWraps ==
  ASSUME NEW k \in Nat, NEW c \in Nat \ {0}
  PROVE  /\ NextIndex(k, c) \in 0 .. c - 1
         /\ k < c => NextIndex(k, c) = Wrapped(k + 1, c)
<1>1. (k + 1) % c \in 0 .. c - 1
  OBVIOUS
<1>2. ASSUME k < c PROVE (k + 1) % c = Wrapped(k + 1, c)
  <2>1. CASE k + 1 < c
    BY <2>1 DEF Wrapped
  <2>2. CASE k + 1 = c
    <3>1. c % c = 0
      OBVIOUS
    <3> QED
      BY <2>2, <3>1 DEF Wrapped
  <2> QED
    BY <2>1, <2>2, <1>2
<1> QED
  BY <1>1, <1>2 DEF NextIndex

\* Wrapping after every step is wrapping once.
LEMMA WrapsOn ==
  ASSUME NEW x \in Nat, NEW d \in Nat, NEW c \in Nat \ {0}, x < c, d + 1 < c
  PROVE  Wrapped(Wrapped(x + d, c) + 1, c) = Wrapped(x + (d + 1), c)
<1>1. CASE x + d + 1 < c
  BY <1>1 DEF Wrapped
<1>2. CASE x + d + 1 = c
  BY <1>2 DEF Wrapped
<1>3. CASE x + d >= c
  BY <1>3 DEF Wrapped
<1> QED
  BY <1>1, <1>2, <1>3

LEMMA InitInv == Init => IInv
<1> SUFFICES ASSUME Init PROVE IInv
  OBVIOUS
<1>1. /\ services = [i \in Slots |-> [name |-> NoName, instances |-> i, count |-> 0]]
      /\ heap = [i \in Slots |-> [k \in Places |-> Garbage]]
      /\ serviceCount = 0 /\ call = [p \in Registrars |-> Idle]
      /\ registered = {} /\ shared = FALSE /\ raced = FALSE
  BY DEF Init, RegistryInit
<1>2. Live = {}
  BY <1>1 DEF Live
<1>3. RegistryTypeOK
  <2>1. Garbage \in Instances
    BY DEF Garbage, Instances
  <2>2. services \in [Slots -> Services] /\ heap \in [Slots -> [Places -> Instances]]
    BY <1>1, <2>1, Sizes DEF Services
  <2>3. serviceCount \in (IF raced THEN -1 ELSE 0) .. ServiceSize
    BY <1>1, Sizes
  <2> QED
    BY <1>1, <2>2, <2>3 DEF RegistryTypeOK, Services
<1>4. call \in [Registrars -> Calls] /\ Named
  BY <1>1, <1>2 DEF Calls, Named
<1>5. Exact
  <2>1. Table = {}
    BY <1>2 DEF Table
  <2> QED
    BY <1>1, <1>2, <2>1 DEF Exact, Distinct, Unshared, Owned, OnceEach
<1>6. BalancerTyped
  <2>1. /\ cursor = NoCursors /\ pick = [t \in Threads |-> NoPick] /\ selects = 0
        /\ served = [n \in Names |-> <<>>]
    BY DEF Init
  <2>2. DOMAIN cursor = {}
    BY <2>1 DEF NoCursors
  <2>3. IsFiniteSet(DOMAIN cursor) /\ Cardinality(DOMAIN cursor) = 0
    BY <2>2, FS_EmptySet
  <2>4. served \in [Names -> Seq(Places)]
    BY <2>1
  <2>5. /\ pick \in [Threads -> Picks]
        /\ \A t \in Threads : pick[t] = NoPick
    BY <2>1 DEF Picks
  <2> QED
    BY <2>1, <2>2, <2>3, <2>4, <2>5, SelectsAssumption DEF BalancerTyped
<1>7. Found /\ Turns
  BY <1>2 DEF Init, Found, Turns
<1>8. ~stray
  BY DEF Init
<1> QED
  BY <1>3, <1>4, <1>5, <1>6, <1>7, <1>8 DEF IInv, RegistryInv

\* Nothing chosen is in turn.
LEMMA NoTurns ==
  ASSUME NEW c, NEW cursors, NEW n
  PROVE  InTurn(<<>>, c, cursors, n)
  BY DEF InTurn

\* Of a registrar's step the threads that choose see its Effect only.
LEMMA RegistrationStep ==
  ASSUME IInv, Registration
  PROVE  IInv'
<1>1. PICK p \in Registrars : Registrar(p)
  BY DEF Registration
<1>2. Effect
  BY <1>1, RegistrarStep DEF IInv
<1>3. /\ UNCHANGED <<cursor, selects, stray>>
      /\ served' = [n \in Names |->
                      IF Under(n, registered) = Under(n, registered')
                      THEN served[n] ELSE <<>>]
      /\ pick' = [t \in Threads |->
                    IF pick[t] # NoPick /\ serviceCount' < serviceCount
                    THEN [pick[t] EXCEPT !.moved = TRUE] ELSE pick[t]]
  BY DEF Registration, Under
<1>4. ASSUME NEW t \in Threads
      PROVE  /\ pick'[t] \in Picks
             /\ pick'[t] # NoPick =>
                  /\ pick[t] # NoPick /\ pick'[t].index = pick[t].index
                  /\ pick'[t].name = pick[t].name /\ pick[t].index \in Slots
                  /\ ~pick'[t].moved => ~(serviceCount' < serviceCount) /\ ~pick[t].moved
  <2>1. pick[t] \in Picks
    BY DEF IInv, BalancerTyped
  <2>2. CASE pick[t] # NoPick /\ serviceCount' < serviceCount
    <3>1. pick'[t] = [pick[t] EXCEPT !.moved = TRUE]
      BY <2>2, <1>3
    <3> QED
      BY <3>1, <2>1, <2>2 DEF Picks, NoPick
  <2>3. CASE ~(pick[t] # NoPick /\ serviceCount' < serviceCount)
    <3>1. pick'[t] = pick[t]
      BY <2>3, <1>3
    <3> QED
      BY <3>1, <2>1, <2>3 DEF Picks
  <2> QED
    BY <2>2, <2>3
<1>5. BalancerTyped'
  <2>1. pick' \in [Threads -> Picks]
    BY <1>3, <1>4
  <2>2. served' \in [Names -> Seq(Places)]
    <3>1. \A n \in Names : served[n] \in Seq(Places)
      BY DEF IInv, BalancerTyped
    <3>2. <<>> \in Seq(Places)
      OBVIOUS
    <3> QED
      BY <1>3, <3>1, <3>2
  <2>3. ASSUME NEW t \in Threads, pick'[t] # NoPick
        PROVE  services'[pick'[t].index].name \in Names
    BY <2>3, <1>2, <1>4 DEF Effect, NamesKept, IInv, BalancerTyped
  <2> QED
    BY <2>1, <2>2, <2>3, <1>3 DEF IInv, BalancerTyped
<1>6. ASSUME Sound' PROVE Found' /\ Turns'
  <2>1. Sound
    <3>1. shared => shared'
      BY <1>1 DEF Registrar, RegisterFound, RegisterCreates, UnregisterFound,
                  RegisterInserts, UnregisterRemoves, UnregisterDeletes
    <3> QED
      BY <1>1, <1>6, <3>1 DEF Sound, Registrar
  <2>2. /\ Found /\ Turns /\ PlacesKept /\ CountsKept
        /\ \A i \in Live' : services'[i].name \in Names
    BY <2>1, <1>2, <1>6 DEF IInv, Effect, RegistryInv, Named
  <2>3. Found'
    <3> SUFFICES ASSUME NEW t \in Threads, pick'[t] # NoPick, ~pick'[t].moved
                 PROVE  /\ pick'[t].index \in Live'
                        /\ services'[pick'[t].index].name = pick'[t].name
      BY DEF Found
    <3> QED
      BY <1>4, <2>2 DEF Found, PlacesKept
  <2>4. Turns'
    <3> SUFFICES ASSUME NEW i \in Live', services'[i].count > 0
                 PROVE  InTurn(served'[services'[i].name], services'[i].count,
                               cursor', services'[i].name)
      BY DEF Turns
    <3> DEFINE n == services'[i].name
               c == services'[i].count
    <3>1. n \in Names /\ cursor' = cursor
      BY <2>2, <1>3
    <3>2. PICK j \in Live : /\ services[j].name = n
                            /\ \/ services[j].count = c
                               \/ Under(n, registered) # Under(n, registered')
      BY <2>2 DEF CountsKept
    <3> HIDE DEF n, c
    <3>3. CASE Under(n, registered) # Under(n, registered')
      <4>1. served'[n] = <<>>
        BY <3>1, <3>3, <1>3
      <4> QED
        BY <4>1, NoTurns DEF n, c
    <3>4. CASE Under(n, registered) = Under(n, registered')
      <4>1. served'[n] = served[n] /\ services[j].count = c /\ c > 0
        BY <3>1, <3>2, <3>4, <1>3 DEF c
      <4>2. InTurn(served[n], c, cursor, n)
        BY <4>1, <3>2, <2>2 DEF Turns
      <4> QED
        BY <4>1, <4>2, <3>1 DEF n, c
    <3> QED
      BY <3>3, <3>4
  <2> QED
    BY <2>3, <2>4
<1> QED
  BY <1>2, <1>3, <1>5, <1>6 DEF IInv, Effect

\* A step that leaves the registry and the cursors alone.
LEMMA LookupSame ==
  ASSUME IInv, UNCHANGED <<registryVars, cursor, selects, served, stray>>,
         NEW t \in Threads, NEW to \in Picks, pick' = [pick EXCEPT ![t] = to],
         to # NoPick => /\ to.index \in Live /\ services[to.index].name = to.name
                        /\ to.name \in Names
  PROVE  IInv'
<1>1. /\ services' = services /\ heap' = heap /\ serviceCount' = serviceCount
      /\ call' = call /\ registered' = registered
      /\ shared' = shared /\ raced' = raced
      /\ UNCHANGED <<cursor, selects, served, stray>>
  BY DEF registryVars, table
<1>2. RegistryInv' /\ Live' = Live
  BY <1>1, RegistrySame DEF IInv, table
<1>4. \A u \in Threads : pick'[u] = IF u = t THEN to ELSE pick[u]
  BY DEF IInv, BalancerTyped
<1>5. BalancerTyped'
  <2>1. pick' \in [Threads -> Picks]
    BY DEF IInv, BalancerTyped
  <2>2. \A u \in Threads : pick'[u] # NoPick => services'[pick'[u].index].name \in Names
    BY <1>1, <1>4 DEF IInv, BalancerTyped
  <2> QED
    BY <2>1, <2>2, <1>1 DEF IInv, BalancerTyped
<1>6. Sound' => Found' /\ Turns'
  <2>1. Sound' => Found /\ Turns
    BY <1>1 DEF IInv, Sound
  <2>2. Found => Found'
    BY <1>1, <1>2, <1>4 DEF Found
  <2>3. Turns => Turns'
    BY <1>1, <1>2 DEF Turns
  <2> QED
    BY <2>1, <2>2, <2>3
<1> QED
  BY <1>1, <1>2, <1>5, <1>6 DEF IInv

LEMMA SelectFindsStep ==
  ASSUME IInv, NEW t \in Threads, NEW n \in Names, SelectFinds(t, n)
  PROVE  IInv'
<1> DEFINE to == [at |-> "choose", name |-> n, index |-> IndexOf(n), moved |-> FALSE]
<1>1. /\ Holding(n) # {} /\ pick' = [pick EXCEPT ![t] = to]
      /\ UNCHANGED <<registryVars, cursor, selects, served, stray>>
  BY DEF SelectFinds
<1>2. IndexOf(n) \in Live /\ services[IndexOf(n)].name = n /\ IndexOf(n) \in Slots
  BY <1>1, IndexOfHolding, Typing DEF IInv, RegistryInv
<1>3. to \in Picks /\ to.index = IndexOf(n) /\ to.name = n
  BY <1>2 DEF Picks
<1> HIDE DEF to
<1> QED
  BY <1>1, <1>2, <1>3, LookupSame

LEMMA SelectNoneStep ==
  ASSUME IInv, NEW t \in Threads, SelectNone(t)
  PROVE  IInv'
<1>1. NoPick \in Picks
  BY DEF Picks
<1> QED
  BY <1>1, LookupSame DEF SelectNone

(* One more turn: the instance at the cursor.                              *)
LEMMA NextTurn ==
  ASSUME NEW q \in Seq(Places), NEW c \in Nat \ {0}, NEW cursors, NEW n,
         NEW k \in Places, InTurn(q, c, cursors, n), q # <<>> => k = cursors[n],
         NEW next, n \in DOMAIN next, next[n] = NextIndex(k, c)
  PROVE  InTurn(Append(q, k), c, next, n)
<1> DEFINE L == Len(q)
           r == Append(q, k)
<1>1. k \in Nat /\ \A a \in 1 .. L : q[a] \in Nat
  BY Sizes
<1>2. next[n] \in 0 .. c - 1 /\ (k < c => next[n] = Wrapped(k + 1, c))
  BY <1>1, NextIndexWraps
<1>3. /\ L \in Nat /\ DOMAIN q = 1 .. L /\ DOMAIN r = 1 .. L + 1
      /\ Len(r) = L + 1 /\ r # <<>> /\ r[L + 1] = k
      /\ \A a \in 1 .. L : r[a] = q[a]
      /\ q # <<>> <=> L > 0
  <2>1. L \in Nat /\ DOMAIN q = 1 .. L /\ (q # <<>> <=> L > 0)
    OBVIOUS
  <2>2. r \in Seq(Places) /\ Len(r) = L + 1
    OBVIOUS
  <2>3. r[L + 1] = k /\ \A a \in 1 .. L : r[a] = q[a]
    OBVIOUS
  <2> HIDE DEF L, r
  <2>4. DOMAIN r = 1 .. L + 1 /\ r # <<>>
    BY <2>1, <2>2
  <2> QED
    BY <2>1, <2>2, <2>3, <2>4
<1> HIDE DEF L, r
<1>4. L > 0 => k < c /\ (q[L] < c => k = Wrapped(q[L] + 1, c))
  BY <1>3 DEF InTurn, L
<1>5. \A b \in 1 .. L + 1 : b > 1 => r[b] < c
  <2> SUFFICES ASSUME NEW b \in 1 .. L + 1, b > 1 PROVE r[b] < c
    OBVIOUS
  <2>1. CASE b = L + 1
    BY <2>1, <1>3, <1>4
  <2>2. CASE b # L + 1
    <3>1. b \in DOMAIN q /\ r[b] = q[b]
      BY <2>2, <1>3
    <3> QED
      BY <3>1 DEF InTurn
  <2> QED
    BY <2>1, <2>2
<1>6. \A a, b \in 1 .. L + 1 :
        a < b /\ b - a < c /\ r[a] < c => r[b] = Wrapped(r[a] + (b - a), c)
  <2> SUFFICES ASSUME NEW a \in 1 .. L + 1, NEW b \in 1 .. L + 1,
                      a < b, b - a < c, r[a] < c
               PROVE  r[b] = Wrapped(r[a] + (b - a), c)
    OBVIOUS
  <2>1. a \in 1 .. L /\ r[a] = q[a] /\ q[a] \in Nat
    BY <1>1, <1>3
  <2>2. CASE b # L + 1
    <3>1. b \in DOMAIN q /\ a \in DOMAIN q /\ r[b] = q[b]
      BY <2>1, <2>2, <1>3
    <3> QED
      BY <3>1, <2>1 DEF InTurn
  <2>3. CASE b = L + 1 /\ a = L
    <3>1. k = Wrapped(q[L] + 1, c) /\ b - a = 1 /\ r[b] = k
      BY <2>1, <2>3, <1>3, <1>4
    <3> QED
      BY <3>1, <2>1, <2>3
  <2>4. CASE b = L + 1 /\ a < L
    <3>1. L \in DOMAIN q /\ a \in DOMAIN q /\ L - a < c /\ L > 1
      BY <2>1, <2>4, <1>3
    <3>2. q[L] = Wrapped(q[a] + (L - a), c) /\ q[L] < c
      BY <3>1, <2>1, <2>4 DEF InTurn
    <3>3. k = Wrapped(q[L] + 1, c) /\ r[b] = k
      BY <3>1, <3>2, <2>4, <1>3, <1>4
    <3> DEFINE d == L - a
    <3>4. d \in Nat /\ d + 1 < c /\ b - a = d + 1
      BY <2>1, <2>4, <1>3
    <3>5. k = Wrapped(q[a] + (d + 1), c)
      <4> HIDE DEF d
      <4>1. Wrapped(q[a] + d, c) < c /\ k = Wrapped(Wrapped(q[a] + d, c) + 1, c)
        BY <3>2, <3>3 DEF d
      <4>2. q[a] < c
        BY <2>1
      <4> QED
        BY <4>1, <4>2, <3>4, <2>1, WrapsOn
    <3> HIDE DEF d
    <3> QED
      BY <3>3, <3>4, <3>5, <2>1
  <2> QED
    BY <2>1, <2>2, <2>3, <2>4, <1>3
<1>7. InTurn(r, c, next, n)
  BY <1>2, <1>3, <1>5, <1>6 DEF InTurn
<1> QED
  BY <1>7 DEF r

\* A choice moves one cursor, and adds one turn if the lookup is not stale.
LEMMA SelectChoosesStep ==
  ASSUME IInv, ~raced, NEW t \in Threads, SelectChooses(t)
  PROVE  IInv'
<1> DEFINE i == pick[t].index
           s == services[i]
           n == s.name
           c == s.count
<1>1. PICK k \in Looked(s, Start(n)) : cursor' = Advanced(n, k, c) /\ Note(t, s, k)
  BY DEF SelectChooses
<1>2. /\ pick[t].at = "choose" /\ selects < MaxSelects /\ c > 0
      /\ n \in DOMAIN cursor \/ Cardinality(DOMAIN cursor) < MaxStates
      /\ pick' = [pick EXCEPT ![t] = NoPick] /\ selects' = selects + 1
      /\ UNCHANGED registryVars
  BY DEF SelectChooses, HasState
<1>3. /\ services' = services /\ heap' = heap /\ serviceCount' = serviceCount
      /\ call' = call /\ registered' = registered
      /\ shared' = shared /\ raced' = raced
  BY <1>2 DEF registryVars, table
<1>4. Live' = Live /\ (Sound' <=> Sound) /\ RegistryInv'
  BY <1>3, RegistrySame DEF IInv, table
<1>6. /\ pick[t] \in Picks /\ pick[t] # NoPick /\ i \in Slots
      /\ n \in Names /\ s \in Services /\ c \in 1 .. InstanceSize
  <2>1. pick[t] \in Picks /\ pick[t] # NoPick
    BY <1>2 DEF IInv, BalancerTyped, NoPick
  <2>2. i \in Slots /\ n \in Names
    BY <2>1 DEF Picks, IInv, BalancerTyped
  <2>3. s \in Services
    BY <2>2, Typing DEF IInv, RegistryInv
  <2>4. c \in 0 .. InstanceSize
    BY <2>3 DEF Services
  <2> QED
    BY <2>1, <2>2, <2>3, <2>4, <1>2, Sizes
<1>7. Start(n) \in Places /\ (n \in DOMAIN cursor => Start(n) = cursor[n])
  BY Sizes DEF IInv, BalancerTyped, Start, HasState
<1>8. NextIndex(Start(n), c) \in Places /\ k \in Places
  <2>1. NextIndex(Start(n), c) \in Places
    <3>1. Start(n) \in Nat /\ c \in Nat \ {0}
      BY <1>6, <1>7, Sizes
    <3>2. NextIndex(Start(n), c) \in 0 .. c - 1
      BY <3>1, NextIndexWraps
    <3> QED
      BY <3>2, <1>6, Sizes
  <2> QED
    BY <2>1, <1>1, <1>7 DEF Looked
<1>9. NextIndex(k, c) \in 0 .. c - 1 /\ NextIndex(k, c) \in Places
  <2>1. k \in Nat /\ c \in Nat \ {0}
    BY <1>6, <1>8, Sizes
  <2>2. NextIndex(k, c) \in 0 .. c - 1
    BY <2>1, NextIndexWraps
  <2> QED
    BY <2>2, <1>6, Sizes
<1>10. /\ DOMAIN cursor' = DOMAIN cursor \cup {n}
       /\ cursor'[n] = NextIndex(k, c)
       /\ \A m \in DOMAIN cursor : m # n => cursor'[m] = cursor[m]
  BY <1>1 DEF Advanced
<1> DEFINE stale == shared \/ pick[t].moved
<1>11. /\ served' = IF stale THEN [m \in Names |-> <<>>]
                    ELSE [served EXCEPT ![n] = Append(@, k)]
       /\ stray' = (stray \/ ~(\/ <<pick[t].name, heap[s.instances][k].address>> \in registered
                               \/ stale \/ Start(n) >= c))
  BY <1>1 DEF Note
<1>12. served' \in [Names -> Seq(Places)]
  <2>1. CASE stale
    <3>1. served' = [m \in Names |-> <<>>]
      BY <2>1, <1>11
    <3>2. <<>> \in Seq(Places)
      OBVIOUS
    <3> QED
      BY <3>1, <3>2
  <2>2. CASE ~stale
    <3>1. served \in [Names -> Seq(Places)]
      BY DEF IInv, BalancerTyped
    <3>2. Append(served[n], k) \in Seq(Places)
      BY <3>1, <1>6, <1>8
    <3>3. served' = [served EXCEPT ![n] = Append(served[n], k)]
      BY <2>2, <1>11
    <3> QED
      BY <3>1, <3>2, <3>3
  <2> QED
    BY <2>1, <2>2
<1>13. /\ pick' \in [Threads -> Picks]
       /\ \A u \in Threads : pick'[u] = IF u = t THEN NoPick ELSE pick[u]
  BY <1>2 DEF IInv, BalancerTyped, Picks
<1>14. BalancerTyped'
  <2>1. /\ DOMAIN cursor' \subseteq Names /\ IsFiniteSet(DOMAIN cursor')
        /\ Cardinality(DOMAIN cursor') <= MaxStates
    <3>1. /\ DOMAIN cursor \subseteq Names /\ IsFiniteSet(DOMAIN cursor)
          /\ Cardinality(DOMAIN cursor) <= MaxStates
      BY DEF IInv, BalancerTyped
    <3>2. /\ IsFiniteSet(DOMAIN cursor \cup {n})
          /\ Cardinality(DOMAIN cursor \cup {n}) =
               IF n \in DOMAIN cursor THEN Cardinality(DOMAIN cursor)
               ELSE Cardinality(DOMAIN cursor) + 1
      BY <3>1, FS_AddElement
    <3>3. Cardinality(DOMAIN cursor) \in Nat
      BY <3>1, FS_CardinalityType
    <3> QED
      BY <3>1, <3>2, <3>3, <1>2, <1>6, <1>10, SelectsAssumption
  <2>2. \A m \in DOMAIN cursor' : cursor'[m] \in Places
    BY <1>9, <1>10 DEF IInv, BalancerTyped
  <2>3. selects' \in 0 .. MaxSelects
    BY <1>2, SelectsAssumption DEF IInv, BalancerTyped
  <2>4. \A u \in Threads : pick'[u] # NoPick => services'[pick'[u].index].name \in Names
    BY <1>3, <1>13 DEF IInv, BalancerTyped
  <2> QED
    BY <2>1, <2>2, <2>3, <2>4, <1>12, <1>13 DEF BalancerTyped
\* An instance in use is the one at the cursor, and registered.
<1>15. ASSUME ~stale
       PROVE  /\ Sound /\ Exact /\ Found /\ Turns
              /\ i \in Live /\ n = pick[t].name
              /\ Start(n) < c =>
                   k = Start(n) /\ <<n, heap[s.instances][k].address>> \in registered
  <2>1. Sound
    BY <1>15 DEF Sound
  <2>2. Exact /\ Found /\ Turns
    BY <2>1 DEF IInv, RegistryInv
  <2>3. i \in Live /\ n = pick[t].name
    BY <2>2, <1>6, <1>15 DEF Found
  <2>4. ASSUME Start(n) < c
        PROVE  k = Start(n) /\ <<n, heap[s.instances][k].address>> \in registered
    <3>1. Start(n) \in Used(s)
      BY <2>4, <1>6, <1>7, Sizes DEF Used
    <3>2. heap[s.instances][Start(n)].service = n
      BY <3>1, <2>2, <2>3 DEF Exact, Owned
    <3>3. heap[s.instances][Start(n)] # Garbage
      <4>1. Garbage.service = NoName /\ n # NoName
        BY <1>6, Sizes DEF Garbage
      <4> QED
        BY <3>2, <4>1
    <3>4. k = Start(n)
      BY <3>3, <1>1 DEF Looked
    <3> QED
      BY <3>1, <3>4, <2>2, <2>3, TableMember DEF Exact
  <2> QED
    BY <2>1, <2>2, <2>3, <2>4
<1>16. ~stray'
  <2>1. CASE stale
    BY <2>1, <1>11 DEF IInv
  <2>2. CASE ~stale
    <3>1. Start(n) \in Int /\ c \in Int
      BY <1>6, <1>7, Sizes
    <3>2. Start(n) < c \/ Start(n) >= c
      BY <3>1
    <3> QED
      BY <2>2, <3>2, <1>11, <1>15, Zenon DEF IInv
  <2> QED
    BY <2>1, <2>2
<1>17. ASSUME Sound' PROVE Found' /\ Turns'
  <2>1. Sound /\ Found /\ Turns /\ Exact
    BY <1>4, <1>17 DEF IInv, RegistryInv
  <2>2. Found'
    BY <2>1, <1>3, <1>4, <1>13 DEF Found
  <2>3. ASSUME NEW j \in Live, services[j].count > 0
        PROVE  InTurn(served'[services[j].name], services[j].count, cursor', services[j].name)
    <3> DEFINE m == services[j].name
               d == services[j].count
    <3>1. m \in Names /\ InTurn(served[m], d, cursor, m)
      BY <2>1, <2>3 DEF Turns, IInv, RegistryInv, Named
    <3>2. CASE stale
      <4>1. served'[m] = <<>>
        BY <3>1, <3>2, <1>11
      <4> QED
        BY <4>1, NoTurns
    <3>3. CASE ~stale /\ m # n
      <4>1. served'[m] = served[m]
        BY <3>1, <3>3, <1>11 DEF IInv, BalancerTyped
      <4>2. InTurn(served[m], d, cursor', m)
        BY <3>1, <3>3, <1>10 DEF InTurn
      <4> QED
        BY <4>1, <4>2
    <3>4. CASE ~stale /\ m = n
      <4>1. j = i /\ d = c
        BY <3>4, <1>15, <2>1 DEF Exact, Distinct
      <4>2. served[n] \in Seq(Places) /\ served'[n] = Append(served[n], k)
        BY <3>4, <1>6, <1>11 DEF IInv, BalancerTyped
      <4>3. served[n] # <<>> => k = cursor[n]
        BY <3>1, <3>4, <4>1, <1>7, <1>15 DEF InTurn
      <4>4. c \in Nat \ {0} /\ InTurn(served[n], c, cursor, n)
        BY <3>1, <3>4, <4>1, <1>6
      <4>5. InTurn(Append(served[n], k), c, cursor', n)
        BY <4>2, <4>3, <4>4, <1>8, <1>10, NextTurn
      <4> QED
        BY <4>1, <4>2, <4>5, <3>4
    <3> QED
      BY <3>2, <3>3, <3>4
  <2>4. Turns'
    BY <2>3, <1>3, <1>4 DEF Turns
  <2> QED
    BY <2>2, <2>4
<1> QED
  BY <1>4, <1>14, <1>16, <1>17 DEF IInv

LEMMA StepInv == IInv /\ [Next]_vars => IInv'
<1> SUFFICES ASSUME IInv, [Next]_vars PROVE IInv'
  OBVIOUS
<1>1. CASE Registration
  BY <1>1, RegistrationStep
<1>2. ASSUME ~raced, NEW t \in Threads, NEW n \in Names, SelectFinds(t, n)
      PROVE  IInv'
  BY <1>2, SelectFindsStep
<1>3. ASSUME ~raced, NEW t \in Threads, SelectNone(t) \/ SelectChooses(t)
      PROVE  IInv'
  BY <1>3, SelectNoneStep, SelectChoosesStep
<1>4. CASE UNCHANGED vars
  <2>1. UNCHANGED <<table, call, registered, shared, raced, cursor, pick,
                    selects, served, stray>>
    BY <1>4 DEF vars, registryVars, balancerVars
  <2>2. services' = services
    BY <2>1 DEF table
  <2>3. RegistryInv' /\ Live' = Live /\ (Sound' <=> Sound)
    BY <2>1, RegistrySame DEF IInv
  <2>4. BalancerTyped'
    BY <2>1, <2>2 DEF IInv, BalancerTyped
  <2>5. Sound' => Found' /\ Turns'
    BY <2>1, <2>2, <2>3 DEF IInv, Found, Turns
  <2> QED
    BY <2>1, <2>3, <2>4, <2>5 DEF IInv
<1> QED
  BY <1>1, <1>2, <1>3, <1>4 DEF Next

LEMMA InvCorrect == Spec => []IInv
  BY InitInv, StepInv, PTL DEF Spec

(***************************************************************************)
(* Every index stays within the tables and every cursor within the array   *)
(* of instances, however registrars and choosing threads overlap           *)
(* (service_registry.c, load_balancer.c).                                  *)
(***************************************************************************)
THEOREM TypeCorrect == Spec => []TypeOK
<1>1. IInv => TypeOK
  BY DEF IInv, RegistryInv, BalancerTyped, TypeOK
<1> QED
  BY <1>1, InvCorrect, PTL

(* As many instances as there are places in use.                           *)
LEMMA UsedCardinality ==
  ASSUME RegistryInv, Exact, NEW i \in Live
  PROVE  Cardinality(InstancesOf(services[i])) = services[i].count
<1> DEFINE s == services[i]
           f == [k \in Used(s) |-> heap[s.instances][k]]
<1>1. s.count \in Nat
  BY Typing, Sizes DEF RegistryInv, Services
<1>2. IsFiniteSet(Used(s)) /\ Cardinality(Used(s)) = s.count
  <2>1. s.count - 1 \in Int
    BY <1>1
  <2>2. /\ IsFiniteSet(0 .. s.count - 1)
        /\ Cardinality(0 .. s.count - 1) =
             IF 0 > s.count - 1 THEN 0 ELSE (s.count - 1) - 0 + 1
    BY <2>1, FS_Interval
  <2> HIDE DEF s
  <2> QED
    BY <2>2, <1>1 DEF Used
<1>3. InstancesOf(s) = {heap[s.instances][k] : k \in Used(s)}
  BY DEF InstancesOf, Used
<1>4. f \in Surjection(Used(s), InstancesOf(s))
  BY <1>3 DEF Surjection
<1>5. f \in Injection(Used(s), InstancesOf(s))
  <2>1. \A k, l \in Used(s) : f[k] = f[l] => k = l
    BY DEF Exact, OnceEach
  <2> QED
    BY <2>1, <1>4 DEF Injection, IsInjective, Surjection
<1> HIDE DEF f, s
<1>6. Cardinality(InstancesOf(s)) = Cardinality(Used(s))
  BY <1>2, <1>4, <1>5, FS_Surjection
<1> QED
  BY <1>2, <1>6 DEF s

(***************************************************************************)
(* The table is exactly what was registered and not unregistered, each     *)
(* instance once and under its own service, through registrations that     *)
(* overlap, instances that move up and services that close a gap, until    *)
(* two services share an array or a call uses an index that went stale     *)
(* (service_registry_register, service_registry_unregister).               *)
(***************************************************************************)
THEOREM TableCorrect == Spec => []TableExact
<1>1. IInv => TableExact
  <2> SUFFICES ASSUME IInv, Sound PROVE TableExact
    BY DEF TableExact, Sound
  <2>1. RegistryInv /\ Exact
    BY DEF IInv, RegistryInv
  <2>2. \A i \in Live : \A x \in InstancesOf(services[i]) : x.service = services[i].name
    BY <2>1 DEF Exact, Owned, InstancesOf, Used
  <2>3. \A i \in Live : Cardinality(InstancesOf(services[i])) = services[i].count
    BY <2>1, UsedCardinality
  <2> QED
    BY <2>1, <2>2, <2>3 DEF Exact, Distinct, TableExact
<1> QED
  BY <1>1, InvCorrect, PTL

(***************************************************************************)
(* Between two choices of an instance every other one has its turn, for    *)
(* any number of instances and of choosing threads and wherever the cursor *)
(* stood when the instances changed (select_round_robin).                  *)
(***************************************************************************)
THEOREM RotationCorrect == Spec => []Rotation
<1>1. IInv => Rotation
  <2> SUFFICES ASSUME IInv, Sound, NEW i \in Live
               PROVE  LET s == services[i]
                          q == served[s.name]
                      IN \A a, b \in DOMAIN q :
                           a < b /\ q[a] = q[b] => b - a >= s.count
    BY DEF Rotation, Sound
  <2> DEFINE n == services[i].name
             c == services[i].count
             q == served[n]
  <2>1. c \in Nat /\ n \in Names
    BY Typing, Sizes DEF IInv, RegistryInv, Services, Named
  <2>2. q \in Seq(Places)
    BY <2>1 DEF IInv, BalancerTyped
  <2>3. c > 0 => InTurn(q, c, cursor, n)
    BY DEF IInv, Turns
  <2> HIDE DEF n, c, q
  <2>4. ASSUME NEW a \in DOMAIN q, NEW b \in DOMAIN q, a < b, q[a] = q[b]
        PROVE  b - a >= c
    <3>1. a \in Nat \ {0} /\ b \in Nat \ {0} /\ q[a] \in Nat /\ q[b] \in Nat
      BY <2>2, Sizes
    <3>2. CASE c = 0
      BY <3>1, <3>2, <2>4
    <3>3. ASSUME c > 0, b - a < c PROVE FALSE
      <4>1. q[b] < c /\ q[a] < c
        BY <3>1, <3>3, <2>3, <2>4 DEF InTurn
      <4>2. q[b] = Wrapped(q[a] + (b - a), c)
        BY <4>1, <3>3, <2>3, <2>4 DEF InTurn
      <4> QED
        BY <4>1, <4>2, <3>1, <3>3, <2>1, <2>4 DEF Wrapped
    <3> QED
      BY <3>1, <3>2, <3>3, <2>1
  <2> QED
    BY <2>4 DEF n, c, q
<1> QED
  BY <1>1, InvCorrect, PTL

(***************************************************************************)
(* What load_balancer_select returns is registered at that moment for the  *)
(* name it was asked for, although it looks the name up under one lock and *)
(* chooses under another, unless a service was removed in between, arrays  *)
(* are shared, or the cursor is past the instances that remain.            *)
(***************************************************************************)
THEOREM ChoiceCorrect == Spec => []ChoiceRegistered
<1>1. IInv => ChoiceRegistered
  BY DEF IInv, ChoiceRegistered
<1> QED
  BY <1>1, InvCorrect, PTL

-----------------------------------------------------------------------------
(***************************************************************************)
(* The choice by connections (Selection).  What select_least_connections   *)
(* has found after instance k, in the table of its recursive function.     *)
(***************************************************************************)
Candidates == [healthy : BOOLEAN, weight : Nat, connections : Nat]

Better(g, b, k) ==
  Inst(g, k).healthy /\ (b.min = -1 \/ Inst(g, k).connections < b.min)

Considered(f, g, k) ==
  IF k = -1 THEN NoBest
  ELSE IF Better(g, f[k - 1], k)
       THEN [chosen |-> {k}, min |-> MinConnections(f[k - 1], g, k)]
       ELSE f[k - 1]

Compared(f, g, n) == f = [k \in -1 .. n - 1 |-> Considered(f, g, k)]

LEMMA ComparedExists ==
  ASSUME NEW g, NEW n \in Nat
  PROVE  \E f : Compared(f, g, n)
<1> DEFINE T == {m \in Nat : \E f : Compared(f, g, m)}
<1>1. 0 \in T
  <2> DEFINE f == [k \in -1 .. 0 - 1 |-> NoBest]
  <2>1. f = [k \in -1 .. 0 - 1 |-> Considered(f, g, k)]
    BY DEF Considered
  <2> QED
    BY <2>1 DEF Compared
<1>2. ASSUME NEW m \in Nat, m \in T PROVE m + 1 \in T
  <2>1. PICK f : f = [k \in -1 .. m - 1 |-> Considered(f, g, k)]
    BY <1>2 DEF Compared
  <2> DEFINE h == [k \in -1 .. m |-> IF k < m THEN f[k] ELSE Considered(f, g, m)]
  <2>2. ASSUME NEW k \in -1 .. m PROVE h[k] = Considered(h, g, k)
    <3>1. Considered(h, g, k) = Considered(f, g, k)
      <4>1. CASE k = -1
        BY <4>1 DEF Considered
      <4>2. CASE k # -1
        <5>1. k - 1 \in -1 .. m /\ k - 1 < m
          BY <4>2
        <5>2. h[k - 1] = f[k - 1]
          BY <5>1
        <5> HIDE DEF h
        <5> QED
          BY <5>2, <4>2 DEF Considered
      <4> QED
        BY <4>1, <4>2
    <3>2. h[k] = Considered(f, g, k)
      <4>1. CASE k < m
        <5>1. k \in -1 .. m - 1
          BY <4>1
        <5>2. h[k] = f[k] /\ f[k] = Considered(f, g, k)
          BY <5>1, <4>1, <2>1
        <5> QED
          BY <5>2
      <4>2. CASE ~(k < m)
        <5>1. k = m
          BY <4>2
        <5> QED
          BY <4>2, <5>1
      <4> QED
        BY <4>1, <4>2
    <3> QED
      BY <3>1, <3>2
  <2>3. h = [k \in -1 .. m |-> h[k]]
    OBVIOUS
  <2> HIDE DEF h
  <2>4. h = [k \in -1 .. (m + 1) - 1 |-> Considered(h, g, k)]
    <3>1. (m + 1) - 1 = m
      OBVIOUS
    <3> QED
      BY <2>2, <2>3, <3>1
  <2> QED
    BY <2>4 DEF Compared
<1> HIDE DEF T
<1>3. Nat \subseteq T
  BY <1>1, <1>2, NatSet
<1> QED
  BY <1>3 DEF T

LEMMA LeastCompared ==
  ASSUME NEW g, Len(g) \in Nat
  PROVE  \E f : /\ Compared(f, g, Len(g))
                /\ LeastConnections(g) = f[Len(g) - 1].chosen
<1> DEFINE f == CHOOSE h : Compared(h, g, Len(g))
<1>1. Compared(f, g, Len(g))
  BY ComparedExists
<1>2. LeastConnections(g) = f[Len(g) - 1].chosen
  BY DEF LeastConnections, Compared, Considered, Better
<1> HIDE DEF f
<1> QED
  BY <1>1, <1>2

\* The best of the first m instances, or that none of them is healthy.
Best(b, g, m) ==
  \/ b = NoBest /\ \A h \in 0 .. m - 1 : ~Inst(g, h).healthy
  \/ \E k \in 0 .. m - 1 :
       /\ b = [chosen |-> {k}, min |-> Inst(g, k).connections]
       /\ Inst(g, k).healthy
       /\ \A h \in 0 .. m - 1 :
            Inst(g, h).healthy => Inst(g, k).connections <= Inst(g, h).connections

LEMMA BestFound ==
  ASSUME NEW g \in Seq(Candidates), NEW f, Compared(f, g, Len(g))
  PROVE  Best(f[Len(g) - 1], g, Len(g))
<1> DEFINE T == {m \in Nat : m <= Len(g) => Best(f[m - 1], g, m)}
<1>0. Len(g) \in Nat
  BY LenProperties
<1>1. 0 \in T
  <2>1. f[-1] = NoBest
    BY <1>0 DEF Compared, Considered
  <2> QED
    BY <2>1 DEF Best
<1>2. ASSUME NEW m \in Nat, m \in T PROVE m + 1 \in T
  <2> SUFFICES ASSUME m + 1 <= Len(g) PROVE Best(f[(m + 1) - 1], g, m + 1)
    OBVIOUS
  <2>1. m \in -1 .. Len(g) - 1 /\ m # -1 /\ (m + 1) - 1 = m
    BY <1>0
  <2> DEFINE b == f[m - 1]
  <2>2. f[m] = IF Better(g, b, m)
               THEN [chosen |-> {m}, min |-> Inst(g, m).connections]
               ELSE b
    BY <2>1 DEF Compared, Considered, MinConnections
  <2>3. Best(b, g, m)
    BY <1>0, <1>2
  <2>4. \A h \in 0 .. m : Inst(g, h) \in Candidates
    <3>1. \A h \in 0 .. m : h + 1 \in 1 .. Len(g)
      BY <1>0
    <3> QED
      BY <3>1, ElementOfSeq DEF Inst
  <2> HIDE DEF b
  <2>5. Best(f[m], g, m + 1)
    <3>1. CASE b = NoBest /\ \A h \in 0 .. m - 1 : ~Inst(g, h).healthy
      <4>1. b.min = -1
        BY <3>1 DEF NoBest
      <4>2. CASE Inst(g, m).healthy
        <5>1. f[m] = [chosen |-> {m}, min |-> Inst(g, m).connections]
          BY <2>2, <4>1, <4>2 DEF Better
        <5>2. Inst(g, m).connections <= Inst(g, m).connections /\ m \in 0 .. (m + 1) - 1
          BY <2>4 DEF Candidates
        <5>3. \A h \in 0 .. (m + 1) - 1 : Inst(g, h).healthy => h = m
          BY <3>1
        <5> QED
          BY <4>2, <5>1, <5>2, <5>3 DEF Best
      <4>3. CASE ~Inst(g, m).healthy
        <5>1. f[m] = NoBest
          BY <2>2, <3>1, <4>3 DEF Better
        <5>2. \A h \in 0 .. (m + 1) - 1 : h \in 0 .. m - 1 \/ h = m
          OBVIOUS
        <5> QED
          BY <3>1, <4>3, <5>1, <5>2 DEF Best
      <4> QED
        BY <4>2, <4>3
    <3>2. CASE \E k \in 0 .. m - 1 :
                 /\ b = [chosen |-> {k}, min |-> Inst(g, k).connections]
                 /\ Inst(g, k).healthy
                 /\ \A h \in 0 .. m - 1 :
                      Inst(g, h).healthy => Inst(g, k).connections <= Inst(g, h).connections
      <4>1. PICK k \in 0 .. m - 1 :
              /\ b = [chosen |-> {k}, min |-> Inst(g, k).connections]
              /\ Inst(g, k).healthy
              /\ \A h \in 0 .. m - 1 :
                   Inst(g, h).healthy => Inst(g, k).connections <= Inst(g, h).connections
        BY <3>2
      <4> DEFINE c(h) == Inst(g, h).connections
      <4>2. \A h \in 0 .. m : c(h) \in Nat
        BY <2>4 DEF Candidates
      <4>3. b.min = c(k) /\ c(k) \in Nat /\ c(k) # -1 /\ k \in 0 .. m
        BY <4>1, <4>2
      <4>4. \A h \in 0 .. (m + 1) - 1 : h \in 0 .. m - 1 \/ h = m
        OBVIOUS
      <4>5. CASE Inst(g, m).healthy /\ c(m) < c(k)
        <5>1. f[m] = [chosen |-> {m}, min |-> c(m)]
          BY <2>2, <4>3, <4>5 DEF Better
        <5>2. \A h \in 0 .. (m + 1) - 1 : Inst(g, h).healthy => c(m) <= c(h)
          BY <4>1, <4>2, <4>3, <4>4, <4>5
        <5>3. m \in 0 .. (m + 1) - 1
          OBVIOUS
        <5> QED
          BY <4>5, <5>1, <5>2, <5>3 DEF Best
      <4>6. CASE ~(Inst(g, m).healthy /\ c(m) < c(k))
        <5>1. f[m] = b
          BY <2>2, <4>3, <4>6 DEF Better
        <5>2. \A h \in 0 .. (m + 1) - 1 : Inst(g, h).healthy => c(k) <= c(h)
          BY <4>1, <4>2, <4>3, <4>4, <4>6
        <5>3. k \in 0 .. (m + 1) - 1
          OBVIOUS
        <5> QED
          BY <4>1, <5>1, <5>2, <5>3 DEF Best
      <4> QED
        BY <4>5, <4>6
    <3> QED
      BY <2>3, <3>1, <3>2 DEF Best
  <2> QED
    BY <2>1, <2>5
<1> HIDE DEF T
<1>3. Len(g) \in T
  BY <1>0, <1>1, <1>2, NatSet
<1> QED
  BY <1>3 DEF T

(* What select_least_connections returns.                                  *)
LEMMA LeastChosen ==
  ASSUME NEW g \in Seq(Candidates)
  PROVE  /\ LeastConnections(g) = {} <=> Healthy(g) = {}
         /\ LeastConnections(g) \subseteq Healthy(g)
         /\ \A k \in LeastConnections(g), h \in Healthy(g) :
              Inst(g, k).connections <= Inst(g, h).connections
<1>1. Len(g) \in Nat
  BY LenProperties
<1>2. PICK f : Compared(f, g, Len(g)) /\ LeastConnections(g) = f[Len(g) - 1].chosen
  BY <1>1, LeastCompared
<1>3. Best(f[Len(g) - 1], g, Len(g))
  BY <1>2, BestFound
<1> DEFINE b == f[Len(g) - 1]
<1>4. b = f[Len(g) - 1]
  OBVIOUS
<1> HIDE DEF b
<1>5. CASE b = NoBest /\ \A h \in 0 .. Len(g) - 1 : ~Inst(g, h).healthy
  <2>1. LeastConnections(g) = {} /\ Healthy(g) = {}
    BY <1>2, <1>4, <1>5 DEF NoBest, Healthy
  <2> QED
    BY <2>1
<1>6. ASSUME NEW k \in 0 .. Len(g) - 1,
             b = [chosen |-> {k}, min |-> Inst(g, k).connections],
             Inst(g, k).healthy,
             \A h \in 0 .. Len(g) - 1 :
               Inst(g, h).healthy => Inst(g, k).connections <= Inst(g, h).connections
      PROVE  /\ LeastConnections(g) = {k} /\ k \in Healthy(g)
             /\ \A h \in Healthy(g) : Inst(g, k).connections <= Inst(g, h).connections
  BY <1>2, <1>4, <1>6 DEF Healthy
<1> QED
  BY <1>3, <1>4, <1>5, <1>6 DEF Best

-----------------------------------------------------------------------------
(* Choices by connections, one after the other.                            *)
LevelInv ==
  policy = "connections" =>
    /\ group \in Seq(Candidates) /\ turns \in Seq(SUBSET Int)
    /\ ConnectionsLevelled

LEMMA InitLevel == SelectionInit => LevelInv
<1> SUFFICES ASSUME SelectionInit PROVE LevelInv
  OBVIOUS
<1>1. group \in Seq(Candidates)
  BY GroupsAssumption DEF SelectionInit, Candidates
<1>2. turns = <<>> /\ turns \in Seq(SUBSET Int) /\ DOMAIN turns = {}
  BY EmptySeq DEF SelectionInit
<1> QED
  BY <1>1, <1>2 DEF LevelInv, ConnectionsLevelled

LEMMA ConnectedGroup ==
  ASSUME NEW g \in Seq(Candidates), NEW chosen
  PROVE  /\ Connected(g, chosen) \in Seq(Candidates)
         /\ Len(Connected(g, chosen)) = Len(g)
         /\ Healthy(Connected(g, chosen)) = Healthy(g)
         /\ \A k \in Healthy(g) :
              Inst(Connected(g, chosen), k).connections
                = IF k \in chosen THEN Inst(g, k).connections + 1
                  ELSE Inst(g, k).connections
         /\ \A k \in Healthy(g) :
              Inst(Connected(g, chosen), k).weight = Inst(g, k).weight
<1> DEFINE n == Len(g)
           d == Connected(g, chosen)
<1>1. n \in Nat /\ DOMAIN g = 1 .. n /\ \A i \in 1 .. n : g[i] \in Candidates
  BY LenProperties, ElementOfSeq
<1>2. d = [i \in 1 .. n |->
             IF i - 1 \in chosen THEN [g[i] EXCEPT !.connections = @ + 1] ELSE g[i]]
  BY <1>1 DEF Connected
<1> HIDE DEF d, n
<1>3. ASSUME NEW i \in 1 .. n
      PROVE  /\ d[i] \in Candidates /\ d[i].healthy = g[i].healthy
            /\ d[i].weight = g[i].weight
             /\ d[i].connections = IF i - 1 \in chosen THEN g[i].connections + 1
                                   ELSE g[i].connections
  <2>1. g[i] \in Candidates /\ g[i].connections + 1 \in Nat
    BY <1>1 DEF Candidates
  <2>2. d[i] = IF i - 1 \in chosen THEN [g[i] EXCEPT !.connections = @ + 1] ELSE g[i]
    BY <1>2
  <2> QED
    BY <2>1, <2>2 DEF Candidates
<1>4. d \in Seq(Candidates) /\ Len(d) = n
  BY <1>1, <1>2, <1>3
<1>5. ASSUME NEW k \in 0 .. n - 1
      PROVE  /\ Inst(d, k).healthy = Inst(g, k).healthy
             /\ Inst(d, k).weight = Inst(g, k).weight
             /\ Inst(d, k).connections = IF k \in chosen THEN Inst(g, k).connections + 1
                                         ELSE Inst(g, k).connections
  <2>1. k + 1 \in 1 .. n /\ (k + 1) - 1 = k
    BY <1>1
  <2> QED
    BY <1>3, <2>1 DEF Inst
<1>6. Healthy(g) = {k \in 0 .. n - 1 : Inst(g, k).healthy}
        /\ Healthy(d) = {k \in 0 .. n - 1 : Inst(d, k).healthy}
  BY <1>4 DEF Healthy, n
<1> QED
  BY <1>4, <1>5, <1>6 DEF d, n

LEMMA StepLevel == LevelInv /\ [SelectionNext]_selectionVars => LevelInv'
<1> SUFFICES ASSUME LevelInv, [SelectionNext]_selectionVars,
                    policy' = "connections"
             PROVE  LevelInv'
  BY DEF LevelInv
<1>1. CASE SelectByWeight
  BY <1>1 DEF SelectByWeight
<1>2. CASE SelectByConnections
  <2> DEFINE g == group
             chosen == LeastConnections(g)
             d == Connected(g, chosen)
  <2>1. /\ g \in Seq(Candidates) /\ turns \in Seq(SUBSET Int) /\ ConnectionsLevelled
        /\ group' = d /\ turns' = Append(turns, chosen) /\ policy = "connections"
    BY <1>2 DEF LevelInv, SelectByConnections
  <2>2. /\ chosen = {} <=> Healthy(g) = {}
        /\ chosen \subseteq Healthy(g)
        /\ \A k \in chosen, h \in Healthy(g) :
             Inst(g, k).connections <= Inst(g, h).connections
    BY <2>1, LeastChosen
  <2>3. /\ d \in Seq(Candidates) /\ Healthy(d) = Healthy(g)
        /\ \A k \in Healthy(g) :
             Inst(d, k).connections = IF k \in chosen THEN Inst(g, k).connections + 1
                                      ELSE Inst(g, k).connections
    BY <2>1, ConnectedGroup
  <2>0. g = group
    OBVIOUS
  <2> HIDE DEF g, chosen, d
  <2>4. ASSUME NEW k \in Healthy(g)
        PROVE  Inst(g, k).connections \in Nat /\ k \in Int
    <3>1. k + 1 \in 1 .. Len(g) /\ k \in Int
      BY <2>1, LenProperties DEF Healthy
    <3>2. g[k + 1] \in Candidates
      BY <2>1, <3>1, ElementOfSeq
    <3> QED
      BY <3>1, <3>2 DEF Inst, Candidates
  <2>5. chosen \in SUBSET Int
    BY <2>2, <2>4
  <2>6. /\ turns' \in Seq(SUBSET Int) /\ Len(turns') = Len(turns) + 1
        /\ \A i \in 1 .. Len(turns) : turns'[i] = turns[i]
        /\ turns'[Len(turns) + 1] = chosen
    BY <2>1, <2>5, AppendProperties
  <2>7. Len(turns) \in Nat /\ DOMAIN turns = 1 .. Len(turns)
        /\ DOMAIN turns' = 1 .. Len(turns) + 1
    BY <2>1, <2>6, LenProperties
  <2>8. ASSUME NEW i \in DOMAIN turns'
        PROVE  /\ turns'[i] = {} <=> Healthy(d) = {}
               /\ turns'[i] \subseteq Healthy(d)
               /\ \A k \in turns'[i], h \in Healthy(g) :
                    k \in chosen \/ Inst(g, k).connections <= Inst(g, h).connections + 1
    <3>1. CASE i = Len(turns) + 1
      BY <2>2, <2>3, <2>6, <3>1
    <3>2. CASE i # Len(turns) + 1
      <4>1. i \in DOMAIN turns /\ turns'[i] = turns[i]
        BY <2>6, <2>7, <3>2
      <4> QED
        BY <2>0, <2>1, <2>3, <4>1 DEF ConnectionsLevelled
    <3> QED
      BY <3>1, <3>2
  <2>9. ASSUME NEW i \in DOMAIN turns', NEW k \in turns'[i], NEW h \in Healthy(d)
        PROVE  k \in Healthy(d) /\ Inst(d, k).connections <= Inst(d, h).connections + 1
    <3>1. k \in Healthy(g) /\ h \in Healthy(g)
      BY <2>3, <2>8
    <3>2. Inst(g, k).connections \in Nat /\ Inst(g, h).connections \in Nat
      BY <2>4, <3>1
    <3>3. /\ Inst(d, k).connections = IF k \in chosen THEN Inst(g, k).connections + 1
                                      ELSE Inst(g, k).connections
          /\ Inst(d, h).connections = IF h \in chosen THEN Inst(g, h).connections + 1
                                      ELSE Inst(g, h).connections
      BY <2>3, <3>1
    <3>4. CASE k \in chosen
      <4>1. Inst(g, k).connections <= Inst(g, h).connections
        BY <2>2, <3>1, <3>4
      <4> QED
        BY <2>3, <3>1, <3>2, <3>3, <4>1
    <3>5. CASE k \notin chosen
      <4>1. Inst(g, k).connections <= Inst(g, h).connections + 1
        BY <2>8, <3>1, <3>5
      <4> QED
        BY <2>3, <3>1, <3>2, <3>3, <3>5, <4>1
    <3> QED
      BY <3>4, <3>5
  <2>10. ConnectionsLevelled'
    BY <2>1, <2>8, <2>9 DEF ConnectionsLevelled
  <2> QED
    BY <2>1, <2>3, <2>6, <2>10 DEF LevelInv
<1>3. CASE UNCHANGED selectionVars
  BY <1>3 DEF selectionVars, LevelInv, ConnectionsLevelled
<1> QED
  BY <1>1, <1>2, <1>3 DEF SelectionNext

(***************************************************************************)
(* However uneven its connections were, select_least_connections never     *)
(* lets an instance it chose get more than one ahead of another healthy    *)
(* one, and chooses whenever there is a healthy one.                       *)
(***************************************************************************)
THEOREM LevelledCorrect == SelectionSpec => []ConnectionsLevelled
<1>1. LevelInv => ConnectionsLevelled
  BY DEF LevelInv, ConnectionsLevelled
<1> QED
  BY InitLevel, StepLevel, <1>1, PTL DEF SelectionSpec

-----------------------------------------------------------------------------
(***************************************************************************)
(* The choice by weight (Selection).  A cycle is the choices owed: each    *)
(* healthy instance once with each weight from its own down to 1.  The     *)
(* loop takes them by falling weight and, for a weight, in their order.    *)
(***************************************************************************)
\* LoadBalancerState: where a choice left the loop.
Spots == [index : Nat, weight : Nat]

Owed(g) ==
  {q \in Spots : q.index \in Healthy(g) /\ q.weight \in 1 .. Inst(g, q.index).weight}
OwedTo(g, m) == {q \in Owed(g) : q.index < m}

Column(k, n) == {[index |-> k, weight |-> w] : w \in 1 .. n}

LEMMA ColumnSize ==
  ASSUME NEW k \in Nat, NEW n \in Nat
  PROVE  IsFiniteSet(Column(k, n)) /\ Cardinality(Column(k, n)) = n
<1> DEFINE f == [w \in 1 .. n |-> [index |-> k, weight |-> w]]
<1>1. f \in [1 .. n -> Column(k, n)]
  BY DEF Column
<1>2. \A a, b \in 1 .. n : f[a] = f[b] => a = b
  <2> SUFFICES ASSUME NEW a \in 1 .. n, NEW b \in 1 .. n, f[a] = f[b] PROVE a = b
    OBVIOUS
  <2>1. f[a].weight = a /\ f[b].weight = b
    OBVIOUS
  <2> QED
    BY <2>1
<1>3. \A q \in Column(k, n) : \E w \in 1 .. n : f[w] = q
  BY DEF Column
<1> HIDE DEF f
<1>4. f \in Bijection(1 .. n, Column(k, n))
  BY <1>1, <1>2, <1>3 DEF Bijection, Injection, Surjection, IsInjective
<1>5. IsFiniteSet(1 .. n) /\ Cardinality(1 .. n) = n
  BY FS_Interval
<1> QED
  BY <1>4, <1>5, FS_Bijection DEF ExistsBijection

LEMMA Members ==
  ASSUME NEW g \in Seq(Candidates)
  PROVE  /\ Len(g) \in Nat
         /\ \A k \in 0 .. Len(g) - 1 :
              /\ Inst(g, k) \in Candidates /\ Inst(g, k).weight \in Nat
              /\ Inst(g, k).healthy \in BOOLEAN
<1>1. Len(g) \in Nat
  BY LenProperties
<1>2. ASSUME NEW k \in 0 .. Len(g) - 1 PROVE Inst(g, k) \in Candidates
  <2>1. k + 1 \in 1 .. Len(g)
    BY <1>1
  <2> QED
    BY <2>1, ElementOfSeq DEF Inst
<1> QED
  BY <1>1, <1>2 DEF Candidates

\* What the sum in HealthyWeight adds for instance k.
Share(g, k) == IF Inst(g, k).healthy THEN Inst(g, k).weight ELSE 0

LEMMA OwedGrows ==
  ASSUME NEW g \in Seq(Candidates), NEW m \in Nat, m < Len(g),
         IsFiniteSet(OwedTo(g, m))
  PROVE  /\ IsFiniteSet(OwedTo(g, m + 1))
         /\ Cardinality(OwedTo(g, m + 1)) = Cardinality(OwedTo(g, m)) + Share(g, m)
<1>0. m \in 0 .. Len(g) - 1 /\ Inst(g, m).weight \in Nat
  BY Members
<1>1. CASE Inst(g, m).healthy
  <2> DEFINE C == Column(m, Inst(g, m).weight)
  <2>1. IsFiniteSet(C) /\ Cardinality(C) = Inst(g, m).weight
    BY <1>0, ColumnSize
  <2>2. m \in Healthy(g)
    BY <1>0, <1>1 DEF Healthy
  <2>3. OwedTo(g, m + 1) = OwedTo(g, m) \cup C
    <3>1. ASSUME NEW q \in OwedTo(g, m + 1) PROVE q \in OwedTo(g, m) \cup C
      <4>1. q \in Spots /\ q.index \in Nat /\ q.index < m + 1 /\ q \in Owed(g)
        BY DEF OwedTo, Owed, Spots
      <4>2. CASE q.index < m
        BY <4>1, <4>2 DEF OwedTo
      <4>3. CASE q.index = m
        <5>1. q = [index |-> m, weight |-> q.weight] /\ q.weight \in 1 .. Inst(g, m).weight
          BY <4>1, <4>3 DEF Owed, Spots
        <5> QED
          BY <5>1 DEF Column
      <4> QED
        BY <4>1, <4>2, <4>3
    <3>2. ASSUME NEW q \in OwedTo(g, m) PROVE q \in OwedTo(g, m + 1)
      BY DEF OwedTo, Owed, Spots
    <3>3. ASSUME NEW q \in C PROVE q \in OwedTo(g, m + 1)
      <4>1. PICK w \in 1 .. Inst(g, m).weight : q = [index |-> m, weight |-> w]
        BY DEF Column
      <4> QED
        BY <1>0, <2>2, <4>1 DEF OwedTo, Owed, Spots
    <3> QED
      BY <3>1, <3>2, <3>3
  <2>4. OwedTo(g, m) \cap C = {}
    <3>1. \A q \in C : q.index = m
      BY DEF Column
    <3>2. \A q \in OwedTo(g, m) : q.index # m
      BY DEF OwedTo, Owed, Spots
    <3> QED
      BY <3>1, <3>2
  <2>5. Cardinality(OwedTo(g, m) \cap C) = 0
    BY <2>4, FS_EmptySet
  <2>6. Cardinality(OwedTo(g, m)) \in Nat
    BY FS_CardinalityType
  <2> HIDE DEF C
  <2>7. /\ IsFiniteSet(OwedTo(g, m) \cup C)
        /\ Cardinality(OwedTo(g, m) \cup C)
             = Cardinality(OwedTo(g, m)) + Cardinality(C) - Cardinality(OwedTo(g, m) \cap C)
    BY <2>1, FS_Union
  <2>8. Share(g, m) = Inst(g, m).weight
    BY <1>1 DEF Share
  <2>9. Cardinality(OwedTo(g, m) \cup C) = Cardinality(OwedTo(g, m)) + Share(g, m)
    BY <1>0, <2>1, <2>5, <2>6, <2>7, <2>8
  <2> QED
    BY <2>3, <2>7, <2>9
<1>2. CASE ~Inst(g, m).healthy
  <2>1. OwedTo(g, m + 1) = OwedTo(g, m)
    <3>1. ASSUME NEW q \in OwedTo(g, m + 1) PROVE q \in OwedTo(g, m)
      <4>1. q.index \in Nat /\ q.index < m + 1 /\ q \in Owed(g) /\ q.index # m
        BY <1>2 DEF OwedTo, Owed, Spots, Healthy
      <4> QED
        BY <4>1 DEF OwedTo
    <3>2. ASSUME NEW q \in OwedTo(g, m) PROVE q \in OwedTo(g, m + 1)
      BY DEF OwedTo, Owed, Spots
    <3> QED
      BY <3>1, <3>2
  <2>2. Cardinality(OwedTo(g, m)) \in Nat
    BY FS_CardinalityType
  <2> QED
    BY <1>2, <2>1, <2>2 DEF Share
<1> QED
  BY <1>1, <1>2

Summed(s, g, k) == IF k = -1 THEN 0 ELSE s[k - 1] + Share(g, k)

(* The weights of the healthy instances add up to the choices of a cycle. *)
LEMMA CycleLength ==
  ASSUME NEW g \in Seq(Candidates)
  PROVE  IsFiniteSet(Owed(g)) /\ HealthyWeight(g) = Cardinality(Owed(g))
<1> DEFINE n == Len(g)
<1>0. n \in Nat
  BY Members
<1>1. IsFiniteSet(OwedTo(g, 0)) /\ Cardinality(OwedTo(g, 0)) = 0
  <2>1. OwedTo(g, 0) = {}
    BY DEF OwedTo, Owed, Spots
  <2> QED
    BY <2>1, FS_EmptySet
<1>2. \A m \in Nat : m <= n => IsFiniteSet(OwedTo(g, m))
  <2> DEFINE T == {m \in Nat : m <= n => IsFiniteSet(OwedTo(g, m))}
  <2>1. 0 \in T
    BY <1>1
  <2>2. ASSUME NEW m \in Nat, m \in T PROVE m + 1 \in T
    BY <1>0, <2>2, OwedGrows
  <2> HIDE DEF T
  <2>3. Nat \subseteq T
    BY <2>1, <2>2, NatSet
  <2> QED
    BY <2>3 DEF T
<1> DEFINE size == [k \in -1 .. n - 1 |-> Cardinality(OwedTo(g, k + 1))]
<1>3. size = [k \in -1 .. n - 1 |-> Summed(size, g, k)]
  <2>1. ASSUME NEW k \in -1 .. n - 1 PROVE size[k] = Summed(size, g, k)
    <3>1. CASE k = -1
      BY <1>1, <3>1 DEF Summed
    <3>2. CASE k # -1
      <4>1. k \in Nat /\ k < n /\ k - 1 \in -1 .. n - 1 /\ (k - 1) + 1 = k
        BY <1>0, <3>2
      <4>2. Cardinality(OwedTo(g, k + 1)) = Cardinality(OwedTo(g, k)) + Share(g, k)
        BY <1>0, <1>2, <4>1, OwedGrows
      <4>3. size[k] = Cardinality(OwedTo(g, k + 1)) /\ size[k - 1] = Cardinality(OwedTo(g, k))
        BY <4>1
      <4> QED
        BY <3>2, <4>2, <4>3 DEF Summed
    <3> QED
      BY <3>1, <3>2
  <2> QED
    BY <2>1
<1> DEFINE sum == CHOOSE s : s = [k \in -1 .. n - 1 |-> Summed(s, g, k)]
<1>4. sum = [k \in -1 .. n - 1 |-> Summed(sum, g, k)]
  BY <1>3
<1>5. HealthyWeight(g) = sum[n - 1]
  BY DEF HealthyWeight, Summed, Share
<1> HIDE DEF sum, size
<1>6. \A m \in Nat : m <= n => sum[m - 1] = Cardinality(OwedTo(g, m))
  <2> DEFINE T == {m \in Nat : m <= n => sum[m - 1] = Cardinality(OwedTo(g, m))}
  <2>1. 0 \in T
    <3>1. sum[0 - 1] = 0
      BY <1>0, <1>4 DEF Summed
    <3> QED
      BY <1>1, <3>1
  <2>2. ASSUME NEW m \in Nat, m \in T PROVE m + 1 \in T
    <3> SUFFICES ASSUME m + 1 <= n
                 PROVE  sum[(m + 1) - 1] = Cardinality(OwedTo(g, m + 1))
      OBVIOUS
    <3>1. m \in -1 .. n - 1 /\ m # -1 /\ (m + 1) - 1 = m
      BY <1>0
    <3>2. sum[m] = sum[m - 1] + Share(g, m)
      BY <1>4, <3>1 DEF Summed
    <3>3. Cardinality(OwedTo(g, m + 1)) = Cardinality(OwedTo(g, m)) + Share(g, m)
      BY <1>0, <1>2, <3>1, OwedGrows
    <3> QED
      BY <1>0, <2>2, <3>1, <3>2, <3>3
  <2> HIDE DEF T
  <2>3. Nat \subseteq T
    BY <2>1, <2>2, NatSet
  <2> QED
    BY <2>3 DEF T
<1>7. OwedTo(g, n) = Owed(g)
  BY <1>0 DEF OwedTo, Owed, Healthy, Spots
<1> QED
  BY <1>0, <1>2, <1>5, <1>6, <1>7

-----------------------------------------------------------------------------
(***************************************************************************)
(* The loop of select_weighted_round_robin ends.  From one place it looks  *)
(* at to the next, the level falls at the end of a pass and what is left   *)
(* of the pass falls within it: in a pass at weight 1 something fits, or   *)
(* nothing has a weight.                                                   *)
(***************************************************************************)
NextPlace(g, c) ==
  LET k == (c.index + 1) % Len(g)
  IN [index |-> k, weight |-> IF k = 0 THEN NextWeight(g, c.weight) ELSE c.weight]

Exhausted(q) == q.index = 0 /\ q.weight <= 0
Ends(g, q) == Exhausted(q) \/ Fits(g, q.index, q.weight)
Outcome(q) == [mark |-> q, chosen |-> IF Exhausted(q) THEN {} ELSE {q.index}]

Ahead(g, c) == \E k \in Healthy(g) : k > c.index /\ Inst(g, k).weight >= c.weight

Level(g, c) ==
  IF c.index >= Len(g) THEN c.weight + 2 * HealthyWeight(g) + 3
  ELSE IF c.weight > 1 THEN c.weight + HealthyWeight(g) + 1
  ELSE IF Ahead(g, c) THEN 0 ELSE 2 * HealthyWeight(g) + 2
LeftOfPass(g, c) == IF c.index < Len(g) THEN Len(g) - 1 - c.index ELSE 0
Rank(g, c) == Level(g, c) * Len(g) + LeftOfPass(g, c)

LEMMA NextIndexOf ==
  ASSUME NEW i \in Nat, NEW n \in Nat \ {0}
  PROVE  /\ (i + 1) % n \in 0 .. n - 1
         /\ i < n - 1 => (i + 1) % n = i + 1
         /\ i = n - 1 => (i + 1) % n = 0
<1>1. (i + 1) % n \in 0 .. n - 1
  OBVIOUS
<1>2. ASSUME i = n - 1 PROVE (i + 1) % n = 0
  <2>1. n % n = 0
    OBVIOUS
  <2> QED
    BY <1>2, <2>1
<1> QED
  BY <1>1, <1>2

LEMMA Lexicographic ==
  ASSUME NEW n \in Nat \ {0}, NEW a \in Nat, NEW b \in Nat,
         NEW d \in 0 .. n - 1, NEW e \in 0 .. n - 1,
         a < b \/ (a = b /\ d < e)
  PROVE  /\ a * n + d < b * n + e
         /\ a * n + d \in Nat /\ b * n + e \in Nat
<1>1. a * n \in Nat /\ b * n \in Nat
  OBVIOUS
<1>2. CASE a = b /\ d < e
  BY <1>1, <1>2
<1>3. CASE a < b
  <2> DEFINE c == b - a - 1
  <2>1. c \in Nat /\ b = a + 1 + c
    BY <1>3
  <2>2. c * n \in Nat
    BY <2>1
  <2>3. b * n = a * n + n + c * n
    BY <2>1
  <2> HIDE DEF c
  <2> QED
    BY <1>1, <2>2, <2>3
<1> QED
  BY <1>2, <1>3

(* All weights are owed, so none is more than their sum. *)
LEMMA WeightBounded ==
  ASSUME NEW g \in Seq(Candidates)
  PROVE  /\ HealthyWeight(g) \in Nat
         /\ \A k \in Healthy(g) : Inst(g, k).weight <= HealthyWeight(g)
         /\ HealthyWeight(g) > 0 => \E k \in Healthy(g) : Inst(g, k).weight > 0
<1> DEFINE H == HealthyWeight(g)
<1>1. IsFiniteSet(Owed(g)) /\ H = Cardinality(Owed(g)) /\ H \in Nat
  BY CycleLength, FS_CardinalityType
<1>2. ASSUME NEW k \in Healthy(g) PROVE Inst(g, k).weight <= H
  <2> DEFINE w == Inst(g, k).weight
             C == Column(k, w)
  <2>1. k \in Nat /\ k \in 0 .. Len(g) - 1 /\ w \in Nat
    BY Members DEF Healthy
  <2>2. C \subseteq Owed(g)
    BY <1>2, <2>1 DEF Column, Owed, Spots
  <2>3. IsFiniteSet(C) /\ Cardinality(C) = w
    BY <2>1, ColumnSize
  <2> HIDE DEF C, w
  <2>4. Cardinality(C) <= Cardinality(Owed(g))
    BY <1>1, <2>2, FS_Subset
  <2> QED
    BY <1>1, <2>3, <2>4 DEF w
<1>3. ASSUME H > 0 PROVE \E k \in Healthy(g) : Inst(g, k).weight > 0
  <2>1. Owed(g) # {}
    BY <1>1, <1>3, FS_EmptySet
  <2>2. PICK q \in Owed(g) : TRUE
    BY <2>1
  <2>3. q.index \in Healthy(g) /\ q.weight \in 1 .. Inst(g, q.index).weight
    BY DEF Owed
  <2>4. Inst(g, q.index).weight \in Nat
    BY <2>3, Members DEF Healthy
  <2> QED
    BY <2>3, <2>4
<1> QED
  BY <1>1, <1>2, <1>3

LEMMA NextPlaceTyped ==
  ASSUME NEW g \in Seq(Candidates), g # <<>>, NEW c \in Spots
  PROVE  /\ Len(g) \in Nat \ {0}
         /\ NextPlace(g, c) \in Spots /\ NextPlace(g, c).index \in 0 .. Len(g) - 1
         /\ c.index < Len(g) - 1 =>
              NextPlace(g, c).index = c.index + 1
         /\ c.index = Len(g) - 1 => NextPlace(g, c).index = 0
         /\ NextPlace(g, c).weight
              = IF NextPlace(g, c).index # 0 THEN c.weight
                ELSE IF c.weight > 1 THEN c.weight - 1 ELSE HealthyWeight(g)
<1>1. Len(g) \in Nat \ {0}
  BY LenProperties, EmptySeq
<1>2. c.index \in Nat /\ c.weight \in Nat /\ HealthyWeight(g) \in Nat
  BY WeightBounded DEF Spots
<1>3. /\ (c.index + 1) % Len(g) \in 0 .. Len(g) - 1
      /\ c.index < Len(g) - 1 => (c.index + 1) % Len(g) = c.index + 1
      /\ c.index = Len(g) - 1 => (c.index + 1) % Len(g) = 0
  BY <1>1, <1>2, NextIndexOf
<1>4. NextWeight(g, c.weight) = (IF c.weight > 1 THEN c.weight - 1 ELSE HealthyWeight(g))
  BY <1>2 DEF NextWeight
<1>5. NextWeight(g, c.weight) \in Nat
  BY <1>2, <1>4
<1> DEFINE k == (c.index + 1) % Len(g)
<1>6. NextPlace(g, c) = [index |-> k, weight |-> IF k = 0 THEN NextWeight(g, c.weight) ELSE c.weight]
  BY DEF NextPlace
<1> HIDE DEF k
<1>7. k \in Nat /\ k \in 0 .. Len(g) - 1
  BY <1>1, <1>3 DEF k
<1>8. /\ NextPlace(g, c).index = k
      /\ NextPlace(g, c).weight = IF k = 0 THEN NextWeight(g, c.weight) ELSE c.weight
      /\ NextPlace(g, c) \in Spots
  BY <1>2, <1>5, <1>6, <1>7 DEF Spots
<1>9. /\ c.index < Len(g) - 1 => k = c.index + 1
      /\ c.index = Len(g) - 1 => k = 0
  BY <1>3 DEF k
<1> QED
  BY <1>1, <1>4, <1>7, <1>8, <1>9

LEMMA RankFalls ==
  ASSUME NEW g \in Seq(Candidates), g # <<>>, NEW c \in Spots
  PROVE  /\ Rank(g, c) \in Nat
         /\ ~Ends(g, NextPlace(g, c)) => Rank(g, NextPlace(g, c)) < Rank(g, c)
<1> DEFINE n == Len(g)
           H == HealthyWeight(g)
           q == NextPlace(g, c)
<1>1. /\ n \in Nat \ {0} /\ H \in Nat /\ c \in Spots /\ q \in Spots
      /\ c.index \in Nat /\ c.weight \in Nat /\ q.index \in 0 .. n - 1 /\ q.weight \in Nat
  BY NextPlaceTyped, WeightBounded DEF Spots
<1>2. ASSUME NEW d \in Spots PROVE Level(g, d) \in Nat /\ LeftOfPass(g, d) \in 0 .. n - 1
  <2>1. d.index \in Nat /\ d.weight \in Nat
    BY DEF Spots
  <2>2. d.weight + 2 * H + 3 \in Nat /\ d.weight + H + 1 \in Nat /\ 2 * H + 2 \in Nat
    <3> DEFINE w == d.weight
    <3>1. w \in Nat /\ H \in Nat
      BY <1>1, <2>1
    <3> HIDE DEF w, H
    <3>2. w + 2 * H + 3 \in Nat /\ w + H + 1 \in Nat /\ 2 * H + 2 \in Nat
      BY <3>1
    <3> QED
      BY <3>2 DEF w
  <2>3. Level(g, d) \in Nat
    <3>1. Level(g, d) \in {d.weight + 2 * H + 3, d.weight + H + 1, 0, 2 * H + 2}
      BY DEF Level
    <3> HIDE DEF H
    <3> QED
      BY <2>2, <3>1
  <2>4. LeftOfPass(g, d) = IF d.index < n THEN n - 1 - d.index ELSE 0
    BY DEF LeftOfPass
  <2>5. LeftOfPass(g, d) \in 0 .. n - 1
    <3> HIDE DEF n
    <3>1. CASE d.index < n
      BY <1>1, <2>1, <2>4, <3>1
    <3>2. CASE ~(d.index < n)
      BY <1>1, <2>4, <3>2
    <3> QED
      BY <3>1, <3>2
  <2> QED
    BY <2>3, <2>5
<1>3. Rank(g, c) \in Nat
  <2>1. Level(g, c) \in Nat /\ LeftOfPass(g, c) \in Nat
    BY <1>1, <1>2
  <2>2. Level(g, c) * n \in Nat
    BY <1>1, <2>1
  <2> QED
    BY <2>1, <2>2 DEF Rank
<1>4. /\ c.index < n - 1 => q.index = c.index + 1
      /\ c.index = n - 1 => q.index = 0
      /\ q.weight = IF q.index # 0 THEN c.weight
                    ELSE IF c.weight > 1 THEN c.weight - 1 ELSE H
  BY NextPlaceTyped
<1>5. ASSUME ~Ends(g, q)
      PROVE  Level(g, q) < Level(g, c)
               \/ (Level(g, q) = Level(g, c) /\ LeftOfPass(g, q) < LeftOfPass(g, c))
  <2>0. ~(q.index = 0 /\ q.weight <= 0) /\ ~Fits(g, q.index, q.weight)
    BY <1>5 DEF Ends, Exhausted
  <2>1. Level(g, q) = IF q.weight > 1 THEN q.weight + H + 1
                      ELSE IF Ahead(g, q) THEN 0 ELSE 2 * H + 2
    BY <1>1 DEF Level
  <2>2. CASE c.index >= n
    <3>1. Level(g, c) = c.weight + 2 * H + 3
      BY <2>2 DEF Level
    <3> HIDE DEF n, H, q
    <3>2. q.weight <= c.weight \/ q.weight = H
      BY <1>1, <1>4
    <3>3. Level(g, q) <= q.weight + H + 1 \/ Level(g, q) <= 2 * H + 2
      BY <1>1, <2>1
    <3>4. Level(g, q) \in Nat
      BY <1>1, <1>2
    <3> DEFINE l == Level(g, q)
               v == q.weight
               w == c.weight
    <3>5. l < w + 2 * H + 3
      <4>1. /\ l \in Nat /\ v \in Nat /\ w \in Nat /\ H \in Nat
            /\ v <= w \/ v = H
            /\ l <= v + H + 1 \/ l <= 2 * H + 2
        BY <1>1, <3>2, <3>3, <3>4
      <4> HIDE DEF l, v, w
      <4> QED
        BY <4>1
    <3> QED
      BY <3>1, <3>5
  <2>3. CASE c.index < n - 1
    <3>1. /\ q.index = c.index + 1 /\ q.weight = c.weight
          /\ LeftOfPass(g, q) < LeftOfPass(g, c)
      BY <1>1, <1>4, <2>3 DEF LeftOfPass
    <3>2. ASSUME Ahead(g, c) PROVE Ahead(g, q)
      <4>1. PICK k \in Healthy(g) : k > c.index /\ Inst(g, k).weight >= c.weight
        BY <3>2 DEF Ahead
      <4>2. k # q.index
        BY <2>0, <3>1, <4>1 DEF Fits, Healthy
      <4>3. k \in Int
        BY <4>1 DEF Healthy
      <4> QED
        BY <1>1, <3>1, <4>1, <4>2, <4>3 DEF Ahead
    <3>3. ASSUME Ahead(g, q) PROVE Ahead(g, c)
      <4>1. \A k \in Healthy(g) : k \in Int
        BY <1>1 DEF Healthy
      <4> QED
        BY <1>1, <3>1, <3>3, <4>1 DEF Ahead
    <3>4. Level(g, c) = Level(g, q)
      BY <1>1, <2>1, <2>3, <3>1, <3>2, <3>3 DEF Level
    <3> QED
      BY <3>1, <3>4
  <2>4. CASE c.index = n - 1
    <3>1. q.index = 0 /\ q.weight = IF c.weight > 1 THEN c.weight - 1 ELSE H
      BY <1>4, <2>4
    <3>2. ~Ahead(g, c)
      BY <1>1, <2>4 DEF Ahead, Healthy
    <3>3. Level(g, c) = IF c.weight > 1 THEN c.weight + H + 1 ELSE 2 * H + 2
      BY <1>1, <2>4, <3>2 DEF Level
    <3>4. ASSUME H > 0, q.weight <= 1 PROVE Ahead(g, q)
      <4>1. PICK k \in Healthy(g) : Inst(g, k).weight > 0
        BY <3>4, WeightBounded
      <4>2. k \in 0 .. n - 1 /\ Inst(g, k).healthy /\ Inst(g, k).weight \in Nat
        BY <4>1, Members DEF Healthy
      <4>3. Inst(g, k).weight >= q.weight
        BY <1>1, <3>4, <4>1, <4>2
      <4>4. k # 0
        BY <2>0, <3>1, <4>2, <4>3 DEF Fits
      <4> QED
        BY <3>1, <4>2, <4>3, <4>4 DEF Ahead
    <3>5. CASE c.weight > 1
      BY <1>1, <2>0, <2>1, <3>1, <3>3, <3>4, <3>5
    <3>6. CASE ~(c.weight > 1)
      BY <1>1, <2>0, <2>1, <3>1, <3>3, <3>4, <3>6
    <3> QED
      BY <3>5, <3>6
  <2> QED
    BY <1>1, <2>2, <2>3, <2>4
<1> HIDE DEF n, H, q
<1>6. ASSUME ~Ends(g, q) PROVE Rank(g, q) < Rank(g, c)
  <2>1. /\ Level(g, q) \in Nat /\ Level(g, c) \in Nat
        /\ LeftOfPass(g, q) \in 0 .. n - 1 /\ LeftOfPass(g, c) \in 0 .. n - 1
    BY <1>1, <1>2
  <2>2. Level(g, q) * n + LeftOfPass(g, q) < Level(g, c) * n + LeftOfPass(g, c)
    BY <1>1, <1>5, <1>6, <2>1, Lexicographic
  <2> QED
    BY <2>2 DEF Rank, n
<1> QED
  BY <1>3, <1>6 DEF q

\* Induction along the loop.
LEMMA AlongLoop ==
  ASSUME NEW g \in Seq(Candidates), g # <<>>, NEW S,
         \A c \in Spots : Ends(g, NextPlace(g, c)) \/ NextPlace(g, c) \in S => c \in S
  PROVE  Spots \subseteq S
<1> DEFINE T == {m \in Nat : \A c \in Spots : Rank(g, c) < m => c \in S}
<1>1. 0 \in T
  <2>1. \A c \in Spots : ~(Rank(g, c) < 0)
    BY RankFalls
  <2> QED
    BY <2>1
<1>2. ASSUME NEW m \in Nat, m \in T PROVE m + 1 \in T
  <2>1. ASSUME NEW c \in Spots, Rank(g, c) < m + 1 PROVE c \in S
    <3>1. CASE Ends(g, NextPlace(g, c))
      BY <3>1
    <3>2. CASE ~Ends(g, NextPlace(g, c))
      <4> DEFINE q == NextPlace(g, c)
      <4>1. q \in Spots
        BY NextPlaceTyped
      <4>2. Rank(g, q) < Rank(g, c) /\ Rank(g, c) \in Nat
        BY <3>2, RankFalls
      <4>3. Rank(g, q) \in Nat
        BY <4>1, RankFalls
      <4> HIDE DEF q
      <4>4. Rank(g, q) < m
        BY <2>1, <4>2, <4>3
      <4>5. q \in S
        BY <1>2, <4>1, <4>4
      <4> QED
        BY <4>5 DEF q
    <3> QED
      BY <3>1, <3>2
  <2> QED
    BY <2>1
<1> HIDE DEF T
<1>3. Nat \subseteq T
  BY <1>1, <1>2, NatSet
<1>4. ASSUME NEW c \in Spots PROVE c \in S
  <2>1. Rank(g, c) \in Nat
    BY RankFalls
  <2>2. Rank(g, c) + 1 \in T /\ Rank(g, c) < Rank(g, c) + 1
    BY <1>3, <2>1
  <2> QED
    BY <2>2 DEF T
<1> QED
  BY <1>4

Followed(f, g, c) ==
  IF Ends(g, NextPlace(g, c)) THEN Outcome(NextPlace(g, c)) ELSE f[NextPlace(g, c)]

Runs(f, g) == f = [c \in Spots |-> Followed(f, g, c)]

\* The table of the loop is right up to a rank.
Upto(f, g, m) == \A c \in Spots : Rank(g, c) < m => f[c] = Followed(f, g, c)

LEMMA UptoExists ==
  ASSUME NEW g \in Seq(Candidates), g # <<>>, NEW n \in Nat
  PROVE  \E f : Upto(f, g, n)
<1> DEFINE T == {m \in Nat : \E f : Upto(f, g, m)}
<1>0. \A c \in Spots : Rank(g, c) \in Nat /\ NextPlace(g, c) \in Spots
  BY RankFalls, NextPlaceTyped
<1>1. 0 \in T
  <2>1. \A c \in Spots : ~(Rank(g, c) < 0)
    BY <1>0
  <2> QED
    BY <2>1 DEF Upto
<1>2. ASSUME NEW m \in Nat, m \in T PROVE m + 1 \in T
  <2>1. PICK f : Upto(f, g, m)
    BY <1>2
  <2> DEFINE h == [c \in Spots |-> IF Rank(g, c) < m THEN f[c] ELSE Followed(f, g, c)]
  <2>2. ASSUME NEW c \in Spots, Rank(g, c) < m + 1 PROVE h[c] = Followed(h, g, c)
    <3>1. h[c] = Followed(f, g, c)
      BY <2>1 DEF Upto
    <3>2. CASE Ends(g, NextPlace(g, c))
      BY <3>1, <3>2 DEF Followed
    <3>3. CASE ~Ends(g, NextPlace(g, c))
      <4> DEFINE q == NextPlace(g, c)
      <4>1. q \in Spots /\ Rank(g, q) < Rank(g, c)
        BY <1>0, <3>3, RankFalls
      <4>2. Rank(g, q) < m
        BY <1>0, <2>2, <4>1
      <4>3. h[q] = f[q]
        BY <4>1, <4>2
      <4> HIDE DEF h
      <4> QED
        BY <3>1, <3>3, <4>3 DEF Followed
    <3> QED
      BY <3>2, <3>3
  <2> HIDE DEF h
  <2>3. Upto(h, g, m + 1)
    BY <2>2 DEF Upto
  <2> QED
    BY <2>3
<1> HIDE DEF T
<1>3. Nat \subseteq T
  BY <1>1, <1>2, NatSet
<1> QED
  BY <1>3 DEF T

LEMMA UptoAgree ==
  ASSUME NEW g \in Seq(Candidates), g # <<>>, NEW f, NEW h, NEW m \in Nat, NEW n \in Nat,
         Upto(f, g, m), Upto(h, g, n)
  PROVE  \A c \in Spots : Rank(g, c) < m /\ Rank(g, c) < n => f[c] = h[c]
<1> DEFINE S == {c \in Spots : Rank(g, c) < m /\ Rank(g, c) < n => f[c] = h[c]}
<1>1. ASSUME NEW c \in Spots, Ends(g, NextPlace(g, c)) \/ NextPlace(g, c) \in S,
             Rank(g, c) < m, Rank(g, c) < n
      PROVE  f[c] = h[c]
  <2>1. f[c] = Followed(f, g, c) /\ h[c] = Followed(h, g, c)
    BY <1>1 DEF Upto
  <2>2. CASE Ends(g, NextPlace(g, c))
    BY <2>1, <2>2 DEF Followed
  <2>3. CASE ~Ends(g, NextPlace(g, c))
    <3> DEFINE q == NextPlace(g, c)
    <3>1. q \in Spots /\ Rank(g, q) < Rank(g, c) /\ Rank(g, c) \in Nat
      BY <2>3, NextPlaceTyped, RankFalls
    <3>2. Rank(g, q) \in Nat
      BY <3>1, RankFalls
    <3>3. q \in S
      BY <1>1, <2>3
    <3>4. f[q] = h[q]
      <4> HIDE DEF q
      <4> QED
        BY <1>1, <3>1, <3>2, <3>3
    <3> QED
      BY <2>1, <2>3, <3>4 DEF Followed
  <2> QED
    BY <2>2, <2>3
<1>2. \A c \in Spots : Ends(g, NextPlace(g, c)) \/ NextPlace(g, c) \in S => c \in S
  BY <1>1
<1> HIDE DEF S
<1>3. Spots \subseteq S
  BY <1>2, AlongLoop
<1> QED
  BY <1>3 DEF S

LEMMA RunsExists ==
  ASSUME NEW g \in Seq(Candidates), g # <<>>
  PROVE  \E f : Runs(f, g)
<1> DEFINE partial(c) == CHOOSE f : Upto(f, g, Rank(g, c) + 1)
           h == [c \in Spots |-> partial(c)[c]]
<1>1. ASSUME NEW c \in Spots
      PROVE  Rank(g, c) \in Nat /\ Rank(g, c) + 1 \in Nat /\ Upto(partial(c), g, Rank(g, c) + 1)
  <2>1. Rank(g, c) \in Nat /\ Rank(g, c) + 1 \in Nat
    BY RankFalls
  <2> QED
    BY <2>1, UptoExists
<1> HIDE DEF partial
<1>2. ASSUME NEW c \in Spots PROVE h[c] = Followed(h, g, c)
  <2>1. h[c] = Followed(partial(c), g, c)
    BY <1>1 DEF Upto
  <2>2. CASE Ends(g, NextPlace(g, c))
    BY <2>1, <2>2 DEF Followed
  <2>3. CASE ~Ends(g, NextPlace(g, c))
    <3> DEFINE q == NextPlace(g, c)
    <3>1. q \in Spots /\ Rank(g, q) < Rank(g, c)
      BY <2>3, NextPlaceTyped, RankFalls
    <3>2. Rank(g, q) < Rank(g, q) + 1 /\ Rank(g, q) < Rank(g, c) + 1
      BY <1>1, <3>1
    <3>3. partial(c)[q] = partial(q)[q]
      BY <1>1, <3>1, <3>2, UptoAgree
    <3>4. h[q] = partial(q)[q]
      BY <3>1
    <3> HIDE DEF h
    <3> QED
      BY <2>1, <2>3, <3>3, <3>4 DEF Followed
  <2> QED
    BY <2>2, <2>3
<1>3. h = [c \in Spots |-> h[c]]
  OBVIOUS
<1> HIDE DEF h
<1>4. h = [c \in Spots |-> Followed(h, g, c)]
  BY <1>2, <1>3
<1> QED
  BY <1>4 DEF Runs

LEMMA ChoiceRuns ==
  ASSUME NEW g \in Seq(Candidates), g # <<>>
  PROVE  \E f : Runs(f, g) /\ \A c \in Spots : WeightedChoice(g, c) = f[c]
<1> DEFINE Body(f, c) ==
             LET k == (c.index + 1) % Len(g)
                 w == IF k = 0 THEN NextWeight(g, c.weight) ELSE c.weight
                 next == [index |-> k, weight |-> w]
             IN IF k = 0 /\ w <= 0 THEN [mark |-> next, chosen |-> {}]
                ELSE IF Fits(g, k, w) THEN [mark |-> next, chosen |-> {k}]
                ELSE f[next]
           loop == CHOOSE f : f = [c \in [index : Nat, weight : Nat] |-> Body(f, c)]
<1>1. ASSUME NEW f, NEW c \in Spots PROVE Body(f, c) = Followed(f, g, c)
  BY DEF Followed, NextPlace, Ends, Exhausted, Outcome
<1>2. \A c \in Spots : WeightedChoice(g, c) = loop[c]
  BY DEF WeightedChoice
<1> HIDE DEF Body
<1>3. PICK f : Runs(f, g)
  BY RunsExists
<1>4. f = [c \in Spots |-> Body(f, c)]
  BY <1>1, <1>3 DEF Runs
<1>5. loop = [c \in Spots |-> Body(loop, c)]
  BY <1>4 DEF Spots
<1> HIDE DEF loop
<1>6. Runs(loop, g)
  BY <1>1, <1>5 DEF Runs
<1> QED
  BY <1>2, <1>6

-----------------------------------------------------------------------------
(***************************************************************************)
(* What the loop returns.  A place that is owed is followed by the next    *)
(* one of the cycle: what is owed up to it (Past) grows by it, or starts   *)
(* with it again.                                                          *)
(***************************************************************************)
Past(g, c) ==
  {q \in Owed(g) : q.weight > c.weight \/ (q.weight = c.weight /\ q.index <= c.index)}

Follows(g, c, q) ==
  \/ q \notin Past(g, c) /\ Past(g, q) = Past(g, c) \cup {q}
  \/ Past(g, c) = Owed(g) /\ Past(g, q) = {q}

LEMMA OwedTyped ==
  ASSUME NEW g \in Seq(Candidates), NEW q \in Owed(g)
  PROVE  /\ q \in Spots /\ q.index \in Healthy(g) /\ q.index \in 0 .. Len(g) - 1
         /\ q.weight \in Nat \ {0} /\ q.weight <= Inst(g, q.index).weight
         /\ q.weight <= HealthyWeight(g) /\ HealthyWeight(g) \in Nat
         /\ Fits(g, q.index, q.weight)
<1>1. q \in Spots /\ q.index \in Healthy(g) /\ q.weight \in 1 .. Inst(g, q.index).weight
  BY DEF Owed
<1>2. q.index \in 0 .. Len(g) - 1 /\ Inst(g, q.index).healthy
  BY <1>1 DEF Healthy
<1>3. Inst(g, q.index).weight \in Nat
  BY <1>2, Members
<1>4. Inst(g, q.index).weight <= HealthyWeight(g) /\ HealthyWeight(g) \in Nat
  BY <1>1, WeightBounded
<1> QED
  BY <1>1, <1>2, <1>3, <1>4 DEF Fits

LEMMA FitsOwed ==
  ASSUME NEW g \in Seq(Candidates), NEW q \in Spots, q.index \in 0 .. Len(g) - 1,
         q.weight > 0, Fits(g, q.index, q.weight)
  PROVE  q \in Owed(g)
<1>1. q.weight \in Nat /\ Inst(g, q.index).weight \in Nat /\ Inst(g, q.index).healthy
  BY Members DEF Spots, Fits
<1>2. q.weight \in 1 .. Inst(g, q.index).weight
  BY <1>1 DEF Fits
<1> QED
  BY <1>1, <1>2 DEF Owed, Healthy

LEMMA SamePlace ==
  ASSUME NEW p \in Spots, NEW q \in Spots, p.index = q.index, p.weight = q.weight
  PROVE  p = q
BY DEF Spots

(* One place further, whether or not it is owed. *)
LEMMA PastNext ==
  ASSUME NEW g \in Seq(Candidates), g # <<>>, NEW c \in Spots, c.index < Len(g),
         HealthyWeight(g) > 0
  PROVE  LET q == NextPlace(g, c) IN
           \/ /\ q \notin Past(g, c)
              /\ Past(g, q) = Past(g, c) \cup ({q} \cap Owed(g))
           \/ Past(g, c) = Owed(g) /\ Past(g, q) = {q} \cap Owed(g)
<1> DEFINE n == Len(g)
           H == HealthyWeight(g)
           q == NextPlace(g, c)
<1>1. /\ n \in Nat \ {0} /\ H \in Nat /\ q \in Spots
      /\ c.index \in Nat /\ c.weight \in Nat /\ q.index \in 0 .. n - 1 /\ q.weight \in Nat
      /\ c.index < n - 1 => q.index = c.index + 1
      /\ c.index = n - 1 => q.index = 0
      /\ q.weight = IF q.index # 0 THEN c.weight
                    ELSE IF c.weight > 1 THEN c.weight - 1 ELSE H
  BY NextPlaceTyped, WeightBounded DEF Spots
<1>2. \A p \in Owed(g) :
        /\ p \in Spots /\ p.index \in 0 .. n - 1 /\ p.weight \in Nat \ {0} /\ p.weight <= H
  BY OwedTyped
<1>3. \A p \in Owed(g) : p = q <=> p.index = q.index /\ p.weight = q.weight
  BY <1>1, <1>2, SamePlace
<1> HIDE DEF n, H, q
<1>4. \A p : p \in Past(g, c) <=>
        p \in Owed(g) /\ (p.weight > c.weight \/ (p.weight = c.weight /\ p.index <= c.index))
  BY DEF Past
<1>5. \A p : p \in Past(g, q) <=>
        p \in Owed(g) /\ (p.weight > q.weight \/ (p.weight = q.weight /\ p.index <= q.index))
  BY DEF Past
<1>6. CASE c.index < n - 1
  <2>1. q.index = c.index + 1 /\ q.weight = c.weight
    BY <1>1, <1>6
  <2>2. q \notin Past(g, c)
    BY <1>1, <1>4, <2>1
  <2>3. Past(g, q) = Past(g, c) \cup ({q} \cap Owed(g))
    <3>1. ASSUME NEW p \in Owed(g)
          PROVE  p \in Past(g, q) <=> p \in Past(g, c) \/ p = q
      BY <1>1, <1>2, <1>3, <1>4, <1>5, <2>1
    <3> QED
      BY <3>1, <1>4, <1>5
  <2> QED
    BY <2>2, <2>3 DEF q
<1>7. CASE c.index = n - 1 /\ c.weight > 1
  <2>1. q.index = 0 /\ q.weight = c.weight - 1
    BY <1>1, <1>7
  <2>2. q \notin Past(g, c)
    BY <1>1, <1>4, <2>1
  <2>3. Past(g, q) = Past(g, c) \cup ({q} \cap Owed(g))
    <3>1. ASSUME NEW p \in Owed(g)
          PROVE  p \in Past(g, q) <=> p \in Past(g, c) \/ p = q
      <4>1. p.index \in 0 .. n - 1 /\ p.weight \in Nat
        BY <1>2
      <4> QED
        BY <1>1, <1>3, <1>4, <1>5, <1>7, <2>1, <4>1
    <3> QED
      BY <3>1, <1>4, <1>5
  <2> QED
    BY <2>2, <2>3 DEF q
<1>8. CASE c.index = n - 1 /\ ~(c.weight > 1)
  <2>1. q.index = 0 /\ q.weight = H
    BY <1>1, <1>8
  <2>2. ASSUME NEW p \in Owed(g) PROVE p \in Past(g, c) /\ (p \in Past(g, q) <=> p = q)
    <3>1. p.index \in 0 .. n - 1 /\ p.weight \in Nat \ {0} /\ p.weight <= H
      BY <1>2
    <3> QED
      BY <1>1, <1>3, <1>4, <1>5, <1>8, <2>1, <3>1
  <2>3. Past(g, c) = Owed(g) /\ Past(g, q) = {q} \cap Owed(g)
    BY <2>2, <1>4, <1>5
  <2> QED
    BY <2>3 DEF q
<1>9. c.index <= n - 1
  BY <1>1 DEF n
<1> QED
  BY <1>1, <1>6, <1>7, <1>8, <1>9

\* Where a choice may be: owed, or in what was left of a pass at weight 0.
Leftover(c, q) == c.weight = 0 /\ q.weight = 0 /\ q.index > 0

Returned(g, c, r) ==
  /\ r.mark \in Spots /\ r.mark.index < Len(g)
  /\ r.chosen = {} => HealthyWeight(g) = 0
  /\ r.chosen # {} => r.chosen = {r.mark.index} /\ r.mark.index \in Healthy(g)
  /\ HealthyWeight(g) > 0 =>
       \/ /\ r.mark \in Owed(g)
          /\ c.index < Len(g) => Follows(g, c, r.mark)
       \/ /\ Leftover(c, r.mark)
          /\ c.index < Len(g) => r.mark.index > c.index

LEMMA LoopReturns ==
  ASSUME NEW g \in Seq(Candidates), g # <<>>, NEW f, Runs(f, g)
  PROVE  \A c \in Spots : Returned(g, c, f[c])
<1> DEFINE S == {c \in Spots : Returned(g, c, f[c])}
           H == HealthyWeight(g)
<1>1. ASSUME NEW c \in Spots, Ends(g, NextPlace(g, c)) \/ NextPlace(g, c) \in S
      PROVE  Returned(g, c, f[c])
  <2> DEFINE q == NextPlace(g, c)
             n == Len(g)
  <2>1. /\ n \in Nat \ {0} /\ H \in Nat /\ q \in Spots
        /\ c.index \in Nat /\ c.weight \in Nat /\ q.index \in 0 .. n - 1 /\ q.weight \in Nat
        /\ c.index < n - 1 => q.index = c.index + 1
        /\ c.index = n - 1 => q.index = 0
        /\ q.weight = IF q.index # 0 THEN c.weight
                      ELSE IF c.weight > 1 THEN c.weight - 1 ELSE H
    BY NextPlaceTyped, WeightBounded DEF Spots
  <2>2. H > 0 /\ q.weight = 0 => c.weight = 0 /\ q.index > 0
    BY <2>1
  <2>3. c.index < n /\ H > 0 =>
          \/ /\ q \notin Past(g, c)
             /\ Past(g, q) = Past(g, c) \cup ({q} \cap Owed(g))
          \/ Past(g, c) = Owed(g) /\ Past(g, q) = {q} \cap Owed(g)
    BY PastNext
  <2>4. c.index < n /\ q.index > 0 => q.index > c.index
    BY <2>1
  <2>5. f[c] = IF Ends(g, q) THEN Outcome(q) ELSE f[q]
    BY DEF Runs, Followed
  <2>6. \A p \in Owed(g) :
          /\ p.weight > 0 /\ p \in Spots /\ Fits(g, p.index, p.weight)
          /\ p.index \in 0 .. n - 1 /\ p.index \in Healthy(g)
    BY OwedTyped
  <2>7. q.weight > 0 /\ Fits(g, q.index, q.weight) => q \in Owed(g)
    BY <2>1, FitsOwed
  <2>8. Ends(g, q) \/ Returned(g, q, f[q])
    BY <1>1
  <2> HIDE DEF q, n, H, S
  <2>9. CASE Exhausted(q)
    <3>1. q.index = 0 /\ q.weight = 0 /\ H = 0
      BY <2>1, <2>2, <2>9 DEF Exhausted
    <3>2. f[c].mark = q /\ f[c].chosen = {}
      BY <2>5, <2>9 DEF Ends, Outcome
    <3> QED
      BY <2>1, <3>1, <3>2 DEF Returned, H, n
  <2>10. CASE ~Exhausted(q) /\ Ends(g, q)
    <3>1. f[c].mark = q /\ f[c].chosen = {q.index} /\ Fits(g, q.index, q.weight)
      BY <2>5, <2>10 DEF Ends, Outcome
    <3>0. q \in Spots /\ q.index < n /\ {q.index} # {}
      BY <2>1
    <3>2. q.index \in Healthy(g)
      BY <2>1, <3>1 DEF Fits, Healthy, n
    <3>3. CASE q.weight > 0
      <4>1. q \in Owed(g) /\ {q} \cap Owed(g) = {q}
        BY <2>7, <3>1, <3>3
      <4>2. c.index < n /\ H > 0 => Follows(g, c, q)
        BY <2>3, <4>1 DEF Follows
      <4> QED
        BY <3>0, <3>1, <3>2, <4>1, <4>2 DEF Returned, n, H
    <3>4. CASE q.weight = 0
      <4>1. H > 0 => Leftover(c, q) /\ (c.index < n => q.index > c.index)
        BY <2>2, <2>4, <3>4 DEF Leftover
      <4> QED
        BY <3>0, <3>1, <3>2, <4>1 DEF Returned, n, H
    <3> QED
      BY <2>1, <3>3, <3>4
  <2>11. CASE ~Ends(g, q)
    <3> DEFINE r == f[q]
    <3>1. Returned(g, q, r) /\ f[c] = r
      BY <2>5, <2>8, <2>11
    <3>2. q \notin Owed(g)
      BY <2>6, <2>11 DEF Ends
    <3>3. c.index < n /\ H > 0 => Past(g, q) = Past(g, c) \/ (Past(g, c) = Owed(g) /\ Past(g, q) = {})
      BY <2>3, <3>2
    <3> HIDE DEF r
    <3>4. ASSUME H > 0, c.index < n, r.mark \in Owed(g), Follows(g, q, r.mark)
          PROVE  Follows(g, c, r.mark)
      <4>1. CASE Past(g, q) = Past(g, c)
        BY <3>4, <4>1 DEF Follows
      <4>2. CASE Past(g, c) = Owed(g) /\ Past(g, q) = {}
        BY <3>4, <4>2 DEF Follows
      <4> QED
        BY <3>3, <3>4, <4>1, <4>2
    <3>5. /\ r.mark \in Spots /\ r.mark.index < n
          /\ r.chosen = {} => H = 0
          /\ r.chosen # {} => r.chosen = {r.mark.index} /\ r.mark.index \in Healthy(g)
          /\ H > 0 => \/ r.mark \in Owed(g) /\ Follows(g, q, r.mark)
                      \/ Leftover(q, r.mark) /\ r.mark.index > q.index
      BY <2>1, <3>1 DEF Returned, n, H
    <3>6. ASSUME H > 0, Leftover(q, r.mark), r.mark.index > q.index
          PROVE  Leftover(c, r.mark) /\ (c.index < n => r.mark.index > c.index)
      <4>1. c.weight = 0 /\ q.index > 0
        BY <2>2, <3>6 DEF Leftover
      <4>2. r.mark.index \in Nat
        BY <3>5 DEF Spots
      <4> QED
        BY <2>1, <2>4, <3>6, <4>1, <4>2 DEF Leftover
    <3>7. H > 0 =>
            \/ r.mark \in Owed(g) /\ (c.index < n => Follows(g, c, r.mark))
            \/ Leftover(c, r.mark) /\ (c.index < n => r.mark.index > c.index)
      BY <3>4, <3>5, <3>6
    <3> QED
      BY <3>1, <3>5, <3>7 DEF Returned, n, H
  <2> QED
    BY <2>9, <2>10, <2>11
<1>2. \A c \in Spots : Ends(g, NextPlace(g, c)) \/ NextPlace(g, c) \in S => c \in S
  BY <1>1
<1> HIDE DEF S
<1>3. Spots \subseteq S
  BY <1>2, AlongLoop
<1> QED
  BY <1>3 DEF S

(* What select_weighted_round_robin returns. *)
LEMMA WeightedReturns ==
  ASSUME NEW g \in Seq(Candidates), g # <<>>, NEW c \in Spots
  PROVE  Returned(g, c, WeightedChoice(g, c))
<1>1. PICK f : Runs(f, g) /\ \A d \in Spots : WeightedChoice(g, d) = f[d]
  BY ChoiceRuns
<1> QED
  BY <1>1, LoopReturns

-----------------------------------------------------------------------------
(* The position of a choice in the cycle, from 1 to its length.            *)
Position(g, q) == Cardinality(Past(g, q))

\* The position d choices before p, in a cycle of n.
Back(p, d, n) == IF p > d THEN p - d ELSE p - d + n

LEMMA BackUnique ==
  ASSUME NEW n \in Nat, NEW p \in 1 .. n, NEW d \in 0 .. n - 1, NEW e \in 0 .. n - 1,
         Back(p, d, n) = Back(p, e, n)
  PROVE  d = e
<1>1. CASE p > d /\ p > e
  BY <1>1 DEF Back
<1>2. CASE p > d /\ ~(p > e)
  BY <1>2 DEF Back
<1>3. CASE ~(p > d) /\ p > e
  BY <1>3 DEF Back
<1>4. CASE ~(p > d) /\ ~(p > e)
  BY <1>4 DEF Back
<1> QED
  BY <1>1, <1>2, <1>3, <1>4

LEMMA BackOn ==
  ASSUME NEW n \in Nat, NEW p \in 1 .. n, NEW d \in Nat, d + 1 < n
  PROVE  Back(IF p < n THEN p + 1 ELSE 1, d + 1, n) = Back(p, d, n)
<1>1. CASE p < n
  BY <1>1 DEF Back
<1>2. CASE p = n
  BY <1>2 DEF Back
<1> QED
  BY <1>1, <1>2

LEMMA PositionTyped ==
  ASSUME NEW g \in Seq(Candidates), NEW q \in Owed(g)
  PROVE  /\ IsFiniteSet(Past(g, q)) /\ q \in Past(g, q)
         /\ HealthyWeight(g) \in Nat /\ Position(g, q) \in 1 .. HealthyWeight(g)
<1>1. IsFiniteSet(Owed(g)) /\ HealthyWeight(g) = Cardinality(Owed(g))
        /\ HealthyWeight(g) \in Nat
  BY CycleLength, FS_CardinalityType
<1>2. Past(g, q) \subseteq Owed(g)
  BY DEF Past
<1>3. q \in Past(g, q)
  BY OwedTyped DEF Past, Spots
<1>4. IsFiniteSet(Past(g, q)) /\ Cardinality(Past(g, q)) <= Cardinality(Owed(g))
  BY <1>1, <1>2, FS_Subset
<1>5. Cardinality(Past(g, q)) \in Nat /\ Cardinality(Past(g, q)) # 0
  BY <1>3, <1>4, FS_CardinalityType, FS_EmptySet
<1> QED
  BY <1>1, <1>3, <1>4, <1>5 DEF Position

LEMMA PositionUnique ==
  ASSUME NEW g \in Seq(Candidates), NEW p \in Owed(g), NEW q \in Owed(g),
         Position(g, p) = Position(g, q)
  PROVE  p = q
<1>1. /\ p \in Spots /\ p.index \in Nat /\ p.weight \in Nat
      /\ q \in Spots /\ q.index \in Nat /\ q.weight \in Nat
  BY OwedTyped DEF Spots
<1>2. \A r \in Owed(g) : r.index \in Nat /\ r.weight \in Nat
  BY OwedTyped DEF Spots
<1>3. Past(g, p) \subseteq Past(g, q) \/ Past(g, q) \subseteq Past(g, p)
  BY <1>1, <1>2 DEF Past
<1>4. /\ IsFiniteSet(Past(g, p)) /\ p \in Past(g, p)
      /\ IsFiniteSet(Past(g, q)) /\ q \in Past(g, q)
  BY PositionTyped
<1>5. Past(g, p) = Past(g, q)
  <2>1. CASE Past(g, p) \subseteq Past(g, q)
    BY <1>4, <2>1, FS_Subset DEF Position
  <2>2. CASE Past(g, q) \subseteq Past(g, p)
    BY <1>4, <2>2, FS_Subset DEF Position
  <2> QED
    BY <1>3, <2>1, <2>2
<1>6. p.index = q.index /\ p.weight = q.weight
  BY <1>1, <1>4, <1>5 DEF Past
<1> QED
  BY <1>1, <1>6, SamePlace

LEMMA NextPosition ==
  ASSUME NEW g \in Seq(Candidates), NEW p \in Owed(g), NEW q \in Owed(g),
         Follows(g, p, q)
  PROVE  Position(g, q)
           = IF Position(g, p) < HealthyWeight(g) THEN Position(g, p) + 1 ELSE 1
<1>1. /\ IsFiniteSet(Past(g, p)) /\ HealthyWeight(g) \in Nat
      /\ Position(g, p) \in 1 .. HealthyWeight(g) /\ Position(g, q) \in 1 .. HealthyWeight(g)
  BY PositionTyped
<1>2. CASE q \notin Past(g, p) /\ Past(g, q) = Past(g, p) \cup {q}
  <2>1. Position(g, q) = Position(g, p) + 1
    BY <1>1, <1>2, FS_AddElement DEF Position
  <2> QED
    BY <1>1, <2>1
<1>3. CASE Past(g, p) = Owed(g) /\ Past(g, q) = {q}
  <2>1. Position(g, p) = HealthyWeight(g)
    BY <1>3, CycleLength DEF Position
  <2>2. Position(g, q) = 1
    BY <1>3, FS_Singleton DEF Position
  <2> QED
    BY <1>1, <2>1, <2>2
<1> QED
  BY <1>2, <1>3 DEF Follows

(***************************************************************************)
(* A cycle of choices, each owed and at the position after the one before, *)
(* has every healthy instance as many times as its weight says.            *)
(***************************************************************************)
LEMMA CycleShares ==
  ASSUME NEW g \in Seq(Candidates), NEW t \in Seq(SUBSET Int), NEW p,
         HealthyWeight(g) > 0, HealthyWeight(g) <= Len(t), p \in 1 .. HealthyWeight(g),
         \A i \in DOMAIN t : Len(t) - i < HealthyWeight(g) =>
           \E q \in Owed(g) :
             /\ t[i] = {q.index}
             /\ Position(g, q) = Back(p, Len(t) - i, HealthyWeight(g)),
         NEW k \in Healthy(g)
  PROVE  Cardinality({i \in DOMAIN t : i > Len(t) - HealthyWeight(g) /\ t[i] = {k}})
           = Inst(g, k).weight
<1> DEFINE H == HealthyWeight(g)
           m == Len(t)
           w == Inst(g, k).weight
           S == {i \in DOMAIN t : i > m - H /\ t[i] = {k}}
           at(i) == CHOOSE q \in Owed(g) :
                      t[i] = {q.index} /\ Position(g, q) = Back(p, m - i, H)
           f == [i \in S |-> at(i)]
<1>1. /\ H \in Nat /\ H > 0 /\ m \in Nat /\ H <= m /\ DOMAIN t = 1 .. m
      /\ p \in 1 .. H /\ k \in Nat /\ w \in Nat /\ k \in 0 .. Len(g) - 1
  BY WeightBounded, LenProperties, Members DEF Healthy
<1>2. ASSUME NEW i \in 1 .. m, i > m - H
      PROVE  /\ at(i) \in Owed(g) /\ t[i] = {at(i).index}
             /\ Position(g, at(i)) = Back(p, m - i, H)
             /\ m - i \in 0 .. H - 1
  <2>1. m - i \in 0 .. H - 1 /\ m - i < H
    BY <1>1, <1>2
  <2>2. \E q \in Owed(g) : t[i] = {q.index} /\ Position(g, q) = Back(p, m - i, H)
    BY <1>1, <2>1
  <2> QED
    BY <2>1, <2>2
<1> DEFINE C == Column(k, w)
<1>3. \A q \in Owed(g) : q.index = k <=> q \in C
  <2>1. ASSUME NEW q \in Owed(g), q.index = k PROVE q \in C
    <3>1. q \in Spots /\ q.weight \in 1 .. w
      BY <2>1 DEF Owed
    <3>2. q = [index |-> k, weight |-> q.weight]
      BY <2>1, <3>1 DEF Spots
    <3> QED
      BY <3>1, <3>2 DEF Column
  <2>2. \A q \in C : q.index = k
    BY DEF Column
  <2> QED
    BY <2>1, <2>2
<1>4. C \subseteq Owed(g)
  BY <1>1 DEF Column, Owed, Spots
<1> HIDE DEF C, at, H, m, w
<1>5. f \in [S -> C]
  <2>1. ASSUME NEW i \in S PROVE at(i) \in C
    <3>1. i \in 1 .. m /\ i > m - H /\ t[i] = {k}
      BY <1>1
    <3>2. at(i) \in Owed(g) /\ {at(i).index} = {k}
      BY <1>2, <3>1
    <3>3. at(i).index = k
      BY <3>2
    <3> QED
      BY <1>3, <3>2, <3>3
  <2> QED
    BY <2>1
<1>6. ASSUME NEW i \in S, NEW j \in S, f[i] = f[j] PROVE i = j
  <2>1. i \in 1 .. m /\ i > m - H /\ j \in 1 .. m /\ j > m - H /\ at(i) = at(j)
    BY <1>1, <1>6
  <2>2. /\ m - i \in 0 .. H - 1 /\ m - j \in 0 .. H - 1
        /\ Back(p, m - i, H) = Back(p, m - j, H)
    BY <1>2, <2>1
  <2>3. m - i = m - j
    BY <1>1, <2>2, BackUnique
  <2> QED
    BY <1>1, <2>1, <2>3
<1>7. ASSUME NEW q \in C PROVE \E i \in S : f[i] = q
  <2>1. q \in Owed(g) /\ q.index = k
    BY <1>3, <1>4
  <2>2. Position(g, q) \in 1 .. H
    BY <2>1, PositionTyped DEF H
  <2> DEFINE d == IF p >= Position(g, q) THEN p - Position(g, q) ELSE p - Position(g, q) + H
             i == m - d
  <2>3. d \in 0 .. H - 1 /\ Back(p, d, H) = Position(g, q)
    <3>1. p \in Int /\ Position(g, q) \in Int
      BY <1>1, <2>2
    <3>2. CASE p >= Position(g, q)
      BY <1>1, <2>2, <3>1, <3>2 DEF Back
    <3>3. CASE ~(p >= Position(g, q))
      BY <1>1, <2>2, <3>1, <3>3 DEF Back
    <3> QED
      BY <3>2, <3>3
  <2> HIDE DEF d
  <2>4. i \in 1 .. m /\ i > m - H /\ m - i = d
    BY <1>1, <2>3
  <2> HIDE DEF i
  <2>5. /\ at(i) \in Owed(g) /\ t[i] = {at(i).index}
        /\ Position(g, at(i)) = Position(g, q)
    BY <1>2, <2>3, <2>4
  <2>6. at(i) = q
    BY <2>1, <2>5, PositionUnique
  <2>7. i \in S
    BY <1>1, <2>1, <2>4, <2>5, <2>6
  <2> QED
    BY <2>6, <2>7
<1> HIDE DEF f
<1>8. f \in Bijection(S, C)
  BY <1>5, <1>6, <1>7 DEF Bijection, Injection, Surjection, IsInjective
<1>9. IsFiniteSet(C) /\ Cardinality(C) = w
  BY <1>1, ColumnSize DEF C
<1>10. IsFiniteSet(S)
  <2>1. IsFiniteSet(1 .. m)
    BY <1>1, FS_Interval
  <2>2. S \subseteq 1 .. m
    BY <1>1
  <2> HIDE DEF S
  <2> QED
    BY <2>1, <2>2, FS_Subset
<1> HIDE DEF S
<1>11. Cardinality(S) = w
  BY <1>8, <1>9, <1>10, FS_Bijection DEF ExistsBijection
<1> QED
  BY <1>11 DEF S, w, m, H

-----------------------------------------------------------------------------
(***************************************************************************)
(* Choices by weight, one after the other: the mark is owed once a first   *)
(* pass is over, and the last choices are those before it in the cycle.    *)
(***************************************************************************)
InCycle(g, t, q) ==
  \A i \in DOMAIN t : i > Lead(g) /\ Len(t) - i < HealthyWeight(g) =>
    \E r \in Owed(g) :
      /\ t[i] = {r.index}
      /\ Position(g, r) = Back(Position(g, q), Len(t) - i, HealthyWeight(g))

ShareInv ==
  policy = "weight" =>
    /\ group \in Seq(Candidates) /\ group # <<>>
    /\ mark \in Spots /\ turns \in Seq(SUBSET Int)
    /\ \A i \in DOMAIN turns :
         turns[i] \subseteq Healthy(group) /\ (turns[i] = {} => HealthyWeight(group) = 0)
    /\ HealthyWeight(group) > 0 /\ turns # <<>> =>
         /\ mark.index < Len(group)
         /\ mark \in Owed(group) \/ (mark.weight = 0 /\ Len(turns) <= mark.index)
         /\ InCycle(group, turns, mark)

LEMMA InitShare == SelectionInit => ShareInv
<1> SUFFICES ASSUME SelectionInit PROVE ShareInv
  OBVIOUS
<1>1. group \in Seq(Candidates) /\ group # <<>>
  BY GroupsAssumption DEF SelectionInit, Candidates
<1>2. mark \in Spots
  BY MarksAssumption DEF SelectionInit, Spots
<1>3. turns = <<>> /\ turns \in Seq(SUBSET Int) /\ DOMAIN turns = {}
  BY EmptySeq DEF SelectionInit
<1> QED
  BY <1>1, <1>2, <1>3 DEF ShareInv

\* A connection more changes nothing that is owed.
LEMMA ConnectedOwed ==
  ASSUME NEW g \in Seq(Candidates), g # <<>>, NEW chosen
  PROVE  /\ Connected(g, chosen) \in Seq(Candidates) /\ Connected(g, chosen) # <<>>
         /\ Len(Connected(g, chosen)) = Len(g)
         /\ Healthy(Connected(g, chosen)) = Healthy(g)
         /\ Owed(Connected(g, chosen)) = Owed(g)
         /\ HealthyWeight(Connected(g, chosen)) = HealthyWeight(g)
         /\ \A q : Past(Connected(g, chosen), q) = Past(g, q)
         /\ \A q : Position(Connected(g, chosen), q) = Position(g, q)
<1> DEFINE d == Connected(g, chosen)
<1>1. /\ d \in Seq(Candidates) /\ Len(d) = Len(g) /\ Healthy(d) = Healthy(g)
      /\ \A k \in Healthy(g) : Inst(d, k).weight = Inst(g, k).weight
  BY ConnectedGroup
<1>2. Len(g) # 0 /\ Len(<<>>) = 0
  BY LenProperties, EmptySeq
<1> HIDE DEF d
<1>3. Owed(d) = Owed(g)
  BY <1>1 DEF Owed
<1>4. HealthyWeight(d) = HealthyWeight(g)
  BY <1>1, <1>3, CycleLength
<1>5. \A q : Past(d, q) = Past(g, q)
  BY <1>3 DEF Past
<1>6. \A q : Position(d, q) = Position(g, q)
  BY <1>5 DEF Position
<1>7. d # <<>>
  BY <1>1, <1>2
<1> QED
  BY <1>1, <1>3, <1>4, <1>5, <1>6, <1>7 DEF d

\* The cycle after a choice.
LEMMA CycleGrows ==
  ASSUME NEW g \in Seq(Candidates), NEW t \in Seq(SUBSET Int), NEW p, NEW q \in Owed(g),
         Len(t) >= Lead(g) =>
           p \in Owed(g) /\ Follows(g, p, q) /\ InCycle(g, t, p)
  PROVE  InCycle(g, Append(t, {q.index}), q)
<1> DEFINE H == HealthyWeight(g)
           u == Append(t, {q.index})
           m == Len(t)
<1>1. H \in Nat /\ Position(g, q) \in 1 .. H /\ m \in Nat /\ Lead(g) \in Nat
  BY PositionTyped, LenProperties DEF Lead
<1>2. q.index \in Int
  BY OwedTyped
<1>3. /\ Len(u) = m + 1 /\ DOMAIN u = 1 .. m + 1 /\ DOMAIN t = 1 .. m
      /\ u[m + 1] = {q.index} /\ \A i \in 1 .. m : u[i] = t[i]
  BY <1>2, AppendProperties, LenProperties
<1>4. ASSUME NEW i \in DOMAIN u, i > Lead(g), Len(u) - i < H
      PROVE  \E r \in Owed(g) :
               u[i] = {r.index} /\ Position(g, r) = Back(Position(g, q), Len(u) - i, H)
  <2>1. CASE i = m + 1
    <3>1. Len(u) - i = 0 /\ Back(Position(g, q), 0, H) = Position(g, q)
      BY <1>1, <1>3, <2>1 DEF Back
    <3> QED
      BY <1>3, <2>1, <3>1
  <2>2. CASE i # m + 1
    <3> HIDE DEF H, m, u
    <3> DEFINE e == m - i
    <3>1. i \in 1 .. m /\ i \in DOMAIN t /\ m >= Lead(g) /\ m - i < H /\ u[i] = t[i]
      BY <1>1, <1>3, <1>4, <2>2
    <3>2. e \in Nat /\ Len(u) - i = e + 1 /\ e + 1 < H
      BY <1>1, <1>3, <1>4, <3>1
    <3>3. p \in Owed(g) /\ Follows(g, p, q) /\ InCycle(g, t, p)
      BY <3>1 DEF m
    <3>4. PICK r \in Owed(g) : t[i] = {r.index} /\ Position(g, r) = Back(Position(g, p), e, H)
      BY <1>4, <3>1, <3>3 DEF InCycle, H, m
    <3>5. Position(g, p) \in 1 .. H
            /\ Position(g, q) = IF Position(g, p) < H THEN Position(g, p) + 1 ELSE 1
      BY <3>3, NextPosition, PositionTyped DEF H
    <3> HIDE DEF e
    <3>6. Back(Position(g, q), e + 1, H) = Back(Position(g, p), e, H)
      BY <1>1, <3>2, <3>5, BackOn
    <3> QED
      BY <3>1, <3>2, <3>4, <3>6
  <2> QED
    BY <2>1, <2>2
<1> QED
  BY <1>4 DEF InCycle

LEMMA StepShare == ShareInv /\ [SelectionNext]_selectionVars => ShareInv'
<1> SUFFICES ASSUME ShareInv, [SelectionNext]_selectionVars, policy' = "weight"
             PROVE  ShareInv'
  BY DEF ShareInv
<1>1. CASE SelectByWeight
  <2> DEFINE g == group
             c == WeightedChoice(g, mark)
             d == Connected(g, c.chosen)
             H == HealthyWeight(g)
             q == c.mark
             m == Len(turns)
  <2>1. /\ g \in Seq(Candidates) /\ g # <<>> /\ mark \in Spots /\ turns \in Seq(SUBSET Int)
        /\ policy = "weight"
        /\ mark' = q /\ group' = d /\ turns' = Append(turns, c.chosen)
    BY <1>1 DEF ShareInv, SelectByWeight
  <2>2. /\ \A i \in DOMAIN turns : turns[i] \subseteq Healthy(g) /\ (turns[i] = {} => H = 0)
        /\ H > 0 /\ turns # <<>> =>
             /\ mark.index < Len(g)
             /\ mark \in Owed(g) \/ (mark.weight = 0 /\ m <= mark.index)
             /\ InCycle(g, turns, mark)
    BY <2>1 DEF ShareInv
  <2>3. Returned(g, mark, c)
    BY <2>1, WeightedReturns
  <2>4. /\ d \in Seq(Candidates) /\ d # <<>> /\ Len(d) = Len(g)
        /\ Healthy(d) = Healthy(g) /\ Owed(d) = Owed(g) /\ HealthyWeight(d) = H
        /\ \A r : Position(d, r) = Position(g, r)
    BY <2>1, ConnectedOwed
  <2>5. H \in Nat /\ m \in Nat /\ Len(g) \in Nat \ {0} /\ mark.index \in Nat
    BY <2>1, WeightBounded, LenProperties, EmptySeq DEF Spots
  <2> HIDE DEF g, c, d, H, q, m
  <2>6. /\ q \in Spots /\ q.index < Len(g)
        /\ c.chosen = {} => H = 0
        /\ c.chosen # {} => c.chosen = {q.index} /\ q.index \in Healthy(g)
        /\ H > 0 =>
             \/ q \in Owed(g) /\ (mark.index < Len(g) => Follows(g, mark, q))
             \/ Leftover(mark, q) /\ (mark.index < Len(g) => q.index > mark.index)
    BY <2>3 DEF Returned, q, H
  <2>7. q.index \in Nat /\ c.chosen \subseteq Healthy(g) /\ c.chosen \in SUBSET Int
    BY <2>6 DEF Spots
  <2>8. /\ turns' \in Seq(SUBSET Int) /\ Len(turns') = m + 1 /\ DOMAIN turns' = 1 .. m + 1
        /\ DOMAIN turns = 1 .. m
        /\ turns'[m + 1] = c.chosen /\ \A i \in 1 .. m : turns'[i] = turns[i]
    BY <2>1, <2>7, AppendProperties, LenProperties DEF m
  <2>9. ASSUME NEW i \in DOMAIN turns'
        PROVE  turns'[i] \subseteq Healthy(d) /\ (turns'[i] = {} => HealthyWeight(d) = 0)
    <3>1. CASE i = m + 1
      BY <2>4, <2>6, <2>7, <2>8, <3>1
    <3>2. CASE i # m + 1
      <4>1. i \in DOMAIN turns /\ turns'[i] = turns[i]
        BY <2>5, <2>8, <3>2
      <4> QED
        BY <2>2, <2>4, <4>1
    <3> QED
      BY <3>1, <3>2
  <2>10. ASSUME H > 0
         PROVE  /\ q \in Owed(g) \/ (q.weight = 0 /\ m + 1 <= q.index)
                /\ InCycle(g, turns', q)
    <3>1. c.chosen = {q.index} /\ turns' = Append(turns, {q.index})
      BY <2>1, <2>6, <2>10
    <3>2. m = 0 => turns = <<>>
      BY <2>1, EmptySeq DEF m
    <3>3. m # 0 =>
            /\ mark.index < Len(g)
            /\ mark \in Owed(g) \/ (mark.weight = 0 /\ m <= mark.index)
            /\ InCycle(g, turns, mark)
      <4>1. turns # <<>> <=> m # 0
        BY <2>1, EmptySeq DEF m
      <4> QED
        BY <2>2, <2>10, <4>1
    <3>4. CASE q \in Owed(g) /\ (mark.index < Len(g) => Follows(g, mark, q))
      <4>1. ASSUME m >= Lead(g)
            PROVE  mark \in Owed(g) /\ Follows(g, mark, q) /\ InCycle(g, turns, mark)
        <5>1. m >= Len(g) /\ m # 0
          BY <2>5, <4>1 DEF Lead
        <5> QED
          BY <2>5, <3>3, <3>4, <5>1
      <4>2. InCycle(g, Append(turns, {q.index}), q)
        BY <2>1, <3>4, <4>1, CycleGrows DEF m
      <4> QED
        BY <3>1, <3>4, <4>2
    <3>5. CASE Leftover(mark, q) /\ (mark.index < Len(g) => q.index > mark.index)
      <4>1. q.weight = 0 /\ q.index > 0 /\ mark.weight = 0
        BY <3>5 DEF Leftover
      <4>2. mark \notin Owed(g)
        BY <2>1, <4>1, OwedTyped
      <4>3. m + 1 <= q.index
        <5>1. CASE m = 0
          BY <2>7, <4>1, <5>1
        <5>2. CASE m # 0
          <6>1. m <= mark.index /\ q.index > mark.index
            BY <3>3, <3>5, <4>2, <5>2
          <6> QED
            BY <2>5, <2>7, <6>1
        <5> QED
          BY <5>1, <5>2
      <4>4. InCycle(g, turns', q)
        <5>1. m + 1 < Len(g)
          BY <2>5, <2>6, <2>7, <4>3
        <5>2. \A i \in DOMAIN turns' : ~(i > Lead(g))
          BY <2>5, <2>8, <5>1 DEF Lead
        <5> QED
          BY <5>2 DEF InCycle
      <4> QED
        BY <4>1, <4>3, <4>4
    <3> QED
      BY <2>6, <2>10, <3>4, <3>5
  <2>11. ASSUME H > 0 PROVE InCycle(d, turns', q)
    <3>1. Lead(d) = Lead(g)
      BY <2>4 DEF Lead
    <3> QED
      BY <2>4, <2>10, <2>11, <3>1 DEF InCycle, H
  <2> QED
    BY <2>1, <2>4, <2>6, <2>8, <2>9, <2>10, <2>11 DEF ShareInv
<1>2. CASE SelectByConnections
  BY <1>2 DEF SelectByConnections
<1>3. CASE UNCHANGED selectionVars
  BY <1>3 DEF selectionVars, ShareInv
<1> QED
  BY <1>1, <1>2, <1>3 DEF SelectionNext

(***************************************************************************)
(* Whatever was left from other instances, select_weighted_round_robin     *)
(* ends, chooses healthy instances only and none only if no healthy one    *)
(* has a weight, and, after at most one choice for each instance, gives    *)
(* every healthy instance its weight in each run of as many choices as the *)
(* weights add up to.                                                      *)
(***************************************************************************)
THEOREM SharesCorrect == SelectionSpec => []WeightsHonoured
<1>1. ShareInv => WeightsHonoured
  <2> SUFFICES ASSUME ShareInv, policy = "weight" PROVE WeightsHonoured
    BY DEF WeightsHonoured
  <2> DEFINE g == group
             H == HealthyWeight(g)
             m == Len(turns)
  <2>1. /\ g \in Seq(Candidates) /\ g # <<>> /\ turns \in Seq(SUBSET Int)
        /\ \A i \in DOMAIN turns : turns[i] \subseteq Healthy(g) /\ (turns[i] = {} => H = 0)
    BY DEF ShareInv
  <2>2. /\ H \in Nat /\ m \in Nat /\ DOMAIN turns = 1 .. m /\ Lead(g) \in Nat \ {0}
    BY <2>1, WeightBounded, LenProperties, EmptySeq DEF Lead
  <2>3. ASSUME m >= Lead(g) + H, NEW k \in Healthy(g)
        PROVE  Cardinality({i \in LastTurns(H) : turns[i] = {k}}) = Inst(g, k).weight
    <3> DEFINE S == {i \in DOMAIN turns : i > m - H /\ turns[i] = {k}}
    <3>1. {i \in LastTurns(H) : turns[i] = {k}} = S
      BY DEF LastTurns
    <3>2. CASE H > 0
      <4>1. m # 0 /\ turns # <<>> /\ m > Len(g) /\ m - H >= Lead(g)
        BY <2>1, <2>2, <2>3, <3>2, EmptySeq DEF Lead
      <4>2. /\ mark.index < Len(g)
            /\ mark \in Owed(g) \/ (mark.weight = 0 /\ m <= mark.index)
            /\ InCycle(g, turns, mark) /\ mark \in Spots
        BY <3>2, <4>1 DEF ShareInv
      <4>3. mark \in Owed(g)
        BY <2>2, <4>1, <4>2 DEF Spots, Lead
      <4> HIDE DEF g, H, m
      <4>4. ASSUME NEW i \in DOMAIN turns, m - i < H
            PROVE  \E r \in Owed(g) :
                     /\ turns[i] = {r.index}
                     /\ Position(g, r) = Back(Position(g, mark), m - i, H)
        <5>1. i > Lead(g)
          BY <2>2, <4>1, <4>4
        <5> QED
          BY <4>2, <4>4, <5>1 DEF InCycle, H, m
      <4>5. Position(g, mark) \in 1 .. H /\ H <= m
        BY <2>1, <2>2, <2>3, <4>3, PositionTyped DEF H
      <4>6. Cardinality({i \in DOMAIN turns : i > m - H /\ turns[i] = {k}}) = Inst(g, k).weight
        BY <2>1, <3>2, <4>4, <4>5, CycleShares DEF H, m
      <4> QED
        BY <3>1, <4>6
    <3>3. CASE H = 0
      <4>1. S = {}
        BY <2>2, <3>3
      <4>2. Inst(g, k).weight = 0
        <5>1. Inst(g, k).weight <= H /\ Inst(g, k).weight \in Nat
          BY <2>1, WeightBounded, Members DEF Healthy
        <5> QED
          BY <3>3, <5>1
      <4> QED
        BY <3>1, <4>1, <4>2, FS_EmptySet
    <3> QED
      BY <2>2, <3>2, <3>3
  <2> QED
    BY <2>1, <2>3 DEF WeightsHonoured
<1> QED
  BY InitShare, StepShare, <1>1, PTL DEF SelectionSpec
=============================================================================
