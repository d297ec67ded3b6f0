-------------------------- MODULE ConnectionsProof --------------------------
(***************************************************************************)
(* Theorems about the reactor threads, for every number of threads, clients*)
(* and descriptors, every length of the table and of the buffers, and any  *)
(* allocations that fail.                                                  *)
(***************************************************************************)
EXTENDS Connections, ReadyListProof, FiniteSetTheorems

-----------------------------------------------------------------------------
(* The growth of a buffer, and the lowest descriptor                       *)

Grown(f, cap, n, k) ==
  IF k = 0 THEN cap ELSE IF f[k - 1] >= n THEN f[k - 1] ELSE 2 * f[k - 1]

LEMMA GrownExists ==
  ASSUME NEW cap, NEW n, NEW m \in Nat
  PROVE  \E f : f = [k \in 0 .. m |-> Grown(f, cap, n, k)]
<1> DEFINE T == {i \in Nat : \E f : f = [k \in 0 .. i |-> Grown(f, cap, n, k)]}
<1>1. 0 \in T
  <2> DEFINE f == [k \in 0 .. 0 |-> cap]
  <2>1. f = [k \in 0 .. 0 |-> Grown(f, cap, n, k)]
    BY DEF Grown
  <2> QED
    BY <2>1
<1>2. ASSUME NEW i \in Nat, i \in T PROVE i + 1 \in T
  <2>1. PICK f : f = [k \in 0 .. i |-> Grown(f, cap, n, k)]
    BY <1>2
  <2> DEFINE g == [k \in 0 .. i + 1 |->
                     IF k <= i THEN f[k] ELSE Grown(f, cap, n, i + 1)]
  <2>2. ASSUME NEW k \in 0 .. i + 1 PROVE g[k] = Grown(g, cap, n, k)
    <3>1. CASE k = 0
      BY <3>1, <2>1 DEF Grown
    <3>2. CASE k # 0
      <4>1. k - 1 \in 0 .. i /\ k - 1 \in 0 .. i + 1 /\ k - 1 <= i
        BY <3>2
      <4>2. g[k - 1] = f[k - 1]
        BY <4>1
      <4>3. Grown(g, cap, n, k) = Grown(f, cap, n, k)
        <5> HIDE DEF g
        <5> QED
          BY <4>2, <3>2 DEF Grown
      <4>4. CASE k <= i
        <5>1. k \in 0 .. i
          BY <4>4
        <5>2. g[k] = f[k] /\ f[k] = Grown(f, cap, n, k)
          BY <5>1, <4>4, <2>1
        <5> QED
          BY <4>3, <5>2
      <4>5. CASE ~(k <= i)
        <5>1. k = i + 1
          BY <4>5
        <5>2. g[k] = Grown(f, cap, n, i + 1)
          BY <4>5
        <5> QED
          BY <4>3, <5>1, <5>2
      <4> QED
        BY <4>4, <4>5
    <3> QED
      BY <3>1, <3>2
  <2>3. g = [k \in 0 .. i + 1 |-> g[k]]
    OBVIOUS
  <2> HIDE DEF g
  <2>4. g = [k \in 0 .. i + 1 |-> Grown(g, cap, n, k)]
    BY <2>2, <2>3
  <2> QED
    BY <2>4
<1>3. Nat \subseteq T
  <2> HIDE DEF T
  <2> QED
    BY <1>1, <1>2, NatSet
<1> QED
  BY <1>3

(* Doubled often enough, the capacity is what is needed.                   *)
LEMMA DoubledFits ==
  ASSUME NEW cap \in Nat \ {0}, NEW n \in Nat
  PROVE  Doubled(cap, n) \in Nat \ {0} /\ Doubled(cap, n) >= n
<1> DEFINE f == CHOOSE g : g = [k \in 0 .. n |-> Grown(g, cap, n, k)]
<1>1. f = [k \in 0 .. n |-> Grown(f, cap, n, k)]
  BY GrownExists
<1>2. Doubled(cap, n) = f[n]
  BY DEF Doubled, Grown
<1> HIDE DEF f
<1> DEFINE T == {k \in Nat : k <= n => f[k] \in Nat \ {0} /\ (f[k] >= n \/ f[k] >= k + 1)}
<1>3. 0 \in T
  BY <1>1 DEF Grown
<1>4. ASSUME NEW k \in Nat, k \in T PROVE k + 1 \in T
  <2> SUFFICES ASSUME k + 1 <= n
               PROVE  f[k + 1] \in Nat \ {0} /\ (f[k + 1] >= n \/ f[k + 1] >= (k + 1) + 1)
    OBVIOUS
  <2>1. k + 1 \in 0 .. n /\ k + 1 # 0 /\ (k + 1) - 1 = k
    OBVIOUS
  <2>2. f[k + 1] = IF f[k] >= n THEN f[k] ELSE 2 * f[k]
    BY <1>1, <2>1 DEF Grown
  <2>3. f[k] \in Nat \ {0} /\ (f[k] >= n \/ f[k] >= k + 1)
    BY <1>4
  <2> QED
    BY <2>2, <2>3
<1>5. n \in T
  <2> HIDE DEF T
  <2> QED
    BY <1>3, <1>4, NatSet
<1> QED
  BY <1>2, <1>5

LEMMA LowestFree ==
  ASSUME Free # {}
  PROVE  Lowest(Free) \in Free
<1>1. Free \subseteq Nat
  BY DEF Free, Fds
<1>2. IsWellFoundedOn(OpToRel(<, Nat), Nat)
  BY NatLessThanWellFounded
<1>3. PICK f \in Free : \A g \in Free : ~(<<g, f>> \in OpToRel(<, Nat))
  BY <1>1, <1>2, WFMin
<1>4. ASSUME NEW g \in Free PROVE f <= g
  <2>1. f \in Nat /\ g \in Nat
    BY <1>1
  <2>2. ~(g < f)
    BY <2>1, <1>3 DEF OpToRel
  <2> QED
    BY <2>1, <2>2
<1> QED
  BY <1>3, <1>4 DEF Lowest

-----------------------------------------------------------------------------
(* The state and its types                                                 *)

SocketTypes ==
  /\ where \in [Clients -> {"away", "queued", "reset", "open", "closed"}]
  /\ owner \in [Clients -> Threads \cup {Nobody}]
  /\ fd \in [Clients -> Fds]
  /\ backlog \in [Threads -> Seq(Clients)]
  /\ watched \in SUBSET Clients
  /\ conns \in [0 .. TableSize - 1 -> Clients \cup {Nobody}]

\* An item is on a ready list, or in what is left of a batch, at most once.
Lists == \A t \in Threads : IsInjective(ready[t]) /\ IsInjective(batch[t])

Working == {"events", "accepted", "parse", "inline", "closing", "releasing"}

ThreadTypes ==
  /\ ready \in [Threads -> Seq(Items)] /\ batch \in [Threads -> Seq(Items)]
  /\ Lists
  /\ pc \in [Threads -> Working \cup {"wait", "leave", "left", "unborn"}]

\* The bookkeeping of the buffers, with its bounds.
InputTypes ==
  /\ fin \in [Clients -> BOOLEAN]
  /\ arrived \in [Clients -> Nat] /\ taken \in [Clients -> Nat]
  /\ buf \in [Clients -> Seq(Nat)] /\ readPos \in [Clients -> Nat]
  /\ capacity \in [Clients -> Nat \ {0}] /\ asked \in [Clients -> Nat]
  /\ \A c \in Clients :
       /\ taken[c] <= arrived[c] /\ arrived[c] <= Len(Stream[c])
       /\ buf[c] \in Seq(DOMAIN Stream[c]) /\ Len(buf[c]) <= capacity[c]
       /\ readPos[c] <= Len(buf[c])

PoolTypes ==
  /\ line \in Seq(Tasks) /\ Len(line) <= QueueSize
  /\ started \subseteq Tasks /\ finished \subseteq Tasks /\ closed \in BOOLEAN

MainTypes ==
  /\ main \in {"starting", "run", "joining", "destroying", "gone"} \cup Failed
  /\ swept \in 0 .. TableSize
  /\ failures \in 0 .. MaxFailures

Typed == SocketTypes /\ ThreadTypes /\ InputTypes /\ PoolTypes /\ MainTypes

LEMMA TypedOK == Typed => TypeOK
<1> SUFFICES ASSUME Typed PROVE TypeOK
  OBVIOUS
<1>1. \A c \in Clients :
        /\ 0 <= taken[c] /\ taken[c] <= arrived[c] /\ arrived[c] <= Len(Stream[c])
        /\ buf[c] \in Seq(DOMAIN Stream[c]) /\ Len(buf[c]) <= capacity[c]
        /\ readPos[c] \in 0 .. Len(buf[c])
        /\ asked[c] \in Nat
  <2> SUFFICES ASSUME NEW c \in Clients
               PROVE  0 <= taken[c] /\ readPos[c] \in 0 .. Len(buf[c]) /\ asked[c] \in Nat
    BY DEF Typed, InputTypes
  <2>1. taken[c] \in Nat /\ readPos[c] \in Nat /\ Len(buf[c]) \in Nat /\ asked[c] \in Nat
        /\ readPos[c] <= Len(buf[c])
    BY DEF Typed, InputTypes
  <2> QED
    BY <2>1
<1> QED
  BY <1>1 DEF Typed, SocketTypes, ThreadTypes, InputTypes, PoolTypes, MainTypes,
     Working, TypeOK

\* The items whose events are on their way to a thread.
Coming(t) == ToSet(ready[t]) \cup ToSet(batch[t])

LEMMA DueComing ==
  ASSUME Typed, NEW t \in Threads, NEW i
  PROVE  Due(t, i) <=> i \in Coming(t)
<1>1. ready[t] \in Seq(Items) /\ batch[t] \in Seq(Items)
  BY DEF Typed, ThreadTypes
<1>2. /\ DOMAIN ready[t] = 1 .. Len(ready[t])
      /\ DOMAIN batch[t] = 1 .. Len(batch[t])
  BY <1>1
<1> QED
  BY <1>2 DEF Due, Contains, Coming, ToSet

(* Another edge of item i for thread t.                                    *)
LEMMA EdgeLists ==
  ASSUME Typed, NEW t \in Threads, NEW i \in Items, ready' = Edge(t, i)
  PROVE  /\ ready' \in [Threads -> Seq(Items)]
         /\ \A u \in Threads : IsInjective(ready'[u])
         /\ \A u \in Threads : u # t => ready'[u] = ready[u]
         /\ ToSet(ready'[t]) = ToSet(ready[t]) \cup {i}
<1>1. ready \in [Threads -> Seq(Items)] /\ \A u \in Threads : IsInjective(ready[u])
  BY DEF Typed, ThreadTypes, Lists
<1> DEFINE list == Offered(ready[t], i)
<1>2. /\ list \in Seq(Items) /\ IsInjective(list)
      /\ ToSet(list) = ToSet(ready[t]) \cup {i}
  BY <1>1, OfferedItems
<1>3. ready' = [ready EXCEPT ![t] = list]
  BY DEF Edge
<1> HIDE DEF list
<1>4. ready'[t] = list /\ \A u \in Threads : u # t => ready'[u] = ready[u]
  BY <1>1, <1>3
<1>5. ready' \in [Threads -> Seq(Items)]
  BY <1>1, <1>2, <1>3
<1> QED
  BY <1>1, <1>2, <1>4, <1>5

LEMMA WaitLists ==
  ASSUME Typed, NEW t \in Threads, Wait(t)
  PROVE  /\ ready' \in [Threads -> Seq(Items)] /\ batch' \in [Threads -> Seq(Items)]
         /\ Lists'
         /\ \A u \in Threads : u # t => ready'[u] = ready[u] /\ batch'[u] = batch[u]
         /\ ready'[t] = <<>>
         /\ ToSet(batch'[t]) = {i \in ToSet(ready[t]) : Readable(t, i)}
         /\ pc' = [pc EXCEPT ![t] = IF batch'[t] = <<>> THEN "wait" ELSE "events"]
<1> DEFINE events == Kept(ready[t], {i \in Items : Readable(t, i)})
<1>1. /\ ready \in [Threads -> Seq(Items)] /\ batch \in [Threads -> Seq(Items)]
      /\ \A u \in Threads : IsInjective(ready[u]) /\ IsInjective(batch[u])
  BY DEF Typed, ThreadTypes, Lists
<1>2. /\ events \in Seq(Items) /\ IsInjective(events)
      /\ ToSet(events) = ToSet(ready[t]) \cap {i \in Items : Readable(t, i)}
  BY <1>1, KeptItems
<1>3. /\ batch' = [batch EXCEPT ![t] = events]
      /\ pc' = [pc EXCEPT ![t] = IF events = <<>> THEN "wait" ELSE "events"]
      /\ ready' = [ready EXCEPT ![t] = <<>>]
  BY DEF Wait
<1> HIDE DEF events
<1>4. <<>> \in Seq(Items) /\ ToSet(<<>>) = {} /\ IsInjective(<<>>)
  BY DEF ToSet, IsInjective
<1>5. ToSet(ready[t]) \subseteq Items
  BY <1>1 DEF ToSet
<1>6. /\ ready'[t] = <<>> /\ batch'[t] = events
      /\ \A u \in Threads : u # t => ready'[u] = ready[u] /\ batch'[u] = batch[u]
  BY <1>1, <1>3
<1>7. Lists'
  BY <1>1, <1>2, <1>4, <1>6 DEF Lists
<1>8. ready' \in [Threads -> Seq(Items)] /\ batch' \in [Threads -> Seq(Items)]
  BY <1>1, <1>2, <1>3, <1>4
<1> QED
  BY <1>2, <1>3, <1>5, <1>6, <1>7, <1>8

(* The event in hand is done with.                                         *)
LEMMA TailLists ==
  ASSUME Typed, NEW t \in Threads, batch[t] # <<>>,
         batch' = [batch EXCEPT ![t] = Tail(@)]
  PROVE  /\ batch' \in [Threads -> Seq(Items)]
         /\ Head(batch[t]) \in Items
         /\ \A u \in Threads : IsInjective(batch'[u])
         /\ \A u \in Threads : u # t => batch'[u] = batch[u]
         /\ batch'[t] = Tail(batch[t])
         /\ ToSet(batch[t]) = ToSet(batch'[t]) \cup {Head(batch[t])}
         /\ Head(batch[t]) \notin ToSet(batch'[t])
<1>1. /\ batch \in [Threads -> Seq(Items)]
      /\ \A u \in Threads : IsInjective(batch[u])
  BY DEF Typed, ThreadTypes, Lists
<1>2. /\ Head(batch[t]) \in Items /\ Tail(batch[t]) \in Seq(Items)
      /\ ToSet(batch[t]) = ToSet(Tail(batch[t])) \cup {Head(batch[t])}
      /\ IsInjective(Tail(batch[t]))
      /\ Head(batch[t]) \notin ToSet(Tail(batch[t]))
  <2>1. batch[t] \in Seq(Items) /\ IsInjective(batch[t])
    BY <1>1
  <2> QED
    BY <2>1, TailItems
<1>3. /\ batch'[t] = Tail(batch[t])
      /\ \A u \in Threads : u # t => batch'[u] = batch[u]
  BY <1>1
<1>4. batch' \in [Threads -> Seq(Items)]
  BY <1>1, <1>2
<1> QED
  BY <1>1, <1>2, <1>3, <1>4

(* The item in hand is among those that come.                              *)
LEMMA HeadComes ==
  ASSUME Typed, NEW t \in Threads, batch[t] # <<>>
  PROVE  Head(batch[t]) \in ToSet(batch[t]) /\ Head(batch[t]) \in Items
<1>1. batch[t] \in Seq(Items)
  BY DEF Typed, ThreadTypes
<1> QED
  BY <1>1, TailItems

(* close() takes the connection out of the ready list of its thread.       *)
LEMMA ReleaseLists ==
  ASSUME Typed, NEW t \in Threads, NEW c \in Clients, Release(t, c)
  PROVE  /\ ready' \in [Threads -> Seq(Items)]
         /\ \A u \in Threads : IsInjective(ready'[u])
         /\ \A u \in Threads : u # t => ready'[u] = ready[u]
         /\ ToSet(ready'[t]) = ToSet(ready[t]) \ {c}
<1> DEFINE list == Kept(ready[t], Items \ {c})
<1>1. /\ ready \in [Threads -> Seq(Items)]
      /\ \A u \in Threads : IsInjective(ready[u])
  BY DEF Typed, ThreadTypes, Lists
<1>2. /\ list \in Seq(Items) /\ IsInjective(list)
      /\ ToSet(list) = ToSet(ready[t]) \cap (Items \ {c})
  BY <1>1, KeptItems
<1>3. ready' = [ready EXCEPT ![t] = list]
  BY DEF Release
<1> HIDE DEF list
<1>4. ready'[t] = list /\ \A u \in Threads : u # t => ready'[u] = ready[u]
  BY <1>1, <1>3
<1>5. ready' \in [Threads -> Seq(Items)]
  BY <1>1, <1>2, <1>3
<1>6. ToSet(ready[t]) \subseteq Items
  BY <1>1 DEF ToSet
<1> QED
  BY <1>1, <1>2, <1>4, <1>5, <1>6

-----------------------------------------------------------------------------
(* A thread goes on: with the same event, or with the next                 *)

LEMMA GotoMove ==
  ASSUME ThreadTypes, NEW t \in Threads, NEW at \in Working, Goto(t, at), ready' = ready
  PROVE  /\ ThreadTypes'
         /\ pc'[t] = at /\ \A u \in Threads : u # t => pc'[u] = pc[u]
         /\ batch' = batch
BY DEF ThreadTypes, Goto, Lists

LEMMA DoneMove ==
  ASSUME Typed, NEW t \in Threads, EventDone(t), batch[t] # <<>>
  PROVE  /\ ready' = ready => ThreadTypes'
         /\ batch' \in [Threads -> Seq(Items)]
         /\ \A u \in Threads : IsInjective(batch'[u])
         /\ pc' \in [Threads -> Working \cup {"wait", "leave", "left", "unborn"}]
         /\ pc'[t] \in {"events", "leave", "wait"}
         /\ pc'[t] = "events" <=> batch'[t] # <<>>
         /\ pc'[t] = "leave" => stop
         /\ \A u \in Threads : u # t => pc'[u] = pc[u] /\ batch'[u] = batch[u]
         /\ ToSet(batch[t]) = ToSet(batch'[t]) \cup {Head(batch[t])}
         /\ Head(batch[t]) \notin ToSet(batch'[t])
<1>1. /\ batch' \in [Threads -> Seq(Items)]
      /\ \A u \in Threads : IsInjective(batch'[u])
      /\ \A u \in Threads : u # t => batch'[u] = batch[u]
      /\ batch'[t] = Tail(batch[t])
      /\ ToSet(batch[t]) = ToSet(batch'[t]) \cup {Head(batch[t])}
      /\ Head(batch[t]) \notin ToSet(batch'[t])
  BY TailLists DEF EventDone
<1> DEFINE at == IF Tail(batch[t]) # <<>> THEN "events"
                 ELSE IF stop THEN "leave" ELSE "wait"
<1>2. /\ at \in {"events", "leave", "wait"}
      /\ at = "events" <=> Tail(batch[t]) # <<>>
      /\ at = "leave" => stop
  BY DEF stop
<1>3. pc' = [pc EXCEPT ![t] = at]
  BY DEF EventDone
<1> HIDE DEF at
<1>4. pc \in [Threads -> Working \cup {"wait", "leave", "left", "unborn"}]
  BY DEF Typed, ThreadTypes
<1>5. /\ pc' \in [Threads -> Working \cup {"wait", "leave", "left", "unborn"}]
      /\ pc'[t] = at /\ \A u \in Threads : u # t => pc'[u] = pc[u]
  BY <1>2, <1>3, <1>4 DEF Working
<1> QED
  BY <1>1, <1>2, <1>5 DEF Typed, ThreadTypes, Lists

-----------------------------------------------------------------------------
(* The buffers                                                             *)

\* What is in a buffer and not yet framed.
LEMMA RestFacts ==
  ASSUME InputTypes, NEW c \in Clients
  PROVE  /\ Rest(c) \in Seq(DOMAIN Stream[c]) /\ Rest(c) \in Seq(Nat)
         /\ Len(Rest(c)) = Len(buf[c]) - readPos[c]
<1>1. /\ buf[c] \in Seq(DOMAIN Stream[c]) /\ buf[c] \in Seq(Nat)
      /\ readPos[c] \in Nat /\ readPos[c] <= Len(buf[c]) /\ Len(buf[c]) \in Nat
  BY DEF InputTypes
<1> DEFINE a == readPos[c] + 1
           b == Len(buf[c])
<1>2. a \in 1 .. b + 1 /\ b \in a - 1 .. b
  BY <1>1
<1>3. b - a + 1 = Len(buf[c]) - readPos[c]
  BY <1>1
<1>4. /\ SubSeq(buf[c], a, b) \in Seq(DOMAIN Stream[c])
      /\ SubSeq(buf[c], a, b) \in Seq(Nat)
      /\ Len(SubSeq(buf[c], a, b)) = b - a + 1
  <2>1. a \in Int /\ b \in Int /\ (~(a <= b) => b - a + 1 = 0)
    BY <1>1, <1>2
  <2>2. \A i \in a .. b : i \in 1 .. Len(buf[c])
    BY <1>1, <1>2
  <2>3. \A i \in a .. b : buf[c][i] \in DOMAIN Stream[c] /\ buf[c][i] \in Nat
    BY <1>1, <2>2
  <2> HIDE DEF a, b
  <2> DEFINE D == DOMAIN Stream[c]
  <2>4. /\ SubSeq(buf[c], a, b) \in Seq(D)
        /\ Len(SubSeq(buf[c], a, b)) = IF a <= b THEN b - a + 1 ELSE 0
    <3>1. \A i \in a .. b : buf[c][i] \in D
      BY <2>3
    <3> HIDE DEF D
    <3> QED
      BY <2>1, <3>1, SubSeqProperties
  <2>5. SubSeq(buf[c], a, b) \in Seq(Nat)
    BY <2>1, <2>3, SubSeqProperties
  <2> QED
    BY <2>1, <2>4, <2>5
<1> QED
  BY <1>3, <1>4 DEF Rest

LEMMA TotalPositive ==
  ASSUME NEW c \in Clients, NEW i \in DOMAIN Stream[c]
  PROVE  TotalExpected(c, i) \in Nat \ {0}
<1> DEFINE S == {j \in DOMAIN Stream[c] : Stream[c][j] = Stream[c][i]}
<1>1. Stream[c] \in Seq(Nat \ {0})
  BY StreamAssumption
<1>2. DOMAIN Stream[c] = 1 .. Len(Stream[c]) /\ Len(Stream[c]) \in Nat
  BY <1>1
<1>3. IsFiniteSet(DOMAIN Stream[c])
  BY <1>2, FS_Interval
<1>4. IsFiniteSet(S) /\ i \in S
  BY <1>3, FS_Subset
<1> HIDE DEF S
<1>5. Cardinality(S) \in Nat /\ Cardinality(S) # 0
  BY <1>4, FS_CardinalityType, FS_EmptySet
<1> QED
  BY <1>5 DEF S, TotalExpected

LEMMA WholeFacts ==
  ASSUME InputTypes, NEW c \in Clients, Whole(c)
  PROVE  /\ TotalExpected(c, Head(Rest(c))) \in Nat \ {0}
         /\ readPos[c] + TotalExpected(c, Head(Rest(c))) <= Len(buf[c])
         /\ NextTask(c) \in Tasks
         /\ NextTask(c)[1] = c
<1> DEFINE n == TotalExpected(c, Head(Rest(c)))
<1>1. /\ Rest(c) \in Seq(DOMAIN Stream[c]) /\ Rest(c) \in Seq(Nat)
      /\ Len(Rest(c)) = Len(buf[c]) - readPos[c] /\ Rest(c) # <<>>
      /\ Len(Rest(c)) >= n
  BY RestFacts DEF Whole
<1>2. Head(Rest(c)) \in DOMAIN Stream[c]
  BY <1>1, HeadTailProperties
<1>3. n \in Nat \ {0}
  BY <1>2, TotalPositive
<1>4. NextTask(c) = <<c, asked[c] + 1, SubSeq(Rest(c), 1, n)>>
  BY DEF NextTask
<1> HIDE DEF n
<1>5. SubSeq(Rest(c), 1, n) \in Seq(Nat)
  <2>1. Len(Rest(c)) \in Nat
    BY <1>1
  <2>2. 1 \in 1 .. Len(Rest(c)) + 1 /\ n \in 1 - 1 .. Len(Rest(c))
    BY <1>1, <1>3, <2>1
  <2> QED
    BY <1>1, <2>2, SubSeqProperties
<1>6. asked[c] + 1 \in Nat
  BY DEF InputTypes
<1>7. NextTask(c) \in Tasks /\ NextTask(c)[1] = c
  <2> DEFINE data == SubSeq(Rest(c), 1, n)
  <2>1. NextTask(c) = <<c, asked[c] + 1, data>> /\ data \in Seq(Nat)
    BY <1>4, <1>5
  <2> HIDE DEF data
  <2> QED
    BY <1>6, <2>1 DEF Tasks
<1>8. readPos[c] \in Nat /\ Len(buf[c]) \in Nat
  BY DEF InputTypes
<1>9. readPos[c] + n <= Len(buf[c])
  BY <1>1, <1>3, <1>8
<1> QED
  BY <1>3, <1>7, <1>9 DEF n

LEMMA SendInput ==
  ASSUME InputTypes, NEW c \in Clients, Send(c)
  PROVE  InputTypes'
<1>1. /\ arrived' = [arrived EXCEPT ![c] = @ + 1] /\ arrived[c] < Len(Stream[c])
      /\ UNCHANGED <<fin, input>>
  BY DEF Send
<1>2. Len(Stream[c]) \in Nat
  BY StreamAssumption
<1>3. /\ arrived \in [Clients -> Nat] /\ taken \in [Clients -> Nat]
      /\ \A d \in Clients : taken[d] <= arrived[d] /\ arrived[d] <= Len(Stream[d])
  BY DEF InputTypes
<1>4. /\ arrived' \in [Clients -> Nat]
      /\ \A d \in Clients : taken[d] <= arrived'[d] /\ arrived'[d] <= Len(Stream[d])
  BY <1>1, <1>2, <1>3
<1> QED
  BY <1>1, <1>4 DEF InputTypes, input

LEMMA ReadInput ==
  ASSUME InputTypes, NEW t \in Threads, NEW c \in Clients, Read(t, c)
  PROVE  InputTypes'
<1> DEFINE w == buf[c] \o Unread(c)
<1>1. /\ buf' = [buf EXCEPT ![c] = w]
      /\ capacity' = [capacity EXCEPT ![c] = Doubled(@, Len(buf'[c]))]
      /\ taken' = [taken EXCEPT ![c] = arrived[c]]
      /\ UNCHANGED <<fin, arrived, readPos, asked>>
  BY DEF Read, client
<1>2. /\ arrived[c] \in Nat /\ taken[c] \in Nat /\ taken[c] <= arrived[c]
      /\ arrived[c] <= Len(Stream[c])
      /\ buf[c] \in Seq(Nat) /\ buf[c] \in Seq(DOMAIN Stream[c])
      /\ DOMAIN Stream[c] = 1 .. Len(Stream[c]) /\ Len(Stream[c]) \in Nat
      /\ readPos[c] \in Nat /\ readPos[c] <= Len(buf[c])
      /\ capacity[c] \in Nat \ {0}
  BY StreamAssumption DEF InputTypes
<1>3. Unread(c) \in Seq(DOMAIN Stream[c]) /\ Unread(c) \in Seq(Nat)
  <2>1. arrived[c] - taken[c] \in Nat
    BY <1>2
  <2> DEFINE n == arrived[c] - taken[c]
  <2>2. \A i \in 1 .. n : taken[c] + i \in DOMAIN Stream[c] /\ taken[c] + i \in Nat
    BY <1>2
  <2>3. Unread(c) = [i \in 1 .. n |-> taken[c] + i]
    BY DEF Unread
  <2> HIDE DEF n
  <2>4. Unread(c) \in [1 .. n -> DOMAIN Stream[c]] /\ Unread(c) \in [1 .. n -> Nat]
    BY <2>2, <2>3
  <2>5. n \in Nat
    BY <2>1 DEF n
  <2> QED
    BY <2>4, <2>5, SeqDef
<1>4. /\ w \in Seq(DOMAIN Stream[c]) /\ w \in Seq(Nat)
      /\ Len(w) = Len(buf[c]) + Len(Unread(c))
  BY <1>2, <1>3, ConcatProperties
<1>5. Len(buf[c]) \in Nat /\ Len(Unread(c)) \in Nat /\ Len(w) \in Nat
  BY <1>2, <1>3, <1>4
<1> HIDE DEF w
<1>6. buf \in [Clients -> Seq(Nat)]
  BY DEF InputTypes
<1>7. buf'[c] = w /\ \A d \in Clients : d # c => buf'[d] = buf[d]
  BY <1>1, <1>6
<1>8. /\ Doubled(capacity[c], Len(w)) \in Nat \ {0}
      /\ Doubled(capacity[c], Len(w)) >= Len(w)
  BY <1>2, <1>5, DoubledFits
<1> DEFINE cap == Doubled(capacity[c], Len(w))
<1>9. capacity' = [capacity EXCEPT ![c] = cap]
  BY <1>1, <1>7
<1> HIDE DEF cap
<1>10. cap \in Nat \ {0} /\ Len(w) <= cap /\ readPos[c] <= Len(w)
  BY <1>2, <1>4, <1>5, <1>8 DEF cap
<1>11. /\ buf' \in [Clients -> Seq(Nat)]
       /\ capacity' \in [Clients -> Nat \ {0}] /\ taken' \in [Clients -> Nat]
  BY <1>1, <1>2, <1>4, <1>9, <1>10 DEF InputTypes
<1>12. ASSUME NEW d \in Clients
       PROVE  /\ taken'[d] <= arrived[d]
              /\ buf'[d] \in Seq(DOMAIN Stream[d]) /\ Len(buf'[d]) <= capacity'[d]
              /\ readPos[d] <= Len(buf'[d])
  <2>1. CASE d = c
    BY <2>1, <1>1, <1>2, <1>4, <1>7, <1>9, <1>10 DEF InputTypes
  <2>2. CASE d # c
    BY <2>2, <1>1, <1>7, <1>9 DEF InputTypes
  <2> QED
    BY <2>1, <2>2
<1> QED
  BY <1>1, <1>11, <1>12 DEF InputTypes

LEMMA ReadEndsInput ==
  ASSUME InputTypes, NEW t \in Threads, NEW c \in Clients, ReadEnds(t, c)
  PROVE  InputTypes'
<1>1. /\ taken' = [taken EXCEPT ![c] = arrived[c]]
      /\ UNCHANGED <<fin, arrived, buf, readPos, capacity, asked>>
  BY DEF ReadEnds, client
<1> QED
  BY <1>1 DEF InputTypes

LEMMA AdvanceInput ==
  ASSUME InputTypes, NEW c \in Clients, Whole(c), Advance(c), UNCHANGED client
  PROVE  InputTypes'
<1> DEFINE at == readPos[c] + TotalExpected(c, Head(Rest(c)))
           w == IF at = Len(buf[c]) THEN <<>> ELSE buf[c]
           p == IF at = Len(buf[c]) THEN 0 ELSE at
<1>1. /\ readPos' = [readPos EXCEPT ![c] = p]
      /\ buf' = [buf EXCEPT ![c] = w]
      /\ asked' = [asked EXCEPT ![c] = @ + 1]
      /\ UNCHANGED <<taken, capacity, arrived, fin>>
  BY DEF Advance, client
<1>2. at \in Nat /\ at <= Len(buf[c])
  <2>1. TotalExpected(c, Head(Rest(c))) \in Nat
    BY WholeFacts
  <2>2. readPos[c] \in Nat
    BY DEF InputTypes
  <2>3. at <= Len(buf[c])
    BY WholeFacts
  <2> QED
    BY <2>1, <2>2, <2>3
<1> HIDE DEF at
<1>3. /\ w \in Seq(Nat) /\ w \in Seq(DOMAIN Stream[c])
      /\ p \in Nat /\ p <= Len(w) /\ Len(w) <= capacity[c]
  <2>1. /\ buf[c] \in Seq(Nat) /\ buf[c] \in Seq(DOMAIN Stream[c])
        /\ Len(buf[c]) <= capacity[c] /\ capacity[c] \in Nat
    BY DEF InputTypes
  <2>2. CASE at = Len(buf[c])
    BY <2>1, <2>2
  <2>3. CASE at # Len(buf[c])
    BY <2>1, <2>3, <1>2
  <2> QED
    BY <2>2, <2>3
<1> HIDE DEF w, p
<1>4. /\ buf' \in [Clients -> Seq(Nat)] /\ readPos' \in [Clients -> Nat]
      /\ asked' \in [Clients -> Nat]
  BY <1>1, <1>3 DEF InputTypes
<1>5. ASSUME NEW d \in Clients
      PROVE  /\ buf'[d] \in Seq(DOMAIN Stream[d]) /\ Len(buf'[d]) <= capacity[d]
             /\ readPos'[d] <= Len(buf'[d])
  <2>1. CASE d = c
    BY <2>1, <1>1, <1>3 DEF InputTypes
  <2>2. CASE d # c
    BY <2>2, <1>1 DEF InputTypes
  <2> QED
    BY <2>1, <2>2
<1> QED
  BY <1>1, <1>4, <1>5 DEF InputTypes

LEMMA ParseDoneInput ==
  ASSUME InputTypes, NEW t \in Threads, NEW c \in Clients, ParseDone(t, c)
  PROVE  /\ InputTypes'
         /\ \A d \in Clients : Rest(d)' = Rest(d)
<1> DEFINE w == IF Compact(c) THEN Rest(c) ELSE buf[c]
           p == IF Compact(c) THEN 0 ELSE readPos[c]
<1>1. /\ buf' = [buf EXCEPT ![c] = w] /\ readPos' = [readPos EXCEPT ![c] = p]
      /\ UNCHANGED <<fin, arrived, taken, capacity, asked>>
  BY DEF ParseDone, client
<1>2. /\ buf[c] \in Seq(Nat) /\ buf[c] \in Seq(DOMAIN Stream[c])
      /\ Len(buf[c]) <= capacity[c] /\ capacity[c] \in Nat
      /\ readPos[c] \in Nat /\ readPos[c] <= Len(buf[c]) /\ Len(buf[c]) \in Nat
  BY DEF InputTypes
<1>3. /\ Rest(c) \in Seq(DOMAIN Stream[c]) /\ Rest(c) \in Seq(Nat)
      /\ Len(Rest(c)) = Len(buf[c]) - readPos[c] /\ Len(Rest(c)) \in Nat
  BY RestFacts
<1>4. /\ w \in Seq(Nat) /\ w \in Seq(DOMAIN Stream[c])
      /\ p \in Nat /\ p <= Len(w) /\ Len(w) <= capacity[c]
      /\ SubSeq(w, p + 1, Len(w)) = Rest(c)
  <2>1. CASE Compact(c)
    <3>1. w = Rest(c) /\ p = 0
      BY <2>1
    <3>2. SubSeq(Rest(c), 1, Len(Rest(c))) = Rest(c)
      BY <1>3, SubSeqFull
    <3>3. 0 + 1 = 1
      OBVIOUS
    <3> HIDE DEF w, p
    <3> QED
      BY <3>1, <3>2, <3>3, <1>2, <1>3
  <2>2. CASE ~Compact(c)
    <3>1. w = buf[c] /\ p = readPos[c]
      BY <2>2
    <3> HIDE DEF w, p
    <3> QED
      BY <3>1, <1>2 DEF Rest
  <2> QED
    BY <2>1, <2>2
<1> HIDE DEF w, p
<1>5. buf' \in [Clients -> Seq(Nat)] /\ readPos' \in [Clients -> Nat]
  BY <1>1, <1>4 DEF InputTypes
<1>6. ASSUME NEW d \in Clients
      PROVE  /\ buf'[d] \in Seq(DOMAIN Stream[d]) /\ Len(buf'[d]) <= capacity[d]
             /\ readPos'[d] <= Len(buf'[d])
             /\ Rest(d)' = Rest(d)
  <2>1. CASE d = c
    <3>1. buf'[c] = w /\ readPos'[c] = p
      BY <1>1, <1>4 DEF InputTypes
    <3>2. Rest(c)' = Rest(c)
      BY <3>1, <1>4 DEF Rest
    <3> QED
      BY <2>1, <3>1, <3>2, <1>4
  <2>2. CASE d # c
    BY <2>2, <1>1 DEF InputTypes, Rest
  <2> QED
    BY <2>1, <2>2
<1> QED
  BY <1>1, <1>5, <1>6 DEF InputTypes

-----------------------------------------------------------------------------
(***************************************************************************)
(* Where everything is.  A thread has events to handle exactly while it    *)
(* works on them; the connection it has accepted and not registered, at    *)
(* most one, is in its hands; who is in an accept queue waits there only;  *)
(* and what comes to a thread is a connection registered with it and open. *)
(***************************************************************************)
Steps ==
  \A t \in Threads :
    /\ pc[t] \in Working <=> batch[t] # <<>>
    /\ pc[t] = "accepted" => Head(batch[t]) = Listener
    /\ pc[t] \in {"parse", "inline"} => Head(batch[t]) # Listener
    /\ ~Listening(t) => ready[t] = <<>>

Newcomers ==
  \A t \in Threads, c \in Clients :
    Newcomer(t, c) =>
      /\ pc[t] \in {"accepted", "closing", "releasing"}
      /\ Head(batch[t]) = Listener
      /\ \A d \in Clients : Newcomer(t, d) => d = c

Sockets ==
  /\ \A c \in Clients :
       /\ where[c] \in {"away", "queued", "reset"} => owner[c] = Nobody /\ c \notin watched
       /\ where[c] \in {"open", "closed"} => owner[c] \in Threads /\ pc[owner[c]] # "unborn"
  /\ main # "gone" => \A c \in watched : where[c] = "open"
  /\ main = "gone" => \A t \in Threads : ~Listening(t)

Queues ==
  \A t \in Threads :
    /\ IsInjective(backlog[t])
    /\ \A c \in ToSet(backlog[t]) :
         where[c] = "queued" /\ \A u \in Threads : c \in ToSet(backlog[u]) => u = t

Current ==
  \A t \in Threads, c \in Clients :
    c \in Coming(t) => c \in watched /\ where[c] = "open" /\ owner[c] = t

Places == Steps /\ Newcomers /\ Sockets /\ Queues /\ Current

(***************************************************************************)
(* The edges.  Until the stop, whoever waits at a listening socket has an  *)
(* event of it coming to the thread.  What a registered connection may     *)
(* read comes to its thread, by another edge if the thread has read it     *)
(* already and is framing; a whole request is in the buffer only then; and *)
(* nothing is in it before it is registered.                               *)
(***************************************************************************)
BacklogComing ==
  ~stop => \A t \in Threads : backlog[t] # <<>> => Listener \in Coming(t)

Late(t, c) == pc[t] \in {"parse", "inline"} /\ Head(batch[t]) = c

InputComing ==
  \A c \in watched :
    where[c] = "open" /\ Listening(owner[c]) /\ Readable(owner[c], c) =>
      /\ c \in Coming(owner[c])
      /\ Late(owner[c], c) => c \in ToSet(ready[owner[c]])

Parsed ==
  \A c \in watched :
    where[c] = "open" /\ Listening(owner[c]) /\ Whole(c) => Framing(c)

Untouched ==
  \A c \in Clients : c \notin watched /\ where[c] # "closed" => buf[c] = <<>>

Edges == BacklogComing /\ InputComing /\ Parsed /\ Untouched

(***************************************************************************)
(* The table.  No two open connections have the same descriptor; an entry  *)
(* is that of an open connection with this descriptor, which is registered *)
(* and not past its removal from the table, or about to be closed before   *)
(* it was registered.                                                      *)
(***************************************************************************)
FdsOwn ==
  \A c, d \in Clients :
    where[c] = "open" /\ where[d] = "open" /\ fd[c] = fd[d] => c = d

EntriesOpen ==
  \A f \in 0 .. TableSize - 1 :
    conns[f] # Nobody => where[conns[f]] = "open" /\ fd[conns[f]] = f

EntriesHeld ==
  \A f \in 0 .. TableSize - 1, c \in Clients :
    conns[f] = c =>
      \/ c \in watched /\ ~Releasing(c)
      \/ c \notin watched /\ pc[owner[c]] = "closing"

Entered ==
  \A c \in watched :
    fd[c] < TableSize /\ where[c] = "open" /\ ~Releasing(c)
      => conns[fd[c]] = c

Table == FdsOwn /\ EntriesOpen /\ EntriesHeld /\ Entered

(***************************************************************************)
(* The answers.  A connection is being closed only if its client has shut  *)
(* its side or an allocation has failed; the pool is closed with the       *)
(* reactor; and a task that is running, or may still start, is that of an  *)
(* open connection, with the same exceptions.                              *)
(***************************************************************************)
Excused(c) == fin[c] \/ failures > 0

ClosingExcused ==
  \A t \in Threads, c \in Clients :
    pc[t] \in {"closing", "releasing"} /\ InHand(t, c) => Excused(c)

PoolClosed == closed <=> main \in {"destroying", "abandoned", "gone"}

ToRun == started \cup (IF closed THEN {} ELSE ToSet(line))

TasksOpen == \A x \in ToRun : where[x[1]] = "open" \/ Excused(x[1])

Answered ==
  /\ ClosingExcused /\ PoolClosed /\ TasksOpen
  /\ \A a \in answers : a[1] \in Clients /\ (a[3] = a[1] \/ Excused(a[1]))

IInv == Typed /\ Places /\ Edges /\ Table /\ Answered

-----------------------------------------------------------------------------
(* What a thread has in hand                                               *)

LEMMA HandlingFacts ==
  ASSUME IInv, NEW t \in Threads, NEW c \in Clients, batch[t] # <<>>, Head(batch[t]) = c
  PROVE  /\ where[c] = "open" /\ owner[c] = t /\ c \in watched
         /\ c \in ToSet(batch[t]) /\ c # Listener
         /\ \A d \in Clients : ~Newcomer(t, d)
         /\ Listening(t) /\ main # "gone" /\ pc[t] \in Working
<1>1. c \in ToSet(batch[t])
  BY HeadComes DEF IInv
<1>2. c \in Coming(t)
  BY <1>1 DEF Coming
<1>3. where[c] = "open" /\ owner[c] = t /\ c \in watched
  BY <1>2 DEF IInv, Places, Current
<1>4. c # Listener
  BY PartiesAssumption
<1>5. pc[t] \in Working /\ Listening(t)
  BY DEF IInv, Places, Steps, Working, Listening
<1>6. \A d \in Clients : ~Newcomer(t, d)
  BY <1>4, <1>5 DEF IInv, Places, Newcomers
<1>7. main # "gone"
  BY <1>5 DEF IInv, Places, Sockets
<1> QED
  BY <1>1, <1>3, <1>4, <1>5, <1>6, <1>7

LEMMA InHandFacts ==
  ASSUME IInv, NEW t \in Threads, NEW c \in Clients, InHand(t, c)
  PROVE  /\ where[c] = "open" /\ owner[c] = t /\ main # "gone"
         /\ Listening(t) /\ pc[t] \in Working
         /\ \/ Head(batch[t]) = c /\ c \in watched
            \/ Head(batch[t]) = Listener /\ c \notin watched /\ Newcomer(t, c)
<1>1. CASE Head(batch[t]) = c
  BY <1>1, HandlingFacts DEF InHand
<1>2. CASE Head(batch[t]) # c
  <2>1. Head(batch[t]) = Listener /\ Newcomer(t, c) /\ batch[t] # <<>>
    BY <1>2 DEF InHand
  <2>2. pc[t] \in Working /\ Listening(t)
    BY <2>1 DEF IInv, Places, Steps, Working, Listening
  <2>3. main # "gone"
    BY <2>2 DEF IInv, Places, Sockets
  <2> QED
    BY <2>1, <2>2, <2>3 DEF Newcomer
<1> QED
  BY <1>1, <1>2

-----------------------------------------------------------------------------
(* A thread that goes on touches no socket: what that leaves of each part  *)
(* of the invariant.                                                       *)

LEMMA GotoPlaces ==
  ASSUME IInv, NEW t \in Threads, NEW at \in Working, Goto(t, at), batch[t] # <<>>,
         UNCHANGED <<where, owner, watched, backlog, ready, main>>,
         at = "accepted" => Head(batch[t]) = Listener,
         at \in {"parse", "inline"} => Head(batch[t]) # Listener,
         \A c \in Clients : Newcomer(t, c) => at \in {"accepted", "closing", "releasing"}
  PROVE  Places'
<1>1. /\ pc'[t] = at /\ \A u \in Threads : u # t => pc'[u] = pc[u]
      /\ batch' = batch
  BY GotoMove DEF IInv, Typed
<1>2. pc[t] \in Working /\ Listening(t) /\ Listening(t)' /\ at # "unborn"
  BY <1>1 DEF IInv, Places, Steps, Working, Listening
<1>3. main # "gone"
  BY <1>2 DEF IInv, Places, Sockets
<1>4. Steps'
  BY <1>1, <1>2 DEF IInv, Places, Steps, Listening
<1>5. Newcomers'
  <2>1. \A u \in Threads, c \in Clients : Newcomer(u, c)' <=> Newcomer(u, c)
    BY DEF Newcomer
  <2>2. \A c \in Clients : Newcomer(t, c) => Head(batch[t]) = Listener
    BY <1>2 DEF IInv, Places, Newcomers, Listening
  <2> QED
    BY <1>1, <2>1, <2>2 DEF IInv, Places, Newcomers
<1>6. Sockets'
  BY <1>1, <1>2, <1>3 DEF IInv, Places, Sockets
<1>7. Queues'
  BY DEF IInv, Places, Queues
<1>8. Current'
  BY <1>1 DEF IInv, Places, Current, Coming
<1> QED
  BY <1>4, <1>5, <1>6, <1>7, <1>8 DEF Places

LEMMA DonePlaces ==
  ASSUME IInv, NEW t \in Threads, EventDone(t), batch[t] # <<>>,
         UNCHANGED <<where, owner, watched, backlog, ready, main>>,
         \A c \in Clients : ~Newcomer(t, c)
  PROVE  Places'
<1>1. /\ pc'[t] \in {"events", "leave", "wait"}
      /\ pc'[t] = "events" <=> batch'[t] # <<>>
      /\ \A u \in Threads : u # t => pc'[u] = pc[u] /\ batch'[u] = batch[u]
      /\ ToSet(batch[t]) = ToSet(batch'[t]) \cup {Head(batch[t])}
  BY DoneMove DEF IInv
<1>2. pc[t] \in Working /\ Listening(t) /\ Listening(t)'
  BY <1>1 DEF IInv, Places, Steps, Working, Listening
<1>3. main # "gone"
  BY <1>2 DEF IInv, Places, Sockets
<1>4. Steps'
  BY <1>1, <1>2 DEF IInv, Places, Steps, Listening, Working
<1>5. Newcomers'
  <2>1. \A u \in Threads, c \in Clients : Newcomer(u, c)' <=> Newcomer(u, c)
    BY DEF Newcomer
  <2> QED
    BY <1>1, <2>1 DEF IInv, Places, Newcomers
<1>6. Sockets'
  BY <1>1, <1>2, <1>3 DEF IInv, Places, Sockets
<1>7. Queues'
  BY DEF IInv, Places, Queues
<1>8. Current'
  BY <1>1 DEF IInv, Places, Current, Coming
<1> QED
  BY <1>4, <1>5, <1>6, <1>7, <1>8 DEF Places

LEMMA ReadableClient ==
  ASSUME NEW t, NEW c \in Clients
  PROVE  /\ Readable(t, c) <=> arrived[c] > taken[c] \/ fin[c]
         /\ Readable(t, c)' <=> arrived'[c] > taken'[c] \/ fin'[c]
BY PartiesAssumption DEF Readable

LEMMA ParsedOther ==
  ASSUME IInv, NEW t \in Threads, NEW c \in watched, where[c] = "open", owner[c] = t,
         Listening(t), Head(batch[t]) # c
  PROVE  ~Whole(c)
BY DEF IInv, Edges, Parsed, Framing

LEMMA GotoEdges ==
  ASSUME IInv, NEW t \in Threads, NEW at \in Working, Goto(t, at), batch[t] # <<>>,
         UNCHANGED <<where, owner, watched, backlog, ready, main>>,
         \A d \in Clients : d # Head(batch[t]) =>
           (Readable(owner[d], d)' <=> Readable(owner[d], d)) /\ (Whole(d)' <=> Whole(d)),
         \A d \in Clients : d \notin watched => buf'[d] = buf[d],
         \A c \in Clients : Head(batch[t]) = c =>
           /\ at \in {"parse", "inline", "closing", "releasing"}
           /\ Readable(t, c)' =>
                at \in {"closing", "releasing"} \/ c \in ToSet(ready[t])
  PROVE  Edges'
<1>1. /\ pc'[t] = at /\ \A u \in Threads : u # t => pc'[u] = pc[u]
      /\ batch' = batch
  BY GotoMove DEF IInv, Typed
<1>2. Listening(t) /\ \A u \in Threads : Listening(u)' <=> Listening(u)
  BY <1>1 DEF IInv, Places, Steps, Working, Listening
<1>3. \A u \in Threads : Coming(u)' = Coming(u)
  BY <1>1 DEF Coming
<1>4. watched \subseteq Clients /\ \A c \in watched : where[c] = "open" => owner[c] \in Threads
  BY DEF IInv, Typed, SocketTypes, Places, Sockets
<1>5. BacklogComing'
  BY <1>3 DEF stop, IInv, Edges, BacklogComing
<1>6. InputComing'
  <2> SUFFICES ASSUME NEW c \in watched, where[c] = "open", Listening(owner[c])',
                      Readable(owner[c], c)'
               PROVE  /\ c \in Coming(owner[c])'
                      /\ Late(owner[c], c)' => c \in ToSet(ready[owner[c]])
    BY DEF InputComing
  <2>1. c \in Clients /\ owner[c] \in Threads /\ Listening(owner[c])
    BY <1>2, <1>4
  <2>2. CASE Head(batch[t]) = c
    <3>1. owner[c] = t /\ c \in ToSet(batch[t])
      BY <2>1, <2>2, HandlingFacts
    <3>2. Late(t, c)' => c \in ToSet(ready[t])
      BY <1>1, <2>1, <2>2, <3>1 DEF Late
    <3> QED
      BY <1>1, <3>1, <3>2 DEF Coming
  <2>3. CASE Head(batch[t]) # c
    <3>1. Readable(owner[c], c)
      BY <2>1, <2>3
    <3>2. Late(owner[c], c)' => Late(owner[c], c)
      BY <1>1, <2>1, <2>3 DEF Late
    <3> QED
      BY <1>3, <2>1, <3>1, <3>2 DEF IInv, Edges, InputComing
  <2> QED
    BY <2>2, <2>3
<1>7. Parsed'
  <2> SUFFICES ASSUME NEW c \in watched, where[c] = "open", Listening(owner[c])', Whole(c)'
               PROVE  Framing(c)'
    BY DEF Parsed
  <2>1. c \in Clients /\ owner[c] \in Threads /\ Listening(owner[c])
    BY <1>2, <1>4
  <2>2. CASE Head(batch[t]) = c
    <3>1. owner[c] = t
      BY <2>1, <2>2, HandlingFacts
    <3> QED
      BY <1>1, <2>1, <2>2, <3>1 DEF Framing
  <2>3. CASE Head(batch[t]) # c
    <3>1. Whole(c)
      BY <2>1, <2>3
    <3>2. owner[c] # t
      BY <1>2, <2>3, <3>1, ParsedOther
    <3> QED
      BY <1>1, <2>1, <3>1, <3>2 DEF IInv, Edges, Parsed, Framing
  <2> QED
    BY <2>2, <2>3
<1>8. Untouched'
  BY DEF IInv, Edges, Untouched
<1> QED
  BY <1>5, <1>6, <1>7, <1>8 DEF Edges

LEMMA DoneEdges ==
  ASSUME IInv, NEW t \in Threads, EventDone(t), batch[t] # <<>>,
         UNCHANGED <<where, owner, watched, backlog, ready, main>>,
         \A d \in Clients :
           (Readable(owner[d], d)' <=> Readable(owner[d], d)) /\ (Whole(d)' <=> Whole(d)),
         \A d \in Clients : d \notin watched => buf'[d] = buf[d],
         Head(batch[t]) = Listener => stop \/ backlog[t] = <<>>,
         \A c \in Clients : Head(batch[t]) = c =>
           ~Whole(c) /\ (Readable(t, c) => c \in ToSet(ready[t]))
  PROVE  Edges'
<1>1. /\ pc'[t] \in {"events", "leave", "wait"}
      /\ \A u \in Threads : u # t => pc'[u] = pc[u] /\ batch'[u] = batch[u]
      /\ ToSet(batch[t]) = ToSet(batch'[t]) \cup {Head(batch[t])}
  BY DoneMove DEF IInv
<1>2. Listening(t) /\ \A u \in Threads : Listening(u)' <=> Listening(u)
  BY <1>1 DEF IInv, Places, Steps, Working, Listening
<1>3. \A u \in Threads, i \in Items :
        i \in Coming(u) => i \in Coming(u)' \/ (u = t /\ i = Head(batch[t]))
  BY <1>1 DEF Coming
<1>4. watched \subseteq Clients /\ \A c \in watched : where[c] = "open" => owner[c] \in Threads
  BY DEF IInv, Typed, SocketTypes, Places, Sockets
<1>5. BacklogComing'
  <2>1. Listener \in Items
    BY DEF Items
  <2> QED
    BY <1>3, <2>1 DEF stop, IInv, Edges, BacklogComing
<1>6. InputComing'
  <2> SUFFICES ASSUME NEW c \in watched, where[c] = "open", Listening(owner[c])',
                      Readable(owner[c], c)'
               PROVE  /\ c \in Coming(owner[c])'
                      /\ Late(owner[c], c)' => c \in ToSet(ready[owner[c]])
    BY DEF InputComing
  <2>1. c \in Clients /\ c \in Items /\ owner[c] \in Threads /\ Listening(owner[c])
    BY <1>2, <1>4 DEF Items
  <2>2. Readable(owner[c], c)
    BY <2>1
  <2>3. CASE Head(batch[t]) = c
    <3>1. owner[c] = t
      BY <2>1, <2>3, HandlingFacts
    <3> QED
      BY <2>1, <2>2, <2>3, <3>1 DEF Coming
  <2>4. CASE Head(batch[t]) # c
    <3>1. Late(owner[c], c)' => Late(owner[c], c)
      BY <1>1, <2>1 DEF Late
    <3> QED
      BY <1>3, <2>1, <2>2, <2>4, <3>1 DEF IInv, Edges, InputComing
  <2> QED
    BY <2>3, <2>4
<1>7. Parsed'
  <2> SUFFICES ASSUME NEW c \in watched, where[c] = "open", Listening(owner[c])', Whole(c)'
               PROVE  Framing(c)'
    BY DEF Parsed
  <2>1. c \in Clients /\ owner[c] \in Threads /\ Listening(owner[c]) /\ Whole(c)
    BY <1>2, <1>4
  <2>2. Head(batch[t]) # c
    BY <2>1
  <2>3. owner[c] # t
    BY <1>2, <2>1, <2>2, ParsedOther
  <2> QED
    BY <1>1, <2>1, <2>3 DEF IInv, Edges, Parsed, Framing
<1>8. Untouched'
  BY DEF IInv, Edges, Untouched
<1> QED
  BY <1>5, <1>6, <1>7, <1>8 DEF Edges

LEMMA QuietTable ==
  ASSUME IInv, UNCHANGED <<fd, watched, conns>>,
         \A c \in Clients : where'[c] = "open" <=> where[c] = "open",
         \A c \in Clients : where[c] = "open" => owner'[c] = owner[c],
         \A u \in Threads :
           \/ pc'[u] = pc[u] /\ batch'[u] = batch[u]
           \/ pc[u] \notin {"closing", "releasing"} /\ pc'[u] # "releasing"
  PROVE  Table'
<1>1. /\ watched \subseteq Clients
      /\ \A c \in Clients : where[c] = "open" => owner[c] \in Threads
      /\ \A f \in 0 .. TableSize - 1 : conns[f] \in Clients \cup {Nobody}
      /\ Nobody \notin Clients
  BY PartiesAssumption DEF IInv, Typed, SocketTypes, Places, Sockets
<1>2. FdsOwn' /\ EntriesOpen'
  BY <1>1 DEF IInv, Table, FdsOwn, EntriesOpen
<1>3. EntriesHeld'
  <2> SUFFICES ASSUME NEW f \in 0 .. TableSize - 1, NEW c \in Clients, conns[f] = c
               PROVE  \/ c \in watched /\ ~Releasing(c)'
                      \/ c \notin watched /\ pc'[owner'[c]] = "closing"
    BY DEF EntriesHeld
  <2>1. where[c] = "open" /\ owner[c] \in Threads /\ owner'[c] = owner[c]
    BY <1>1 DEF IInv, Table, EntriesOpen
  <2>2. \/ c \in watched /\ ~Releasing(c)
        \/ c \notin watched /\ pc[owner[c]] = "closing"
    BY DEF IInv, Table, EntriesHeld
  <2> QED
    BY <2>1, <2>2 DEF Releasing
<1>4. Entered'
  <2> SUFFICES ASSUME NEW c \in watched, fd[c] < TableSize, where'[c] = "open",
                      ~Releasing(c)'
               PROVE  conns[fd[c]] = c
    BY DEF Entered
  <2>1. where[c] = "open" /\ owner[c] \in Threads /\ owner'[c] = owner[c]
    BY <1>1
  <2> QED
    BY <2>1 DEF IInv, Table, Entered, Releasing
<1> QED
  BY <1>2, <1>3, <1>4 DEF Table

LEMMA AnsweredKept ==
  ASSUME IInv, UNCHANGED answers,
         \A c \in Clients : Excused(c) => Excused(c)',
         \A c \in Clients : where[c] = "open" => where'[c] = "open" \/ Excused(c)',
         ClosingExcused', PoolClosed',
         \A x \in ToRun' : x \in ToRun \/ where'[x[1]] = "open" \/ Excused(x[1])'
  PROVE  Answered'
<1>1. \A x \in ToRun : x[1] \in Clients
  <2>1. ToRun \subseteq Tasks
    BY DEF ToRun, ToSet, IInv, Typed, PoolTypes
  <2> QED
    BY <2>1 DEF Tasks
<1>2. TasksOpen'
  BY <1>1 DEF IInv, Answered, TasksOpen
<1>3. \A a \in answers' :
        a[1] \in Clients /\ (a[3] = a[1] \/ Excused(a[1])')
  BY DEF IInv, Answered
<1> QED
  BY <1>2, <1>3 DEF Answered

LEMMA ClosingKept ==
  ASSUME IInv,
         \A c \in Clients : Excused(c) => Excused(c)',
         \A u \in Threads, c \in Clients :
           Newcomer(u, c)' => Newcomer(u, c) \/ pc'[u] \in {"events", "accepted"},
         \A u \in Threads :
           \/ pc'[u] = pc[u] /\ batch'[u] = batch[u]
           \/ pc'[u] \notin {"closing", "releasing"}
  PROVE  ClosingExcused'
BY DEF IInv, Answered, ClosingExcused, InHand

-----------------------------------------------------------------------------
(* The clients                                                             *)

LEMMA ConnectInv ==
  ASSUME IInv, NEW c \in Clients, NEW t \in Threads, Connect(c, t)
  PROVE  IInv'
<1>1. /\ where[c] = "away" /\ Listening(t)
      /\ where' = [where EXCEPT ![c] = "queued"]
      /\ backlog' = [backlog EXCEPT ![t] = Append(@, c)]
      /\ ready' = Edge(t, Listener)
      /\ UNCHANGED <<owner, fd, arrived, fin, watched, pc, batch, conns>>
      /\ UNCHANGED <<taken, buf, readPos, capacity, asked>>
      /\ UNCHANGED <<line, started, finished, closed, main, swept, failures, answers>>
  BY DEF Connect, socket, client, thread, input, pool
<1>2. /\ where \in [Clients -> {"away", "queued", "reset", "open", "closed"}]
      /\ backlog \in [Threads -> Seq(Clients)]
      /\ Typed
  BY DEF IInv, Typed, SocketTypes
<1>3. /\ ready' \in [Threads -> Seq(Items)]
      /\ \A u \in Threads : IsInjective(ready'[u])
      /\ \A u \in Threads : u # t => ready'[u] = ready[u]
      /\ ToSet(ready'[t]) = ToSet(ready[t]) \cup {Listener}
  <2>1. Listener \in Items
    BY DEF Items
  <2> QED
    BY <1>1, <1>2, <2>1, EdgeLists
<1>4. /\ Append(backlog[t], c) \in Seq(Clients)
      /\ ToSet(Append(backlog[t], c)) = ToSet(backlog[t]) \cup {c}
      /\ IsInjective(backlog[t]) /\ c \notin ToSet(backlog[t])
           => IsInjective(Append(backlog[t], c))
  <2>1. backlog[t] \in Seq(Clients)
    BY <1>2
  <2> QED
    BY <2>1, AppendSet
<1>5. /\ backlog' \in [Threads -> Seq(Clients)]
      /\ backlog'[t] = Append(backlog[t], c)
      /\ \A u \in Threads : u # t => backlog'[u] = backlog[u]
      /\ where' \in [Clients -> {"away", "queued", "reset", "open", "closed"}]
      /\ where'[c] = "queued" /\ \A d \in Clients : d # c => where'[d] = where[d]
  BY <1>1, <1>2, <1>4
<1>6. Typed'
  BY <1>1, <1>2, <1>3, <1>5 DEF Typed, SocketTypes, ThreadTypes, Lists, InputTypes,
     PoolTypes, MainTypes
<1>7. /\ \A u \in Threads : \A i : i \in Coming(u)' <=> i \in Coming(u) \/ (u = t /\ i = Listener)
      /\ Listener \notin Clients
      /\ \A u \in Threads : Listening(u)' <=> Listening(u)
      /\ watched \subseteq Clients /\ c \notin watched
  BY <1>1, <1>3, PartiesAssumption
     DEF Coming, Listening, IInv, Typed, SocketTypes, Places, Sockets
<1>8. Places'
  <2>1. Steps'
    BY <1>1, <1>3, <1>7 DEF IInv, Places, Steps
  <2>2. Newcomers'
    BY <1>1, <1>5 DEF IInv, Places, Newcomers, Newcomer
  <2>3. Sockets'
    BY <1>1, <1>5, <1>7 DEF IInv, Places, Sockets, Listening
  <2>4. Queues'
    <3>1. \A u \in Threads : c \notin ToSet(backlog[u])
      BY <1>1 DEF IInv, Places, Queues
    <3>2. /\ \A u \in Threads : u # t => ToSet(backlog'[u]) = ToSet(backlog[u])
          /\ ToSet(backlog'[t]) = ToSet(backlog[t]) \cup {c}
      BY <1>4, <1>5
    <3>3. \A u \in Threads : IsInjective(backlog'[u])
      BY <1>4, <1>5, <3>1 DEF IInv, Places, Queues
    <3>4. ASSUME NEW u \in Threads, NEW d \in ToSet(backlog'[u])
          PROVE  where'[d] = "queued" /\ \A v \in Threads : d \in ToSet(backlog'[v]) => v = u
      <4>1. CASE d = c
        BY <4>1, <1>5, <3>1, <3>2, <3>4
      <4>2. CASE d # c
        <5>1. \A v \in Threads : d \in ToSet(backlog'[v]) <=> d \in ToSet(backlog[v])
          BY <3>2, <4>2
        <5>2. where[d] = "queued" /\ \A v \in Threads : d \in ToSet(backlog[v]) => v = u
          BY <5>1, <3>4 DEF IInv, Places, Queues
        <5>3. d \in Clients
          BY <5>1, <3>4, <1>2 DEF ToSet
        <5> QED
          BY <1>5, <4>2, <5>1, <5>2, <5>3
      <4> QED
        BY <4>1, <4>2
    <3> QED
      BY <3>3, <3>4 DEF Queues
  <2>5. Current'
    BY <1>1, <1>5, <1>7 DEF IInv, Places, Current
  <2> QED
    BY <2>1, <2>2, <2>3, <2>4, <2>5 DEF Places
<1>9. Edges'
  <2>1. BacklogComing'
    BY <1>1, <1>5, <1>7 DEF stop, IInv, Edges, BacklogComing
  <2>2. InputComing'
    <3> SUFFICES ASSUME NEW d \in watched, where'[d] = "open", Listening(owner[d])',
                        Readable(owner[d], d)'
                 PROVE  /\ d \in Coming(owner[d])'
                        /\ Late(owner[d], d)' => d \in ToSet(ready'[owner[d]])
      BY <1>1 DEF InputComing
    <3>1. d \in Clients /\ d # c /\ where[d] = "open" /\ owner[d] \in Threads
      BY <1>5, <1>7 DEF IInv, Places, Sockets
    <3>2. Readable(owner[d], d) /\ Listening(owner[d])
      BY <1>1, <1>7, <3>1, ReadableClient
    <3>3. Late(owner[d], d)' <=> Late(owner[d], d)
      BY <1>1 DEF Late
    <3>4. ToSet(ready[owner[d]]) \subseteq ToSet(ready'[owner[d]])
      BY <1>3, <3>1
    <3>5. d \in Coming(owner[d]) /\ (Late(owner[d], d) => d \in ToSet(ready[owner[d]]))
      BY <3>1, <3>2 DEF IInv, Edges, InputComing
    <3>6. d \in Coming(owner[d])'
      BY <1>1, <1>7, <3>1, <3>5
    <3> QED
      BY <3>3, <3>4, <3>5, <3>6
  <2>3. Parsed'
    BY <1>1, <1>5, <1>7 DEF IInv, Edges, Parsed, Framing, Whole, Rest, Listening
  <2>4. Untouched'
    BY <1>1, <1>5 DEF IInv, Edges, Untouched
  <2> QED
    BY <2>1, <2>2, <2>3, <2>4 DEF Edges
<1>10. Table'
  BY <1>1, <1>5, QuietTable
<1>11. Answered'
  <2>1. ClosingExcused'
    BY <1>1, <1>5, ClosingKept DEF Newcomer, Excused
  <2>2. PoolClosed' /\ ToRun' = ToRun
    BY <1>1 DEF IInv, Answered, PoolClosed, ToRun
  <2> QED
    BY <1>1, <1>5, <2>1, <2>2, AnsweredKept DEF Excused
<1> QED
  BY <1>6, <1>8, <1>9, <1>10, <1>11 DEF IInv

LEMMA ArriveInv ==
  ASSUME IInv, NEW c \in Clients, Send(c) \/ HangUp(c)
  PROVE  IInv'
<1>1. /\ where[c] \in {"queued", "open"} /\ Arrival(c)
      /\ UNCHANGED <<where, owner, fd, backlog, watched, pc, batch, conns>>
      /\ UNCHANGED <<taken, buf, readPos, capacity, asked>>
      /\ UNCHANGED <<line, started, finished, closed, main, swept, failures, answers>>
      /\ \A d \in Clients : d # c => arrived'[d] = arrived[d] /\ fin'[d] = fin[d]
      /\ \A d \in Clients : fin[d] => fin'[d]
  BY DEF Send, HangUp, socket, client, thread, input, pool, IInv, Typed, InputTypes
<1>2. InputTypes'
  <2>1. CASE Send(c)
    BY <2>1, SendInput DEF IInv, Typed
  <2>2. CASE HangUp(c)
    BY <2>2 DEF HangUp, input, IInv, Typed, InputTypes
  <2> QED
    BY <2>1, <2>2
<1>3. c \in watched => where[c] = "open" /\ owner[c] \in Threads
  BY <1>1 DEF IInv, Places, Sockets
<1>4. /\ ready' \in [Threads -> Seq(Items)]
      /\ \A u \in Threads : IsInjective(ready'[u])
      /\ \A u \in Threads :
           ToSet(ready'[u]) = IF c \in watched /\ Listening(u) /\ u = owner[c]
                              THEN ToSet(ready[u]) \cup {c} ELSE ToSet(ready[u])
      /\ \A u \in Threads : ~Listening(u) => ready'[u] = ready[u]
  <2>1. CASE c \in watched /\ Listening(owner[c])
    <3>1. ready' = Edge(owner[c], c) /\ c \in Items
      BY <1>1, <2>1 DEF Arrival, Items
    <3> QED
      BY <1>3, <2>1, <3>1, EdgeLists DEF IInv
  <2>2. CASE ~(c \in watched /\ Listening(owner[c]))
    <3>1. ready' = ready
      BY <1>1, <2>2 DEF Arrival
    <3> QED
      BY <2>2, <3>1 DEF IInv, Typed, ThreadTypes, Lists
  <2> QED
    BY <2>1, <2>2
<1>5. Typed'
  BY <1>1, <1>2, <1>4 DEF IInv, Typed, SocketTypes, ThreadTypes, Lists, PoolTypes, MainTypes
<1>6. /\ \A u \in Threads : \A i :
           i \in Coming(u)' <=> i \in Coming(u) \/ (u = owner[c] /\ i = c /\ c \in watched
                                                     /\ Listening(u))
      /\ \A u : Listening(u)' <=> Listening(u)
      /\ watched \subseteq Clients
  BY <1>1, <1>4 DEF Coming, Listening, IInv, Typed, SocketTypes
<1>7. Places'
  <2>1. Steps'
    BY <1>1, <1>4, <1>6 DEF IInv, Places, Steps
  <2>2. Newcomers' /\ Sockets' /\ Queues'
    BY <1>1 DEF IInv, Places, Newcomers, Newcomer, Sockets, Queues, Listening
  <2>3. Current'
    BY <1>1, <1>3, <1>6 DEF IInv, Places, Current
  <2> QED
    BY <2>1, <2>2, <2>3 DEF Places
<1>8. Edges'
  <2>1. BacklogComing'
    BY <1>1, <1>6 DEF stop, IInv, Edges, BacklogComing
  <2>2. InputComing'
    <3> SUFFICES ASSUME NEW d \in watched, where[d] = "open", Listening(owner[d])',
                        Readable(owner[d], d)'
                 PROVE  /\ d \in Coming(owner[d])'
                        /\ Late(owner[d], d)' => d \in ToSet(ready'[owner[d]])
      BY <1>1 DEF InputComing
    <3>1. d \in Clients /\ owner[d] \in Threads /\ Listening(owner[d])
      BY <1>1, <1>6 DEF IInv, Places, Sockets
    <3>2. Late(owner[d], d)' <=> Late(owner[d], d)
      BY <1>1 DEF Late
    <3>3. CASE d = c
      BY <1>1, <1>4, <1>6, <3>1, <3>3
    <3>4. CASE d # c
      <4>1. Readable(owner[d], d)
        BY <1>1, <3>1, <3>4, ReadableClient
      <4>2. ToSet(ready[owner[d]]) \subseteq ToSet(ready'[owner[d]])
        BY <1>4, <3>1
      <4>3. d \in Coming(owner[d]) /\ (Late(owner[d], d) => d \in ToSet(ready[owner[d]]))
        BY <3>1, <4>1 DEF IInv, Edges, InputComing
      <4>4. d \in Coming(owner[d])'
        BY <1>1, <1>6, <3>1, <4>3
      <4> QED
        BY <3>2, <4>2, <4>3, <4>4
    <3> QED
      BY <3>3, <3>4
  <2>3. Parsed'
    BY <1>1, <1>6 DEF IInv, Edges, Parsed, Framing, Whole, Rest
  <2>4. Untouched'
    BY <1>1 DEF IInv, Edges, Untouched
  <2> QED
    BY <2>1, <2>2, <2>3, <2>4 DEF Edges
<1>9. Table'
  BY <1>1, QuietTable
<1>10. Answered'
  <2>1. ClosingExcused'
    BY <1>1, ClosingKept DEF Newcomer, Excused
  <2>2. PoolClosed' /\ ToRun' = ToRun
    BY <1>1 DEF IInv, Answered, PoolClosed, ToRun
  <2> QED
    BY <1>1, <2>1, <2>2, AnsweredKept DEF Excused
<1> QED
  BY <1>5, <1>7, <1>8, <1>9, <1>10 DEF IInv

-----------------------------------------------------------------------------
(* The steps that leave every socket and every thread where it is          *)

LEMMA StillPlaces ==
  ASSUME IInv, UNCHANGED <<where, owner, watched, backlog, ready, pc, batch>>,
         main' = main \/ (main # "gone" /\ main' # "gone")
  PROVE  Places'
<1>1. \A t \in Threads : Listening(t)' <=> Listening(t)
  BY DEF Listening
<1>2. Steps'
  BY <1>1 DEF IInv, Places, Steps
<1>3. Newcomers'
  BY DEF IInv, Places, Newcomers, Newcomer
<1>4. Sockets'
  BY <1>1 DEF IInv, Places, Sockets
<1>5. Queues' /\ Current'
  BY DEF IInv, Places, Queues, Current, Coming
<1> QED
  BY <1>2, <1>3, <1>4, <1>5 DEF Places

LEMMA StillEdges ==
  ASSUME IInv, UNCHANGED <<where, owner, watched, backlog, ready, pc, batch, client, taken>>,
         stop => stop',
         \A c \in watched : Whole(c)' => Whole(c),
         \A c \in Clients : c \notin watched => buf'[c] = buf[c]
  PROVE  Edges'
<1>1. \A t : Listening(t)' <=> Listening(t)
  BY DEF Listening
<1>2. \A t : Coming(t)' = Coming(t)
  BY DEF Coming
<1>3. BacklogComing'
  BY <1>2 DEF IInv, Edges, BacklogComing
<1>4. watched \subseteq Clients
  BY DEF IInv, Typed, SocketTypes
<1>5. InputComing'
  <2> SUFFICES ASSUME NEW c \in watched, where[c] = "open", Listening(owner[c])',
                      Readable(owner[c], c)'
               PROVE  c \in Coming(owner[c])'
                      /\ (Late(owner[c], c)' => c \in ToSet(ready[owner[c]]))
    BY DEF InputComing
  <2>1. Readable(owner[c], c) /\ Listening(owner[c])
    BY <1>1, <1>4, ReadableClient DEF client
  <2>2. Late(owner[c], c)' <=> Late(owner[c], c)
    BY DEF Late
  <2> QED
    BY <1>2, <2>1, <2>2 DEF IInv, Edges, InputComing
<1>6. Parsed'
  BY <1>1 DEF IInv, Edges, Parsed, Framing
<1>7. Untouched'
  BY DEF IInv, Edges, Untouched
<1> QED
  BY <1>3, <1>5, <1>6, <1>7 DEF Edges

-----------------------------------------------------------------------------
(* A thread waits for events, and leaves its loop                          *)

LEMMA WaitInv ==
  ASSUME IInv, NEW t \in Threads, Wait(t)
  PROVE  IInv'
<1>1. /\ pc[t] = "wait"
      /\ UNCHANGED <<where, owner, fd, arrived, fin, backlog, watched, conns>>
      /\ UNCHANGED <<taken, buf, readPos, capacity, asked>>
      /\ UNCHANGED <<line, started, finished, closed, main, swept, failures, answers>>
  BY DEF Wait, socket, client, input, pool
<1>2. /\ ready' \in [Threads -> Seq(Items)] /\ batch' \in [Threads -> Seq(Items)]
      /\ Lists'
      /\ \A u \in Threads : u # t => ready'[u] = ready[u] /\ batch'[u] = batch[u]
      /\ ready'[t] = <<>>
      /\ ToSet(batch'[t]) = {i \in ToSet(ready[t]) : Readable(t, i)}
      /\ pc' = [pc EXCEPT ![t] = IF batch'[t] = <<>> THEN "wait" ELSE "events"]
  BY WaitLists DEF IInv
<1>3. /\ pc' \in [Threads -> Working \cup {"wait", "leave", "left", "unborn"}]
      /\ pc'[t] = IF batch'[t] = <<>> THEN "wait" ELSE "events"
      /\ \A u \in Threads : u # t => pc'[u] = pc[u]
  BY <1>2 DEF IInv, Typed, ThreadTypes, Working
<1>4. Typed'
  BY <1>1, <1>2, <1>3 DEF IInv, Typed, SocketTypes, ThreadTypes, InputTypes, PoolTypes, MainTypes
<1>5. batch[t] = <<>>
  BY <1>1 DEF IInv, Places, Steps, Working
<1>6. /\ ToSet(ready'[t]) = {} /\ ToSet(batch[t]) = {}
      /\ Coming(t) = ToSet(ready[t])
  BY <1>2, <1>5 DEF ToSet, Coming
<1>7. /\ \A u \in Threads : \A i :
           i \in Coming(u)' <=> i \in Coming(u) /\ (u = t => Readable(t, i))
      /\ \A u \in Threads : Listening(u)' <=> Listening(u)
      /\ Listening(t) /\ watched \subseteq Clients
  BY <1>1, <1>2, <1>3, <1>6 DEF Coming, Listening, IInv, Typed, SocketTypes
<1>8. Places'
  <2>1. Steps'
    <3>1. ASSUME NEW u \in Threads
          PROVE  /\ pc'[u] \in Working <=> batch'[u] # <<>>
                 /\ pc'[u] = "accepted" => Head(batch'[u]) = Listener
                 /\ pc'[u] \in {"parse", "inline"} => Head(batch'[u]) # Listener
                 /\ ~Listening(u)' => ready'[u] = <<>>
      <4>1. CASE u = t
        BY <4>1, <1>2, <1>3 DEF Working
      <4>2. CASE u # t
        <5>1. /\ pc'[u] = pc[u] /\ batch'[u] = batch[u] /\ ready'[u] = ready[u]
              /\ Listening(u)' <=> Listening(u)
          BY <4>2, <1>2, <1>3, <1>7
        <5>2. /\ pc[u] \in Working <=> batch[u] # <<>>
              /\ pc[u] = "accepted" => Head(batch[u]) = Listener
              /\ pc[u] \in {"parse", "inline"} => Head(batch[u]) # Listener
              /\ ~Listening(u) => ready[u] = <<>>
          BY DEF IInv, Places, Steps
        <5> QED
          BY <5>1, <5>2
      <4> QED
        BY <4>1, <4>2
    <3> QED
      BY <3>1 DEF Steps
  <2>2. Newcomers'
    <3>1. \A u \in Threads, c \in Clients : Newcomer(u, c)' <=> Newcomer(u, c)
      BY <1>1 DEF Newcomer
    <3>2. \A c \in Clients : ~Newcomer(t, c)
      BY <1>1 DEF IInv, Places, Newcomers
    <3>3. ASSUME NEW u \in Threads, NEW c \in Clients, Newcomer(u, c)
          PROVE  /\ pc'[u] \in {"accepted", "closing", "releasing"}
                 /\ Head(batch'[u]) = Listener
                 /\ \A d \in Clients : Newcomer(u, d) => d = c
      <4>1. u # t
        BY <3>2, <3>3
      <4> QED
        BY <1>2, <1>3, <3>3, <4>1 DEF IInv, Places, Newcomers
    <3> QED
      BY <3>1, <3>3 DEF Newcomers
  <2>3. Sockets'
    BY <1>1, <1>3, <1>7 DEF IInv, Places, Sockets
  <2>4. Queues'
    BY <1>1 DEF IInv, Places, Queues
  <2>5. Current'
    BY <1>1, <1>7 DEF IInv, Places, Current
  <2> QED
    BY <2>1, <2>2, <2>3, <2>4, <2>5 DEF Places
<1>9. Edges'
  <2>1. BacklogComing'
    BY <1>1, <1>7 DEF stop, IInv, Edges, BacklogComing, Readable
  <2>2. InputComing'
    <3> SUFFICES ASSUME NEW d \in watched, where[d] = "open", Listening(owner[d])',
                        Readable(owner[d], d)'
                 PROVE  /\ d \in Coming(owner[d])'
                        /\ Late(owner[d], d)' => d \in ToSet(ready'[owner[d]])
      BY <1>1 DEF InputComing
    <3>1. d \in Clients /\ owner[d] \in Threads /\ Listening(owner[d])
      BY <1>1, <1>7 DEF IInv, Places, Sockets
    <3>2. Readable(owner[d], d)
      BY <1>1, <3>1, ReadableClient
    <3>3. d \in Coming(owner[d]) /\ (Late(owner[d], d) => d \in ToSet(ready[owner[d]]))
      BY <3>1, <3>2 DEF IInv, Edges, InputComing
    <3>4. d \in Coming(owner[d])'
      BY <1>1, <1>7, <3>1, <3>2, <3>3
    <3>5. CASE owner[d] = t
      BY <1>1, <1>3, <3>4, <3>5 DEF Late
    <3>6. CASE owner[d] # t
      BY <1>1, <1>2, <1>3, <3>1, <3>3, <3>4, <3>6 DEF Late
    <3> QED
      BY <3>5, <3>6
  <2>3. Parsed'
    <3> SUFFICES ASSUME NEW d \in watched, where[d] = "open", Listening(owner[d])', Whole(d)'
                 PROVE  Framing(d)'
      BY <1>1 DEF Parsed
    <3>1. owner[d] \in Threads /\ Listening(owner[d]) /\ Whole(d)
      BY <1>1, <1>7 DEF IInv, Places, Sockets, Whole, Rest
    <3>2. Framing(d)
      BY <3>1 DEF IInv, Edges, Parsed
    <3> QED
      BY <1>1, <1>2, <1>3, <3>1, <3>2 DEF Framing
  <2>4. Untouched'
    BY <1>1 DEF IInv, Edges, Untouched
  <2> QED
    BY <2>1, <2>2, <2>3, <2>4 DEF Edges
<1>10. Table'
  BY <1>1, <1>2, <1>3, QuietTable
<1>11. Answered'
  <2>1. ClosingExcused'
    BY <1>1, <1>2, <1>3, ClosingKept DEF Newcomer, Excused
  <2>2. PoolClosed' /\ ToRun' = ToRun
    BY <1>1 DEF IInv, Answered, PoolClosed, ToRun
  <2> QED
    BY <1>1, <2>1, <2>2, AnsweredKept DEF Excused
<1> QED
  BY <1>4, <1>8, <1>9, <1>10, <1>11 DEF IInv

LEMMA LeaveInv ==
  ASSUME IInv, NEW t \in Threads, Leave(t)
  PROVE  IInv'
<1>1. /\ pc[t] \in {"leave", "wait"}
      /\ pc' = [pc EXCEPT ![t] = "left"]
      /\ where' = [c \in Clients |->
                     IF Contains(backlog[t], c) THEN "reset" ELSE where[c]]
      /\ backlog' = [backlog EXCEPT ![t] = <<>>]
      /\ ready' = [ready EXCEPT ![t] = <<>>]
      /\ UNCHANGED <<owner, fd, arrived, fin, watched, batch, conns>>
      /\ UNCHANGED <<taken, buf, readPos, capacity, asked>>
      /\ UNCHANGED <<line, started, finished, closed, main, swept, failures, answers>>
  BY DEF Leave, socket, client, input, pool
<1>2. /\ where \in [Clients -> {"away", "queued", "reset", "open", "closed"}]
      /\ backlog \in [Threads -> Seq(Clients)]
      /\ ready \in [Threads -> Seq(Items)]
      /\ pc \in [Threads -> Working \cup {"wait", "leave", "left", "unborn"}]
      /\ watched \subseteq Clients
  BY DEF IInv, Typed, SocketTypes, ThreadTypes
<1>3. \A c : Contains(backlog[t], c) <=> c \in ToSet(backlog[t])
  <2>1. backlog[t] \in Seq(Clients)
    BY <1>2
  <2>2. DOMAIN backlog[t] = 1 .. Len(backlog[t])
    BY <2>1
  <2> QED
    BY <2>2 DEF Contains, ToSet
<1>4. /\ \A c \in ToSet(backlog[t]) : where[c] = "queued" /\ where'[c] = "reset"
      /\ \A c \in Clients : c \notin ToSet(backlog[t]) => where'[c] = where[c]
      /\ \A c \in Clients : where'[c] = "open" <=> where[c] = "open"
      /\ \A c \in Clients : where'[c] = "closed" <=> where[c] = "closed"
      /\ where' \in [Clients -> {"away", "queued", "reset", "open", "closed"}]
  <2>1. \A c \in ToSet(backlog[t]) : where[c] = "queued" /\ c \in Clients
    BY <1>2 DEF IInv, Places, Queues, ToSet
  <2>2. \A c \in Clients : where'[c] = IF c \in ToSet(backlog[t]) THEN "reset" ELSE where[c]
    BY <1>1, <1>3
  <2>3. where' \in [Clients -> {"away", "queued", "reset", "open", "closed"}]
    BY <1>1, <1>2
  <2> QED
    BY <2>1, <2>2, <2>3
<1>5. /\ <<>> \in Seq(Clients) /\ <<>> \in Seq(Items) /\ ToSet(<<>>) = {} /\ IsInjective(<<>>)
  BY DEF ToSet, IsInjective
<1>6. /\ backlog' \in [Threads -> Seq(Clients)] /\ ready' \in [Threads -> Seq(Items)]
      /\ pc' \in [Threads -> Working \cup {"wait", "leave", "left", "unborn"}]
      /\ backlog'[t] = <<>> /\ ready'[t] = <<>> /\ pc'[t] = "left"
      /\ \A u \in Threads :
           u # t => backlog'[u] = backlog[u] /\ ready'[u] = ready[u] /\ pc'[u] = pc[u]
  BY <1>1, <1>2, <1>5
<1>7. Typed'
  BY <1>1, <1>4, <1>5, <1>6 DEF IInv, Typed, SocketTypes, ThreadTypes, Lists, InputTypes,
     PoolTypes, MainTypes
<1>8. /\ batch[t] = <<>> /\ Listening(t) /\ ~Listening(t)'
      /\ \A u \in Threads : u # t => (Listening(u)' <=> Listening(u))
      /\ ToSet(batch[t]) = {}
  BY <1>1, <1>5, <1>6 DEF IInv, Places, Steps, Working, Listening
<1>9. /\ \A u \in Threads : \A i : i \in Coming(u)' => i \in Coming(u)
      /\ \A u \in Threads : u # t => Coming(u)' = Coming(u)
  BY <1>1, <1>5, <1>6, <1>8 DEF Coming
<1>10. \A u \in Threads, c \in Clients : Newcomer(u, c)' <=> Newcomer(u, c)
  BY <1>1, <1>4 DEF Newcomer
<1>11. Places'
  <2>1. Steps'
    BY <1>1, <1>6, <1>8 DEF IInv, Places, Steps, Working
  <2>2. Newcomers'
    BY <1>1, <1>6, <1>8, <1>10 DEF IInv, Places, Newcomers
  <2>3. Sockets'
    <3>1. main # "gone"
      BY <1>8 DEF IInv, Places, Sockets
    <3>2. ASSUME NEW c \in Clients
          PROVE  /\ where'[c] \in {"away", "queued", "reset"} => owner[c] = Nobody /\ c \notin watched
                 /\ where'[c] \in {"open", "closed"} => owner[c] \in Threads /\ pc'[owner[c]] # "unborn"
      <4>1. where'[c] \in {"away", "queued", "reset"} => where[c] \in {"away", "queued", "reset"}
        BY <1>2, <1>4
      <4>2. where'[c] \in {"open", "closed"} => where[c] \in {"open", "closed"}
        BY <1>4
      <4> QED
        BY <1>6, <4>1, <4>2 DEF IInv, Places, Sockets
    <3> QED
      BY <1>1, <1>2, <1>4, <1>6, <3>1, <3>2 DEF IInv, Places, Sockets
  <2>4. Queues'
    <3>1. \A u \in Threads : IsInjective(backlog'[u])
      BY <1>5, <1>6 DEF IInv, Places, Queues
    <3>2. \A u \in Threads : ToSet(backlog'[u]) = IF u = t THEN {} ELSE ToSet(backlog[u])
      BY <1>5, <1>6
    <3>3. \A u \in Threads : ToSet(backlog[u]) \subseteq Clients
      BY <1>2 DEF ToSet
    <3>4. ASSUME NEW u \in Threads, NEW d \in ToSet(backlog'[u])
          PROVE  where'[d] = "queued" /\ \A v \in Threads : d \in ToSet(backlog'[v]) => v = u
      <4>1. u # t /\ d \in ToSet(backlog[u])
        BY <3>2, <3>4
      <4>2. where[d] = "queued" /\ \A v \in Threads : d \in ToSet(backlog[v]) => v = u
        BY <4>1 DEF IInv, Places, Queues
      <4> QED
        BY <1>4, <3>2, <3>3, <4>1, <4>2
    <3> QED
      BY <3>1, <3>4 DEF Queues
  <2>5. Current'
    BY <1>1, <1>4, <1>9 DEF IInv, Places, Current
  <2> QED
    BY <2>1, <2>2, <2>3, <2>4, <2>5 DEF Places
<1>12. Edges'
  <2>1. BacklogComing'
    BY <1>1, <1>6, <1>9 DEF stop, IInv, Edges, BacklogComing
  <2>2. InputComing'
    <3> SUFFICES ASSUME NEW d \in watched, where'[d] = "open", Listening(owner[d])',
                        Readable(owner[d], d)'
                 PROVE  /\ d \in Coming(owner[d])'
                        /\ Late(owner[d], d)' => d \in ToSet(ready'[owner[d]])
      BY <1>1 DEF InputComing
    <3>1. d \in Clients /\ where[d] = "open" /\ owner[d] \in Threads
      BY <1>2, <1>4 DEF IInv, Places, Sockets
    <3>2. owner[d] # t /\ Listening(owner[d])
      BY <1>1, <1>8, <3>1
    <3>3. Readable(owner[d], d)
      BY <1>1, <3>1, ReadableClient
    <3>4. d \in Coming(owner[d]) /\ (Late(owner[d], d) => d \in ToSet(ready[owner[d]]))
      BY <3>1, <3>2, <3>3 DEF IInv, Edges, InputComing
    <3>5. Late(owner[d], d)' <=> Late(owner[d], d)
      BY <1>1, <1>6, <3>1, <3>2 DEF Late
    <3>6. d \in Coming(owner[d])' /\ ready'[owner[d]] = ready[owner[d]]
      BY <1>1, <1>6, <1>9, <3>1, <3>2, <3>4
    <3> QED
      BY <3>4, <3>5, <3>6
  <2>3. Parsed'
    <3> SUFFICES ASSUME NEW d \in watched, where'[d] = "open", Listening(owner[d])', Whole(d)'
                 PROVE  Framing(d)'
      BY <1>1 DEF Parsed
    <3>1. d \in Clients /\ where[d] = "open" /\ owner[d] \in Threads
      BY <1>2, <1>4 DEF IInv, Places, Sockets
    <3>2. owner[d] # t /\ Listening(owner[d]) /\ Whole(d)
      BY <1>1, <1>8, <3>1 DEF Whole, Rest
    <3>3. Framing(d)
      BY <3>1, <3>2 DEF IInv, Edges, Parsed
    <3> QED
      BY <1>1, <1>6, <3>1, <3>2, <3>3 DEF Framing
  <2>4. Untouched'
    BY <1>1, <1>4 DEF IInv, Edges, Untouched
  <2> QED
    BY <2>1, <2>2, <2>3, <2>4 DEF Edges
<1>13. Table'
  BY <1>1, <1>4, <1>6, QuietTable
<1>14. Answered'
  <2>1. ClosingExcused'
    BY <1>1, <1>6, <1>10, ClosingKept DEF Excused
  <2>2. PoolClosed' /\ ToRun' = ToRun
    BY <1>1 DEF IInv, Answered, PoolClosed, ToRun
  <2> QED
    BY <1>1, <1>4, <2>1, <2>2, AnsweredKept DEF Excused
<1> QED
  BY <1>7, <1>11, <1>12, <1>13, <1>14 DEF IInv

-----------------------------------------------------------------------------
(* A thread accepts                                                        *)

(* In the accept loop only one connection changes, and nobody watches it.  *)
LEMMA LoopEdges ==
  ASSUME IInv, NEW t \in Threads, NEW c \in Clients, NEW at \in {"events", "accepted"},
         batch[t] # <<>>, Head(batch[t]) = Listener, pc[t] \in {"events", "accepted"},
         Goto(t, at), c \notin watched,
         where[c] # "closed", \A d \in Clients : d # c => where'[d] = where[d] /\ owner'[d] = owner[d],
         \A u \in Threads : backlog'[u] # <<>> => backlog[u] # <<>>,
         UNCHANGED <<watched, ready, main, client, taken, buf, readPos>>
  PROVE  Edges'
<1>1. /\ pc'[t] = at /\ \A u \in Threads : u # t => pc'[u] = pc[u]
      /\ batch' = batch
  <2>1. at \in Working
    BY DEF Working
  <2> QED
    BY <2>1, GotoMove DEF IInv, Typed
<1>2. Listening(t) /\ \A u \in Threads : Listening(u)' <=> Listening(u)
  BY <1>1 DEF Listening
<1>3. \A u \in Threads : Coming(u)' = Coming(u)
  BY <1>1 DEF Coming
<1>4. /\ watched \subseteq Clients
      /\ \A d \in watched :
           /\ d # c /\ d # Listener /\ where'[d] = where[d] /\ owner'[d] = owner[d]
           /\ where[d] = "open" => owner[d] \in Threads
  BY PartiesAssumption DEF IInv, Typed, SocketTypes, Places, Sockets
<1>5. BacklogComing'
  BY <1>3 DEF stop, IInv, Edges, BacklogComing
<1>6. InputComing'
  <2> SUFFICES ASSUME NEW d \in watched, where[d] = "open", Listening(owner[d]),
                      Readable(owner[d], d)'
               PROVE  /\ d \in Coming(owner[d])
                      /\ Late(owner[d], d)' => d \in ToSet(ready[owner[d]])
    BY <1>2, <1>3, <1>4 DEF InputComing
  <2>1. Readable(owner[d], d)
    BY <1>4, ReadableClient DEF client
  <2>2. Late(owner[d], d)' => Late(owner[d], d)
    BY <1>1, <1>4 DEF Late
  <2> QED
    BY <2>1, <2>2 DEF IInv, Edges, InputComing
<1>7. Parsed'
  <2> SUFFICES ASSUME NEW d \in watched, where[d] = "open", Listening(owner[d]), Whole(d)'
               PROVE  Framing(d)'
    BY <1>2, <1>4 DEF Parsed
  <2>1. Whole(d)
    BY DEF Whole, Rest
  <2>2. Framing(d)
    BY <2>1 DEF IInv, Edges, Parsed
  <2> QED
    BY <1>1, <1>4, <2>2 DEF Framing
<1>8. Untouched'
  BY <1>4 DEF IInv, Edges, Untouched
<1> QED
  BY <1>5, <1>6, <1>7, <1>8 DEF Edges

LEMMA LoopTable ==
  ASSUME IInv, NEW t \in Threads, NEW c \in Clients, NEW at \in {"events", "accepted"},
         batch[t] # <<>>, pc[t] \in {"events", "accepted"}, Goto(t, at),
         c \notin watched, UNCHANGED <<conns, watched, ready>>,
         \A f \in 0 .. TableSize - 1 : conns[f] # c,
         where'[c] = "open" => \A d \in Clients : where[d] = "open" => fd[d] # fd'[c],
         \A d \in Clients :
           d # c => where'[d] = where[d] /\ owner'[d] = owner[d] /\ fd'[d] = fd[d]
  PROVE  Table'
<1>1. /\ pc'[t] = at /\ \A u \in Threads : u # t => pc'[u] = pc[u]
      /\ batch' = batch
  <2>1. at \in Working
    BY DEF Working
  <2> QED
    BY <2>1, GotoMove DEF IInv, Typed
<1>2. /\ watched \subseteq Clients
      /\ \A d \in Clients : where[d] = "open" => owner[d] \in Threads
      /\ \A f \in 0 .. TableSize - 1 : conns[f] \in Clients \cup {Nobody}
      /\ Nobody \notin Clients
  BY PartiesAssumption DEF IInv, Typed, SocketTypes, Places, Sockets
<1>3. FdsOwn'
  BY DEF IInv, Table, FdsOwn
<1>4. EntriesOpen'
  BY <1>2 DEF IInv, Table, EntriesOpen
<1>5. \A d \in Clients : d # c /\ where[d] = "open" =>
        /\ Releasing(d)' <=> Releasing(d)
        /\ pc[owner[d]] = "closing" => pc'[owner'[d]] = "closing"
  BY <1>1, <1>2 DEF Releasing
<1>6. EntriesHeld'
  <2> SUFFICES ASSUME NEW f \in 0 .. TableSize - 1, NEW d \in Clients, conns[f] = d
               PROVE  \/ d \in watched /\ ~Releasing(d)'
                      \/ d \notin watched /\ pc'[owner'[d]] = "closing"
    BY DEF EntriesHeld
  <2>1. d # c /\ where[d] = "open"
    BY <1>2 DEF IInv, Table, EntriesOpen
  <2>2. \/ d \in watched /\ ~Releasing(d)
        \/ d \notin watched /\ pc[owner[d]] = "closing"
    BY DEF IInv, Table, EntriesHeld
  <2> QED
    BY <1>5, <2>1, <2>2
<1>7. Entered'
  <2> SUFFICES ASSUME NEW d \in watched, fd'[d] < TableSize, where'[d] = "open",
                      ~Releasing(d)'
               PROVE  conns[fd'[d]] = d
    BY DEF Entered
  <2>1. d # c /\ d \in Clients /\ where[d] = "open" /\ fd'[d] = fd[d]
    BY <1>2
  <2> QED
    BY <1>5, <2>1 DEF IInv, Table, Entered
<1> QED
  BY <1>3, <1>4, <1>6, <1>7 DEF Table

LEMMA AcceptInv ==
  ASSUME IInv, NEW t \in Threads, Accept(t)
  PROVE  IInv'
<1> DEFINE c == Head(backlog[t])
           low == Lowest(Free)
<1>1. /\ batch[t] # <<>> /\ Head(batch[t]) = Listener /\ pc[t] = "events"
      /\ ~stop /\ Free # {} /\ backlog[t] # <<>>
      /\ where' = [where EXCEPT ![c] = "open"]
      /\ owner' = [owner EXCEPT ![c] = t]
      /\ fd' = [fd EXCEPT ![c] = low]
      /\ backlog' = [backlog EXCEPT ![t] = Tail(@)]
      /\ Goto(t, "accepted")
      /\ UNCHANGED <<arrived, fin, watched, ready, conns>>
      /\ UNCHANGED <<taken, buf, readPos, capacity, asked>>
      /\ UNCHANGED <<line, started, finished, closed, main, swept, failures, answers>>
  BY DEF Accept, Handling, client, input, pool
<1>2. low \in Fds /\ Holding(low) = {}
  BY <1>1, LowestFree DEF Free
<1>3. /\ backlog \in [Threads -> Seq(Clients)]
      /\ where \in [Clients -> {"away", "queued", "reset", "open", "closed"}]
      /\ owner \in [Clients -> Threads \cup {Nobody}]
      /\ fd \in [Clients -> Fds] /\ watched \subseteq Clients
      /\ IsInjective(backlog[t])
  BY DEF IInv, Typed, SocketTypes, Places, Queues
<1>4. /\ c \in Clients /\ Tail(backlog[t]) \in Seq(Clients)
      /\ ToSet(backlog[t]) = ToSet(Tail(backlog[t])) \cup {c}
      /\ IsInjective(Tail(backlog[t])) /\ c \notin ToSet(Tail(backlog[t]))
  <2>1. backlog[t] \in Seq(Clients)
    BY <1>3
  <2> QED
    BY <1>1, <1>3, <2>1, TailItems
<1>5. /\ where[c] = "queued" /\ \A u \in Threads : c \in ToSet(backlog[u]) => u = t
  BY <1>4 DEF IInv, Places, Queues
<1>6. owner[c] = Nobody /\ c \notin watched /\ c # Listener
  BY <1>4, <1>5, PartiesAssumption DEF IInv, Places, Sockets
<1> HIDE DEF c, low
<1>7. /\ where' \in [Clients -> {"away", "queued", "reset", "open", "closed"}]
      /\ owner' \in [Clients -> Threads \cup {Nobody}]
      /\ fd' \in [Clients -> Fds]
      /\ where'[c] = "open" /\ owner'[c] = t /\ fd'[c] = low
      /\ \A d \in Clients :
           d # c => where'[d] = where[d] /\ owner'[d] = owner[d] /\ fd'[d] = fd[d]
  BY <1>1, <1>2, <1>3, <1>4
<1>8. /\ backlog' \in [Threads -> Seq(Clients)]
      /\ backlog'[t] = Tail(backlog[t])
      /\ \A u \in Threads : u # t => backlog'[u] = backlog[u]
  BY <1>1, <1>3, <1>4
<1>9. "accepted" \in Working /\ "accepted" \in {"events", "accepted"}
  BY DEF Working
<1>10. /\ ThreadTypes' /\ batch' = batch
       /\ pc'[t] = "accepted" /\ \A u \in Threads : u # t => pc'[u] = pc[u]
  BY <1>1, <1>9, GotoMove DEF IInv, Typed
<1>11. Typed'
  BY <1>1, <1>7, <1>8, <1>10 DEF IInv, Typed, SocketTypes, InputTypes, PoolTypes, MainTypes
<1>12. /\ Listening(t) /\ \A u \in Threads : Listening(u)' <=> Listening(u)
       /\ \A u \in Threads : Coming(u)' = Coming(u)
       /\ main # "gone"
  <2>1. Listening(t) /\ \A u \in Threads : Listening(u)' <=> Listening(u)
    BY <1>1, <1>10 DEF Listening
  <2> QED
    BY <1>1, <1>10, <2>1 DEF Coming, IInv, Places, Sockets
<1>13. /\ \A u \in Threads, d \in Clients :
            Newcomer(u, d)' => Newcomer(u, d) \/ (u = t /\ d = c)
       /\ \A d \in Clients : ~Newcomer(t, d)
  <2>1. \A d \in Clients : ~Newcomer(t, d)
    BY <1>1 DEF IInv, Places, Newcomers
  <2> QED
    BY <1>1, <1>7, <2>1 DEF Newcomer
<1>14. Places'
  <2>1. Steps'
    BY <1>1, <1>9, <1>10, <1>12 DEF IInv, Places, Steps
  <2>2. Newcomers'
    BY <1>1, <1>10, <1>13 DEF IInv, Places, Newcomers
  <2>3. Sockets'
    BY <1>1, <1>6, <1>7, <1>10, <1>12 DEF IInv, Places, Sockets
  <2>4. Queues'
    <3>1. \A u \in Threads : IsInjective(backlog'[u])
      BY <1>4, <1>8 DEF IInv, Places, Queues
    <3>2. \A u \in Threads : ToSet(backlog'[u]) \subseteq ToSet(backlog[u]) \ {c}
      BY <1>4, <1>5, <1>8
    <3>3. \A u \in Threads : ToSet(backlog[u]) \subseteq Clients
      BY <1>3 DEF ToSet
    <3>4. ASSUME NEW u \in Threads, NEW d \in ToSet(backlog'[u])
          PROVE  where'[d] = "queued" /\ \A v \in Threads : d \in ToSet(backlog'[v]) => v = u
      <4>1. d # c /\ d \in ToSet(backlog[u]) /\ d \in Clients
        BY <3>2, <3>3, <3>4
      <4>2. where[d] = "queued" /\ \A v \in Threads : d \in ToSet(backlog[v]) => v = u
        BY <4>1 DEF IInv, Places, Queues
      <4> QED
        BY <1>7, <3>2, <4>1, <4>2
    <3> QED
      BY <3>1, <3>4 DEF Queues
  <2>5. Current'
    BY <1>1, <1>6, <1>7, <1>12 DEF IInv, Places, Current
  <2> QED
    BY <2>1, <2>2, <2>3, <2>4, <2>5 DEF Places
<1>15. Edges'
  <2>1. /\ UNCHANGED <<watched, ready, main, client, taken, buf, readPos>>
        /\ \A u \in Threads : backlog'[u] # <<>> => backlog[u] # <<>>
        /\ \A d \in Clients : d # c => where'[d] = where[d] /\ owner'[d] = owner[d]
        /\ where[c] # "closed" /\ c \in Clients
        /\ pc[t] \in {"events", "accepted"}
    BY <1>1, <1>4, <1>5, <1>7, <1>8 DEF client
  <2> QED
    BY <1>1, <1>6, <1>9, <2>1, LoopEdges
<1>16. Table'
  <2>1. \A f \in 0 .. TableSize - 1 : conns[f] # c
    BY <1>4, <1>5, PartiesAssumption DEF IInv, Table, EntriesOpen
  <2>2. \A d \in Clients : where[d] = "open" => fd[d] # fd'[c]
    BY <1>2, <1>7 DEF Holding
  <2>3. pc[t] \in {"events", "accepted"} /\ UNCHANGED <<conns, watched, ready>> /\ c \in Clients
    BY <1>1, <1>4
  <2> QED
    BY <1>1, <1>6, <1>7, <1>9, <2>1, <2>2, <2>3, LoopTable
<1>17. Answered'
  <2>1. ClosingExcused'
    BY <1>1, <1>10, <1>13, ClosingKept DEF Excused
  <2>2. PoolClosed' /\ ToRun' = ToRun
    BY <1>1 DEF IInv, Answered, PoolClosed, ToRun
  <2> QED
    BY <1>1, <1>7, <2>1, <2>2, AnsweredKept DEF Excused
<1> QED
  BY <1>11, <1>14, <1>15, <1>16, <1>17 DEF IInv

LEMMA AcceptDoneInv ==
  ASSUME IInv, NEW t \in Threads, AcceptDone(t)
  PROVE  IInv'
<1>1. /\ batch[t] # <<>> /\ Head(batch[t]) = Listener /\ pc[t] = "events"
      /\ stop \/ backlog[t] = <<>>
      /\ EventDone(t)
      /\ UNCHANGED <<where, owner, fd, arrived, fin, backlog, watched, ready, conns>>
      /\ UNCHANGED <<taken, buf, readPos, capacity, asked>>
      /\ UNCHANGED <<line, started, finished, closed, main, swept, failures, answers>>
  BY DEF AcceptDone, Handling, socket, client, input, pool
<1>2. /\ ThreadTypes'
      /\ pc'[t] \in {"events", "leave", "wait"}
      /\ \A u \in Threads : u # t => pc'[u] = pc[u] /\ batch'[u] = batch[u]
  BY <1>1, DoneMove DEF IInv
<1>3. Typed'
  BY <1>1, <1>2 DEF IInv, Typed, SocketTypes, InputTypes, PoolTypes, MainTypes
<1>4. \A d \in Clients : ~Newcomer(t, d)
  BY <1>1 DEF IInv, Places, Newcomers
<1>5. Places'
  BY <1>1, <1>4, DonePlaces
<1>6. Edges'
  <2>1. /\ \A d \in Clients :
             (Readable(owner[d], d)' <=> Readable(owner[d], d)) /\ (Whole(d)' <=> Whole(d))
        /\ \A d \in Clients : Head(batch[t]) # d
        /\ \A d \in Clients : d \notin watched => buf'[d] = buf[d]
    BY <1>1, PartiesAssumption, ReadableClient DEF Whole, Rest
  <2> QED
    BY <1>1, <2>1, DoneEdges
<1>7. Table'
  BY <1>1, <1>2, QuietTable
<1>8. Answered'
  <2>1. ClosingExcused'
    BY <1>1, <1>2, ClosingKept DEF Newcomer, Excused
  <2>2. PoolClosed' /\ ToRun' = ToRun
    BY <1>1 DEF IInv, Answered, PoolClosed, ToRun
  <2> QED
    BY <1>1, <2>1, <2>2, AnsweredKept DEF Excused
<1> QED
  BY <1>3, <1>5, <1>6, <1>7, <1>8 DEF IInv

(* Once an allocation has failed, everything is excused.                   *)
LEMMA FailsExcuse ==
  ASSUME IInv, Fails, UNCHANGED <<line, started, closed, main, swept, answers>>
  PROVE  /\ failures' \in 0 .. MaxFailures
         /\ \A c \in Clients : Excused(c)'
         /\ Answered'
<1>1. failures \in Nat /\ failures' = failures + 1 /\ failures < MaxFailures
      /\ MaxFailures \in Nat
  BY LimitsAssumption DEF IInv, Typed, MainTypes, Fails
<1>2. failures' > 0 /\ failures' \in 0 .. MaxFailures
  BY <1>1
<1>3. \A c \in Clients : Excused(c)'
  BY <1>2 DEF Excused
<1>4. \A x \in ToRun : x[1] \in Clients
  <2>1. ToRun \subseteq Tasks
    BY DEF ToRun, ToSet, IInv, Typed, PoolTypes
  <2> QED
    BY <2>1 DEF Tasks
<1>5. ClosingExcused' /\ TasksOpen'
  BY <1>3, <1>4 DEF ClosingExcused, TasksOpen, ToRun
<1>6. /\ PoolClosed'
      /\ \A a \in answers' :
           a[1] \in Clients /\ (a[3] = a[1] \/ Excused(a[1])')
  BY <1>2, <1>3 DEF IInv, Answered, PoolClosed
<1> QED
  BY <1>2, <1>3, <1>5, <1>6 DEF Answered

LEMMA AcceptFailsInv ==
  ASSUME IInv, NEW t \in Threads, NEW c \in Clients, AcceptFails(t, c)
  PROVE  IInv'
<1>1. /\ batch[t] # <<>> /\ Head(batch[t]) = Listener /\ pc[t] = "accepted"
      /\ Newcomer(t, c) /\ Fails
      /\ where' = [where EXCEPT ![c] = "closed"]
      /\ Goto(t, "events")
      /\ UNCHANGED <<owner, fd, arrived, fin, backlog, watched, ready, conns>>
      /\ UNCHANGED <<taken, buf, readPos, capacity, asked>>
      /\ UNCHANGED <<line, started, finished, closed, main, swept, answers>>
  BY DEF AcceptFails, Handling, socket, client, input, pool
<1>2. /\ where[c] = "open" /\ owner[c] = t /\ c \notin watched
      /\ \A d \in Clients : Newcomer(t, d) => d = c
  BY <1>1 DEF IInv, Places, Newcomers, Newcomer
<1>3. /\ where' \in [Clients -> {"away", "queued", "reset", "open", "closed"}]
      /\ where'[c] = "closed" /\ \A d \in Clients : d # c => where'[d] = where[d]
  BY <1>1 DEF IInv, Typed, SocketTypes
<1>4. "events" \in Working /\ "events" \in {"events", "accepted"}
  BY DEF Working
<1>5. /\ ThreadTypes' /\ batch' = batch
      /\ pc'[t] = "events" /\ \A u \in Threads : u # t => pc'[u] = pc[u]
  BY <1>1, <1>4, GotoMove DEF IInv, Typed
<1>6. failures' \in 0 .. MaxFailures /\ Answered'
  BY <1>1, FailsExcuse
<1>7. Typed'
  BY <1>1, <1>3, <1>5, <1>6 DEF IInv, Typed, SocketTypes, InputTypes, PoolTypes, MainTypes
<1>8. /\ Listening(t) /\ \A u \in Threads : Listening(u)' <=> Listening(u)
      /\ \A u \in Threads : Coming(u)' = Coming(u)
      /\ main # "gone" /\ watched \subseteq Clients
  <2>1. Listening(t) /\ \A u \in Threads : Listening(u)' <=> Listening(u)
    BY <1>1, <1>5 DEF Listening
  <2> QED
    BY <1>1, <1>5, <2>1 DEF Coming, IInv, Places, Sockets, Typed, SocketTypes
<1>9. \A u \in Threads, d \in Clients : Newcomer(u, d)' => Newcomer(u, d) /\ u # t
  BY <1>1, <1>2, <1>3 DEF Newcomer
<1>10. Places'
  <2>1. Steps'
    BY <1>1, <1>4, <1>5, <1>8 DEF IInv, Places, Steps
  <2>2. Newcomers'
    BY <1>1, <1>5, <1>9 DEF IInv, Places, Newcomers
  <2>3. Sockets'
    BY <1>1, <1>2, <1>3, <1>5, <1>8 DEF IInv, Places, Sockets
  <2>4. Queues'
    <3>1. \A u \in Threads : \A d \in ToSet(backlog[u]) : d # c /\ d \in Clients
      BY <1>2 DEF IInv, Typed, SocketTypes, ToSet, Places, Queues
    <3> QED
      BY <1>1, <1>3, <3>1 DEF IInv, Places, Queues
  <2>5. Current'
    BY <1>1, <1>2, <1>3, <1>8 DEF IInv, Places, Current
  <2> QED
    BY <2>1, <2>2, <2>3, <2>4, <2>5 DEF Places
<1>11. Edges'
  <2>1. /\ UNCHANGED <<watched, ready, main, client, taken, buf, readPos>>
        /\ \A u \in Threads : backlog'[u] # <<>> => backlog[u] # <<>>
        /\ \A d \in Clients : d # c => where'[d] = where[d] /\ owner'[d] = owner[d]
        /\ where[c] # "closed" /\ pc[t] \in {"events", "accepted"}
    BY <1>1, <1>2, <1>3 DEF client
  <2> QED
    BY <1>1, <1>2, <1>4, <2>1, LoopEdges
<1>12. Table'
  <2>1. \A f \in 0 .. TableSize - 1 : conns[f] # c
    BY <1>1, <1>2 DEF IInv, Table, EntriesHeld
  <2>2. /\ pc[t] \in {"events", "accepted"} /\ UNCHANGED <<conns, watched, ready>>
        /\ where'[c] # "open"
        /\ \A d \in Clients :
             d # c => where'[d] = where[d] /\ owner'[d] = owner[d] /\ fd'[d] = fd[d]
    BY <1>1, <1>3
  <2> QED
    BY <1>1, <1>2, <1>4, <2>1, <2>2, LoopTable
<1> QED
  BY <1>6, <1>7, <1>10, <1>11, <1>12 DEF IInv

(* The table entry of the descriptor of c, which is open.                  *)
LEMMA EnterFacts ==
  ASSUME IInv, NEW c \in Clients, where[c] = "open", NEW who \in Clients \cup {Nobody},
         Enter(c, who)
  PROVE  /\ conns' \in [0 .. TableSize - 1 -> Clients \cup {Nobody}]
         /\ fd[c] < TableSize => fd[c] \in 0 .. TableSize - 1 /\ conns'[fd[c]] = who
         /\ \A f \in 0 .. TableSize - 1 : f # fd[c] => conns'[f] = conns[f]
         /\ \A f \in 0 .. TableSize - 1 : f = fd[c] => conns'[f] = who
         /\ \A d \in Clients : where[d] = "open" /\ d # c => fd[d] # fd[c]
<1>1. /\ conns \in [0 .. TableSize - 1 -> Clients \cup {Nobody}]
      /\ fd[c] \in Nat /\ TableSize \in Nat \ {0} /\ FdLimit \in Nat
  BY LimitsAssumption DEF IInv, Typed, SocketTypes, Fds
<1>2. \A d \in Clients : where[d] = "open" /\ d # c => fd[d] # fd[c]
  BY DEF IInv, Table, FdsOwn
<1>3. CASE fd[c] < TableSize
  <2>1. fd[c] \in 0 .. TableSize - 1 /\ conns' = [conns EXCEPT ![fd[c]] = who]
    BY <1>1, <1>3 DEF Enter
  <2> QED
    BY <1>1, <1>2, <2>1
<1>4. CASE ~(fd[c] < TableSize)
  <2>1. conns' = conns /\ fd[c] \notin 0 .. TableSize - 1
    BY <1>1, <1>4 DEF Enter
  <2> QED
    BY <1>1, <1>2, <1>4, <2>1
<1> QED
  BY <1>3, <1>4

LEMMA RegisterInv ==
  ASSUME IInv, NEW t \in Threads, NEW c \in Clients, Register(t, c)
  PROVE  IInv'
<1>1. /\ batch[t] # <<>> /\ Head(batch[t]) = Listener /\ pc[t] = "accepted"
      /\ Newcomer(t, c) /\ Enter(c, c)
      /\ watched' = watched \cup {c}
      /\ ready' = IF Readable(t, c) THEN Edge(t, c) ELSE ready
      /\ Goto(t, "events")
      /\ UNCHANGED <<where, owner, fd, arrived, fin, backlog>>
      /\ UNCHANGED <<taken, buf, readPos, capacity, asked>>
      /\ UNCHANGED <<line, started, finished, closed, main, swept, failures, answers>>
  BY DEF Register, Handling, socket, client, input, pool
<1>2. /\ where[c] = "open" /\ owner[c] = t /\ c \notin watched
      /\ \A d \in Clients : Newcomer(t, d) => d = c
  BY <1>1 DEF IInv, Places, Newcomers, Newcomer
<1>3. /\ conns' \in [0 .. TableSize - 1 -> Clients \cup {Nobody}]
      /\ fd[c] < TableSize => fd[c] \in 0 .. TableSize - 1 /\ conns'[fd[c]] = c
      /\ \A f \in 0 .. TableSize - 1 : f # fd[c] => conns'[f] = conns[f]
      /\ \A f \in 0 .. TableSize - 1 : f = fd[c] => conns'[f] = c
      /\ \A d \in Clients : where[d] = "open" /\ d # c => fd[d] # fd[c]
  BY <1>1, <1>2, EnterFacts
<1>4. /\ ready' \in [Threads -> Seq(Items)]
      /\ \A u \in Threads : IsInjective(ready'[u])
      /\ \A u \in Threads : u # t => ready'[u] = ready[u]
      /\ \A i : i \in ToSet(ready'[t]) <=> i \in ToSet(ready[t]) \/ (i = c /\ Readable(t, c))
  <2>1. CASE Readable(t, c)
    <3>1. c \in Items /\ ready' = Edge(t, c) /\ Typed
      BY <1>1, <2>1 DEF Items, IInv
    <3>2. /\ ready' \in [Threads -> Seq(Items)]
          /\ \A u \in Threads : IsInjective(ready'[u])
          /\ \A u \in Threads : u # t => ready'[u] = ready[u]
          /\ ToSet(ready'[t]) = ToSet(ready[t]) \cup {c}
      BY <3>1, EdgeLists
    <3> QED
      BY <2>1, <3>2
  <2>2. CASE ~Readable(t, c)
    BY <1>1, <2>2 DEF IInv, Typed, ThreadTypes, Lists
  <2> QED
    BY <2>1, <2>2
<1>5. /\ batch' = batch /\ pc' = [pc EXCEPT ![t] = "events"]
      /\ pc'[t] = "events" /\ \A u \in Threads : u # t => pc'[u] = pc[u]
      /\ "events" \in Working
  BY <1>1 DEF Goto, IInv, Typed, ThreadTypes, Working
<1>6. Typed'
  BY <1>1, <1>3, <1>4, <1>5 DEF IInv, Typed, SocketTypes, ThreadTypes, Lists, InputTypes,
     PoolTypes, MainTypes
<1>7. /\ Listening(t) /\ \A u \in Threads : Listening(u)' <=> Listening(u)
      /\ \A u \in Threads : \A i :
           i \in Coming(u)' <=> i \in Coming(u) \/ (u = t /\ i = c /\ Readable(t, c))
      /\ main # "gone" /\ watched \subseteq Clients
      /\ c # Listener
  <2>1. Listening(t) /\ \A u \in Threads : Listening(u)' <=> Listening(u)
    BY <1>1, <1>5 DEF Listening
  <2>2. main # "gone"
    BY <2>1 DEF IInv, Places, Sockets
  <2> QED
    BY <1>4, <1>5, <2>1, <2>2, PartiesAssumption DEF Coming, IInv, Typed, SocketTypes
<1>8. \A u \in Threads, d \in Clients : Newcomer(u, d)' => Newcomer(u, d) /\ u # t
  BY <1>1, <1>2 DEF Newcomer
<1>9. Places'
  <2>1. Steps'
    BY <1>1, <1>4, <1>5, <1>7 DEF IInv, Places, Steps
  <2>2. Newcomers'
    BY <1>1, <1>5, <1>8 DEF IInv, Places, Newcomers
  <2>3. Sockets'
    BY <1>1, <1>2, <1>5, <1>7 DEF IInv, Places, Sockets
  <2>4. Queues'
    BY <1>1 DEF IInv, Places, Queues
  <2>5. Current'
    BY <1>1, <1>2, <1>7 DEF IInv, Places, Current
  <2> QED
    BY <2>1, <2>2, <2>3, <2>4, <2>5 DEF Places
<1>10. ~Whole(c)
  <2>1. buf[c] = <<>>
    BY <1>2 DEF IInv, Edges, Untouched
  <2>2. /\ Rest(c) \in Seq(Nat) /\ Len(Rest(c)) = Len(buf[c]) - readPos[c]
        /\ readPos[c] \in Nat /\ readPos[c] <= Len(buf[c])
    BY RestFacts DEF IInv, Typed, InputTypes
  <2>3. Len(Rest(c)) = 0
    BY <2>1, <2>2
  <2> QED
    BY <2>2, <2>3 DEF Whole
<1>11. Edges'
  <2>1. BacklogComing'
    BY <1>1, <1>7 DEF stop, IInv, Edges, BacklogComing
  <2>2. InputComing'
    <3> SUFFICES ASSUME NEW d \in watched', where[d] = "open", Listening(owner[d]),
                        Readable(owner[d], d)
                 PROVE  /\ d \in Coming(owner[d])'
                        /\ Late(owner[d], d)' => d \in ToSet(ready'[owner[d]])
      <4>1. \A d \in watched' :
              /\ d \in Clients /\ where'[d] = where[d] /\ owner'[d] = owner[d]
              /\ Readable(owner[d], d)' <=> Readable(owner[d], d)
              /\ where[d] = "open" => (Listening(owner[d])' <=> Listening(owner[d]))
        BY <1>1, <1>2, <1>7, ReadableClient DEF IInv, Places, Sockets
      <4> QED
        BY <1>1, <4>1 DEF InputComing
    <3>1. CASE d = c
      BY <1>1, <1>2, <1>4, <1>7, <3>1
    <3>2. CASE d # c
      <4>1. d \in watched /\ owner[d] \in Threads
        BY <1>1, <1>7, <3>2 DEF IInv, Places, Sockets
      <4>2. d \in Coming(owner[d]) /\ (Late(owner[d], d) => d \in ToSet(ready[owner[d]]))
        BY <4>1 DEF IInv, Edges, InputComing
      <4>3. Late(owner[d], d)' => Late(owner[d], d)
        BY <1>1, <1>5, <4>1 DEF Late
      <4>4. d \in Coming(owner[d])'
        BY <1>1, <1>7, <4>1, <4>2
      <4>5. ToSet(ready[owner[d]]) \subseteq ToSet(ready'[owner[d]])
        BY <1>4, <4>1
      <4> QED
        BY <4>2, <4>3, <4>4, <4>5
    <3> QED
      BY <3>1, <3>2
  <2>3. Parsed'
    <3> SUFFICES ASSUME NEW d \in watched', where[d] = "open", Listening(owner[d])', Whole(d)'
                 PROVE  Framing(d)'
      BY <1>1 DEF Parsed
    <3>1. Whole(d)
      BY <1>1 DEF Whole, Rest
    <3>2. d # c /\ d \in watched
      BY <1>1, <1>10, <3>1
    <3>3. owner[d] \in Threads /\ Listening(owner[d])
      BY <1>1, <1>7, <3>2 DEF IInv, Places, Sockets
    <3>4. Framing(d)
      BY <3>1, <3>2, <3>3 DEF IInv, Edges, Parsed
    <3> QED
      BY <1>1, <1>5, <3>3, <3>4 DEF Framing
  <2>4. Untouched'
    BY <1>1 DEF IInv, Edges, Untouched
  <2> QED
    BY <2>1, <2>2, <2>3, <2>4 DEF Edges
<1>12. Table'
  <2>1. /\ \A d \in Clients : where[d] = "open" => owner[d] \in Threads
        /\ \A f \in 0 .. TableSize - 1 : conns[f] \in Clients \cup {Nobody}
        /\ Nobody \notin Clients
    BY PartiesAssumption DEF IInv, Typed, SocketTypes, Places, Sockets
  <2>2. \A d \in Clients : where[d] = "open" =>
          /\ Releasing(d)' <=> Releasing(d)
          /\ pc[owner[d]] = "closing" => pc'[owner[d]] = "closing"
    BY <1>1, <1>5, <2>1 DEF Releasing
  <2>3. FdsOwn'
    BY <1>1 DEF IInv, Table, FdsOwn
  <2>4. EntriesOpen'
    BY <1>1, <1>2, <1>3, <2>1 DEF IInv, Table, EntriesOpen
  <2>5. EntriesHeld'
    <3> SUFFICES ASSUME NEW f \in 0 .. TableSize - 1, NEW d \in Clients, conns'[f] = d
                 PROVE  \/ d \in watched' /\ ~Releasing(d)'
                        \/ d \notin watched' /\ pc'[owner'[d]] = "closing"
      BY DEF EntriesHeld
    <3>1. where[d] = "open"
      BY <1>1, <2>1, <2>4 DEF EntriesOpen
    <3>2. CASE d = c
      BY <1>1, <1>2, <1>5, <3>2 DEF Releasing
    <3>3. CASE d # c
      <4>1. conns[f] = d
        BY <1>3, <3>3
      <4>2. \/ d \in watched /\ ~Releasing(d)
            \/ d \notin watched /\ pc[owner[d]] = "closing"
        BY <4>1 DEF IInv, Table, EntriesHeld
      <4> QED
        BY <1>1, <2>2, <3>1, <3>3, <4>2
    <3> QED
      BY <3>2, <3>3
  <2>6. Entered'
    <3> SUFFICES ASSUME NEW d \in watched', fd[d] < TableSize, where[d] = "open",
                        ~Releasing(d)'
                 PROVE  conns'[fd[d]] = d
      BY <1>1 DEF Entered
    <3>1. CASE d = c
      BY <1>3, <3>1
    <3>2. CASE d # c
      <4>1. d \in watched /\ d \in Clients
        BY <1>1, <1>7, <3>2
      <4>2. ~Releasing(d)
        <5>1. pc[t] # "releasing"
          BY <1>1
        <5> QED
          BY <2>2, <4>1, <5>1 DEF Releasing
      <4>3. conns[fd[d]] = d
        BY <2>2, <4>1, <4>2 DEF IInv, Table, Entered
      <4>4. fd[d] \in 0 .. TableSize - 1 /\ fd[d] # fd[c]
        <5>1. fd[d] \in Nat /\ TableSize \in Nat
          BY <4>1, LimitsAssumption DEF IInv, Typed, SocketTypes, Fds
        <5> QED
          BY <1>3, <3>2, <4>1, <5>1
      <4> QED
        BY <1>3, <4>3, <4>4
    <3> QED
      BY <3>1, <3>2
  <2> QED
    BY <2>3, <2>4, <2>5, <2>6 DEF Table
<1>13. Answered'
  <2>1. ClosingExcused'
    BY <1>1, <1>5, <1>8, ClosingKept DEF Excused
  <2>2. PoolClosed' /\ ToRun' = ToRun
    BY <1>1 DEF IInv, Answered, PoolClosed, ToRun
  <2> QED
    BY <1>1, <2>1, <2>2, AnsweredKept DEF Excused
<1> QED
  BY <1>6, <1>9, <1>11, <1>12, <1>13 DEF IInv

LEMMA RegisterFailsInv ==
  ASSUME IInv, NEW t \in Threads, NEW c \in Clients, RegisterFails(t, c)
  PROVE  IInv'
<1>1. /\ batch[t] # <<>> /\ Head(batch[t]) = Listener /\ pc[t] = "accepted"
      /\ Newcomer(t, c) /\ Fails /\ Enter(c, c)
      /\ Goto(t, "closing")
      /\ UNCHANGED <<where, owner, fd, arrived, fin, backlog, watched, ready>>
      /\ UNCHANGED <<taken, buf, readPos, capacity, asked>>
      /\ UNCHANGED <<line, started, finished, closed, main, swept, answers>>
  BY DEF RegisterFails, Handling, socket, client, input, pool
<1>2. /\ where[c] = "open" /\ owner[c] = t /\ c \notin watched
  BY <1>1 DEF Newcomer
<1>3. /\ conns' \in [0 .. TableSize - 1 -> Clients \cup {Nobody}]
      /\ fd[c] < TableSize => fd[c] \in 0 .. TableSize - 1 /\ conns'[fd[c]] = c
      /\ \A f \in 0 .. TableSize - 1 : f # fd[c] => conns'[f] = conns[f]
      /\ \A f \in 0 .. TableSize - 1 : f = fd[c] => conns'[f] = c
      /\ \A d \in Clients : where[d] = "open" /\ d # c => fd[d] # fd[c]
  BY <1>1, <1>2, EnterFacts
<1>4. "closing" \in Working
  BY DEF Working
<1>5. /\ ThreadTypes' /\ batch' = batch
      /\ pc'[t] = "closing" /\ \A u \in Threads : u # t => pc'[u] = pc[u]
  BY <1>1, <1>4, GotoMove DEF IInv, Typed
<1>6. failures' \in 0 .. MaxFailures /\ Answered'
  BY <1>1, FailsExcuse
<1>7. Typed'
  BY <1>1, <1>3, <1>5, <1>6 DEF IInv, Typed, SocketTypes, InputTypes, PoolTypes, MainTypes
<1>8. Places'
  BY <1>1, <1>4, GotoPlaces
<1>9. Edges'
  <2>1. /\ \A d \in Clients :
             /\ Readable(owner[d], d)' <=> Readable(owner[d], d)
             /\ Whole(d)' <=> Whole(d) /\ d # Listener
    BY <1>1, PartiesAssumption, ReadableClient DEF Whole, Rest
  <2> QED
    BY <1>1, <1>4, <2>1, GotoEdges
<1>10. Table'
  <2>1. /\ \A d \in Clients : where[d] = "open" => owner[d] \in Threads
        /\ \A f \in 0 .. TableSize - 1 : conns[f] \in Clients \cup {Nobody}
        /\ Nobody \notin Clients /\ watched \subseteq Clients
    BY PartiesAssumption DEF IInv, Typed, SocketTypes, Places, Sockets
  <2>2. \A d \in Clients : where[d] = "open" =>
          /\ Releasing(d)' <=> Releasing(d)
          /\ pc[owner[d]] = "closing" => pc'[owner[d]] = "closing"
    BY <1>1, <1>5, <2>1 DEF Releasing
  <2>3. FdsOwn'
    BY <1>1 DEF IInv, Table, FdsOwn
  <2>4. EntriesOpen'
    BY <1>1, <1>2, <1>3, <2>1 DEF IInv, Table, EntriesOpen
  <2>5. EntriesHeld'
    <3> SUFFICES ASSUME NEW f \in 0 .. TableSize - 1, NEW d \in Clients, conns'[f] = d
                 PROVE  \/ d \in watched /\ ~Releasing(d)'
                        \/ d \notin watched /\ pc'[owner[d]] = "closing"
      BY <1>1 DEF EntriesHeld
    <3>1. where[d] = "open"
      BY <1>1, <2>1, <2>4 DEF EntriesOpen
    <3>2. CASE d = c
      BY <1>2, <1>5, <3>2
    <3>3. CASE d # c
      <4>1. conns[f] = d
        BY <1>3, <3>3
      <4>2. \/ d \in watched /\ ~Releasing(d)
            \/ d \notin watched /\ pc[owner[d]] = "closing"
        BY <4>1 DEF IInv, Table, EntriesHeld
      <4> QED
        BY <2>2, <3>1, <4>2
    <3> QED
      BY <3>2, <3>3
  <2>6. Entered'
    <3> SUFFICES ASSUME NEW d \in watched, fd[d] < TableSize, where[d] = "open",
                        ~Releasing(d)'
                 PROVE  conns'[fd[d]] = d
      BY <1>1 DEF Entered
    <3>1. d # c /\ d \in Clients
      BY <1>2, <2>1
    <3>2. conns[fd[d]] = d
      BY <2>2, <3>1 DEF IInv, Table, Entered
    <3>3. fd[d] \in 0 .. TableSize - 1 /\ fd[d] # fd[c]
      <4>1. fd[d] \in Nat /\ TableSize \in Nat
        BY <3>1, LimitsAssumption DEF IInv, Typed, SocketTypes, Fds
      <4> QED
        BY <1>3, <3>1, <4>1
    <3> QED
      BY <1>3, <3>2, <3>3
  <2> QED
    BY <2>3, <2>4, <2>5, <2>6 DEF Table
<1> QED
  BY <1>6, <1>7, <1>8, <1>9, <1>10 DEF IInv

-----------------------------------------------------------------------------
(* close_connection: the table entry, then the descriptor                  *)

LEMMA UnregisterInv ==
  ASSUME IInv, NEW t \in Threads, NEW c \in Clients, InHand(t, c),
         pc[t] = "closing", Unregister(c), Goto(t, "releasing"),
         UNCHANGED <<socket, client, backlog, input, pool, main, swept, failures, answers>>
  PROVE  IInv'
<1>1. /\ Enter(c, Nobody) /\ batch[t] # <<>>
      /\ UNCHANGED <<where, owner, fd, arrived, fin, backlog, watched, ready>>
      /\ UNCHANGED <<taken, buf, readPos, capacity, asked>>
      /\ UNCHANGED <<line, started, finished, closed, main, swept, failures, answers>>
  BY DEF Unregister, InHand, socket, client, input, pool
<1>2. /\ where[c] = "open" /\ owner[c] = t
      /\ \/ Head(batch[t]) = c /\ c \in watched
         \/ Head(batch[t]) = Listener /\ c \notin watched /\ Newcomer(t, c)
  BY InHandFacts
<1>3. /\ conns' \in [0 .. TableSize - 1 -> Clients \cup {Nobody}]
      /\ \A f \in 0 .. TableSize - 1 : f # fd[c] => conns'[f] = conns[f]
      /\ \A f \in 0 .. TableSize - 1 : f = fd[c] => conns'[f] = Nobody
      /\ \A d \in Clients : where[d] = "open" /\ d # c => fd[d] # fd[c]
  BY <1>1, <1>2, EnterFacts
<1>4. "releasing" \in Working
  BY DEF Working
<1>5. /\ ThreadTypes' /\ batch' = batch
      /\ pc'[t] = "releasing" /\ \A u \in Threads : u # t => pc'[u] = pc[u]
  BY <1>1, <1>4, GotoMove DEF IInv, Typed
<1>6. Typed'
  BY <1>1, <1>3, <1>5 DEF IInv, Typed, SocketTypes, InputTypes, PoolTypes, MainTypes
<1>7. Places'
  BY <1>1, <1>4, GotoPlaces
<1>8. Edges'
  <2>1. \A d \in Clients :
          (Readable(owner[d], d)' <=> Readable(owner[d], d)) /\ (Whole(d)' <=> Whole(d))
    BY <1>1, ReadableClient DEF Whole, Rest
  <2> QED
    BY <1>1, <1>4, <2>1, GotoEdges
<1>9. Table'
  <2>1. /\ \A d \in Clients : where[d] = "open" => owner[d] \in Threads
        /\ \A f \in 0 .. TableSize - 1 : conns[f] \in Clients \cup {Nobody}
        /\ Nobody \notin Clients /\ Listener \notin Clients /\ watched \subseteq Clients
    BY PartiesAssumption DEF IInv, Typed, SocketTypes, Places, Sockets
  <2>2. \A d \in Clients : where[d] = "open" =>
          /\ Releasing(d)' <=> Releasing(d) \/ (owner[d] = t /\ Head(batch[t]) = d)
          /\ pc[owner[d]] = "closing" /\ owner[d] # t => pc'[owner[d]] = "closing"
    BY <1>1, <1>5, <2>1 DEF Releasing
  <2>3. FdsOwn'
    BY <1>1 DEF IInv, Table, FdsOwn
  <2>4. EntriesOpen'
    BY <1>1, <1>2, <1>3, <2>1 DEF IInv, Table, EntriesOpen
  <2>5. EntriesHeld'
    <3> SUFFICES ASSUME NEW f \in 0 .. TableSize - 1, NEW d \in Clients, conns'[f] = d
                 PROVE  \/ d \in watched /\ ~Releasing(d)'
                        \/ d \notin watched /\ pc'[owner[d]] = "closing"
      BY <1>1 DEF EntriesHeld
    <3>1. f # fd[c] /\ conns[f] = d
      BY <1>3, <2>1
    <3>2. where[d] = "open" /\ d # c
      BY <1>2, <2>1, <3>1 DEF IInv, Table, EntriesOpen
    <3>3. Head(batch[t]) # d
      BY <1>2, <2>1, <3>2
    <3>4. CASE d \in watched /\ ~Releasing(d)
      BY <2>2, <3>2, <3>3, <3>4
    <3>5. CASE d \notin watched /\ pc[owner[d]] = "closing"
      <4>1. owner[d] # t
        <5>1. Newcomer(t, d) => Head(batch[t]) = Listener /\ (Newcomer(t, c) => d = c)
          BY <1>1 DEF IInv, Places, Newcomers
        <5> QED
          BY <1>2, <2>1, <3>2, <3>5, <5>1 DEF Newcomer
      <4> QED
        BY <2>2, <3>2, <3>5, <4>1
    <3> QED
      BY <3>1, <3>4, <3>5 DEF IInv, Table, EntriesHeld
  <2>6. Entered'
    <3> SUFFICES ASSUME NEW d \in watched, fd[d] < TableSize, where[d] = "open",
                        ~Releasing(d)'
                 PROVE  conns'[fd[d]] = d
      BY <1>1 DEF Entered
    <3>1. d \in Clients /\ d # c
      BY <1>2, <2>1, <2>2
    <3>2. conns[fd[d]] = d
      BY <2>2, <3>1 DEF IInv, Table, Entered
    <3>3. fd[d] \in 0 .. TableSize - 1 /\ fd[d] # fd[c]
      <4>1. fd[d] \in Nat /\ TableSize \in Nat
        BY <3>1, LimitsAssumption DEF IInv, Typed, SocketTypes, Fds
      <4> QED
        BY <1>3, <3>1, <4>1
    <3> QED
      BY <1>3, <3>2, <3>3
  <2> QED
    BY <2>3, <2>4, <2>5, <2>6 DEF Table
<1>10. Answered'
  <2>1. \A d \in Clients : Excused(d)' <=> Excused(d)
    BY <1>1 DEF Excused
  <2>2. \A u \in Threads, d \in Clients : InHand(u, d)' <=> InHand(u, d)
    BY <1>1, <1>5 DEF InHand, Newcomer
  <2>3. ClosingExcused'
    BY <1>5, <2>1, <2>2 DEF IInv, Answered, ClosingExcused
  <2>4. PoolClosed' /\ ToRun' = ToRun
    BY <1>1 DEF IInv, Answered, PoolClosed, ToRun
  <2> QED
    BY <1>1, <2>1, <2>3, <2>4, AnsweredKept
<1> QED
  BY <1>6, <1>7, <1>8, <1>9, <1>10 DEF IInv

LEMMA ReleaseInv ==
  ASSUME IInv, NEW t \in Threads, NEW c \in Clients, InHand(t, c),
         pc[t] = "releasing", Release(t, c), CloseDone(t),
         UNCHANGED <<socket, client, backlog, input, pool, main, swept, failures, answers>>
  PROVE  IInv'
<1>1. /\ batch[t] # <<>>
      /\ where' = [where EXCEPT ![c] = "closed"] /\ watched' = watched \ {c}
      /\ UNCHANGED <<owner, fd, arrived, fin, backlog, conns>>
      /\ UNCHANGED <<taken, buf, readPos, capacity, asked>>
      /\ UNCHANGED <<line, started, finished, closed, main, swept, failures, answers>>
  BY DEF Release, InHand, socket, client, input, pool
<1>2. /\ where[c] = "open" /\ owner[c] = t /\ main # "gone" /\ Listening(t)
      /\ \/ Head(batch[t]) = c /\ c \in watched
         \/ Head(batch[t]) = Listener /\ c \notin watched /\ Newcomer(t, c)
  BY InHandFacts
<1>3. /\ where' \in [Clients -> {"away", "queued", "reset", "open", "closed"}]
      /\ where'[c] = "closed" /\ \A d \in Clients : d # c => where'[d] = where[d]
      /\ watched' \subseteq Clients /\ watched \subseteq Clients
      /\ Listener \notin Clients /\ Nobody \notin Clients
  BY <1>1, PartiesAssumption DEF IInv, Typed, SocketTypes
<1>4. /\ ready' \in [Threads -> Seq(Items)]
      /\ \A u \in Threads : IsInjective(ready'[u])
      /\ \A u \in Threads : u # t => ready'[u] = ready[u]
      /\ ToSet(ready'[t]) = ToSet(ready[t]) \ {c}
  BY ReleaseLists DEF IInv
<1>5. /\ batch' \in [Threads -> Seq(Items)]
      /\ \A u \in Threads : IsInjective(batch'[u])
      /\ pc' \in [Threads -> Working \cup {"wait", "leave", "left", "unborn"}]
      /\ pc'[t] \in {"events", "leave", "wait"}
      /\ pc'[t] = "events" <=> batch'[t] # <<>>
      /\ \A u \in Threads : u # t => pc'[u] = pc[u] /\ batch'[u] = batch[u]
      /\ \A i : i \in ToSet(batch'[t]) <=> i \in ToSet(batch[t]) /\ i # c
  <2>1. CASE Head(batch[t]) = c
    <3>1. EventDone(t)
      BY <1>3, <2>1 DEF CloseDone
    <3>2. /\ batch' \in [Threads -> Seq(Items)]
          /\ \A u \in Threads : IsInjective(batch'[u])
          /\ pc' \in [Threads -> Working \cup {"wait", "leave", "left", "unborn"}]
          /\ pc'[t] \in {"events", "leave", "wait"}
          /\ pc'[t] = "events" <=> batch'[t] # <<>>
          /\ \A u \in Threads : u # t => pc'[u] = pc[u] /\ batch'[u] = batch[u]
          /\ ToSet(batch[t]) = ToSet(batch'[t]) \cup {Head(batch[t])}
          /\ Head(batch[t]) \notin ToSet(batch'[t])
      BY <1>1, <3>1, DoneMove DEF IInv
    <3> QED
      BY <2>1, <3>2
  <2>2. CASE Head(batch[t]) # c
    <3>1. Head(batch[t]) = Listener /\ c \notin watched
      BY <1>2, <2>2
    <3>2. pc' = [pc EXCEPT ![t] = "events"] /\ batch' = batch
      BY <3>1 DEF CloseDone, Goto
    <3>3. c \notin ToSet(batch[t])
      BY <3>1 DEF IInv, Places, Current, Coming
    <3> QED
      BY <1>1, <3>2, <3>3 DEF IInv, Typed, ThreadTypes, Lists, Working
  <2> QED
    BY <2>1, <2>2
<1>6. Typed'
  BY <1>1, <1>3, <1>4, <1>5 DEF IInv, Typed, SocketTypes, ThreadTypes, Lists, InputTypes,
     PoolTypes, MainTypes
<1>7. /\ \A u \in Threads : Listening(u)' <=> Listening(u)
      /\ \A u \in Threads : \A i : i \in Coming(u)' <=> i \in Coming(u) /\ ~(u = t /\ i = c)
  BY <1>2, <1>4, <1>5 DEF Listening, Coming
<1>8. \A u \in Threads, d \in Clients : Newcomer(u, d)' => Newcomer(u, d) /\ u # t
  <2>1. \A d \in Clients : Newcomer(t, d) => d = c
    BY <1>1, <1>2, HandlingFacts DEF IInv, Places, Newcomers
  <2> QED
    BY <1>1, <1>3, <2>1 DEF Newcomer
<1>9. Places'
  <2>1. Steps'
    <3>1. ASSUME NEW u \in Threads
          PROVE  /\ pc'[u] \in Working <=> batch'[u] # <<>>
                 /\ pc'[u] = "accepted" => Head(batch'[u]) = Listener
                 /\ pc'[u] \in {"parse", "inline"} => Head(batch'[u]) # Listener
                 /\ ~Listening(u)' => ready'[u] = <<>>
      <4>1. CASE u = t
        BY <4>1, <1>2, <1>5, <1>7 DEF Working
      <4>2. CASE u # t
        <5>1. /\ pc'[u] = pc[u] /\ batch'[u] = batch[u] /\ ready'[u] = ready[u]
              /\ Listening(u)' <=> Listening(u)
          BY <4>2, <1>4, <1>5, <1>7
        <5>2. /\ pc[u] \in Working <=> batch[u] # <<>>
              /\ pc[u] = "accepted" => Head(batch[u]) = Listener
              /\ pc[u] \in {"parse", "inline"} => Head(batch[u]) # Listener
              /\ ~Listening(u) => ready[u] = <<>>
          BY DEF IInv, Places, Steps
        <5> QED
          BY <5>1, <5>2
      <4> QED
        BY <4>1, <4>2
    <3> QED
      BY <3>1 DEF Steps
  <2>2. Newcomers'
    BY <1>1, <1>5, <1>8 DEF IInv, Places, Newcomers
  <2>3. Sockets'
    <3>1. ASSUME NEW d \in Clients
          PROVE  /\ where'[d] \in {"away", "queued", "reset"} => owner[d] = Nobody /\ d \notin watched'
                 /\ where'[d] \in {"open", "closed"} => owner[d] \in Threads /\ pc'[owner[d]] # "unborn"
      <4>1. /\ where[d] \in {"away", "queued", "reset"} => owner[d] = Nobody /\ d \notin watched
            /\ where[d] \in {"open", "closed"} => owner[d] \in Threads /\ pc[owner[d]] # "unborn"
        BY DEF IInv, Places, Sockets
      <4>2. \A u \in Threads : pc'[u] = pc[u] \/ pc'[u] \in {"events", "leave", "wait"}
        BY <1>5
      <4>3. CASE d = c
        BY <4>3, <1>2, <1>3, <4>1, <4>2
      <4>4. CASE d # c
        BY <4>4, <1>1, <1>3, <4>1, <4>2
      <4> QED
        BY <4>3, <4>4
    <3>2. \A d \in watched' : where'[d] = "open"
      BY <1>1, <1>2, <1>3 DEF IInv, Places, Sockets
    <3> QED
      BY <1>1, <1>2, <3>1, <3>2 DEF Sockets
  <2>4. Queues'
    <3>1. \A u \in Threads : \A d \in ToSet(backlog[u]) : d # c /\ d \in Clients
      <4>1. \A u \in Threads : ToSet(backlog[u]) \subseteq Clients
        BY DEF IInv, Typed, SocketTypes, ToSet
      <4>2. \A u \in Threads : \A d \in ToSet(backlog[u]) : where[d] = "queued"
        BY DEF IInv, Places, Queues
      <4> QED
        BY <1>2, <4>1, <4>2
    <3> QED
      BY <1>1, <1>3, <3>1 DEF IInv, Places, Queues
  <2>5. Current'
    BY <1>1, <1>2, <1>3, <1>7 DEF IInv, Places, Current
  <2> QED
    BY <2>1, <2>2, <2>3, <2>4, <2>5 DEF Places
<1>10. Edges'
  <2>1. BacklogComing'
    BY <1>1, <1>3, <1>7 DEF stop, IInv, Edges, BacklogComing
  <2>2. InputComing'
    <3> SUFFICES ASSUME NEW d \in watched', where'[d] = "open", Listening(owner[d])',
                        Readable(owner[d], d)'
                 PROVE  /\ d \in Coming(owner[d])'
                        /\ Late(owner[d], d)' => d \in ToSet(ready'[owner[d]])
      BY <1>1 DEF InputComing
    <3>1. /\ d \in watched /\ d \in Clients /\ d # c /\ where[d] = "open"
          /\ owner[d] \in Threads
      BY <1>1, <1>3 DEF IInv, Places, Sockets
    <3>2. Readable(owner[d], d) /\ Listening(owner[d])
      BY <1>1, <1>7, <3>1, ReadableClient
    <3>3. d \in Coming(owner[d]) /\ (Late(owner[d], d) => d \in ToSet(ready[owner[d]]))
      BY <3>1, <3>2 DEF IInv, Edges, InputComing
    <3>4. d \in Coming(owner[d])'
      BY <1>1, <1>7, <3>1, <3>3
    <3>5. Late(owner[d], d)' => Late(owner[d], d) /\ owner[d] # t
      BY <1>1, <1>5, <3>1 DEF Late
    <3> QED
      BY <1>4, <3>1, <3>3, <3>4, <3>5
  <2>3. Parsed'
    <3> SUFFICES ASSUME NEW d \in watched', where'[d] = "open", Listening(owner[d])', Whole(d)'
                 PROVE  Framing(d)'
      BY <1>1 DEF Parsed
    <3>1. /\ d \in watched /\ d \in Clients /\ d # c /\ where[d] = "open"
          /\ owner[d] \in Threads /\ Whole(d)
      BY <1>1, <1>3 DEF IInv, Places, Sockets, Whole, Rest
    <3>2. Framing(d)
      BY <1>1, <1>7, <3>1 DEF IInv, Edges, Parsed
    <3>3. owner[d] # t
      BY <1>2, <1>3, <3>1, <3>2 DEF Framing
    <3> QED
      BY <1>1, <1>5, <3>1, <3>2, <3>3 DEF Framing
  <2>4. Untouched'
    BY <1>1, <1>3 DEF IInv, Edges, Untouched
  <2> QED
    BY <2>1, <2>2, <2>3, <2>4 DEF Edges
<1>11. Table'
  <2>1. /\ \A d \in Clients : where[d] = "open" => owner[d] \in Threads
        /\ \A f \in 0 .. TableSize - 1 : conns[f] \in Clients \cup {Nobody}
    BY DEF IInv, Typed, SocketTypes, Places, Sockets
  <2>2. \A f \in 0 .. TableSize - 1 : conns[f] # c
    BY <1>2 DEF IInv, Table, EntriesHeld, Releasing
  <2>3. \A d \in Clients : where[d] = "open" /\ d # c =>
          /\ ~Releasing(d) => ~Releasing(d)'
          /\ Releasing(d) => Releasing(d)'
          /\ pc[owner[d]] = "closing" => pc'[owner[d]] = "closing"
    BY <1>1, <1>2, <1>3, <1>5, <2>1 DEF Releasing
  <2>4. FdsOwn'
    BY <1>1, <1>3 DEF IInv, Table, FdsOwn
  <2>5. EntriesOpen'
    BY <1>1, <1>3, <2>1, <2>2 DEF IInv, Table, EntriesOpen
  <2>6. EntriesHeld'
    <3> SUFFICES ASSUME NEW f \in 0 .. TableSize - 1, NEW d \in Clients, conns[f] = d
                 PROVE  \/ d \in watched' /\ ~Releasing(d)'
                        \/ d \notin watched' /\ pc'[owner[d]] = "closing"
      BY <1>1 DEF EntriesHeld
    <3>1. d # c /\ where[d] = "open"
      BY <1>3, <2>2 DEF IInv, Table, EntriesOpen
    <3>2. \/ d \in watched /\ ~Releasing(d)
          \/ d \notin watched /\ pc[owner[d]] = "closing"
      BY DEF IInv, Table, EntriesHeld
    <3> QED
      BY <1>1, <2>3, <3>1, <3>2
  <2>7. Entered'
    <3> SUFFICES ASSUME NEW d \in watched', fd[d] < TableSize, where'[d] = "open",
                        ~Releasing(d)'
                 PROVE  conns[fd[d]] = d
      BY <1>1 DEF Entered
    <3>1. d # c /\ d \in watched /\ d \in Clients /\ where[d] = "open"
      BY <1>1, <1>3
    <3> QED
      BY <2>3, <3>1 DEF IInv, Table, Entered
  <2> QED
    BY <2>4, <2>5, <2>6, <2>7 DEF Table
<1>12. Answered'
  <2>1. /\ \A d \in Clients : Excused(d)' <=> Excused(d)
        /\ Excused(c)
    BY <1>1 DEF Excused, IInv, Answered, ClosingExcused
  <2>2. ClosingExcused'
    BY <1>5, <1>8, <2>1, ClosingKept
  <2>3. PoolClosed' /\ ToRun' = ToRun
    BY <1>1 DEF IInv, Answered, PoolClosed, ToRun
  <2> QED
    BY <1>1, <1>3, <2>1, <2>2, <2>3, AnsweredKept
<1> QED
  BY <1>6, <1>9, <1>10, <1>11, <1>12 DEF IInv

LEMMA CloseConnectionInv ==
  ASSUME IInv, NEW t \in Threads, NEW c \in Clients, CloseConnection(t, c)
  PROVE  IInv'
BY UnregisterInv, ReleaseInv DEF CloseConnection

-----------------------------------------------------------------------------
(* Reading, framing and the hand-over                                      *)

(* A thread has the event of a client in hand.                             *)
LEMMA ClientInHand ==
  ASSUME IInv, NEW t \in Threads, NEW c \in Clients, NEW at, Handling(t, c, at)
  PROVE  /\ batch[t] # <<>> /\ Head(batch[t]) = c /\ pc[t] = at
         /\ where[c] = "open" /\ owner[c] = t /\ c \in watched /\ c # Listener
         /\ \A d \in Clients : ~Newcomer(t, d)
         /\ Listening(t) /\ main # "gone"
         /\ at \in {"parse", "inline"} /\ Readable(t, c) => c \in ToSet(ready[t])
<1>1. batch[t] # <<>> /\ Head(batch[t]) = c /\ pc[t] = at
  BY DEF Handling
<1>2. /\ where[c] = "open" /\ owner[c] = t /\ c \in watched /\ c # Listener
      /\ \A d \in Clients : ~Newcomer(t, d)
      /\ Listening(t) /\ main # "gone"
  BY <1>1, HandlingFacts
<1>3. at \in {"parse", "inline"} => Late(t, c)
  BY <1>1 DEF Late
<1> QED
  BY <1>1, <1>2, <1>3 DEF IInv, Edges, InputComing

LEMMA ReadInv ==
  ASSUME IInv, NEW t \in Threads, NEW c \in Clients, Read(t, c)
  PROVE  IInv'
<1>1. /\ Handling(t, c, "events") /\ ~fin[c]
      /\ buf' = [buf EXCEPT ![c] = @ \o Unread(c)]
      /\ taken' = [taken EXCEPT ![c] = arrived[c]]
      /\ Goto(t, "parse")
      /\ UNCHANGED <<where, owner, fd, arrived, fin, backlog, watched, ready, conns>>
      /\ UNCHANGED <<readPos, asked>>
      /\ UNCHANGED <<line, started, finished, closed, main, swept, failures, answers>>
  BY DEF Read, socket, client, pool
<1>2. /\ batch[t] # <<>> /\ Head(batch[t]) = c /\ pc[t] = "events"
      /\ where[c] = "open" /\ owner[c] = t /\ c \in watched /\ c # Listener
      /\ \A d \in Clients : ~Newcomer(t, d)
  BY <1>1, ClientInHand
<1>3. InputTypes'
  BY ReadInput DEF IInv, Typed
<1>4. "parse" \in Working
  BY DEF Working
<1>5. /\ ThreadTypes' /\ batch' = batch
      /\ pc'[t] = "parse" /\ \A u \in Threads : u # t => pc'[u] = pc[u]
  BY <1>1, <1>4, GotoMove DEF IInv, Typed
<1>6. Typed'
  BY <1>1, <1>3, <1>5 DEF IInv, Typed, SocketTypes, PoolTypes, MainTypes
<1>7. Places'
  BY <1>1, <1>2, <1>4, GotoPlaces
<1>8. Edges'
  <2>1. \A d \in Clients : d # c => taken'[d] = taken[d] /\ buf'[d] = buf[d]
    BY <1>1 DEF IInv, Typed, InputTypes
  <2>2. \A d \in Clients : d # c =>
          (Readable(owner[d], d)' <=> Readable(owner[d], d)) /\ (Whole(d)' <=> Whole(d))
    BY <1>1, <2>1, ReadableClient DEF Whole, Rest
  <2>3. ~Readable(t, c)'
    <3>1. taken'[c] = arrived[c] /\ arrived[c] \in Nat
      BY <1>1 DEF IInv, Typed, InputTypes
    <3> QED
      BY <1>1, <3>1, ReadableClient
  <2> QED
    BY <1>1, <1>2, <1>4, <2>1, <2>2, <2>3, GotoEdges
<1>9. Table'
  BY <1>1, <1>2, <1>5, QuietTable
<1>10. Answered'
  <2>1. ClosingExcused'
    BY <1>1, <1>5, ClosingKept DEF Newcomer, Excused
  <2>2. PoolClosed' /\ ToRun' = ToRun
    BY <1>1 DEF IInv, Answered, PoolClosed, ToRun
  <2> QED
    BY <1>1, <2>1, <2>2, AnsweredKept DEF Excused
<1> QED
  BY <1>6, <1>7, <1>8, <1>9, <1>10 DEF IInv

LEMMA ReadEndsInv ==
  ASSUME IInv, NEW t \in Threads, NEW c \in Clients, ReadEnds(t, c)
  PROVE  IInv'
<1>1. /\ Handling(t, c, "events")
      /\ (fin[c] /\ UNCHANGED failures) \/ Fails
      /\ taken' = [taken EXCEPT ![c] = arrived[c]]
      /\ Goto(t, "closing")
      /\ UNCHANGED <<where, owner, fd, arrived, fin, backlog, watched, ready, conns>>
      /\ UNCHANGED <<buf, readPos, capacity, asked>>
      /\ UNCHANGED <<line, started, finished, closed, main, swept, answers>>
  BY DEF ReadEnds, socket, client, pool
<1>2. /\ batch[t] # <<>> /\ Head(batch[t]) = c /\ pc[t] = "events"
      /\ where[c] = "open" /\ owner[c] = t /\ c \in watched /\ c # Listener
      /\ \A d \in Clients : ~Newcomer(t, d)
  BY <1>1, ClientInHand
<1>3. InputTypes'
  BY ReadEndsInput DEF IInv, Typed
<1>4. "closing" \in Working
  BY DEF Working
<1>5. /\ ThreadTypes' /\ batch' = batch
      /\ pc'[t] = "closing" /\ \A u \in Threads : u # t => pc'[u] = pc[u]
  BY <1>1, <1>4, GotoMove DEF IInv, Typed
<1>6. failures' \in 0 .. MaxFailures /\ Answered'
  <2>1. CASE Fails
    BY <1>1, <2>1, FailsExcuse
  <2>2. CASE fin[c] /\ UNCHANGED failures
    <3>1. \A d \in Clients : Excused(d)' <=> Excused(d)
      BY <1>1, <2>2 DEF Excused
    <3>2. ClosingExcused'
      <4> SUFFICES ASSUME NEW u \in Threads, NEW d \in Clients,
                          pc'[u] \in {"closing", "releasing"}, InHand(u, d)'
                   PROVE  Excused(d)
        BY <3>1 DEF ClosingExcused
      <4>1. InHand(u, d)
        BY <1>1, <1>5 DEF InHand, Newcomer
      <4>2. CASE u = t
        BY <1>2, <2>2, <4>1, <4>2 DEF InHand, Excused
      <4>3. CASE u # t
        BY <1>5, <4>1, <4>3 DEF IInv, Answered, ClosingExcused
      <4> QED
        BY <4>2, <4>3
    <3>3. PoolClosed' /\ ToRun' = ToRun
      BY <1>1 DEF IInv, Answered, PoolClosed, ToRun
    <3>4. Answered'
      BY <1>1, <3>1, <3>2, <3>3, AnsweredKept
    <3> QED
      BY <2>2, <3>4 DEF IInv, Typed, MainTypes
  <2> QED
    BY <1>1, <2>1, <2>2
<1>7. Typed'
  BY <1>1, <1>3, <1>5, <1>6 DEF IInv, Typed, SocketTypes, PoolTypes, MainTypes
<1>8. Places'
  BY <1>1, <1>2, <1>4, GotoPlaces
<1>9. Edges'
  <2>1. \A d \in Clients : d # c => taken'[d] = taken[d]
    BY <1>1 DEF IInv, Typed, InputTypes
  <2>2. \A d \in Clients : d # c =>
          (Readable(owner[d], d)' <=> Readable(owner[d], d)) /\ (Whole(d)' <=> Whole(d))
    BY <1>1, <2>1, ReadableClient DEF Whole, Rest
  <2> QED
    BY <1>1, <1>2, <1>4, <2>2, GotoEdges
<1>10. Table'
  BY <1>1, <1>2, <1>5, QuietTable
<1> QED
  BY <1>6, <1>7, <1>8, <1>9, <1>10 DEF IInv

(* What a framed request leaves of the buffers.                            *)
LEMMA AdvanceOther ==
  ASSUME IInv, NEW c \in Clients, Whole(c), Advance(c), UNCHANGED client
  PROVE  /\ InputTypes' /\ taken' = taken
         /\ \A d \in Clients : d # c => buf'[d] = buf[d] /\ (Whole(d)' <=> Whole(d))
<1>1. InputTypes'
  BY AdvanceInput DEF IInv, Typed
<1>2. taken' = taken /\ \A d \in Clients : d # c => buf'[d] = buf[d] /\ readPos'[d] = readPos[d]
  BY DEF Advance, IInv, Typed, InputTypes
<1> QED
  BY <1>1, <1>2 DEF Whole, Rest

LEMMA DispatchAcceptedInv ==
  ASSUME IInv, NEW t \in Threads, NEW c \in Clients, DispatchAccepted(t, c)
  PROVE  IInv'
<1>1. /\ Handling(t, c, "parse") /\ Whole(c) /\ Advance(c)
      /\ ~closed /\ Len(line) < QueueSize /\ line' = Append(line, NextTask(c))
      /\ UNCHANGED <<where, owner, fd, arrived, fin, backlog, watched, ready, pc, batch, conns>>
      /\ UNCHANGED client
      /\ UNCHANGED <<started, finished, closed, main, swept, failures, answers>>
  BY DEF DispatchAccepted, Pool!Accept, socket, client, thread
<1>2. where[c] = "open" /\ owner[c] = t /\ c \in watched
  BY <1>1, ClientInHand
<1>3. /\ InputTypes' /\ taken' = taken
      /\ \A d \in Clients : d # c => buf'[d] = buf[d] /\ (Whole(d)' <=> Whole(d))
  BY <1>1, AdvanceOther
<1>4. NextTask(c) \in Tasks /\ NextTask(c)[1] = c
  BY <1>1, WholeFacts DEF IInv, Typed
<1>5. /\ line' \in Seq(Tasks) /\ Len(line') <= QueueSize
      /\ ToSet(line') = ToSet(line) \cup {NextTask(c)}
  <2>1. line \in Seq(Tasks) /\ QueueSize \in Nat
    BY LimitsAssumption DEF IInv, Typed, PoolTypes
  <2>2. /\ line' \in Seq(Tasks) /\ ToSet(line') = ToSet(line) \cup {NextTask(c)}
    BY <1>1, <1>4, <2>1, AppendSet
  <2>3. Len(line') = Len(line) + 1 /\ Len(line) \in Nat
    BY <1>1, <1>4, <2>1, AppendProperties
  <2> QED
    BY <1>1, <2>1, <2>2, <2>3
<1>6. Typed'
  BY <1>1, <1>3, <1>5 DEF IInv, Typed, SocketTypes, ThreadTypes, Lists, PoolTypes, MainTypes
<1>7. Places'
  BY <1>1, StillPlaces
<1>8. Edges'
  <2>1. watched \subseteq Clients
    BY DEF IInv, Typed, SocketTypes
  <2>2. \A d \in watched : Whole(d)' => Whole(d)
    BY <1>1, <1>3, <2>1
  <2>3. \A d \in Clients : d \notin watched => buf'[d] = buf[d]
    BY <1>2, <1>3
  <2> QED
    BY <1>1, <1>3, <2>2, <2>3, StillEdges DEF stop
<1>9. Table'
  BY <1>1, QuietTable
<1>10. Answered'
  <2>1. ClosingExcused'
    BY <1>1, ClosingKept DEF Newcomer, Excused
  <2>2. PoolClosed' /\ \A x \in ToRun' : x \in ToRun \/ x = NextTask(c)
    BY <1>1, <1>5 DEF IInv, Answered, PoolClosed, ToRun
  <2> QED
    BY <1>1, <1>2, <1>4, <2>1, <2>2, AnsweredKept DEF Excused
<1> QED
  BY <1>6, <1>7, <1>8, <1>9, <1>10 DEF IInv

LEMMA DispatchRefusedInv ==
  ASSUME IInv, NEW t \in Threads, NEW c \in Clients, DispatchRefused(t, c)
  PROVE  IInv'
<1>1. /\ Handling(t, c, "parse") /\ Whole(c) /\ Advance(c)
      /\ started' = started \cup {NextTask(c)}
      /\ Goto(t, "inline")
      /\ UNCHANGED <<where, owner, fd, arrived, fin, backlog, watched, ready, conns>>
      /\ UNCHANGED client
      /\ UNCHANGED <<line, finished, closed, main, swept, failures, answers>>
  BY DEF DispatchRefused, Pool!Refuse, socket, client
<1>2. /\ batch[t] # <<>> /\ Head(batch[t]) = c /\ pc[t] = "parse"
      /\ where[c] = "open" /\ owner[c] = t /\ c \in watched /\ c # Listener
      /\ \A d \in Clients : ~Newcomer(t, d)
      /\ Readable(t, c) => c \in ToSet(ready[t])
  BY <1>1, ClientInHand
<1>3. /\ InputTypes' /\ taken' = taken
      /\ \A d \in Clients : d # c => buf'[d] = buf[d] /\ (Whole(d)' <=> Whole(d))
  BY <1>1, AdvanceOther
<1>4. NextTask(c) \in Tasks /\ NextTask(c)[1] = c
  BY <1>1, WholeFacts DEF IInv, Typed
<1>5. "inline" \in Working
  BY DEF Working
<1>6. /\ ThreadTypes' /\ batch' = batch
      /\ pc'[t] = "inline" /\ \A u \in Threads : u # t => pc'[u] = pc[u]
  BY <1>1, <1>5, GotoMove DEF IInv, Typed
<1>7. Typed'
  BY <1>1, <1>3, <1>4, <1>6 DEF IInv, Typed, SocketTypes, PoolTypes, MainTypes
<1>8. Places'
  BY <1>1, <1>2, <1>5, GotoPlaces
<1>9. Edges'
  <2>1. \A d \in Clients :
          /\ Readable(owner[d], d)' <=> Readable(owner[d], d)
          /\ Readable(t, d)' <=> Readable(t, d)
    BY <1>1, <1>3, ReadableClient
  <2>2. \A d \in Clients : d \notin watched => buf'[d] = buf[d]
    BY <1>2, <1>3
  <2> QED
    BY <1>1, <1>2, <1>3, <1>5, <2>1, <2>2, GotoEdges
<1>10. Table'
  BY <1>1, <1>2, <1>6, QuietTable
<1>11. Answered'
  <2>1. ClosingExcused'
    BY <1>1, <1>6, ClosingKept DEF Newcomer, Excused
  <2>2. PoolClosed' /\ \A x \in ToRun' : x \in ToRun \/ x = NextTask(c)
    BY <1>1 DEF IInv, Answered, PoolClosed, ToRun
  <2> QED
    BY <1>1, <1>2, <1>4, <2>1, <2>2, AnsweredKept DEF Excused
<1> QED
  BY <1>7, <1>8, <1>9, <1>10, <1>11 DEF IInv

LEMMA DispatchFailsInv ==
  ASSUME IInv, NEW t \in Threads, NEW c \in Clients, DispatchFails(t, c)
  PROVE  IInv'
<1>1. /\ Handling(t, c, "parse") /\ Whole(c) /\ Advance(c) /\ Fails
      /\ UNCHANGED <<where, owner, fd, arrived, fin, backlog, watched, ready, pc, batch, conns>>
      /\ UNCHANGED client
      /\ UNCHANGED <<line, started, finished, closed, main, swept, answers>>
  BY DEF DispatchFails, socket, client, thread, pool
<1>2. where[c] = "open" /\ owner[c] = t /\ c \in watched
  BY <1>1, ClientInHand
<1>3. /\ InputTypes' /\ taken' = taken
      /\ \A d \in Clients : d # c => buf'[d] = buf[d] /\ (Whole(d)' <=> Whole(d))
  BY <1>1, AdvanceOther
<1>4. failures' \in 0 .. MaxFailures /\ Answered'
  BY <1>1, FailsExcuse
<1>5. Typed'
  BY <1>1, <1>3, <1>4 DEF IInv, Typed, SocketTypes, ThreadTypes, Lists, PoolTypes, MainTypes
<1>6. Places'
  BY <1>1, StillPlaces
<1>7. Edges'
  <2>1. watched \subseteq Clients
    BY DEF IInv, Typed, SocketTypes
  <2>2. \A d \in watched : Whole(d)' => Whole(d)
    BY <1>1, <1>3, <2>1
  <2>3. \A d \in Clients : d \notin watched => buf'[d] = buf[d]
    BY <1>2, <1>3
  <2> QED
    BY <1>1, <1>3, <2>2, <2>3, StillEdges DEF stop
<1>8. Table'
  BY <1>1, QuietTable
<1> QED
  BY <1>4, <1>5, <1>6, <1>7, <1>8 DEF IInv

LEMMA ParseDoneInv ==
  ASSUME IInv, NEW t \in Threads, NEW c \in Clients, ParseDone(t, c)
  PROVE  IInv'
<1>1. /\ Handling(t, c, "parse") /\ ~Whole(c) /\ EventDone(t)
      /\ buf' = [buf EXCEPT ![c] = IF Compact(c) THEN Rest(c) ELSE @]
      /\ UNCHANGED <<where, owner, fd, arrived, fin, backlog, watched, ready, conns>>
      /\ UNCHANGED <<taken, asked>>
      /\ UNCHANGED <<line, started, finished, closed, main, swept, failures, answers>>
  BY DEF ParseDone, socket, client, pool
<1>2. /\ batch[t] # <<>> /\ Head(batch[t]) = c /\ pc[t] = "parse"
      /\ where[c] = "open" /\ owner[c] = t /\ c \in watched /\ c # Listener
      /\ \A d \in Clients : ~Newcomer(t, d)
      /\ Readable(t, c) => c \in ToSet(ready[t])
  BY <1>1, ClientInHand
<1>3. InputTypes' /\ \A d \in Clients : Rest(d)' = Rest(d)
  BY ParseDoneInput DEF IInv, Typed
<1>4. /\ ThreadTypes'
      /\ pc'[t] \in {"events", "leave", "wait"}
      /\ \A u \in Threads : u # t => pc'[u] = pc[u] /\ batch'[u] = batch[u]
  BY <1>1, <1>2, DoneMove DEF IInv
<1>5. Typed'
  BY <1>1, <1>3, <1>4 DEF IInv, Typed, SocketTypes, PoolTypes, MainTypes
<1>6. Places'
  BY <1>1, <1>2, DonePlaces
<1>7. Edges'
  <2>1. \A d \in Clients :
          (Readable(owner[d], d)' <=> Readable(owner[d], d)) /\ (Whole(d)' <=> Whole(d))
    BY <1>1, <1>3, ReadableClient DEF Whole
  <2>2. \A d \in Clients : d \notin watched => buf'[d] = buf[d]
    BY <1>1, <1>2 DEF IInv, Typed, InputTypes
  <2> QED
    BY <1>1, <1>2, <2>1, <2>2, DoneEdges
<1>8. Table'
  BY <1>1, <1>2, <1>4, QuietTable
<1>9. Answered'
  <2>1. ClosingExcused'
    BY <1>1, <1>4, ClosingKept DEF Newcomer, Excused
  <2>2. PoolClosed' /\ ToRun' = ToRun
    BY <1>1 DEF IInv, Answered, PoolClosed, ToRun
  <2> QED
    BY <1>1, <2>1, <2>2, AnsweredKept DEF Excused
<1> QED
  BY <1>5, <1>6, <1>7, <1>8, <1>9 DEF IInv

-----------------------------------------------------------------------------
(* The handler                                                             *)

(* The descriptor is still that of the client that asked, or it is excused.*)
LEMMA AnswerKept ==
  ASSUME IInv, NEW x \in started, Answer(x), started' = started \ {x}, ClosingExcused',
         UNCHANGED <<where, fd, fin, failures, line, closed, main>>
  PROVE  Answered'
<1>1. x[1] \in Clients
  BY DEF IInv, Typed, PoolTypes, Tasks
<1>2. where[x[1]] = "open" \/ Excused(x[1])
  BY DEF IInv, Answered, TasksOpen, ToRun
<1>3. ASSUME NEW a \in answers'
      PROVE  a[1] \in Clients /\ (a[3] = a[1] \/ Excused(a[1]))
  <2>1. CASE a \in answers
    BY <2>1 DEF IInv, Answered, Excused
  <2>2. CASE a \notin answers
    <3> DEFINE there == Holding(fd[x[1]])
    <3>1. \/ there = {} /\ a = <<x[1], x[2], Nobody>>
          \/ \E d \in there : a = <<x[1], x[2], d>>
      BY <1>3, <2>2 DEF Answer
    <3>2. where[x[1]] = "open" => there = {x[1]}
      BY <1>1 DEF Holding, IInv, Table, FdsOwn
    <3> HIDE DEF there
    <3> QED
      BY <1>1, <1>2, <3>1, <3>2
  <2> QED
    BY <2>1, <2>2
<1>4. \A a \in answers' :
        a[1] \in Clients /\ (a[3] = a[1] \/ Excused(a[1])')
  BY <1>3 DEF Excused
<1>5. TasksOpen' /\ PoolClosed'
  BY DEF IInv, Answered, TasksOpen, ToRun, PoolClosed, Excused
<1> QED
  BY <1>4, <1>5 DEF Answered

LEMMA RunInlineInv ==
  ASSUME IInv, NEW t \in Threads, RunInline(t)
  PROVE  IInv'
<1>1. PICK x \in InlineOf(t) : Pool!Finish(x) /\ Answer(x)
  BY DEF RunInline
<1>2. /\ pc[t] = "inline" /\ Goto(t, "parse")
      /\ x \in started /\ started' = started \ {x} /\ finished' = finished \cup {x}
      /\ UNCHANGED <<where, owner, fd, arrived, fin, backlog, watched, ready, conns>>
      /\ UNCHANGED <<taken, buf, readPos, capacity, asked>>
      /\ UNCHANGED <<line, closed, main, swept, failures>>
  BY <1>1 DEF RunInline, Pool!Finish, socket, client, input
<1> DEFINE c == Head(batch[t])
<1>3. batch[t] # <<>> /\ c # Listener
  BY <1>2 DEF IInv, Places, Steps, Working
<1>4. c \in Clients
  <2>1. c \in Items
    BY <1>3, HeadComes DEF IInv
  <2> QED
    BY <1>3, <2>1 DEF Items
<1>5. Handling(t, c, "inline")
  BY <1>2, <1>3 DEF Handling
<1> HIDE DEF c
<1>6. /\ batch[t] # <<>> /\ Head(batch[t]) = c
      /\ \A d \in Clients : ~Newcomer(t, d)
      /\ Readable(t, c) => c \in ToSet(ready[t])
  BY <1>4, <1>5, ClientInHand
<1>7. "parse" \in Working
  BY DEF Working
<1>8. /\ ThreadTypes' /\ batch' = batch
      /\ pc'[t] = "parse" /\ \A u \in Threads : u # t => pc'[u] = pc[u]
  BY <1>2, <1>7, GotoMove DEF IInv, Typed
<1>9. Typed'
  BY <1>2, <1>8 DEF IInv, Typed, SocketTypes, InputTypes, PoolTypes, MainTypes
<1>10. Places'
  BY <1>2, <1>3, <1>6, <1>7, GotoPlaces
<1>11. Edges'
  <2>1. \A d \in Clients :
          /\ Readable(owner[d], d)' <=> Readable(owner[d], d)
          /\ Readable(t, d)' <=> Readable(t, d)
          /\ Whole(d)' <=> Whole(d)
    BY <1>2, ReadableClient DEF Whole, Rest
  <2> QED
    BY <1>2, <1>4, <1>6, <1>7, <2>1, GotoEdges
<1>12. Table'
  BY <1>2, <1>8, QuietTable
<1>13. Answered'
  <2>1. ClosingExcused'
    BY <1>2, <1>8, ClosingKept DEF Newcomer, Excused
  <2> QED
    BY <1>1, <1>2, <2>1, AnswerKept
<1> QED
  BY <1>9, <1>10, <1>11, <1>12, <1>13 DEF IInv

(* A step of the pool or of the owner under which threads and sockets stand*)
(* still.                                                                  *)
LEMMA StillInv ==
  ASSUME IInv,
         UNCHANGED <<where, socket, client, backlog, watched, ready, thread, conns, input>>,
         PoolTypes', MainTypes', main' = main \/ (main # "gone" /\ main' # "gone"),
         stop => stop', Answered'
  PROVE  IInv'
<1>1. /\ UNCHANGED <<where, owner, fd, arrived, fin, backlog, watched, ready, pc, batch, conns>>
      /\ UNCHANGED <<taken, buf, readPos, capacity, asked>>
  BY DEF socket, client, thread, input
<1>2. Typed'
  BY <1>1 DEF IInv, Typed, SocketTypes, ThreadTypes, Lists, InputTypes
<1>3. Places'
  BY <1>1, StillPlaces
<1>4. Edges'
  <2>1. \A c : Whole(c)' <=> Whole(c)
    BY <1>1 DEF Whole, Rest
  <2> QED
    BY <1>1, <2>1, StillEdges
<1>5. Table'
  BY <1>1, QuietTable
<1> QED
  BY <1>2, <1>3, <1>4, <1>5 DEF IInv

LEMMA StillClosing ==
  ASSUME IInv, UNCHANGED <<where, socket, client, watched, thread, failures>>
  PROVE  ClosingExcused'
BY ClosingKept DEF Newcomer, Excused, socket, client, thread

LEMMA StartTaskInv ==
  ASSUME IInv, StartTask
  PROVE  IInv'
<1>1. /\ ~closed /\ line # <<>>
      /\ started' = started \cup {Head(line)} /\ line' = Tail(line)
      /\ UNCHANGED <<where, socket, client, backlog, watched, ready, thread, conns, input>>
      /\ UNCHANGED <<finished, closed, main, swept, failures, answers>>
  BY DEF StartTask, Pool!Start
<1>2. line \in Seq(Tasks) /\ Len(line) <= QueueSize /\ QueueSize \in Nat
  BY LimitsAssumption DEF IInv, Typed, PoolTypes
<1>3. /\ Head(line) \in Tasks /\ Tail(line) \in Seq(Tasks)
      /\ Len(Tail(line)) = Len(line) - 1
      /\ ToSet(line) = ToSet(Tail(line)) \cup {Head(line)}
  BY <1>1, <1>2, TailItems
<1>4. PoolTypes'
  <2>1. Len(line) \in Nat
    BY <1>2
  <2> QED
    BY <1>1, <1>2, <1>3, <2>1 DEF IInv, Typed, PoolTypes
<1>5. Answered'
  <2>1. ClosingExcused'
    BY <1>1, StillClosing
  <2>2. PoolClosed' /\ \A x \in ToRun' : x \in ToRun
    BY <1>1, <1>3 DEF IInv, Answered, PoolClosed, ToRun
  <2> QED
    BY <1>1, <2>1, <2>2, AnsweredKept DEF Excused, client
<1>6. MainTypes' /\ (stop => stop')
  BY <1>1 DEF IInv, Typed, MainTypes, stop
<1> QED
  BY <1>1, <1>4, <1>5, <1>6, StillInv

LEMMA RunTaskInv ==
  ASSUME IInv, NEW x \in started, RunTask(x)
  PROVE  IInv'
<1>1. /\ Answer(x) /\ started' = started \ {x} /\ finished' = finished \cup {x}
      /\ UNCHANGED <<where, socket, client, backlog, watched, ready, thread, conns, input>>
      /\ UNCHANGED <<line, closed, main, swept, failures>>
  BY DEF RunTask, Pool!Finish
<1>2. PoolTypes' /\ MainTypes' /\ (stop => stop')
  BY <1>1 DEF IInv, Typed, PoolTypes, MainTypes, stop
<1>3. Answered'
  <2>1. ClosingExcused'
    BY <1>1, StillClosing
  <2> QED
    BY <1>1, <2>1, AnswerKept DEF socket, client
<1> QED
  BY <1>1, <1>2, <1>3, StillInv

-----------------------------------------------------------------------------
(* The owner                                                               *)

LEMMA StartThreadInv ==
  ASSUME IInv, NEW t \in Threads, StartThread(t)
  PROVE  IInv'
<1>1. /\ main = "starting" /\ pc[t] = "unborn" /\ main' \in {"starting", "run"}
      /\ pc' = [pc EXCEPT ![t] = "wait"]
      /\ UNCHANGED <<where, owner, fd, arrived, fin, backlog, watched, ready, batch, conns>>
      /\ UNCHANGED <<taken, buf, readPos, capacity, asked>>
      /\ UNCHANGED <<line, started, finished, closed, swept, failures, answers>>
  BY DEF StartThread, socket, client, input, pool
<1>2. /\ pc' \in [Threads -> Working \cup {"wait", "leave", "left", "unborn"}]
      /\ pc'[t] = "wait" /\ \A u \in Threads : u # t => pc'[u] = pc[u]
  BY <1>1 DEF IInv, Typed, ThreadTypes
<1>3. Typed'
  BY <1>1, <1>2 DEF IInv, Typed, SocketTypes, ThreadTypes, Lists, InputTypes, PoolTypes,
     MainTypes
<1>4. /\ batch[t] = <<>> /\ Listening(t)'
      /\ \A u \in Threads : u # t => (Listening(u)' <=> Listening(u))
      /\ \A u \in Threads : Coming(u)' = Coming(u)
      /\ watched \subseteq Clients
  BY <1>1, <1>2 DEF IInv, Places, Steps, Working, Listening, Coming, Typed, SocketTypes
<1>5. \A c \in Clients : where[c] = "open" => owner[c] \in Threads /\ owner[c] # t
  BY <1>1 DEF IInv, Places, Sockets
<1>6. Places'
  <2>1. Steps'
    <3>1. ASSUME NEW u \in Threads
          PROVE  /\ pc'[u] \in Working <=> batch[u] # <<>>
                 /\ pc'[u] = "accepted" => Head(batch[u]) = Listener
                 /\ pc'[u] \in {"parse", "inline"} => Head(batch[u]) # Listener
                 /\ ~Listening(u)' => ready[u] = <<>>
      <4>1. CASE u = t
        BY <4>1, <1>2, <1>4 DEF Working
      <4>2. CASE u # t
        BY <4>2, <1>2, <1>4 DEF IInv, Places, Steps
      <4> QED
        BY <4>1, <4>2
    <3> QED
      BY <1>1, <3>1 DEF Steps
  <2>2. Newcomers'
    <3>1. \A u \in Threads, c \in Clients : Newcomer(u, c)' => Newcomer(u, c) /\ u # t
      BY <1>1, <1>5 DEF Newcomer
    <3> QED
      BY <1>1, <1>2, <3>1 DEF IInv, Places, Newcomers
  <2>3. Sockets'
    BY <1>1, <1>2 DEF IInv, Places, Sockets
  <2>4. Queues' /\ Current'
    BY <1>1, <1>4 DEF IInv, Places, Queues, Current
  <2> QED
    BY <2>1, <2>2, <2>3, <2>4 DEF Places
<1>7. Edges'
  <2>1. BacklogComing'
    BY <1>1, <1>4 DEF stop, IInv, Edges, BacklogComing
  <2>2. InputComing'
    <3> SUFFICES ASSUME NEW d \in watched, where[d] = "open", Listening(owner[d])',
                        Readable(owner[d], d)'
                 PROVE  /\ d \in Coming(owner[d])'
                        /\ Late(owner[d], d)' => d \in ToSet(ready[owner[d]])
      BY <1>1 DEF InputComing
    <3>1. /\ d \in Clients /\ owner[d] \in Threads /\ owner[d] # t
          /\ Listening(owner[d]) /\ Readable(owner[d], d)
      BY <1>1, <1>4, <1>5, ReadableClient
    <3>2. d \in Coming(owner[d]) /\ (Late(owner[d], d) => d \in ToSet(ready[owner[d]]))
      BY <3>1 DEF IInv, Edges, InputComing
    <3>3. Late(owner[d], d)' <=> Late(owner[d], d)
      BY <1>1, <1>2, <3>1 DEF Late
    <3> QED
      BY <1>1, <1>4, <3>1, <3>2, <3>3
  <2>3. Parsed'
    <3> SUFFICES ASSUME NEW d \in watched, where[d] = "open", Listening(owner[d])', Whole(d)'
                 PROVE  Framing(d)'
      BY <1>1 DEF Parsed
    <3>1. owner[d] \in Threads /\ owner[d] # t /\ Listening(owner[d]) /\ Whole(d)
      BY <1>1, <1>4, <1>5 DEF Whole, Rest
    <3>2. Framing(d)
      BY <3>1 DEF IInv, Edges, Parsed
    <3> QED
      BY <1>1, <1>2, <3>1, <3>2 DEF Framing
  <2>4. Untouched'
    BY <1>1 DEF IInv, Edges, Untouched
  <2> QED
    BY <2>1, <2>2, <2>3, <2>4 DEF Edges
<1>8. Table'
  BY <1>1, <1>2, QuietTable
<1>9. Answered'
  <2>1. ClosingExcused'
    BY <1>1, <1>2, ClosingKept DEF Newcomer, Excused
  <2>2. PoolClosed' /\ ToRun' = ToRun
    BY <1>1 DEF IInv, Answered, PoolClosed, ToRun
  <2> QED
    BY <1>1, <2>1, <2>2, AnsweredKept DEF Excused
<1> QED
  BY <1>3, <1>6, <1>7, <1>8, <1>9 DEF IInv

LEMMA MainInv ==
  ASSUME IInv, StartFails \/ Stop \/ DestroyPool
  PROVE  IInv'
<1>1. /\ UNCHANGED <<where, socket, client, backlog, watched, ready, thread, conns, input>>
      /\ UNCHANGED <<line, started, finished, swept, failures, answers>>
      /\ main # "gone" /\ main' # "gone" /\ (stop => stop')
  BY DEF StartFails, Stop, DestroyPool, Pool!Close, pool, stop
<1>2. PoolClosed' /\ closed' \in BOOLEAN /\ (closed => closed')
  <2>1. CASE StartFails \/ Stop
    BY <2>1 DEF StartFails, Stop, pool, IInv, Typed, PoolTypes, Answered, PoolClosed
  <2>2. CASE DestroyPool
    BY <2>2 DEF DestroyPool, Pool!Close, PoolClosed
  <2> QED
    BY <2>1, <2>2
<1>3. PoolTypes' /\ MainTypes'
  BY <1>1, <1>2 DEF StartFails, Stop, DestroyPool, IInv, Typed, PoolTypes, MainTypes, Failed
<1>4. Answered'
  <2>1. ClosingExcused'
    BY <1>1, StillClosing
  <2>2. \A x \in ToRun' : x \in ToRun
    BY <1>1, <1>2 DEF ToRun
  <2> QED
    BY <1>1, <1>2, <2>1, <2>2, AnsweredKept DEF Excused, client
<1> QED
  BY <1>1, <1>3, <1>4, StillInv

LEMMA SweepInv ==
  ASSUME IInv, Sweep, \A t \in Threads : pc[t] = "left"
  PROVE  IInv'
<1>1. /\ main = "destroying" /\ main' = "gone" /\ started = {}
      /\ where' = [c \in Clients |->
                     IF \E f \in DOMAIN conns : conns[f] = c THEN "closed" ELSE where[c]]
      /\ conns' = [f \in DOMAIN conns |-> Nobody]
      /\ UNCHANGED <<owner, fd, arrived, fin, backlog, watched, ready, pc, batch>>
      /\ UNCHANGED <<taken, buf, readPos, capacity, asked>>
      /\ UNCHANGED <<line, started, finished, closed, swept, failures, answers>>
  BY DEF Sweep, socket, client, thread, input, pool
<1>2. /\ where \in [Clients -> {"away", "queued", "reset", "open", "closed"}]
      /\ conns \in [0 .. TableSize - 1 -> Clients \cup {Nobody}]
      /\ watched \subseteq Clients /\ Nobody \notin Clients
  BY <1>1, PartiesAssumption DEF IInv, Typed, SocketTypes
<1>3. /\ \A c \in Clients :
           \/ where'[c] = where[c]
           \/ where'[c] = "closed" /\ where[c] = "open"
      /\ \A f \in 0 .. TableSize - 1 : conns[f] \in Clients => where'[conns[f]] = "closed"
      /\ where' \in [Clients -> {"away", "queued", "reset", "open", "closed"}]
  <2>1. \A f \in 0 .. TableSize - 1 : conns[f] \in Clients => where[conns[f]] = "open"
    BY <1>2 DEF IInv, Table, EntriesOpen
  <2>2. DOMAIN conns = 0 .. TableSize - 1
    BY <1>2
  <2> QED
    BY <1>1, <1>2, <2>1, <2>2
<1>4. \A t \in Threads :
        /\ pc'[t] = "left" /\ ~Listening(t) /\ ~Listening(t)'
        /\ batch[t] = <<>> /\ ready[t] = <<>>
  BY <1>1 DEF Listening, Working, IInv, Places, Steps
<1>5. /\ conns' \in [0 .. TableSize - 1 -> Clients \cup {Nobody}]
      /\ \A f \in 0 .. TableSize - 1 : conns'[f] = Nobody
  BY <1>1, <1>2
<1>6. Typed'
  BY <1>1, <1>2, <1>3, <1>5 DEF IInv, Typed, SocketTypes, ThreadTypes, Lists,
     InputTypes, PoolTypes, MainTypes
<1>7. \A u \in Threads, c \in Clients : ~Newcomer(u, c) /\ ~Newcomer(u, c)'
  <2>1. \A u \in Threads, c \in Clients : Newcomer(u, c)' => Newcomer(u, c)
    BY <1>1, <1>3 DEF Newcomer
  <2> QED
    BY <1>1, <1>4, <2>1 DEF IInv, Places, Newcomers
<1>8. Places'
  <2>1. Steps'
    BY <1>1, <1>4 DEF Steps, Working
  <2>2. Newcomers'
    BY <1>7 DEF Newcomers
  <2>3. Sockets'
    BY <1>1, <1>3, <1>4 DEF IInv, Places, Sockets
  <2>4. Queues'
    <3>1. \A u \in Threads : \A d \in ToSet(backlog[u]) : d \in Clients /\ where[d] = "queued"
      <4>1. \A u \in Threads : ToSet(backlog[u]) \subseteq Clients
        BY DEF IInv, Typed, SocketTypes, ToSet
      <4> QED
        BY <4>1 DEF IInv, Places, Queues
    <3>2. \A u \in Threads : \A d \in ToSet(backlog[u]) : where'[d] = "queued"
      BY <1>3, <3>1
    <3> QED
      BY <1>1, <3>2 DEF IInv, Places, Queues
  <2>5. Current'
    <3>1. ToSet(<<>>) = {}
      BY DEF ToSet
    <3> QED
      BY <1>1, <1>4, <3>1 DEF Current, Coming
  <2> QED
    BY <2>1, <2>2, <2>3, <2>4, <2>5 DEF Places
<1>9. Edges'
  <2>1. \A c \in watched : where'[c] = "open" => owner[c] \in Threads
    BY <1>2, <1>3 DEF IInv, Places, Sockets
  <2>2. BacklogComing'
    BY <1>1 DEF BacklogComing, stop
  <2>3. InputComing' /\ Parsed'
    BY <1>1, <1>4, <2>1 DEF InputComing, Parsed
  <2>4. Untouched'
    BY <1>1, <1>3 DEF IInv, Edges, Untouched
  <2> QED
    BY <2>2, <2>3, <2>4 DEF Edges
<1>10. Table'
  <2>1. FdsOwn'
    BY <1>1, <1>3 DEF IInv, Table, FdsOwn
  <2>2. EntriesOpen' /\ EntriesHeld'
    BY <1>2, <1>5 DEF EntriesOpen, EntriesHeld
  <2>3. Entered'
    <3> SUFFICES ASSUME NEW d \in watched, fd[d] < TableSize, where'[d] = "open"
                 PROVE  FALSE
      BY <1>1 DEF Entered
    <3>1. d \in Clients /\ where[d] = "open" /\ owner[d] \in Threads
      BY <1>2, <1>3 DEF IInv, Places, Sockets
    <3>2. ~Releasing(d)
      BY <1>1, <1>4, <3>1 DEF Releasing
    <3>3. conns[fd[d]] = d
      BY <3>1, <3>2 DEF IInv, Table, Entered
    <3>4. fd[d] \in 0 .. TableSize - 1
      <4>1. fd[d] \in Nat /\ TableSize \in Nat
        BY <3>1, LimitsAssumption DEF IInv, Typed, SocketTypes, Fds
      <4> QED
        BY <4>1
    <3> QED
      BY <1>3, <3>1, <3>3, <3>4
  <2> QED
    BY <2>1, <2>2, <2>3 DEF Table
<1>11. Answered'
  <2>1. ClosingExcused'
    BY <1>1, <1>4 DEF ClosingExcused
  <2>2. closed /\ PoolClosed'
    BY <1>1 DEF IInv, Answered, PoolClosed
  <2>3. TasksOpen'
    BY <1>1, <2>2 DEF TasksOpen, ToRun
  <2>4. \A a \in answers' : a[1] \in Clients /\ (a[3] = a[1] \/ Excused(a[1])')
    BY <1>1 DEF IInv, Answered, Excused
  <2> QED
    BY <2>1, <2>2, <2>3, <2>4 DEF Answered
<1> QED
  BY <1>6, <1>8, <1>9, <1>10, <1>11 DEF IInv

-----------------------------------------------------------------------------
(* The invariant                                                           *)

LEMMA InitInv == Init => IInv
<1> SUFFICES ASSUME Init PROVE IInv
  OBVIOUS
<1>1. /\ <<>> \in Seq(Items) /\ <<>> \in Seq(Clients) /\ <<>> \in Seq(Nat) /\ <<>> \in Seq(Tasks)
      /\ Len(<<>>) = 0 /\ ToSet(<<>>) = {} /\ IsInjective(<<>>)
  BY DEF ToSet, IsInjective
<1>2. /\ FdLimit \in Nat \ {0} /\ TableSize \in Nat \ {0} /\ InitialCap \in Nat \ {0}
      /\ QueueSize \in Nat \ {0} /\ MaxFailures \in Nat
  BY LimitsAssumption
<1>3. SocketTypes
  BY <1>1, <1>2 DEF Init, SocketTypes, Fds
<1>4. ThreadTypes
  BY <1>1 DEF Init, ThreadTypes, Lists
<1>5. InputTypes
  <2>1. \A c \in Clients : <<>> \in Seq(DOMAIN Stream[c]) /\ Len(Stream[c]) \in Nat
    BY StreamAssumption
  <2> QED
    BY <1>1, <1>2, <2>1 DEF Init, InputTypes
<1>6. PoolTypes /\ MainTypes
  <2>1. line = <<>> /\ started = {} /\ finished = {} /\ closed = FALSE
        /\ main = "starting" /\ swept = 0 /\ failures = 0
    BY DEF Init, Pool!Init
  <2>2. Len(line) <= QueueSize /\ failures \in 0 .. MaxFailures /\ swept \in 0 .. TableSize
    BY <1>1, <1>2, <2>1
  <2> QED
    BY <1>1, <2>1, <2>2 DEF PoolTypes, MainTypes
<1>7. Places
  <2>1. \A t \in Threads :
          /\ pc[t] = "unborn" /\ batch[t] = <<>> /\ ready[t] = <<>> /\ backlog[t] = <<>>
          /\ Coming(t) = {} /\ ~Listening(t)
    BY <1>1 DEF Init, Coming, Listening
  <2>2. \A c \in Clients : where[c] = "away" /\ owner[c] = Nobody
    BY DEF Init
  <2> QED
    BY <1>1, <2>1, <2>2 DEF Init, Places, Steps, Newcomers, Newcomer, Sockets, Queues, Current,
       Working
<1>8. Edges
  BY DEF Init, Edges, BacklogComing, InputComing, Parsed, Untouched
<1>9. Table
  <2>1. \A f \in 0 .. TableSize - 1 : conns[f] = Nobody
    BY DEF Init
  <2> QED
    BY <2>1, PartiesAssumption DEF Init, Table, FdsOwn, EntriesOpen, EntriesHeld, Entered
<1>10. Answered
  BY <1>1 DEF Init, Pool!Init, Answered, ClosingExcused, PoolClosed, TasksOpen, ToRun
<1> QED
  BY <1>3, <1>4, <1>5, <1>6, <1>7, <1>8, <1>9, <1>10 DEF IInv, Typed

(***************************************************************************)
(* What is not said of the parts above.  The threads have left when the    *)
(* reactor is swept, and one is missing while the reactor starts or if its *)
(* start has failed; and a thread that closes a connection for which no    *)
(* event came has one at hand, just accepted.                              *)
(***************************************************************************)
Joined ==
  /\ main \in {"destroying", "gone"} => \A t \in Threads : pc[t] = "left"
  /\ main \in {"starting"} \cup Failed /\ Threads # {} =>
       \E t \in Threads : pc[t] = "unborn"
  /\ FreedUnused

Pending ==
  \A t \in Threads :
    pc[t] \in {"accepted", "closing", "releasing"} /\ Head(batch[t]) = Listener =>
      \E c \in Clients : Newcomer(t, c)

(* Nothing is freed that a thread may still use, until the pool is freed   *)
(* under threads whose start failed.                                       *)
LEMMA NothingFreed ==
  ASSUME IInv, Pending, Joined, ~Forsaken, NEW t \in Threads
  PROVE  ~UseFreed(t)
<1>1. ~Stale(t)
  <2>1. ASSUME NEW c \in Clients, Handling(t, c, pc[t]) PROVE where[c] # "closed"
    BY <2>1, HandlingFacts DEF Handling
  <2> QED
    BY <2>1 DEF Stale, Handling, Pending
<1>2. main \notin {"ruined", "freed", "undefined"}
  BY DEF Forsaken
<1>3. PoolFreed \/ ReactorFreed => pc[t] = "left"
  BY <1>2 DEF PoolFreed, ReactorFreed, Joined
<1>4. ~Dangling(t) /\ ~Colliding(t)
  BY <1>1, <1>2, <1>3 DEF Dangling, Colliding, Handling, Listening
<1> QED
  BY <1>4 DEF UseFreed

LEMMA RunInv ==
  ASSUME IInv, NEW t \in Threads, Run(t)
  PROVE  IInv'
<1>1. CASE Wait(t) \/ Leave(t) \/ Accept(t) \/ AcceptDone(t) \/ RunInline(t)
  BY <1>1, WaitInv, LeaveInv, AcceptInv, AcceptDoneInv, RunInlineInv
<1>2. CASE \E c \in Clients : Handle(t, c)
  <2>1. PICK c \in Clients : Handle(t, c)
    BY <1>2
  <2> QED
    BY <2>1, AcceptFailsInv, RegisterInv, RegisterFailsInv, CloseConnectionInv, ReadInv,
       ReadEndsInv, DispatchAcceptedInv, DispatchRefusedInv, DispatchFailsInv, ParseDoneInv
       DEF Handle
<1> QED
  BY <1>1, <1>2 DEF Run

\* A step of the clients.
Outside ==
  \E c \in Clients : Send(c) \/ HangUp(c) \/ \E t \in Threads : Connect(c, t)

LEMMA LivingStep ==
  ASSUME IInv, Pending, Joined, ~Forsaken, [Next]_vars
  PROVE  IInv' \/ (FreePool /\ Forsaken')
<1>1. CASE \E t \in Threads : Thread(t)
  BY <1>1, RunInv, NothingFreed DEF Thread
<1>2. CASE Worker
  BY <1>2, StartTaskInv, RunTaskInv DEF Worker
<1>3. CASE Stop \/ StartFails \/ Owner
  <2>1. ~SweepNext /\ ~FreeReactor
    BY DEF Forsaken, SweepNext, FreeReactor
  <2>2. FreePool => Forsaken'
    BY DEF FreePool, Forsaken
  <2>3. Sweep => IInv'
    BY SweepInv DEF Sweep, Joined
  <2> QED
    BY <1>3, <2>1, <2>2, <2>3, MainInv, StartThreadInv DEF Owner
<1>4. CASE Outside
  BY <1>4, ArriveInv, ConnectInv DEF Outside
<1>5. CASE UNCHANGED vars
  <2>1. /\ UNCHANGED <<where, socket, client, backlog, watched, ready, thread, conns, input>>
        /\ UNCHANGED <<line, started, finished, closed, main, swept, failures, answers>>
    BY <1>5 DEF vars, pool
  <2>2. PoolTypes' /\ MainTypes' /\ (stop => stop')
    BY <2>1 DEF IInv, Typed, PoolTypes, MainTypes, stop
  <2>3. Answered'
    <3>1. ClosingExcused'
      BY <2>1, StillClosing
    <3>2. PoolClosed' /\ ToRun' = ToRun
      BY <2>1 DEF IInv, Answered, PoolClosed, ToRun
    <3> QED
      BY <2>1, <3>1, <3>2, AnsweredKept DEF Excused, client
  <2> QED
    BY <2>1, <2>2, <2>3, StillInv
<1> QED
  BY <1>1, <1>2, <1>3, <1>4, <1>5 DEF Next, Outside

(* A step of a thread is seen in its own place only.                       *)
LEMMA RunOwn ==
  ASSUME Typed, NEW t \in Threads, Run(t)
  PROVE  /\ pc[t] \notin {"unborn", "left"} /\ UNCHANGED <<main, swept>>
         /\ \A u \in Threads : u # t => pc'[u] = pc[u] /\ batch'[u] = batch[u]
<1>1. /\ pc \in [Threads -> Working \cup {"wait", "leave", "left", "unborn"}]
      /\ batch \in [Threads -> Seq(Items)]
  BY DEF Typed, ThreadTypes
<1>2. ASSUME NEW at, Goto(t, at)
      PROVE  \A u \in Threads : u # t => pc'[u] = pc[u] /\ batch'[u] = batch[u]
  BY <1>1, <1>2 DEF Goto
<1>3. ASSUME EventDone(t)
      PROVE  \A u \in Threads : u # t => pc'[u] = pc[u] /\ batch'[u] = batch[u]
  BY <1>1, <1>3 DEF EventDone
<1>4. CASE Wait(t) \/ Leave(t)
  BY <1>1, <1>4 DEF Wait, Leave
<1>5. CASE Accept(t) \/ AcceptDone(t) \/ RunInline(t)
  BY <1>2, <1>3, <1>5 DEF Accept, AcceptDone, RunInline, Handling
<1>6. CASE \E c \in Clients : Handle(t, c)
  <2>1. PICK c \in Clients : Handle(t, c)
    BY <1>6
  <2>2. CASE AcceptFails(t, c) \/ Register(t, c) \/ RegisterFails(t, c)
    BY <1>2, <2>2 DEF AcceptFails, Register, RegisterFails, Handling
  <2>3. CASE CloseConnection(t, c)
    BY <1>2, <1>3, <2>3 DEF CloseConnection, CloseDone
  <2>4. CASE Read(t, c) \/ ReadEnds(t, c) \/ ParseDone(t, c)
    BY <1>2, <1>3, <2>4 DEF Read, ReadEnds, ParseDone, Handling
  <2>5. CASE DispatchAccepted(t, c) \/ DispatchRefused(t, c) \/ DispatchFails(t, c)
    BY <1>2, <2>5 DEF DispatchAccepted, DispatchRefused, DispatchFails, Handling, thread
  <2> QED
    BY <2>1, <2>2, <2>3, <2>4, <2>5 DEF Handle
<1> QED
  BY <1>4, <1>5, <1>6 DEF Run

LEMMA JoinedStep ==
  ASSUME Typed, Joined, Forsaken \/ (IInv /\ Pending), [Next]_vars
  PROVE  Joined'
<1>1. pc \in [Threads -> Working \cup {"wait", "leave", "left", "unborn"}]
  BY DEF Typed, ThreadTypes
<1>2. CASE \E t \in Threads : Thread(t)
  <2>1. PICK t \in Threads : Thread(t)
    BY <1>2
  <2>2. CASE Run(t)
    <3>1. \A u \in Threads : pc[u] \in {"unborn", "left"} => pc'[u] = pc[u]
      BY <2>2, RunOwn
    <3> QED
      BY <2>2, <3>1, RunOwn DEF Joined, FreedUnused
  <2>3. CASE UseFreed(t)
    <3>1. Forsaken
      BY <2>3, NothingFreed
    <3>2. main' = "undefined" /\ pc' = pc
      BY <2>3 DEF UseFreed, thread
    <3>3. \E u \in Threads : pc[u] = "unborn"
      BY <3>1 DEF Forsaken, Joined, Failed
    <3> QED
      BY <3>2, <3>3 DEF Joined, FreedUnused
  <2> QED
    BY <2>1, <2>2, <2>3 DEF Thread
<1>3. CASE Worker
  BY <1>3 DEF Worker, StartTask, RunTask, thread, Joined, FreedUnused
<1>4. CASE \E t \in Threads : StartThread(t)
  <2>1. PICK t \in Threads : StartThread(t)
    BY <1>4
  <2>2. /\ pc' = [pc EXCEPT ![t] = "wait"]
        /\ main' = "run" \/ (main' = "starting" /\ \E u \in Threads \ {t} : pc[u] = "unborn")
    BY <2>1 DEF StartThread
  <2> QED
    BY <1>1, <2>2 DEF Joined, FreedUnused, Failed
<1>5. CASE Stop \/ StartFails \/ DestroyPool \/ Sweep
  BY <1>5 DEF Stop, StartFails, DestroyPool, Sweep, thread, Joined, FreedUnused, Failed
<1>6. CASE FreePool \/ SweepNext \/ FreeReactor
  BY <1>6 DEF FreePool, SweepNext, FreeReactor, thread, Joined, FreedUnused, Failed
<1>7. CASE UNCHANGED vars \/ Outside
  BY <1>7 DEF vars, Outside, Send, HangUp, Connect, thread, Joined, FreedUnused
<1> QED
  BY <1>2, <1>3, <1>4, <1>5, <1>6, <1>7 DEF Next, Owner, Outside

(* Newcomers of other threads stay what they are.                          *)
LEMMA OtherNewcomers ==
  ASSUME IInv, NEW t \in Threads, Run(t), NEW u \in Threads, u # t,
         NEW c \in Clients, Newcomer(u, c)
  PROVE  Newcomer(u, c)'
<1>1. /\ where[c] = "open" /\ owner[c] = u /\ c \notin watched
      /\ where \in [Clients -> {"away", "queued", "reset", "open", "closed"}]
      /\ owner \in [Clients -> Threads \cup {Nobody}]
  BY DEF Newcomer, IInv, Typed, SocketTypes
<1>2. CASE UNCHANGED <<where, socket, watched>>
  BY <1>2 DEF Newcomer, socket
<1>3. CASE Leave(t)
  <2>1. c \notin ToSet(backlog[t])
    BY <1>1 DEF IInv, Places, Queues
  <2>2. ~Contains(backlog[t], c)
    <3>1. backlog[t] \in Seq(Clients)
      BY DEF IInv, Typed, SocketTypes
    <3> QED
      BY <2>1, <3>1 DEF Contains, ToSet
  <2> QED
    BY <1>1, <1>3, <2>2 DEF Leave, Newcomer, socket
<1>4. CASE Accept(t)
  <2> DEFINE d == Head(backlog[t])
  <2>1. d \in ToSet(backlog[t])
    <3>1. backlog[t] \in Seq(Clients) /\ backlog[t] # <<>>
      BY <1>4 DEF Accept, IInv, Typed, SocketTypes
    <3> QED
      BY <3>1, TailItems
  <2>2. d # c
    BY <1>1, <2>1 DEF IInv, Places, Queues
  <2>3. /\ where' = [where EXCEPT ![d] = "open"] /\ owner' = [owner EXCEPT ![d] = t]
        /\ watched' = watched
    BY <1>4 DEF Accept
  <2> HIDE DEF d
  <2> QED
    BY <1>1, <2>2, <2>3 DEF Newcomer
<1>5. ASSUME NEW d \in Clients, AcceptFails(t, d) \/ Register(t, d) \/ CloseConnection(t, d)
      PROVE  Newcomer(u, c)'
  <2>1. d # c
    <3>1. owner[d] = t
      BY <1>5, InHandFacts DEF AcceptFails, Register, CloseConnection, Newcomer
    <3> QED
      BY <1>1, <3>1
  <2>2. CASE AcceptFails(t, d) \/ Register(t, d)
    BY <1>1, <2>1, <2>2 DEF AcceptFails, Register, Newcomer, socket
  <2>3. CASE CloseConnection(t, d)
    BY <1>1, <2>1, <2>3 DEF CloseConnection, Unregister, Release, Newcomer, socket
  <2> QED
    BY <1>5, <2>2, <2>3
<1>6. CASE Wait(t) \/ AcceptDone(t) \/ RunInline(t)
  BY <1>2, <1>6 DEF Wait, AcceptDone, RunInline
<1>7. CASE \E d \in Clients : Handle(t, d)
  <2>1. PICK d \in Clients : Handle(t, d)
    BY <1>7
  <2>2. CASE \/ RegisterFails(t, d) \/ Read(t, d) \/ ReadEnds(t, d) \/ ParseDone(t, d)
             \/ DispatchAccepted(t, d) \/ DispatchRefused(t, d) \/ DispatchFails(t, d)
    BY <1>2, <2>2 DEF RegisterFails, Read, ReadEnds, ParseDone, DispatchAccepted,
       DispatchRefused, DispatchFails
  <2> QED
    BY <1>5, <2>1, <2>2 DEF Handle
<1> QED
  BY <1>3, <1>4, <1>6, <1>7 DEF Run

LEMMA OwnPending ==
  ASSUME IInv, Pending, NEW t \in Threads, Run(t),
         pc'[t] \in {"accepted", "closing", "releasing"}, Head(batch'[t]) = Listener
  PROVE  \E c \in Clients : Newcomer(t, c)'
<1>1. /\ where \in [Clients -> {"away", "queued", "reset", "open", "closed"}]
      /\ owner \in [Clients -> Threads \cup {Nobody}]
      /\ pc \in [Threads -> Working \cup {"wait", "leave", "left", "unborn"}]
  BY DEF IInv, Typed, SocketTypes, ThreadTypes
<1>2. ASSUME NEW at, Goto(t, at) PROVE pc'[t] = at /\ batch' = batch
  BY <1>1, <1>2 DEF Goto
<1>3. ASSUME EventDone(t) PROVE FALSE
  BY <1>1, <1>3 DEF EventDone
<1>4. ~Wait(t) /\ ~Leave(t)
  BY <1>1 DEF Wait, Leave
<1>5. ~AcceptDone(t) /\ ~RunInline(t)
  BY <1>2, <1>3 DEF AcceptDone, RunInline
<1>6. CASE Accept(t)
  <2>1. PICK d \in Clients : d = Head(backlog[t]) /\ d \in ToSet(backlog[t])
    <3>1. backlog[t] \in Seq(Clients) /\ backlog[t] # <<>>
      BY <1>6 DEF Accept, IInv, Typed, SocketTypes
    <3> QED
      BY <3>1, TailItems
  <2>2. d \notin watched
    BY <2>1 DEF IInv, Places, Queues, Sockets
  <2>3. /\ where' = [where EXCEPT ![d] = "open"] /\ owner' = [owner EXCEPT ![d] = t]
        /\ watched' = watched
    BY <1>6, <2>1 DEF Accept
  <2>4. Newcomer(t, d)'
    BY <1>1, <2>1, <2>2, <2>3 DEF Newcomer
  <2> QED
    BY <2>1, <2>4
<1>7. CASE \E c \in Clients : Handle(t, c)
  <2>1. PICK c \in Clients : Handle(t, c)
    BY <1>7
  <2>2. c # Listener
    BY PartiesAssumption
  <2>3. ~AcceptFails(t, c) /\ ~Register(t, c)
    BY <1>2 DEF AcceptFails, Register
  <2>4. RegisterFails(t, c) => Newcomer(t, c)'
    BY DEF RegisterFails, Newcomer, socket
  <2>5. ~Read(t, c) /\ ~ReadEnds(t, c) /\ ~ParseDone(t, c) /\ ~DispatchRefused(t, c)
    BY <1>2, <1>3, <2>2 DEF Read, ReadEnds, ParseDone, DispatchRefused, Handling
  <2>6. ~DispatchAccepted(t, c) /\ ~DispatchFails(t, c)
    BY <2>2 DEF DispatchAccepted, DispatchFails, Handling, thread
  <2>7. CASE CloseConnection(t, c)
    <3>1. InHand(t, c) /\ Unregister(c) /\ Goto(t, "releasing") /\ UNCHANGED socket
      BY <1>2, <1>3, <2>7 DEF CloseConnection, CloseDone
    <3>2. Newcomer(t, c)
      BY <1>2, <2>2, <3>1 DEF InHand
    <3> QED
      BY <3>1, <3>2 DEF Unregister, Newcomer, socket
  <2> QED
    BY <2>1, <2>3, <2>4, <2>5, <2>6, <2>7 DEF Handle
<1> QED
  BY <1>4, <1>5, <1>6, <1>7 DEF Run

LEMMA PendingStep ==
  ASSUME IInv, Pending, Joined, ~Forsaken, [Next]_vars
  PROVE  Pending' \/ Forsaken'
<1>1. /\ pc \in [Threads -> Working \cup {"wait", "leave", "left", "unborn"}]
      /\ where \in [Clients -> {"away", "queued", "reset", "open", "closed"}]
  BY DEF IInv, Typed, SocketTypes, ThreadTypes
<1>2. CASE \E t \in Threads : Thread(t)
  <2>1. PICK t \in Threads : Run(t)
    BY <1>2, NothingFreed DEF Thread
  <2>2. ASSUME NEW u \in Threads, u # t,
               pc'[u] \in {"accepted", "closing", "releasing"}, Head(batch'[u]) = Listener
        PROVE  \E c \in Clients : Newcomer(u, c)'
    <3>1. pc'[u] = pc[u] /\ batch'[u] = batch[u]
      BY <2>1, <2>2, RunOwn DEF IInv
    <3> QED
      BY <2>1, <2>2, <3>1, OtherNewcomers DEF Pending
  <2> QED
    BY <2>1, <2>2, OwnPending DEF Pending
<1>3. CASE UNCHANGED <<where, socket, watched, thread>>
  BY <1>3 DEF Pending, Newcomer, socket, thread
<1>4. CASE Outside
  BY <1>1, <1>4 DEF Outside, Send, HangUp, Connect, Pending, Newcomer, socket, thread
<1>5. CASE \E t \in Threads : StartThread(t)
  BY <1>1, <1>5 DEF StartThread, Pending, Newcomer, socket
<1>6. CASE Sweep
  BY <1>6 DEF Sweep, Joined, Pending, thread
<1>7. CASE FreePool
  BY <1>7 DEF FreePool, Forsaken
<1>8. ~SweepNext /\ ~FreeReactor
  BY DEF Forsaken, SweepNext, FreeReactor
<1>9. CASE Worker \/ Stop \/ StartFails \/ DestroyPool \/ UNCHANGED vars
  BY <1>3, <1>9 DEF Worker, StartTask, RunTask, Stop, StartFails, DestroyPool, vars
<1> QED
  BY <1>2, <1>4, <1>5, <1>6, <1>7, <1>8, <1>9 DEF Next, Owner, Outside

-----------------------------------------------------------------------------
(***************************************************************************)
(* A reactor freed under its threads.  The state keeps its types, and the  *)
(* kernel gives no descriptor to two connections: that is all.             *)
(***************************************************************************)
LEMMA FewerOpen ==
  ASSUME FdsOwn, UNCHANGED fd, \A c \in Clients : where'[c] = "open" => where[c] = "open"
  PROVE  FdsOwn'
BY DEF FdsOwn

\* What a thread can still do.
LEMMA ForsakenRun ==
  ASSUME Forsaken, Defined, NEW t \in Threads, Run(t)
  PROVE  \/ Wait(t) \/ Leave(t) \/ Accept(t) \/ AcceptDone(t) \/ RunInline(t)
         \/ \E c \in Clients :
              \/ AcceptFails(t, c) \/ Register(t, c) \/ RegisterFails(t, c)
              \/ CloseConnection(t, c)
              \/ Read(t, c) \/ ReadEnds(t, c) \/ ParseDone(t, c)
<1>1. PoolFreed /\ ~Dangling(t)
  BY DEF Forsaken, Defined, PoolFreed, Run
<1>2. \A c \in Clients : ~(Handling(t, c, "parse") /\ Whole(c))
  BY <1>1 DEF Dangling
<1>3. \A c \in Clients :
        ~DispatchAccepted(t, c) /\ ~DispatchRefused(t, c) /\ ~DispatchFails(t, c)
  BY <1>2 DEF DispatchAccepted, DispatchRefused, DispatchFails
<1> QED
  BY <1>3 DEF Run, Handle

LEMMA EntryTypes ==
  ASSUME Typed, NEW c \in Clients, NEW who \in Clients \cup {Nobody}, Enter(c, who)
  PROVE  conns' \in [0 .. TableSize - 1 -> Clients \cup {Nobody}]
<1>1. conns \in [0 .. TableSize - 1 -> Clients \cup {Nobody}]
  BY DEF Typed, SocketTypes
<1> QED
  BY <1>1 DEF Enter

LEMMA FailsTypes ==
  ASSUME Typed, Fails
  PROVE  failures' \in 0 .. MaxFailures
<1>1. failures \in Nat /\ failures' = failures + 1 /\ failures < MaxFailures
      /\ MaxFailures \in Nat
  BY LimitsAssumption DEF Typed, MainTypes, Fails
<1> QED
  BY <1>1

LEMMA ForsakenLoop ==
  ASSUME Typed, FdsOwn, NEW t \in Threads,
         Wait(t) \/ Leave(t) \/ Accept(t) \/ AcceptDone(t) \/ RunInline(t)
  PROVE  Typed' /\ FdsOwn'
<1>1. /\ where \in [Clients -> {"away", "queued", "reset", "open", "closed"}]
      /\ owner \in [Clients -> Threads \cup {Nobody}] /\ fd \in [Clients -> Fds]
      /\ backlog \in [Threads -> Seq(Clients)]
      /\ pc \in [Threads -> Working \cup {"wait", "leave", "left", "unborn"}]
  BY DEF Typed, SocketTypes, ThreadTypes
<1>2. CASE Wait(t)
  <2>1. /\ ready' \in [Threads -> Seq(Items)] /\ batch' \in [Threads -> Seq(Items)] /\ Lists'
        /\ pc' = [pc EXCEPT ![t] = IF batch'[t] = <<>> THEN "wait" ELSE "events"]
    BY <1>2, WaitLists
  <2>2. pc' \in [Threads -> Working \cup {"wait", "leave", "left", "unborn"}]
    BY <1>1, <2>1 DEF Working
  <2>3. UNCHANGED <<where, socket, client, backlog, watched, conns, input, pool, main,
                    swept, failures>>
    BY <1>2 DEF Wait
  <2>4. Typed'
    BY <2>1, <2>2, <2>3 DEF Typed, SocketTypes, ThreadTypes, InputTypes, PoolTypes, MainTypes,
       socket, client, input, pool
  <2> QED
    BY <2>3, <2>4, FewerOpen DEF socket
<1>3. CASE Leave(t)
  <2>1. /\ pc' = [pc EXCEPT ![t] = "left"]
        /\ where' = [c \in Clients |->
                       IF Contains(backlog[t], c) THEN "reset" ELSE where[c]]
        /\ backlog' = [backlog EXCEPT ![t] = <<>>] /\ ready' = [ready EXCEPT ![t] = <<>>]
        /\ UNCHANGED <<socket, client, watched, batch, conns, input, pool, main, swept,
                       failures>>
    BY <1>3 DEF Leave
  <2>2. <<>> \in Seq(Clients) /\ <<>> \in Seq(Items) /\ IsInjective(<<>>)
    BY DEF IsInjective
  <2>3. /\ pc' \in [Threads -> Working \cup {"wait", "leave", "left", "unborn"}]
        /\ where' \in [Clients -> {"away", "queued", "reset", "open", "closed"}]
        /\ backlog' \in [Threads -> Seq(Clients)] /\ ready' \in [Threads -> Seq(Items)]
        /\ Lists'
    BY <1>1, <2>1, <2>2 DEF Typed, ThreadTypes, Lists
  <2>4. Typed'
    BY <2>1, <2>3 DEF Typed, SocketTypes, ThreadTypes, InputTypes, PoolTypes, MainTypes,
       socket, client, input, pool
  <2>5. \A c \in Clients : where'[c] = "open" => where[c] = "open"
    BY <2>1
  <2> QED
    BY <2>1, <2>4, <2>5, FewerOpen DEF socket
<1>4. CASE Accept(t)
  <2> DEFINE d == Head(backlog[t])
             f == Lowest(Free)
  <2>1. d \in Clients /\ Tail(backlog[t]) \in Seq(Clients)
    <3>1. backlog[t] \in Seq(Clients) /\ backlog[t] # <<>>
      BY <1>1, <1>4 DEF Accept
    <3> QED
      BY <3>1, TailItems
  <2>2. f \in Free
    BY <1>4, LowestFree DEF Accept
  <2>3. f \in Fds /\ \A c \in Clients : ~(where[c] = "open" /\ fd[c] = f)
    BY <2>2 DEF Free, Holding
  <2>4. /\ where' = [where EXCEPT ![d] = "open"] /\ owner' = [owner EXCEPT ![d] = t]
        /\ fd' = [fd EXCEPT ![d] = f] /\ backlog' = [backlog EXCEPT ![t] = Tail(@)]
        /\ UNCHANGED <<client, watched, ready, conns, input, pool, main, swept, failures>>
        /\ Goto(t, "accepted")
    BY <1>4 DEF Accept
  <2>5. ThreadTypes'
    BY <2>4, GotoMove DEF Typed, Working
  <2> HIDE DEF d, f
  <2>6. SocketTypes'
    BY <1>1, <2>1, <2>3, <2>4 DEF Typed, SocketTypes, d
  <2>7. Typed'
    BY <2>4, <2>5, <2>6 DEF Typed, InputTypes, PoolTypes, MainTypes, client, input, pool
  <2>8. FdsOwn'
    BY <1>1, <2>1, <2>3, <2>4 DEF FdsOwn
  <2> QED
    BY <2>7, <2>8
<1>5. CASE AcceptDone(t)
  <2>1. /\ UNCHANGED <<where, socket, client, backlog, watched, ready, conns, input, pool,
                       main, swept, failures>>
        /\ EventDone(t) /\ batch[t] # <<>>
    BY <1>5 DEF AcceptDone, Handling
  <2>2. ThreadTypes'
    BY <2>1, DoneMove
  <2>3. Typed'
    BY <2>1, <2>2 DEF Typed, SocketTypes, InputTypes, PoolTypes, MainTypes, socket, client,
       input, pool
  <2> QED
    BY <2>1, <2>3, FewerOpen DEF socket
<1>6. CASE RunInline(t)
  <2>1. /\ UNCHANGED <<where, socket, client, backlog, watched, ready, conns, input, main,
                       swept, failures>>
        /\ Goto(t, "parse")
    BY <1>6 DEF RunInline
  <2>2. ThreadTypes'
    BY <2>1, GotoMove DEF Typed, Working
  <2>3. PoolTypes'
    BY <1>6 DEF RunInline, InlineOf, Pool!Finish, Typed, PoolTypes
  <2>4. Typed'
    BY <2>1, <2>2, <2>3 DEF Typed, SocketTypes, InputTypes, MainTypes, socket, client, input
  <2> QED
    BY <2>1, <2>4, FewerOpen DEF socket
<1> QED
  BY <1>2, <1>3, <1>4, <1>5, <1>6

LEMMA ForsakenHandle ==
  ASSUME Typed, FdsOwn, NEW t \in Threads, NEW c \in Clients,
         \/ AcceptFails(t, c) \/ Register(t, c) \/ RegisterFails(t, c)
         \/ CloseConnection(t, c)
         \/ Read(t, c) \/ ReadEnds(t, c) \/ ParseDone(t, c)
  PROVE  Typed' /\ FdsOwn'
<1>1. /\ where \in [Clients -> {"away", "queued", "reset", "open", "closed"}]
      /\ watched \subseteq Clients /\ Nobody \in Clients \cup {Nobody}
      /\ c \in Items
  BY DEF Typed, SocketTypes, Items
<1>2. CASE AcceptFails(t, c)
  <2>1. /\ where' = [where EXCEPT ![c] = "closed"] /\ Fails /\ Goto(t, "events")
        /\ UNCHANGED <<socket, client, backlog, watched, ready, conns, input, pool, main,
                       swept>>
    BY <1>2 DEF AcceptFails
  <2>2. ThreadTypes' /\ failures' \in 0 .. MaxFailures
    BY <2>1, GotoMove, FailsTypes DEF Typed, Working
  <2>3. Typed'
    BY <1>1, <2>1, <2>2 DEF Typed, SocketTypes, InputTypes, PoolTypes, MainTypes, socket,
       client, input, pool
  <2>4. \A d \in Clients : where'[d] = "open" => where[d] = "open"
    BY <1>1, <2>1
  <2> QED
    BY <2>1, <2>3, <2>4, FewerOpen DEF socket
<1>3. CASE Register(t, c)
  <2>1. /\ Enter(c, c) /\ watched' = watched \cup {c} /\ Goto(t, "events")
        /\ ready' = IF Readable(t, c) THEN Edge(t, c) ELSE ready
        /\ UNCHANGED <<where, socket, client, backlog, input, pool, main, swept, failures>>
    BY <1>3 DEF Register
  <2>2. ready' \in [Threads -> Seq(Items)] /\ \A u \in Threads : IsInjective(ready'[u])
    <3>1. CASE Readable(t, c)
      BY <1>1, <2>1, <3>1, EdgeLists
    <3>2. CASE ~Readable(t, c)
      BY <2>1, <3>2 DEF Typed, ThreadTypes, Lists
    <3> QED
      BY <3>1, <3>2
  <2>3. ThreadTypes'
    BY <2>1, <2>2 DEF Goto, Working, Typed, ThreadTypes, Lists
  <2>4. conns' \in [0 .. TableSize - 1 -> Clients \cup {Nobody}]
    BY <2>1, EntryTypes
  <2>5. Typed'
    BY <1>1, <2>1, <2>3, <2>4 DEF Typed, SocketTypes, InputTypes, PoolTypes, MainTypes,
       socket, client, input, pool
  <2> QED
    BY <2>1, <2>5, FewerOpen DEF socket
<1>4. CASE RegisterFails(t, c)
  <2>1. /\ Enter(c, c) /\ Fails /\ Goto(t, "closing")
        /\ UNCHANGED <<where, socket, client, backlog, watched, ready, input, pool, main,
                       swept>>
    BY <1>4 DEF RegisterFails
  <2>2. /\ ThreadTypes' /\ failures' \in 0 .. MaxFailures
        /\ conns' \in [0 .. TableSize - 1 -> Clients \cup {Nobody}]
    BY <2>1, GotoMove, FailsTypes, EntryTypes DEF Typed, Working
  <2>3. Typed'
    BY <1>1, <2>1, <2>2 DEF Typed, SocketTypes, InputTypes, PoolTypes, MainTypes, socket,
       client, input, pool
  <2> QED
    BY <2>1, <2>3, FewerOpen DEF socket
<1>5. CASE CloseConnection(t, c)
  <2>1. /\ batch[t] # <<>>
        /\ UNCHANGED <<socket, client, backlog, input, pool, main, swept, failures>>
    BY <1>5 DEF CloseConnection, InHand
  <2>2. CASE Unregister(c) /\ Goto(t, "releasing")
    <3>1. UNCHANGED <<where, watched, ready>> /\ Enter(c, Nobody)
      BY <2>2 DEF Unregister
    <3>2. /\ ThreadTypes'
          /\ conns' \in [0 .. TableSize - 1 -> Clients \cup {Nobody}]
      BY <1>1, <2>2, <3>1, GotoMove, EntryTypes DEF Typed, Working
    <3>3. Typed'
      BY <2>1, <3>1, <3>2 DEF Typed, SocketTypes, InputTypes, PoolTypes, MainTypes, socket,
         client, input, pool
    <3> QED
      BY <2>1, <3>1, <3>3, FewerOpen DEF socket
  <2>3. CASE Release(t, c) /\ CloseDone(t)
    <3>1. /\ where' = [where EXCEPT ![c] = "closed"] /\ watched' = watched \ {c}
          /\ conns' = conns
      BY <2>3 DEF Release
    <3>2. ready' \in [Threads -> Seq(Items)] /\ \A u \in Threads : IsInjective(ready'[u])
      BY <2>3, ReleaseLists
    <3>3. ThreadTypes'
      <4>1. CASE Goto(t, "events")
        BY <3>2, <4>1 DEF Goto, Working, Typed, ThreadTypes, Lists
      <4>2. CASE EventDone(t)
        <5>1. /\ batch' \in [Threads -> Seq(Items)]
              /\ \A u \in Threads : IsInjective(batch'[u])
              /\ pc' \in [Threads -> Working \cup {"wait", "leave", "left", "unborn"}]
          BY <2>1, <4>2, DoneMove
        <5> QED
          BY <3>2, <5>1 DEF ThreadTypes, Lists
      <4> QED
        BY <2>3, <4>1, <4>2 DEF CloseDone
    <3>4. Typed'
      BY <1>1, <2>1, <3>1, <3>3 DEF Typed, SocketTypes, InputTypes, PoolTypes, MainTypes,
         socket, client, input, pool
    <3>5. \A d \in Clients : where'[d] = "open" => where[d] = "open"
      BY <1>1, <3>1
    <3> QED
      BY <2>1, <3>4, <3>5, FewerOpen DEF socket
  <2> QED
    BY <1>5, <2>2, <2>3 DEF CloseConnection
<1>6. CASE Read(t, c) \/ ReadEnds(t, c) \/ ParseDone(t, c)
  <2>1. /\ UNCHANGED <<where, socket, backlog, watched, ready, conns, pool, main, swept>>
        /\ Goto(t, "parse") \/ Goto(t, "closing") \/ (batch[t] # <<>> /\ EventDone(t))
    BY <1>6 DEF Read, ReadEnds, ParseDone, Handling
  <2>2. ThreadTypes'
    BY <2>1, GotoMove, DoneMove DEF Typed, Working
  <2>3. InputTypes'
    BY <1>6, ReadInput, ReadEndsInput, ParseDoneInput DEF Typed
  <2>4. failures' \in 0 .. MaxFailures
    <3>1. Fails \/ failures' = failures
      BY <1>6 DEF Read, ReadEnds, ParseDone
    <3> QED
      BY <3>1, FailsTypes DEF Typed, MainTypes
  <2>5. Typed'
    BY <2>1, <2>2, <2>3, <2>4 DEF Typed, SocketTypes, PoolTypes, MainTypes, socket, pool
  <2> QED
    BY <2>1, <2>5, FewerOpen DEF socket
<1> QED
  BY <1>2, <1>3, <1>4, <1>5, <1>6

LEMMA ForsakenOutside ==
  ASSUME Typed, FdsOwn, Outside
  PROVE  Typed' /\ FdsOwn'
<1>1. PICK c \in Clients : Send(c) \/ HangUp(c) \/ \E t \in Threads : Connect(c, t)
  BY DEF Outside
<1>2. /\ where \in [Clients -> {"away", "queued", "reset", "open", "closed"}]
      /\ owner \in [Clients -> Threads \cup {Nobody}]
      /\ backlog \in [Threads -> Seq(Clients)]
      /\ ready \in [Threads -> Seq(Items)] /\ \A u \in Threads : IsInjective(ready[u])
      /\ Listener \in Items /\ c \in Items
  BY DEF Typed, SocketTypes, ThreadTypes, Lists, Items
<1>3. CASE Send(c) \/ HangUp(c)
  <2>1. /\ UNCHANGED <<where, socket, backlog, watched, thread, conns, input, pool, main,
                       swept, failures>>
        /\ Arrival(c)
    BY <1>3 DEF Send, HangUp
  <2>2. ready' \in [Threads -> Seq(Items)] /\ \A u \in Threads : IsInjective(ready'[u])
    <3>1. ready' = ready \/ ready' = Edge(owner[c], c)
      BY <2>1 DEF Arrival
    <3>2. owner[c] = Nobody => Edge(owner[c], c) = ready
      BY <1>2, PartiesAssumption DEF Edge
    <3>3. owner[c] \in Threads \/ owner[c] = Nobody
      BY <1>2
    <3> QED
      BY <1>2, <3>1, <3>2, <3>3, EdgeLists
  <2>3. InputTypes'
    <3>1. CASE Send(c)
      BY <3>1, SendInput DEF Typed
    <3>2. CASE HangUp(c)
      BY <3>2 DEF HangUp, input, Typed, InputTypes
    <3> QED
      BY <1>3, <3>1, <3>2
  <2>4. Typed'
    BY <2>1, <2>2, <2>3 DEF Typed, SocketTypes, ThreadTypes, Lists, PoolTypes, MainTypes,
       socket, thread, pool
  <2> QED
    BY <2>1, <2>4, FewerOpen DEF socket
<1>4. CASE \E t \in Threads : Connect(c, t)
  <2>1. PICK t \in Threads : Connect(c, t)
    BY <1>4
  <2>2. /\ where' = [where EXCEPT ![c] = "queued"]
        /\ backlog' = [backlog EXCEPT ![t] = Append(@, c)] /\ ready' = Edge(t, Listener)
        /\ UNCHANGED <<socket, client, watched, thread, conns, input, pool, main, swept,
                       failures>>
    BY <2>1 DEF Connect
  <2>3. ready' \in [Threads -> Seq(Items)] /\ \A u \in Threads : IsInjective(ready'[u])
    BY <1>2, <2>2, EdgeLists
  <2>4. /\ where' \in [Clients -> {"away", "queued", "reset", "open", "closed"}]
        /\ backlog' \in [Threads -> Seq(Clients)]
    <3>1. Append(backlog[t], c) \in Seq(Clients)
      BY <1>2
    <3> QED
      BY <1>2, <2>2, <3>1
  <2>5. Typed'
    BY <2>2, <2>3, <2>4 DEF Typed, SocketTypes, ThreadTypes, Lists, InputTypes, PoolTypes,
       MainTypes, socket, client, thread, input, pool
  <2>6. \A d \in Clients : where'[d] = "open" => where[d] = "open"
    BY <1>2, <2>2
  <2> QED
    BY <2>2, <2>5, <2>6, FewerOpen DEF socket
<1> QED
  BY <1>1, <1>3, <1>4

LEMMA ForsakenOwner ==
  ASSUME Typed, FdsOwn, SweepNext \/ FreeReactor
  PROVE  Typed' /\ FdsOwn'
<1>1. CASE FreeReactor
  <2>1. /\ UNCHANGED <<where, socket, client, backlog, watched, ready, thread, conns, input,
                       pool, swept, failures>>
        /\ main' \in Failed
    BY <1>1 DEF FreeReactor, Failed
  <2>2. Typed'
    BY <2>1 DEF Typed, SocketTypes, ThreadTypes, Lists, InputTypes, PoolTypes, MainTypes,
       socket, client, thread, input, pool
  <2> QED
    BY <2>1, <2>2, FewerOpen DEF socket
<1>2. CASE SweepNext
  <2>1. /\ swept' = swept + 1 /\ swept < TableSize
        /\ UNCHANGED <<socket, client, backlog, thread, input, pool, main, failures>>
    BY <1>2 DEF SweepNext
  <2>2. swept \in 0 .. TableSize - 1 /\ swept' \in 0 .. TableSize
    <3>1. swept \in 0 .. TableSize /\ TableSize \in Nat
      BY LimitsAssumption DEF Typed, MainTypes
    <3> QED
      BY <2>1, <3>1
  <2> DEFINE c == conns[swept]
  <2>3. c \in Clients \cup {Nobody}
    BY <2>2 DEF Typed, SocketTypes
  <2>4. CASE c = Nobody
    <3>1. UNCHANGED <<where, watched, ready, conns>>
      BY <1>2, <2>4 DEF SweepNext
    <3>2. Typed'
      BY <2>1, <2>2, <3>1 DEF Typed, SocketTypes, ThreadTypes, Lists, InputTypes, PoolTypes,
         MainTypes, socket, client, thread, input, pool
    <3> QED
      BY <2>1, <3>1, <3>2, FewerOpen DEF socket
  <2>5. CASE c # Nobody
    <3>1. /\ conns' = [conns EXCEPT ![swept] = Nobody]
          /\ where' = [where EXCEPT ![c] = "closed"] /\ watched' = watched \ {c}
          /\ ready' = [ready EXCEPT ![owner[c]] = Kept(@, Items \ {c})]
      BY <1>2, <2>5 DEF SweepNext
    <3> HIDE DEF c
    <3>2. /\ where \in [Clients -> {"away", "queued", "reset", "open", "closed"}]
          /\ conns \in [0 .. TableSize - 1 -> Clients \cup {Nobody}]
          /\ owner[c] \in Threads \cup {Nobody} /\ Nobody \notin Threads
          /\ ready \in [Threads -> Seq(Items)] /\ \A u \in Threads : IsInjective(ready[u])
      BY <2>3, <2>5, PartiesAssumption DEF Typed, SocketTypes, ThreadTypes, Lists
    <3>3. ready' \in [Threads -> Seq(Items)] /\ \A u \in Threads : IsInjective(ready'[u])
      <4>1. CASE owner[c] \in Threads
        <5> DEFINE list == Kept(ready[owner[c]], Items \ {c})
        <5>1. list \in Seq(Items) /\ IsInjective(list)
          BY <3>2, <4>1, KeptItems
        <5>2. ready' = [ready EXCEPT ![owner[c]] = list]
          BY <3>1
        <5> HIDE DEF list
        <5> QED
          BY <3>2, <5>1, <5>2
      <4>2. CASE owner[c] = Nobody
        <5>1. ready' = ready
          BY <3>1, <3>2, <4>2
        <5> QED
          BY <3>2, <5>1
      <4> QED
        BY <3>2, <4>1, <4>2
    <3>4. Typed'
      BY <2>1, <2>2, <3>1, <3>2, <3>3 DEF Typed, SocketTypes, ThreadTypes, Lists, InputTypes,
         PoolTypes, MainTypes, socket, client, thread, input, pool
    <3>5. \A d \in Clients : where'[d] = "open" => where[d] = "open"
      BY <3>1, <3>2
    <3> QED
      BY <2>1, <3>4, <3>5, FewerOpen DEF socket
  <2> QED
    BY <2>4, <2>5
<1> QED
  BY <1>1, <1>2

LEMMA ForsakenStep ==
  ASSUME Typed, FdsOwn, Forsaken, [Next]_vars
  PROVE  Typed' /\ FdsOwn' /\ Forsaken'
<1>1. CASE \E t \in Threads : Thread(t)
  <2>1. PICK t \in Threads : Thread(t)
    BY <1>1
  <2>2. CASE Run(t)
    <3>1. Typed' /\ FdsOwn'
      BY <2>1, <2>2, ForsakenRun, ForsakenLoop, ForsakenHandle DEF Thread
    <3> QED
      BY <2>2, <3>1, RunOwn DEF Forsaken
  <2>3. CASE UseFreed(t)
    <3>1. /\ UNCHANGED <<where, socket, client, backlog, watched, ready, thread, conns, input,
                         pool, swept, failures>>
          /\ main' = "undefined"
      BY <2>3 DEF UseFreed
    <3>2. Typed'
      BY <3>1 DEF Typed, SocketTypes, ThreadTypes, Lists, InputTypes, PoolTypes, MainTypes,
         socket, client, thread, input, pool, Failed
    <3> QED
      BY <3>1, <3>2, FewerOpen DEF Forsaken, socket
  <2> QED
    BY <2>1, <2>2, <2>3 DEF Thread
<1>2. CASE Worker
  <2>1. UNCHANGED <<where, socket, client, backlog, watched, ready, thread, conns, input, main,
                    swept, failures>>
    BY <1>2 DEF Worker, StartTask, RunTask
  <2>2. PoolTypes'
    <3>1. CASE StartTask
      <4>1. /\ line # <<>> /\ started' = started \cup {Head(line)} /\ line' = Tail(line)
            /\ UNCHANGED <<finished, closed>> /\ line \in Seq(Tasks) /\ Len(line) <= QueueSize
        BY <3>1 DEF StartTask, Pool!Start, Typed, PoolTypes
      <4>2. /\ Head(line) \in Tasks /\ Tail(line) \in Seq(Tasks)
            /\ Len(Tail(line)) = Len(line) - 1 /\ Len(line) \in Nat
        BY <4>1, TailItems
      <4>3. Len(Tail(line)) <= QueueSize
        BY <4>1, <4>2, LimitsAssumption
      <4> QED
        BY <4>1, <4>2, <4>3 DEF Typed, PoolTypes
    <3>2. CASE \E x \in started : RunTask(x)
      BY <3>2 DEF RunTask, Pool!Finish, Typed, PoolTypes
    <3> QED
      BY <1>2, <3>1, <3>2 DEF Worker
  <2>3. Typed'
    BY <2>1, <2>2 DEF Typed, SocketTypes, ThreadTypes, Lists, InputTypes, MainTypes, socket,
       client, thread, input
  <2> QED
    BY <2>1, <2>3, FewerOpen DEF Forsaken, socket
<1>3. CASE Stop \/ StartFails \/ Owner
  <2>1. SweepNext \/ FreeReactor
    BY <1>3 DEF Owner, Stop, StartFails, StartThread, DestroyPool, Sweep, FreePool, Forsaken
  <2>2. Forsaken'
    BY <2>1 DEF SweepNext, FreeReactor, Forsaken
  <2> QED
    BY <2>1, <2>2, ForsakenOwner
<1>4. CASE Outside
  <2>1. main' = main
    BY <1>4 DEF Outside, Send, HangUp, Connect
  <2> QED
    BY <1>4, <2>1, ForsakenOutside DEF Forsaken
<1>5. CASE UNCHANGED vars
  <2>1. Typed'
    BY <1>5 DEF vars, Typed, SocketTypes, ThreadTypes, Lists, InputTypes, PoolTypes, MainTypes,
       socket, client, thread, input, pool
  <2> QED
    BY <1>5, <2>1, FewerOpen DEF Forsaken, socket, vars
<1> QED
  BY <1>1, <1>2, <1>3, <1>4, <1>5 DEF Next, Outside

(* The invariant of both: a reactor that lives, and one that is freed      *)
(* under its threads.                                                      *)
Standing ==
  /\ Typed /\ FdsOwn /\ Joined
  /\ Forsaken \/ (IInv /\ Pending)

LEMMA InitStanding == Init => Standing
<1> SUFFICES ASSUME Init PROVE Standing
  OBVIOUS
<1>1. IInv
  BY InitInv
<1>2. main = "starting" /\ \A t \in Threads : pc[t] = "unborn"
  BY DEF Init
<1>3. Joined /\ Pending
  BY <1>2 DEF Joined, FreedUnused, Pending
<1> QED
  BY <1>1, <1>3 DEF Standing, IInv, Table

LEMMA StepStanding == Standing /\ [Next]_vars => Standing'
<1> SUFFICES ASSUME Standing, [Next]_vars PROVE Standing'
  OBVIOUS
<1>1. Joined'
  BY JoinedStep DEF Standing
<1>2. CASE Forsaken
  BY <1>1, <1>2, ForsakenStep DEF Standing
<1>3. CASE ~Forsaken
  <2>1. IInv' \/ (FreePool /\ Forsaken')
    BY <1>3, LivingStep DEF Standing
  <2>2. Pending' \/ Forsaken'
    BY <1>3, PendingStep DEF Standing
  <2>3. CASE IInv'
    BY <1>1, <2>2, <2>3 DEF Standing, IInv, Table
  <2>4. CASE FreePool
    <3>1. /\ UNCHANGED <<where, socket, client, backlog, watched, ready, thread, conns, input,
                         pool, swept, failures>>
          /\ main' = "ruined"
      BY <2>4 DEF FreePool
    <3>2. Typed'
      BY <3>1 DEF Standing, Typed, SocketTypes, ThreadTypes, Lists, InputTypes, PoolTypes,
         MainTypes, socket, client, thread, input, pool, Failed
    <3> QED
      BY <1>1, <3>1, <3>2, FewerOpen DEF Standing, Forsaken, socket
  <2> QED
    BY <2>1, <2>3, <2>4
<1> QED
  BY <1>2, <1>3

LEMMA StandingCorrect == Spec => []Standing
BY InitStanding, StepStanding, PTL DEF Spec

-----------------------------------------------------------------------------
(* What it gives                                                           *)

LEMMA TableOK == Standing => TableExact
<1> SUFFICES ASSUME Standing, ~Forsaken PROVE TableExact
  BY DEF TableExact
<1>1. IInv /\ conns \in [0 .. TableSize - 1 -> Clients \cup {Nobody}]
  BY DEF Standing, IInv, Typed, SocketTypes
<1>2. \A f \in DOMAIN conns : conns[f] # Nobody => conns[f] \in Holding(f)
  BY <1>1 DEF Holding, IInv, Table, EntriesOpen
<1> QED
  BY <1>1, <1>2 DEF TableExact, IInv, Table, Entered

LEMMA InputOK == Standing => InputCovered
<1> SUFFICES ASSUME Standing, ~Forsaken, NEW c \in watched, where[c] = "open",
                    Listening(owner[c])
             PROVE  /\ Readable(owner[c], c) => Due(owner[c], c)
                    /\ Whole(c) => Framing(c)
  BY DEF InputCovered
<1>1. IInv
  BY DEF Standing
<1>2. owner[c] \in Threads
  BY <1>1 DEF IInv, Typed, SocketTypes, Places, Sockets
<1>3. Due(owner[c], c) <=> c \in Coming(owner[c])
  BY <1>1, <1>2, DueComing DEF IInv
<1> QED
  BY <1>1, <1>3 DEF IInv, Edges, InputComing, Parsed

LEMMA BacklogOK == Standing => BacklogCovered
<1> SUFFICES ASSUME Standing, ~Forsaken PROVE BacklogCovered
  BY DEF BacklogCovered
<1>1. IInv
  BY DEF Standing
<1> QED
  BY <1>1, DueComing DEF BacklogCovered, IInv, Edges, BacklogComing

LEMMA AnswersOK == Standing => AnswersArrive
BY DEF Standing, AnswersArrive, IInv, Answered, Excused

(* The bookkeeping of the buffers stays within its bounds: what was read   *)
(* fits the capacity, and the position stays inside of what was read.      *)
THEOREM TypeCorrect == Spec => []TypeOK
<1>1. Standing => TypeOK
  BY TypedOK DEF Standing
<1> QED
  BY <1>1, StandingCorrect, PTL

(* reactor->conns is exact, at every step of threads that accept and close *)
(* at the same time and are given each other's descriptors, until the      *)
(* reactor is freed under them after a failed start.                       *)
THEOREM TableCorrect == Spec => []TableExact
BY TableOK, StandingCorrect, PTL

(* No thread uses what is freed, unless net_reactor_run failed and its     *)
(* caller destroys the reactor under the threads that run: net_reactor_    *)
(* destroy may walk the table a connection at a time, threads may have any *)
(* number of pointers in their batches, and still a reactor that has       *)
(* started is stopped and freed without one of them being used again.      *)
THEOREM FreedCorrect == Spec => []FreedUnused
<1>1. Standing => FreedUnused
  BY DEF Standing, Joined
<1> QED
  BY <1>1, StandingCorrect, PTL

(* No edge is lost between the reads of a thread and what arrives          *)
(* meanwhile, and no whole request is left in a buffer.                    *)
THEOREM InputCorrect == Spec => []InputCovered
BY InputOK, StandingCorrect, PTL

(* Nobody is forgotten in an accept queue before the stop.                 *)
THEOREM BacklogCorrect == Spec => []BacklogCovered
BY BacklogOK, StandingCorrect, PTL

(* An answer misses its client only if that client shut its side, an       *)
(* allocation failed, or the reactor is freed under its threads after a    *)
(* failed start.                                                           *)
THEOREM AnswersCorrect == Spec => []AnswersArrive
BY AnswersOK, StandingCorrect, PTL

-----------------------------------------------------------------------------
(* The requests of a stream, unit by unit                                  *)

Upto(c, k) == {i \in DOMAIN Stream[c] : Stream[c][i] <= k}

\* How many units the first k requests have.
Before(c, k) == Cardinality(Upto(c, k))

LEMMA StreamFacts ==
  ASSUME NEW c \in Clients
  PROVE  /\ DOMAIN Stream[c] = 1 .. Len(Stream[c]) /\ Len(Stream[c]) \in Nat
         /\ \A i \in DOMAIN Stream[c] : Stream[c][i] \in Nat \ {0}
         /\ 1 \in DOMAIN Stream[c] => Stream[c][1] = 1
         /\ \A i \in DOMAIN Stream[c] :
              i > 1 => /\ i - 1 \in DOMAIN Stream[c]
                       /\ Stream[c][i - 1] <= Stream[c][i]
                       /\ Stream[c][i] <= Stream[c][i - 1] + 1
<1>1. Stream[c] \in Seq(Nat \ {0})
  BY StreamAssumption
<1>2. /\ DOMAIN Stream[c] = 1 .. Len(Stream[c]) /\ Len(Stream[c]) \in Nat
      /\ \A i \in DOMAIN Stream[c] : Stream[c][i] \in Nat \ {0}
  BY <1>1
<1>3. 1 \in DOMAIN Stream[c] => Stream[c][1] = 1
  BY OrderAssumption
<1>4. ASSUME NEW i \in DOMAIN Stream[c], i > 1
      PROVE  /\ i - 1 \in DOMAIN Stream[c]
             /\ Stream[c][i - 1] <= Stream[c][i]
             /\ Stream[c][i] <= Stream[c][i - 1] + 1
  <2>1. i - 1 \in DOMAIN Stream[c] /\ i # 1
    BY <1>2, <1>4
  <2>2. Stream[c][i] \in {Stream[c][i - 1], Stream[c][i - 1] + 1}
    BY <2>1, OrderAssumption
  <2>3. Stream[c][i - 1] \in Nat /\ Stream[c][i] \in Nat
    BY <1>2, <2>1
  <2> QED
    BY <2>1, <2>2, <2>3
<1> QED
  BY <1>2, <1>3, <1>4

(* Requests come in the order of their numbers.                            *)
LEMMA StreamSorted ==
  ASSUME NEW c \in Clients, NEW i \in DOMAIN Stream[c], NEW j \in DOMAIN Stream[c],
         i <= j
  PROVE  Stream[c][i] <= Stream[c][j]
<1> DEFINE s == Stream[c]
           T == {n \in Nat : i + n \in DOMAIN s => s[i] <= s[i + n]}
<1>1. /\ DOMAIN s = 1 .. Len(s) /\ Len(s) \in Nat /\ i \in Nat /\ j \in Nat
      /\ \A m \in DOMAIN s : s[m] \in Nat
      /\ \A m \in DOMAIN s : m > 1 => m - 1 \in DOMAIN s /\ s[m - 1] <= s[m]
  BY StreamFacts
<1> HIDE DEF s
<1>2. 0 \in T
  BY <1>1 DEF s
<1>3. ASSUME NEW n \in Nat, n \in T PROVE n + 1 \in T
  <2> SUFFICES ASSUME i + (n + 1) \in DOMAIN s PROVE s[i] <= s[i + (n + 1)]
    OBVIOUS
  <2> DEFINE m == i + (n + 1)
  <2>1. m \in DOMAIN s /\ m > 1 /\ m - 1 = i + n
    BY <1>1 DEF s
  <2>2. i + n \in DOMAIN s /\ s[i + n] <= s[m]
    BY <1>1, <2>1
  <2>3. s[i] <= s[i + n]
    BY <1>3, <2>2
  <2>4. s[i] \in Nat /\ s[i + n] \in Nat /\ s[m] \in Nat
    BY <1>1, <2>1, <2>2 DEF s
  <2> QED
    BY <2>2, <2>3, <2>4
<1>4. Nat \subseteq T
  <2> HIDE DEF T
  <2> QED
    BY <1>2, <1>3, NatSet
<1>5. j - i \in Nat /\ i + (j - i) = j
  BY <1>1
<1> QED
  BY <1>4, <1>5 DEF s

(* The units of the first k requests are the first ones.                   *)
LEMMA BeforeFirst ==
  ASSUME NEW c \in Clients, NEW k \in Nat
  PROVE  /\ Before(c, k) \in Nat /\ Before(c, k) <= Len(Stream[c])
         /\ Upto(c, k) = 1 .. Before(c, k)
<1> DEFINE s == Stream[c]
           F == {i \in Nat : i >= 1 /\ i \notin Upto(c, k)}
<1>1. /\ DOMAIN s = 1 .. Len(s) /\ Len(s) \in Nat
      /\ \A i \in DOMAIN s : s[i] \in Nat
  BY StreamFacts
<1>2. Len(s) + 1 \in F
  BY <1>1 DEF Upto
<1>3. PICK i \in F : \A j \in F : ~(<<j, i>> \in OpToRel(<, Nat))
  <2>1. F \subseteq Nat /\ F # {}
    BY <1>2
  <2>2. IsWellFoundedOn(OpToRel(<, Nat), Nat)
    BY NatLessThanWellFounded
  <2> HIDE DEF F
  <2> QED
    BY <2>1, <2>2, WFMin
<1>4. \A j \in F : i <= j
  <2> SUFFICES ASSUME NEW j \in F PROVE i <= j
    OBVIOUS
  <2>1. i \in Nat /\ j \in Nat
    OBVIOUS
  <2>2. ~(j < i)
    BY <1>3, <2>1 DEF OpToRel
  <2> QED
    BY <2>1, <2>2
<1>5. i \in Nat /\ i >= 1 /\ i <= Len(s) + 1
  BY <1>2, <1>4
<1>6. Upto(c, k) = 1 .. i - 1
  <2>1. ASSUME NEW j \in 1 .. i - 1 PROVE j \in Upto(c, k)
    BY <1>4, <1>5
  <2>2. ASSUME NEW j \in Upto(c, k) PROVE j \in 1 .. i - 1
    <3>1. j \in DOMAIN s /\ s[j] <= k /\ j \in Nat /\ j >= 1
      BY <1>1 DEF Upto
    <3>2. CASE i <= j
      <4>1. i \in DOMAIN s
        BY <1>1, <1>5, <3>1, <3>2
      <4>2. s[i] <= s[j]
        BY <3>1, <3>2, <4>1, StreamSorted
      <4>3. s[i] \in Nat /\ s[j] \in Nat
        BY <1>1, <3>1, <4>1
      <4>4. s[i] <= k
        BY <3>1, <4>2, <4>3
      <4> QED
        BY <4>1, <4>4 DEF Upto
    <3> QED
      BY <1>5, <3>1, <3>2
  <2> QED
    BY <2>1, <2>2
<1>7. Cardinality(1 .. i - 1) = i - 1
  <2>1. 1 \in Int /\ i - 1 \in Int /\ (1 > i - 1 => i - 1 = 0) /\ (i - 1) - 1 + 1 = i - 1
    BY <1>5
  <2> QED
    BY <2>1, FS_Interval
<1>8. Before(c, k) = i - 1
  BY <1>6, <1>7 DEF Before
<1> QED
  BY <1>5, <1>6, <1>8

(* The units of the next request follow, and are as many as is expected.   *)
LEMMA NextRequest ==
  ASSUME NEW c \in Clients, NEW k \in Nat, Before(c, k) + 1 \in DOMAIN Stream[c]
  PROVE  LET b == Before(c, k)
             n == TotalExpected(c, b + 1)
         IN /\ n \in Nat /\ b + n <= Len(Stream[c])
            /\ {i \in DOMAIN Stream[c] : Stream[c][i] = k + 1} = b + 1 .. b + n
            /\ Before(c, k + 1) = b + n
<1> DEFINE s == Stream[c]
           b == Before(c, k)
           e == Before(c, k + 1)
           n == TotalExpected(c, b + 1)
           S == {i \in DOMAIN s : s[i] = k + 1}
<1>1. /\ DOMAIN s = 1 .. Len(s) /\ Len(s) \in Nat
      /\ \A i \in DOMAIN s : s[i] \in Nat \ {0}
      /\ 1 \in DOMAIN s => s[1] = 1
      /\ \A i \in DOMAIN s : i > 1 => i - 1 \in DOMAIN s /\ s[i] <= s[i - 1] + 1
  BY StreamFacts
<1>2. /\ b \in Nat /\ e \in Nat /\ e <= Len(s)
      /\ Upto(c, k) = 1 .. b /\ Upto(c, k + 1) = 1 .. e
  <2>1. k + 1 \in Nat
    OBVIOUS
  <2> QED
    BY <2>1, BeforeFirst
<1> HIDE DEF b, e
<1>3. \A i \in 1 .. b : i \in DOMAIN s /\ s[i] <= k
  BY <1>2 DEF Upto
<1>4. b + 1 \in DOMAIN s /\ ~(s[b + 1] <= k)
  <2>1. b + 1 \notin 1 .. b
    BY <1>2
  <2> QED
    BY <1>2, <2>1 DEF Upto, b
<1>5. s[b + 1] = k + 1
  <2>1. s[b + 1] \in Nat
    BY <1>1, <1>4
  <2>2. CASE b = 0
    BY <1>1, <1>4, <2>1, <2>2
  <2>3. CASE b # 0
    <3>1. b \in 1 .. b /\ b + 1 > 1 /\ (b + 1) - 1 = b
      BY <1>2, <2>3
    <3>2. s[b + 1] <= s[b] + 1 /\ s[b] <= k /\ s[b] \in Nat
      BY <1>1, <1>3, <1>4, <3>1
    <3> QED
      BY <1>4, <2>1, <3>2
  <2> QED
    BY <2>2, <2>3
<1>6. S = b + 1 .. e
  <2>1. ASSUME NEW i \in S PROVE i \in b + 1 .. e
    <3>1. i \in Upto(c, k + 1) /\ i \notin Upto(c, k)
      BY DEF Upto
    <3> QED
      BY <1>2, <3>1
  <2>2. ASSUME NEW i \in b + 1 .. e PROVE i \in S
    <3>1. i \in Upto(c, k + 1) /\ i \notin Upto(c, k)
      BY <1>2
    <3>2. i \in DOMAIN s /\ s[i] <= k + 1 /\ ~(s[i] <= k) /\ s[i] \in Nat
      BY <1>1, <3>1 DEF Upto
    <3> QED
      BY <3>2
  <2> QED
    BY <2>1, <2>2
<1>7. b < e
  <2>1. b + 1 \in S
    BY <1>4, <1>5
  <2> QED
    BY <1>2, <1>6, <2>1
<1>8. n = Cardinality(S)
  BY <1>5 DEF TotalExpected
<1>9. Cardinality(b + 1 .. e) = e - b
  <2>1. b + 1 \in Int /\ e \in Int /\ ~(b + 1 > e) /\ e - (b + 1) + 1 = e - b
    BY <1>2, <1>7
  <2> QED
    BY <2>1, FS_Interval
<1> HIDE DEF S
<1>10. n = e - b
  BY <1>6, <1>8, <1>9
<1>11. n \in Nat /\ b + n = e
  BY <1>2, <1>7, <1>10
<1> QED
  BY <1>2, <1>6, <1>11 DEF b, e, S

(* A run of numbers, kept out of the first m.                              *)
LEMMA KeptRun ==
  ASSUME NEW m \in Nat, NEW b \in Nat, NEW n \in Nat, b + n <= m
  PROVE  Kept([i \in 1 .. m |-> i], b + 1 .. b + n) = [i \in 1 .. n |-> b + i]
<1> DEFINE list == [i \in 1 .. m |-> i]
           S == b + 1 .. b + n
           Size(k) == IF k <= b THEN 0 ELSE IF k <= b + n THEN k - b ELSE n
           Piece(k) == [i \in 1 .. Size(k) |-> b + i]
<1>1. /\ list \in Seq(Nat) /\ Len(list) = m
      /\ \A i \in 1 .. m : list[i] = i
  OBVIOUS
<1> HIDE DEF list
<1>2. PICK f : Tabulates(f, list, S, m) /\ Kept(list, S) = f[m]
  BY <1>1, KeptTable
<1>3. \A k \in 0 .. m : f[k] = Entry(f, list, S, k)
  BY <1>2 DEF Tabulates
<1> DEFINE T == {k \in Nat : k <= m => f[k] = Piece(k)}
<1>4. 0 \in T
  <2>1. f[0] = <<>>
    BY <1>3 DEF Entry
  <2>2. Piece(0) = <<>>
    OBVIOUS
  <2> QED
    BY <2>1, <2>2
<1>5. ASSUME NEW k \in Nat, k \in T PROVE k + 1 \in T
  <2> SUFFICES ASSUME k + 1 <= m PROVE f[k + 1] = Piece(k + 1)
    OBVIOUS
  <2>1. k + 1 \in 0 .. m /\ k + 1 # 0 /\ (k + 1) - 1 = k /\ list[k + 1] = k + 1
    BY <1>1
  <2>2. f[k] = Piece(k)
    BY <1>5
  <2>3. f[k + 1] = IF k + 1 \in S THEN Append(f[k], k + 1) ELSE f[k]
    BY <1>3, <2>1 DEF Entry
  <2>4. CASE k + 1 \in S
    <3>1. Size(k) = k - b /\ Size(k + 1) = (k - b) + 1 /\ k - b \in Nat
      BY <2>4
    <3> DEFINE z == k - b
               r == [i \in 1 .. z |-> b + i]
               q == [i \in 1 .. z + 1 |-> b + i]
    <3>2. z \in Nat /\ b + (z + 1) = k + 1
      BY <3>1
    <3>3. r \in Seq(Nat) /\ Len(r) = z /\ q \in Seq(Nat) /\ Len(q) = z + 1
      <4> HIDE DEF z
      <4> QED
        BY <3>2
    <3>4. Append(r, k + 1) = q
      <4>1. Append(r, b + (z + 1)) = q
        <5> HIDE DEF z
        <5> QED
          BY <3>2
      <4> QED
        BY <3>2, <4>1
    <3>5. Piece(k) = r /\ Piece(k + 1) = q
      BY <3>1
    <3> QED
      BY <2>2, <2>3, <2>4, <3>4, <3>5
  <2>5. CASE k + 1 \notin S
    <3>1. Size(k + 1) = Size(k)
      BY <2>5
    <3> QED
      BY <2>2, <2>3, <2>5, <3>1
  <2> QED
    BY <2>4, <2>5
<1>6. m \in T
  <2> HIDE DEF T
  <2> QED
    BY <1>4, <1>5, NatSet
<1>7. Size(m) = n
  BY DEF list
<1>8. f[m] = Piece(m)
  BY <1>6
<1> QED
  BY <1>2, <1>7, <1>8 DEF list

-----------------------------------------------------------------------------
(***************************************************************************)
(* The buffers hold what has been sent, in order: behind what was framed,  *)
(* the units from the next request on; and up to the last that was taken,  *)
(* unless the connection is about to be closed, with what was read last    *)
(* thrown away.                                                            *)
(***************************************************************************)
InOrder ==
  \A c \in Clients : \A i \in 1 .. Len(buf[c]) :
    buf[c][i] + readPos[c] = Before(c, asked[c]) + i

InStep(c) == Before(c, asked[c]) + Len(buf[c]) = taken[c] + readPos[c]

Ended(c) ==
  \/ where[c] = "closed"
  \/ /\ where[c] = "open"
     /\ pc[owner[c]] \in {"closing", "releasing"} /\ Head(batch[owner[c]]) = c

UpToDate == \A c \in Clients : InStep(c) \/ Ended(c)

Framed == InOrder /\ UpToDate /\ RequestsWhole

(* What is left in the buffer are the units that come next.                *)
LEMMA RestUnits ==
  ASSUME InputTypes, InOrder, NEW c \in Clients
  PROVE  /\ Len(Rest(c)) \in Nat
         /\ \A i \in 1 .. Len(Rest(c)) : Rest(c)[i] = Before(c, asked[c]) + i
<1>1. /\ buf[c] \in Seq(Nat) /\ Len(buf[c]) \in Nat /\ readPos[c] \in Nat
      /\ readPos[c] <= Len(buf[c]) /\ asked[c] \in Nat
      /\ Len(Rest(c)) = Len(buf[c]) - readPos[c]
  BY RestFacts DEF InputTypes
<1>2. Before(c, asked[c]) \in Nat
  BY <1>1, BeforeFirst
<1>3. ASSUME NEW i \in 1 .. Len(Rest(c))
      PROVE  Rest(c)[i] = Before(c, asked[c]) + i
  <2> DEFINE a == readPos[c] + 1
             z == Len(buf[c])
             j == readPos[c] + i
  <2>1. a \in Nat /\ z \in Nat /\ j \in 1 .. Len(buf[c]) /\ a + i - 1 = j /\ i \in 1 .. z - a + 1
    <3> DEFINE pos == readPos[c]
               rest == Len(Rest(c))
    <3>1. pos \in Nat /\ z \in Nat /\ pos <= z /\ rest = z - pos /\ i \in 1 .. rest
      BY <1>1
    <3>2. /\ pos + 1 \in Nat /\ pos + i \in 1 .. z /\ (pos + 1) + i - 1 = pos + i
          /\ i \in 1 .. z - (pos + 1) + 1
      <4> HIDE DEF pos, rest, z
      <4> QED
        BY <3>1
    <3> QED
      BY <3>1, <3>2
  <2>2. Rest(c)[i] = buf[c][j]
    <3>1. SubSeq(buf[c], a, z)[i] = buf[c][a + i - 1]
      <4> HIDE DEF a, z, j
      <4> QED
        BY <1>1, <2>1
    <3> QED
      BY <2>1, <3>1 DEF Rest
  <2>3. buf[c][j] + readPos[c] = Before(c, asked[c]) + j
    BY <2>1 DEF InOrder
  <2>4. buf[c][j] \in Nat
    <3> HIDE DEF a, z, j
    <3> QED
      BY <1>1, <2>1, ElementOfSeq
  <2> DEFINE before == Before(c, asked[c])
             pos == readPos[c]
             unit == buf[c][j]
  <2>5. /\ before \in Nat /\ pos \in Nat /\ unit \in Nat /\ i \in Nat
        /\ unit + pos = before + (pos + i)
    BY <1>1, <1>2, <2>3, <2>4
  <2>6. unit = before + i
    <3> HIDE DEF before, pos, unit
    <3> QED
      BY <2>5
  <2> QED
    BY <2>2, <2>6
<1> QED
  BY <1>1, <1>3

(* A task is the next request, and the position moves to the one after it. *)
LEMMA TaskWhole ==
  ASSUME InputTypes, InOrder, NEW c \in Clients, Whole(c)
  PROVE  /\ NextTask(c)[2] = asked[c] + 1
         /\ NextTask(c)[3] = Request(c, asked[c] + 1)
         /\ Before(c, asked[c] + 1)
              = Before(c, asked[c]) + TotalExpected(c, Head(Rest(c)))
<1> DEFINE b == Before(c, asked[c])
           n == TotalExpected(c, b + 1)
<1>1. /\ Rest(c) \in Seq(DOMAIN Stream[c]) /\ Rest(c) # <<>>
      /\ Len(Rest(c)) >= TotalExpected(c, Head(Rest(c)))
      /\ asked[c] \in Nat
  BY RestFacts DEF Whole, InputTypes
<1>2. /\ Len(Rest(c)) \in Nat
      /\ \A i \in 1 .. Len(Rest(c)) : Rest(c)[i] = b + i
  BY RestUnits
<1>3. Head(Rest(c)) = b + 1 /\ b + 1 \in DOMAIN Stream[c]
  <2>1. 1 \in 1 .. Len(Rest(c)) /\ Head(Rest(c)) = Rest(c)[1]
    BY <1>1, <1>2
  <2> QED
    BY <1>1, <1>2, <2>1
<1>4. b \in Nat
  BY <1>1, BeforeFirst
<1>5. /\ n \in Nat /\ b + n <= Len(Stream[c])
      /\ {i \in DOMAIN Stream[c] : Stream[c][i] = asked[c] + 1} = b + 1 .. b + n
      /\ Before(c, asked[c] + 1) = b + n
  BY <1>1, <1>3, NextRequest
<1>6. n <= Len(Rest(c))
  BY <1>1, <1>2, <1>3, <1>5
<1>7. DOMAIN Stream[c] = 1 .. Len(Stream[c]) /\ Len(Stream[c]) \in Nat
  BY StreamFacts
<1>8. Request(c, asked[c] + 1) = [i \in 1 .. n |-> b + i]
  <2> DEFINE m == Len(Stream[c])
  <2>1. Request(c, asked[c] + 1) = Kept([i \in 1 .. m |-> i], b + 1 .. b + n)
    BY <1>5, <1>7 DEF Request
  <2>2. Kept([i \in 1 .. m |-> i], b + 1 .. b + n) = [i \in 1 .. n |-> b + i]
    <3>1. m \in Nat /\ b \in Nat /\ n \in Nat /\ b + n <= m
      BY <1>4, <1>5, <1>7
    <3> HIDE DEF b, n, m
    <3> QED
      BY <3>1, KeptRun
  <2> QED
    BY <2>1, <2>2
<1>9. SubSeq(Rest(c), 1, n) = [i \in 1 .. n |-> b + i]
  <2>1. SubSeq(Rest(c), 1, n) = [i \in 1 .. n |-> Rest(c)[i]]
    <3> HIDE DEF n
    <3> QED
      BY <1>1, <1>2, <1>5, <1>6
  <2>2. \A i \in 1 .. n : Rest(c)[i] = b + i
    BY <1>2, <1>5, <1>6
  <2> HIDE DEF b, n
  <2> QED
    BY <2>1, <2>2
<1>10. NextTask(c) = <<c, asked[c] + 1, SubSeq(Rest(c), 1, n)>>
  BY <1>3 DEF NextTask
<1> QED
  BY <1>3, <1>5, <1>8, <1>9, <1>10

-----------------------------------------------------------------------------
(* What each step leaves of it                                             *)

(* A step that does not touch the buffers, or the connections.             *)
LEMMA OrderKept ==
  ASSUME Framed, UNCHANGED input
  PROVE  InOrder' /\ \A c \in Clients : InStep(c) => InStep(c)'
BY DEF Framed, InOrder, InStep, input

LEMMA AdvanceOrder ==
  ASSUME IInv, Framed, NEW c \in Clients, Whole(c), Advance(c)
  PROVE  /\ InOrder'
         /\ \A d \in Clients : InStep(d) => InStep(d)'
<1> DEFINE n == TotalExpected(c, Head(Rest(c)))
           at == readPos[c] + n
           w == IF at = Len(buf[c]) THEN <<>> ELSE buf[c]
           p == IF at = Len(buf[c]) THEN 0 ELSE at
<1>0. InputTypes
  BY DEF IInv, Typed
<1>1. /\ readPos' = [readPos EXCEPT ![c] = p]
      /\ buf' = [buf EXCEPT ![c] = w]
      /\ asked' = [asked EXCEPT ![c] = @ + 1]
      /\ taken' = taken
  BY DEF Advance
<1>2. n \in Nat /\ at \in Nat /\ at <= Len(buf[c])
  <2>1. n \in Nat
    BY <1>0, WholeFacts
  <2>2. readPos[c] \in Nat
    BY <1>0 DEF InputTypes
  <2>3. at <= Len(buf[c])
    BY <1>0, WholeFacts
  <2> QED
    BY <2>1, <2>2, <2>3
<1>3. Before(c, asked[c] + 1) = Before(c, asked[c]) + n
  BY <1>0, TaskWhole DEF Framed
<1>4. /\ asked[c] \in Nat /\ readPos[c] \in Nat /\ taken[c] \in Nat
      /\ buf[c] \in Seq(Nat) /\ Len(buf[c]) \in Nat
      /\ Before(c, asked[c]) \in Nat
  BY <1>0, BeforeFirst DEF InputTypes
<1> HIDE DEF n
<1>5. /\ readPos'[c] = p /\ buf'[c] = w /\ asked'[c] = asked[c] + 1
      /\ \A d \in Clients : d # c => /\ readPos'[d] = readPos[d] /\ buf'[d] = buf[d]
                                     /\ asked'[d] = asked[d]
  BY <1>0, <1>1 DEF InputTypes
<1>6. ASSUME NEW i \in 1 .. Len(w)
      PROVE  w[i] + p = Before(c, asked[c] + 1) + i
  <2>1. w = buf[c] /\ p = readPos[c] + n
    BY <1>6
  <2>2. buf[c][i] + readPos[c] = Before(c, asked[c]) + i /\ buf[c][i] \in Nat /\ i \in Nat
    <3>1. i \in 1 .. Len(buf[c])
      BY <1>6, <2>1
    <3>2. buf[c][i] \in Nat /\ i \in Nat
      BY <1>4, <3>1, ElementOfSeq
    <3> QED
      BY <3>1, <3>2 DEF Framed, InOrder
  <2> DEFINE before == Before(c, asked[c])
             pos == readPos[c]
             unit == buf[c][i]
  <2>3. unit + (pos + n) = (before + n) + i
    <3>1. /\ unit + pos = before + i /\ unit \in Nat /\ i \in Nat
          /\ before \in Nat /\ pos \in Nat
      BY <1>4, <2>2
    <3> HIDE DEF before, pos, unit
    <3> QED
      BY <1>2, <3>1
  <2> QED
    BY <1>3, <2>1, <2>3
<1>7. Before(c, asked[c]) + Len(buf[c]) = taken[c] + readPos[c]
        => Before(c, asked[c] + 1) + Len(w) = taken[c] + p
  <2> DEFINE before == Before(c, asked[c])
             held == Len(buf[c])
             now == Len(w)
             old == taken[c]
             pos == readPos[c]
  <2>1. \/ now = 0 /\ p = 0 /\ pos + n = held
        \/ now = held /\ p = pos + n
    BY <1>2
  <2>2. /\ before \in Nat /\ held \in Nat /\ old \in Nat /\ pos \in Nat
    BY <1>4
  <2>3. before + held = old + pos => (before + n) + now = old + p
    <3> HIDE DEF before, held, now, old, pos, p
    <3> QED
      BY <1>2, <2>1, <2>2
  <2> QED
    BY <1>3, <2>3
<1> HIDE DEF w, p
<1>8. InOrder'
  <2> SUFFICES ASSUME NEW d \in Clients, NEW i \in 1 .. Len(buf'[d])
               PROVE  buf'[d][i] + readPos'[d] = Before(d, asked'[d]) + i
    BY DEF InOrder, Before, Upto
  <2>1. CASE d = c
    BY <2>1, <1>5, <1>6
  <2>2. CASE d # c
    BY <2>2, <1>5 DEF Framed, InOrder
  <2> QED
    BY <2>1, <2>2
<1>9. ASSUME NEW d \in Clients, InStep(d) PROVE InStep(d)'
  <2>1. SUFFICES Before(d, asked'[d]) + Len(buf'[d]) = taken[d] + readPos'[d]
    BY <1>1 DEF InStep, Before, Upto
  <2>2. CASE d = c
    BY <2>2, <1>5, <1>7, <1>9 DEF InStep
  <2>3. CASE d # c
    BY <2>3, <1>5, <1>9 DEF InStep
  <2> QED
    BY <2>2, <2>3
<1> QED
  BY <1>8, <1>9

LEMMA ParseDoneOrder ==
  ASSUME IInv, Framed, NEW t \in Threads, NEW c \in Clients, ParseDone(t, c)
  PROVE  /\ InOrder'
         /\ \A d \in Clients : InStep(d) => InStep(d)'
<1> DEFINE w == IF Compact(c) THEN Rest(c) ELSE buf[c]
           p == IF Compact(c) THEN 0 ELSE readPos[c]
<1>0. InputTypes /\ InOrder
  BY DEF IInv, Typed, Framed
<1>1. /\ buf' = [buf EXCEPT ![c] = w] /\ readPos' = [readPos EXCEPT ![c] = p]
      /\ taken' = taken /\ asked' = asked
  BY DEF ParseDone
<1>2. /\ readPos'[c] = p /\ buf'[c] = w
      /\ \A d \in Clients : d # c => readPos'[d] = readPos[d] /\ buf'[d] = buf[d]
  BY <1>0, <1>1 DEF InputTypes
<1>3. /\ readPos[c] \in Nat /\ taken[c] \in Nat /\ Len(buf[c]) \in Nat
      /\ asked[c] \in Nat /\ Before(c, asked[c]) \in Nat
      /\ Len(Rest(c)) = Len(buf[c]) - readPos[c] /\ Len(Rest(c)) \in Nat
      /\ \A i \in 1 .. Len(Rest(c)) : Rest(c)[i] = Before(c, asked[c]) + i
  <2>1. /\ readPos[c] \in Nat /\ taken[c] \in Nat /\ Len(buf[c]) \in Nat
        /\ asked[c] \in Nat
    BY <1>0 DEF InputTypes
  <2>2. Before(c, asked[c]) \in Nat
    BY <2>1, BeforeFirst
  <2>3. Len(Rest(c)) = Len(buf[c]) - readPos[c]
    BY <1>0, RestFacts
  <2> QED
    BY <1>0, <2>1, <2>2, <2>3, RestUnits
<1>4. \A i \in 1 .. Len(w) : w[i] + p = Before(c, asked[c]) + i
  <2>1. CASE Compact(c)
    <3>1. w = Rest(c) /\ p = 0
      BY <2>1
    <3> HIDE DEF w, p
    <3> QED
      BY <1>3, <3>1
  <2>2. CASE ~Compact(c)
    BY <2>2, <1>0 DEF InOrder
  <2> QED
    BY <2>1, <2>2
<1>5. Len(w) + readPos[c] = Len(buf[c]) + p /\ Len(w) \in Nat /\ p \in Nat
  <2>1. CASE Compact(c)
    <3>1. w = Rest(c) /\ p = 0
      BY <2>1
    <3> HIDE DEF w, p
    <3> QED
      BY <1>3, <3>1
  <2>2. CASE ~Compact(c)
    BY <2>2, <1>3
  <2> QED
    BY <2>1, <2>2
<1>8. Before(c, asked[c]) + Len(buf[c]) = taken[c] + readPos[c]
        => Before(c, asked[c]) + Len(w) = taken[c] + p
  <2> HIDE DEF w, p
  <2> DEFINE before == Before(c, asked[c])
             held == Len(buf[c])
             now == Len(w)
             old == taken[c]
             pos == readPos[c]
  <2>1. /\ before \in Nat /\ held \in Nat /\ old \in Nat /\ pos \in Nat
        /\ now \in Nat /\ p \in Nat /\ now + pos = held + p
    BY <1>3, <1>5
  <2>2. before + held = old + pos => before + now = old + p
    <3> HIDE DEF before, held, now, old, pos
    <3> QED
      BY <2>1
  <2> QED
    BY <2>2
<1> HIDE DEF w, p
<1>6. InOrder'
  <2> SUFFICES ASSUME NEW d \in Clients, NEW i \in 1 .. Len(buf'[d])
               PROVE  buf'[d][i] + readPos'[d] = Before(d, asked[d]) + i
    BY <1>1 DEF InOrder, Before, Upto
  <2>1. CASE d = c
    BY <2>1, <1>2, <1>4
  <2>2. CASE d # c
    BY <2>2, <1>0, <1>2 DEF InOrder
  <2> QED
    BY <2>1, <2>2
<1>7. ASSUME NEW d \in Clients, InStep(d) PROVE InStep(d)'
  <2>1. SUFFICES Before(d, asked[d]) + Len(buf'[d]) = taken[d] + readPos'[d]
    BY <1>1 DEF InStep, Before, Upto
  <2>2. CASE d = c
    BY <2>2, <1>2, <1>7, <1>8 DEF InStep
  <2>3. CASE d # c
    BY <2>3, <1>2, <1>7 DEF InStep
  <2> QED
    BY <2>2, <2>3
<1> QED
  BY <1>6, <1>7

LEMMA ReadOrder ==
  ASSUME IInv, Framed, NEW t \in Threads, NEW c \in Clients, Read(t, c)
  PROVE  /\ InOrder'
         /\ \A d \in Clients : InStep(d) => InStep(d)'
<1> DEFINE w == buf[c] \o Unread(c)
<1>0. InputTypes /\ InOrder
  BY DEF IInv, Typed, Framed
<1>1. /\ buf' = [buf EXCEPT ![c] = w] /\ taken' = [taken EXCEPT ![c] = arrived[c]]
      /\ readPos' = readPos /\ asked' = asked
      /\ Handling(t, c, "events")
  BY DEF Read
<1>2. /\ buf'[c] = w /\ taken'[c] = arrived[c]
      /\ \A d \in Clients : d # c => taken'[d] = taken[d] /\ buf'[d] = buf[d]
  BY <1>0, <1>1 DEF InputTypes
<1>3. /\ readPos[c] \in Nat /\ taken[c] \in Nat /\ Len(buf[c]) \in Nat
      /\ arrived[c] \in Nat /\ taken[c] <= arrived[c] /\ buf[c] \in Seq(Nat)
      /\ asked[c] \in Nat /\ Before(c, asked[c]) \in Nat
  BY <1>0, BeforeFirst DEF InputTypes
<1>4. InStep(c)
  <2>1. where[c] = "open" /\ owner[c] = t /\ pc[t] = "events"
    BY <1>1, HandlingFacts DEF Handling
  <2> QED
    BY <2>1 DEF Framed, UpToDate, Ended
<1> DEFINE n == arrived[c] - taken[c]
<1>5. n \in Nat
  BY <1>3
<1>6. Unread(c) \in Seq(Nat) /\ Len(Unread(c)) = n
      /\ \A i \in 1 .. n : Unread(c)[i] = taken[c] + i
  <2>1. Unread(c) = [i \in 1 .. n |-> taken[c] + i]
    BY DEF Unread
  <2>2. \A i \in 1 .. n : taken[c] + i \in Nat
    BY <1>3, <1>5
  <2> HIDE DEF n
  <2> QED
    BY <1>5, <2>1, <2>2
<1> HIDE DEF n
<1>7. /\ Len(w) = Len(buf[c]) + n
      /\ \A i \in 1 .. Len(buf[c]) : w[i] = buf[c][i]
      /\ \A i \in 1 .. Len(w) : i > Len(buf[c]) => w[i] = Unread(c)[i - Len(buf[c])]
  <2> DEFINE b == buf[c]
             u == Unread(c)
  <2>1. b \in Seq(Nat) /\ u \in Seq(Nat) /\ Len(u) = n
    BY <1>3, <1>6
  <2> HIDE DEF b, u
  <2>2. /\ Len(b \o u) = Len(b) + Len(u)
        /\ \A i \in 1 .. Len(b) + Len(u) :
             (b \o u)[i] = IF i <= Len(b) THEN b[i] ELSE u[i - Len(b)]
    BY <2>1, ConcatProperties
  <2>3. Len(b) \in Nat /\ Len(u) \in Nat
    BY <2>1
  <2>4. \A i \in 1 .. Len(b) : i \in 1 .. Len(b) + Len(u) /\ i <= Len(b)
    BY <2>3
  <2>5. \A i \in 1 .. Len(b) + Len(u) : i > Len(b) => ~(i <= Len(b))
    BY <2>3
  <2> QED
    BY <2>1, <2>2, <2>4, <2>5 DEF b, u
<1> HIDE DEF w
<1>8. ASSUME NEW i \in 1 .. Len(w)
      PROVE  w[i] + readPos[c] = Before(c, asked[c]) + i
  <2>1. CASE i <= Len(buf[c])
    <3>1. i \in 1 .. Len(buf[c])
      BY <2>1, <1>3, <1>5, <1>7
    <3> QED
      BY <3>1, <1>0, <1>7 DEF InOrder
  <2>2. CASE ~(i <= Len(buf[c]))
    <3>1. i - Len(buf[c]) \in 1 .. n /\ i > Len(buf[c]) /\ i \in Nat
      BY <2>2, <1>3, <1>5, <1>7
    <3>2. w[i] = taken[c] + (i - Len(buf[c]))
      BY <3>1, <1>6, <1>7
    <3>3. Before(c, asked[c]) + Len(buf[c]) = taken[c] + readPos[c]
      BY <1>4 DEF InStep
    <3> DEFINE before == Before(c, asked[c])
               held == Len(buf[c])
               old == taken[c]
               pos == readPos[c]
    <3>4. /\ before \in Nat /\ held \in Nat /\ old \in Nat /\ pos \in Nat /\ i \in Nat
          /\ before + held = old + pos /\ w[i] = old + (i - held)
      BY <1>3, <3>1, <3>2, <3>3
    <3>5. w[i] + pos = before + i
      <4> HIDE DEF before, held, old, pos
      <4> QED
        BY <3>4
    <3> QED
      BY <3>5
  <2> QED
    BY <2>1, <2>2
<1>9. Before(c, asked[c]) + Len(w) = arrived[c] + readPos[c]
  <2>1. Before(c, asked[c]) + Len(buf[c]) = taken[c] + readPos[c]
    BY <1>4 DEF InStep
  <2>2. Len(w) = Len(buf[c]) + (arrived[c] - taken[c])
    BY <1>7 DEF n
  <2> DEFINE before == Before(c, asked[c])
             held == Len(buf[c])
             now == Len(w)
             old == taken[c]
             new == arrived[c]
             pos == readPos[c]
  <2>3. /\ before \in Nat /\ held \in Nat /\ old \in Nat /\ new \in Nat /\ pos \in Nat
        /\ before + held = old + pos /\ now = held + (new - old)
    BY <1>3, <2>1, <2>2
  <2>4. before + now = new + pos
    <3> HIDE DEF before, held, now, old, new, pos
    <3> QED
      BY <2>3
  <2> QED
    BY <2>4
<1>10. InOrder'
  <2> SUFFICES ASSUME NEW d \in Clients, NEW i \in 1 .. Len(buf'[d])
               PROVE  buf'[d][i] + readPos[d] = Before(d, asked[d]) + i
    BY <1>1 DEF InOrder, Before, Upto
  <2>1. CASE d = c
    BY <2>1, <1>2, <1>8
  <2>2. CASE d # c
    BY <2>2, <1>0, <1>2 DEF InOrder
  <2> QED
    BY <2>1, <2>2
<1>11. ASSUME NEW d \in Clients, InStep(d) PROVE InStep(d)'
  <2>1. SUFFICES Before(d, asked[d]) + Len(buf'[d]) = taken'[d] + readPos[d]
    BY <1>1 DEF InStep, Before, Upto
  <2>2. CASE d = c
    BY <2>2, <1>2, <1>9
  <2>3. CASE d # c
    BY <2>3, <1>2, <1>11 DEF InStep
  <2> QED
    BY <2>2, <2>3
<1> QED
  BY <1>10, <1>11
(* The task a thread has just framed is the only new one.                  *)
LEMMA StillFramed ==
  ASSUME Framed, InOrder',
         \A c \in Clients : InStep(c) => InStep(c)',
         \A c \in Clients : Ended(c) => Ended(c)',
         \A x \in Handed' : x \in Handed \/ x[3] = Request(x[1], x[2])
  PROVE  Framed'
<1>1. UpToDate'
  BY DEF Framed, UpToDate
<1>2. RequestsWhole'
  BY DEF Framed, RequestsWhole, Request
<1> QED
  BY <1>1, <1>2 DEF Framed

(* A connection that is being closed stays so under the steps of others.   *)
LEMMA EndedKept ==
  ASSUME IInv, NEW t \in Threads, pc[t] \notin {"closing", "releasing"},
         \A u \in Threads : u # t => pc'[u] = pc[u] /\ batch'[u] = batch[u],
         NEW c \in Clients,
         where[c] \in {"open", "closed"} =>
           where'[c] \in {where[c], "closed"} /\ owner'[c] = owner[c],
         Ended(c)
  PROVE  Ended(c)'
<1>1. where[c] = "open" => owner[c] \in Threads
  BY DEF IInv, Places, Sockets
<1> QED
  BY <1>1 DEF Ended

(* The pool and the buffers, in a step of a thread that frames nothing.    *)
LEMMA QuietFramed ==
  ASSUME IInv, Framed, NEW t \in Threads, pc[t] \notin {"closing", "releasing"},
         UNCHANGED input,
         UNCHANGED <<line, started, finished>>,
         \A u \in Threads : u # t => pc'[u] = pc[u] /\ batch'[u] = batch[u],
         \A c \in Clients : where[c] \in {"open", "closed"} =>
           where'[c] \in {where[c], "closed"} /\ owner'[c] = owner[c]
  PROVE  Framed'
<1>1. InOrder' /\ \A c \in Clients : InStep(c) => InStep(c)'
  BY OrderKept
<1>2. \A c \in Clients : Ended(c) => Ended(c)'
  BY EndedKept
<1>3. Handed' = Handed
  BY DEF Handed
<1> QED
  BY <1>1, <1>2, <1>3, StillFramed

\* How a step of thread t moves the threads.
LEMMA GotoOthers ==
  ASSUME IInv, NEW t \in Threads, NEW at, Goto(t, at) \/ EventDone(t)
  PROVE  \A u \in Threads : u # t => pc'[u] = pc[u] /\ batch'[u] = batch[u]
BY DEF IInv, Typed, ThreadTypes, Goto, EventDone

LEMMA LoopFramed ==
  ASSUME IInv, Framed, NEW t \in Threads,
         Wait(t) \/ Leave(t) \/ Accept(t) \/ AcceptDone(t)
  PROVE  Framed'
<1>1. /\ pc[t] \notin {"closing", "releasing"}
      /\ UNCHANGED input /\ UNCHANGED <<line, started, finished>>
  BY DEF Wait, Leave, Accept, AcceptDone, Handling, pool
<1>2. \A u \in Threads : u # t => pc'[u] = pc[u] /\ batch'[u] = batch[u]
  <2>1. CASE Wait(t)
    BY <2>1 DEF Wait, IInv, Typed, ThreadTypes
  <2>2. CASE Leave(t)
    BY <2>2 DEF Leave, IInv, Typed, ThreadTypes
  <2>3. CASE Accept(t) \/ AcceptDone(t)
    BY <2>3, GotoOthers DEF Accept, AcceptDone
  <2> QED
    BY <2>1, <2>2, <2>3
<1>3. ASSUME NEW c \in Clients, where[c] \in {"open", "closed"}
      PROVE  where'[c] = where[c] /\ owner'[c] = owner[c]
  <2>0. /\ where \in [Clients -> {"away", "queued", "reset", "open", "closed"}]
        /\ owner \in [Clients -> Threads \cup {Nobody}] /\ backlog[t] \in Seq(Clients)
    BY DEF IInv, Typed, SocketTypes
  <2>1. c \notin ToSet(backlog[t])
    BY <1>3 DEF IInv, Places, Queues
  <2>2. CASE Wait(t) \/ AcceptDone(t)
    BY <2>2 DEF Wait, AcceptDone, socket
  <2>3. CASE Leave(t)
    <3>1. ~Contains(backlog[t], c)
      BY <2>0, <2>1 DEF Contains, ToSet
    <3> QED
      BY <2>3, <3>1 DEF Leave, socket
  <2>4. CASE Accept(t)
    <3>1. /\ backlog[t] # <<>>
          /\ where' = [where EXCEPT ![Head(backlog[t])] = "open"]
          /\ owner' = [owner EXCEPT ![Head(backlog[t])] = t]
      BY <2>4 DEF Accept
    <3>2. Head(backlog[t]) \in ToSet(backlog[t])
      BY <2>0, <3>1, TailItems
    <3> QED
      BY <2>0, <2>1, <3>1, <3>2
  <2> QED
    BY <2>2, <2>3, <2>4
<1> QED
  BY <1>1, <1>2, <1>3, QuietFramed

LEMMA NewcomerFramed ==
  ASSUME IInv, Framed, NEW t \in Threads, NEW c \in Clients,
         AcceptFails(t, c) \/ Register(t, c) \/ RegisterFails(t, c)
  PROVE  Framed'
<1>1. /\ pc[t] \notin {"closing", "releasing"}
      /\ UNCHANGED input /\ UNCHANGED <<line, started, finished>> /\ owner' = owner
      /\ where' \in {where, [where EXCEPT ![c] = "closed"]}
  BY DEF AcceptFails, Register, RegisterFails, Handling, pool, socket
<1>2. \A u \in Threads : u # t => pc'[u] = pc[u] /\ batch'[u] = batch[u]
  BY GotoOthers DEF AcceptFails, Register, RegisterFails
<1>3. \A d \in Clients : where'[d] \in {where[d], "closed"}
  BY <1>1 DEF IInv, Typed, SocketTypes
<1> QED
  BY <1>1, <1>2, <1>3, QuietFramed

(* A connection is closed in two steps, and by its own thread only.        *)
LEMMA CloseFramed ==
  ASSUME IInv, Framed, NEW t \in Threads, NEW c \in Clients, CloseConnection(t, c)
  PROVE  Framed'
<1>1. /\ InHand(t, c) /\ batch[t] # <<>>
      /\ \/ pc[t] = "closing" /\ where' = where /\ Goto(t, "releasing")
         \/ /\ pc[t] = "releasing" /\ where' = [where EXCEPT ![c] = "closed"]
            /\ CloseDone(t)
      /\ UNCHANGED input /\ UNCHANGED <<line, started, finished>> /\ owner' = owner
  BY DEF CloseConnection, Unregister, Release, InHand, pool, socket
<1>2. \A u \in Threads : u # t => pc'[u] = pc[u] /\ batch'[u] = batch[u]
  BY <1>1, GotoOthers DEF CloseDone
<1>3. /\ where \in [Clients -> {"away", "queued", "reset", "open", "closed"}]
      /\ pc \in [Threads -> Working \cup {"wait", "leave", "left", "unborn"}]
      /\ \A d \in Clients : where[d] = "open" => owner[d] \in Threads
  BY DEF IInv, Typed, SocketTypes, ThreadTypes, Places, Sockets
<1>4. ASSUME NEW d \in Clients, Ended(d) PROVE Ended(d)'
  <2>1. CASE where[d] = "closed"
    BY <2>1, <1>1, <1>3 DEF Ended
  <2>2. CASE where[d] = "open" /\ owner[d] # t
    BY <2>2, <1>1, <1>2, <1>3, <1>4 DEF Ended
  <2>3. CASE where[d] = "open" /\ owner[d] = t
    <3>1. Head(batch[t]) = d
      BY <2>3, <1>1, <1>4 DEF Ended
    <3>2. c = d
      <4>1. d # Listener
        BY PartiesAssumption
      <4> QED
        BY <1>1, <3>1, <4>1 DEF InHand
    <3> QED
      BY <2>3, <1>1, <1>3, <3>1, <3>2 DEF Ended, Goto
  <2> QED
    BY <1>4, <2>1, <2>2, <2>3 DEF Ended
<1>5. InOrder' /\ \A d \in Clients : InStep(d) => InStep(d)'
  BY <1>1, OrderKept
<1>6. Handed' = Handed
  BY <1>1 DEF Handed
<1> QED
  BY <1>4, <1>5, <1>6, StillFramed

LEMMA ReadFramed ==
  ASSUME IInv, Framed, NEW t \in Threads, NEW c \in Clients,
         Read(t, c) \/ ReadEnds(t, c) \/ ParseDone(t, c)
  PROVE  Framed'
<1>1. /\ pc[t] \in {"events", "parse"} /\ batch[t] # <<>> /\ Head(batch[t]) = c
      /\ UNCHANGED <<line, started, finished>> /\ where' = where /\ owner' = owner
  BY DEF Read, ReadEnds, ParseDone, Handling, pool, socket
<1>2. \A u \in Threads : u # t => pc'[u] = pc[u] /\ batch'[u] = batch[u]
  BY GotoOthers DEF Read, ReadEnds, ParseDone
<1>3. \A d \in Clients : Ended(d) => Ended(d)'
  BY <1>1, <1>2, EndedKept
<1>4. Handed' = Handed
  BY <1>1 DEF Handed
<1>5. CASE Read(t, c) \/ ParseDone(t, c)
  BY <1>3, <1>4, <1>5, ReadOrder, ParseDoneOrder, StillFramed
<1>6. CASE ReadEnds(t, c)
  <2>1. /\ UNCHANGED <<buf, readPos, asked>>
        /\ taken' = [taken EXCEPT ![c] = arrived[c]]
        /\ Goto(t, "closing")
    BY <1>6 DEF ReadEnds
  <2>2. InOrder'
    BY <2>1 DEF Framed, InOrder, Before, Upto
  <2>3. Ended(c)'
    <3>1. where[c] = "open" /\ owner[c] = t
      BY <1>1, HandlingFacts
    <3>2. pc'[t] = "closing" /\ batch' = batch
      BY <2>1 DEF Goto, IInv, Typed, ThreadTypes
    <3> QED
      BY <1>1, <3>1, <3>2 DEF Ended
  <2>4. \A d \in Clients : d # c => taken'[d] = taken[d]
    BY <2>1 DEF IInv, Typed, InputTypes
  <2>5. UpToDate'
    <3> SUFFICES ASSUME NEW d \in Clients, d # c, InStep(d) PROVE InStep(d)'
      BY <1>3, <2>3 DEF Framed, UpToDate
    <3> QED
      BY <2>1, <2>4 DEF InStep, Before, Upto
  <2>6. RequestsWhole'
    BY <1>4 DEF Framed, RequestsWhole, Request
  <2> QED
    BY <2>2, <2>5, <2>6 DEF Framed
<1> QED
  BY <1>5, <1>6

LEMMA DispatchFramed ==
  ASSUME IInv, Framed, NEW t \in Threads, NEW c \in Clients,
         DispatchAccepted(t, c) \/ DispatchRefused(t, c) \/ DispatchFails(t, c)
  PROVE  Framed'
<1>1. /\ pc[t] = "parse" /\ Whole(c) /\ Advance(c)
      /\ where' = where /\ owner' = owner
  BY DEF DispatchAccepted, DispatchRefused, DispatchFails, Handling, socket
<1>2. \A u \in Threads : u # t => pc'[u] = pc[u] /\ batch'[u] = batch[u]
  BY GotoOthers DEF DispatchAccepted, DispatchRefused, DispatchFails, thread
<1>3. \A d \in Clients : Ended(d) => Ended(d)'
  BY <1>1, <1>2, EndedKept
<1>4. InOrder' /\ \A d \in Clients : InStep(d) => InStep(d)'
  BY <1>1, AdvanceOrder
<1> DEFINE x == NextTask(c)
<1>5. /\ x \in Tasks /\ x[1] = c
      /\ x[2] = asked[c] + 1 /\ x[3] = Request(c, asked[c] + 1)
  BY <1>1, WholeFacts, TaskWhole DEF IInv, Typed, Framed
<1>6. Handed' \subseteq Handed \cup {x}
  <2>1. CASE DispatchAccepted(t, c)
    <3>1. line' = Append(line, x) /\ UNCHANGED <<started, finished>>
      BY <2>1 DEF DispatchAccepted, Pool!Accept
    <3>2. ToSet(line') = ToSet(line) \cup {x}
      <4>1. line \in Seq(Tasks)
        BY DEF IInv, Typed, PoolTypes
      <4> QED
        BY <1>5, <3>1, <4>1, AppendSet
    <3> QED
      BY <3>1, <3>2 DEF Handed
  <2>2. CASE DispatchRefused(t, c)
    BY <2>2 DEF DispatchRefused, Pool!Refuse, Handed
  <2>3. CASE DispatchFails(t, c)
    BY <2>3 DEF DispatchFails, pool, Handed
  <2> QED
    BY <2>1, <2>2, <2>3
<1> HIDE DEF x
<1> QED
  BY <1>3, <1>4, <1>5, <1>6, StillFramed

LEMMA InlineFramed ==
  ASSUME IInv, Framed, NEW t \in Threads, RunInline(t)
  PROVE  Framed'
<1>1. PICK x \in InlineOf(t) : Pool!Finish(x)
  BY DEF RunInline
<1>2. /\ pc[t] = "inline" /\ Goto(t, "parse") /\ UNCHANGED input
      /\ where' = where /\ owner' = owner
  BY DEF RunInline, socket
<1>3. \A u \in Threads : u # t => pc'[u] = pc[u] /\ batch'[u] = batch[u]
  BY <1>2, GotoOthers
<1>4. \A d \in Clients : Ended(d) => Ended(d)'
  BY <1>2, <1>3, EndedKept
<1>5. InOrder' /\ \A d \in Clients : InStep(d) => InStep(d)'
  BY <1>2, OrderKept
<1>6. \A y \in Handed' : y \in Handed
  BY <1>1 DEF Pool!Finish, Handed
<1> QED
  BY <1>4, <1>5, <1>6, StillFramed

(* The pool, the owner and the clients leave the buffers alone.            *)
LEMMA OutsideFramed ==
  ASSUME IInv, Framed, UNCHANGED input,
         \A c \in Clients : Ended(c) => Ended(c)',
         \A x \in Handed' : x \in Handed
  PROVE  Framed'
BY OrderKept, StillFramed

LEMMA PoolFramed ==
  ASSUME IInv, Framed, Worker
  PROVE  Framed'
<1>1. UNCHANGED <<where, socket, thread, input>>
  BY DEF Worker, StartTask, RunTask
<1>2. \A c \in Clients : Ended(c) => Ended(c)'
  BY <1>1 DEF Ended, socket, thread
<1>3. \A x \in Handed' : x \in Handed
  <2>1. CASE StartTask
    <3>1. /\ line # <<>> /\ started' = started \cup {Head(line)} /\ line' = Tail(line)
          /\ finished' = finished
      BY <2>1 DEF StartTask, Pool!Start
    <3>2. ToSet(line) = ToSet(Tail(line)) \cup {Head(line)}
      <4>1. line \in Seq(Tasks)
        BY DEF IInv, Typed, PoolTypes
      <4> QED
        BY <3>1, <4>1, TailItems
    <3> QED
      BY <3>1, <3>2 DEF Handed
  <2>2. CASE \E x \in started : RunTask(x)
    BY <2>2 DEF RunTask, Pool!Finish, Handed
  <2> QED
    BY <2>1, <2>2 DEF Worker
<1> QED
  BY <1>1, <1>2, <1>3, OutsideFramed

LEMMA OwnerFramed ==
  ASSUME IInv, Framed,
         Stop \/ StartFails \/ (\E t \in Threads : StartThread(t)) \/ DestroyPool \/ Sweep
  PROVE  Framed'
<1>1. CASE Stop \/ StartFails \/ DestroyPool \/ Sweep
  <2>1. /\ \A c \in Clients : where'[c] \in {where[c], "closed"}
        /\ UNCHANGED <<socket, thread, input>> /\ UNCHANGED <<line, started, finished>>
    BY <1>1 DEF Stop, StartFails, DestroyPool, Pool!Close, Sweep, pool
  <2>2. \A c \in Clients : Ended(c) => Ended(c)'
    BY <2>1 DEF Ended, socket, thread
  <2>3. Handed' = Handed
    BY <2>1 DEF Handed
  <2> QED
    BY <2>1, <2>2, <2>3, OutsideFramed
<1>2. CASE \E t \in Threads : StartThread(t)
  <2>1. PICK t \in Threads : StartThread(t)
    BY <1>2
  <2>2. /\ pc[t] = "unborn" /\ UNCHANGED <<where, owner, batch, line, started, finished>>
        /\ UNCHANGED input
        /\ pc' = [pc EXCEPT ![t] = "wait"]
    BY <2>1 DEF StartThread, pool, socket
  <2>3. \A u \in Threads : u # t => pc'[u] = pc[u] /\ batch'[u] = batch[u]
    BY <2>2 DEF IInv, Typed, ThreadTypes
  <2> QED
    BY <2>2, <2>3, QuietFramed
<1> QED
  BY <1>1, <1>2

LEMMA ClientFramed ==
  ASSUME IInv, Framed, NEW c \in Clients,
         Send(c) \/ HangUp(c) \/ \E t \in Threads : Connect(c, t)
  PROVE  Framed'
<1>1. /\ UNCHANGED <<owner, pc, batch>> /\ UNCHANGED input
      /\ UNCHANGED <<line, started, finished>>
      /\ where' = where \/ (where[c] = "away" /\ where' = [where EXCEPT ![c] = "queued"])
  BY DEF Send, HangUp, Connect, socket, thread, pool
<1>2. \A d \in Clients : where[d] \in {"open", "closed"} => where'[d] = where[d]
  BY <1>1 DEF IInv, Typed, SocketTypes
<1>3. \A d \in Clients : Ended(d) => Ended(d)'
  BY <1>1, <1>2 DEF Ended
<1>4. Handed' = Handed
  BY <1>1 DEF Handed
<1> QED
  BY <1>1, <1>3, <1>4, OutsideFramed

LEMMA InitFramed == Init => Framed
<1> SUFFICES ASSUME Init PROVE Framed
  OBVIOUS
<1>1. \A c \in Clients :
        buf[c] = <<>> /\ taken[c] = 0 /\ readPos[c] = 0 /\ asked[c] = 0
  BY DEF Init
<1>2. line = <<>> /\ started = {} /\ finished = {}
  BY DEF Init, Pool!Init
<1>3. ASSUME NEW c \in Clients PROVE Before(c, 0) = 0
  <2>1. Upto(c, 0) = {}
    <3>1. \A i \in DOMAIN Stream[c] : Stream[c][i] \in Nat \ {0}
      BY StreamFacts
    <3> QED
      BY <3>1 DEF Upto
  <2> QED
    BY <2>1, FS_EmptySet DEF Before
<1>4. InOrder
  BY <1>1 DEF InOrder
<1>5. UpToDate
  BY <1>1, <1>3 DEF UpToDate, InStep
<1>6. RequestsWhole
  BY <1>2 DEF RequestsWhole, Handed, ToSet
<1> QED
  BY <1>4, <1>5, <1>6 DEF Framed

LEMMA LivingFramed ==
  ASSUME IInv, Pending, Joined, ~Forsaken, Framed, [Next]_vars
  PROVE  Framed' \/ FreePool
<1>1. CASE \E t \in Threads : Thread(t)
  <2>1. PICK t \in Threads : Run(t)
    BY <1>1, NothingFreed DEF Thread
  <2>2. CASE \E c \in Clients : Handle(t, c)
    BY <2>2, NewcomerFramed, CloseFramed, ReadFramed, DispatchFramed DEF Handle
  <2> QED
    BY <2>1, <2>2, LoopFramed, InlineFramed DEF Run
<1>2. CASE Worker
  BY <1>2, PoolFramed
<1>3. CASE Stop \/ StartFails \/ Owner
  <2>1. ~SweepNext /\ ~FreeReactor
    BY DEF Forsaken, SweepNext, FreeReactor
  <2> QED
    BY <1>3, <2>1, OwnerFramed DEF Owner
<1>4. CASE Outside
  BY <1>4, ClientFramed DEF Outside
<1>5. CASE UNCHANGED vars
  <2>1. UNCHANGED <<where, socket, thread, input>> /\ UNCHANGED <<line, started, finished>>
    BY <1>5 DEF vars, pool
  <2>2. \A c \in Clients : Ended(c) => Ended(c)'
    BY <2>1 DEF Ended, socket, thread
  <2>3. Handed' = Handed
    BY <2>1 DEF Handed
  <2> QED
    BY <2>1, <2>2, <2>3, OutsideFramed
<1> QED
  BY <1>1, <1>2, <1>3, <1>4, <1>5 DEF Next, Outside

\* A worker hands out what is in the line.
LEMMA WorkerHands ==
  ASSUME Typed, Worker
  PROVE  Handed' \subseteq Handed
<1>1. CASE StartTask
  <2>1. /\ line # <<>> /\ started' = started \cup {Head(line)} /\ line' = Tail(line)
        /\ finished' = finished /\ line \in Seq(Tasks)
    BY <1>1 DEF StartTask, Pool!Start, Typed, PoolTypes
  <2>2. ToSet(line) = ToSet(Tail(line)) \cup {Head(line)}
    BY <2>1, TailItems
  <2> QED
    BY <2>1, <2>2 DEF Handed
<1>2. CASE \E x \in started : RunTask(x)
  BY <1>2 DEF RunTask, Pool!Finish, Handed
<1> QED
  BY <1>1, <1>2 DEF Worker

(* Under a freed pool no request is handed over any more.                  *)
LEMMA ForsakenHands ==
  ASSUME Typed, Forsaken, [Next]_vars
  PROVE  Handed' \subseteq Handed
<1>1. CASE \E t \in Threads : Thread(t)
  <2>1. PICK t \in Threads : Thread(t)
    BY <1>1
  <2>2. CASE UseFreed(t)
    BY <2>2 DEF UseFreed, pool, Handed
  <2>3. CASE RunInline(t)
    BY <2>3 DEF RunInline, InlineOf, Pool!Finish, Handed
  <2>4. CASE /\ Run(t) /\ ~RunInline(t)
    <3>1. UNCHANGED pool
      BY <2>1, <2>4, ForsakenRun DEF Thread, Wait, Leave, Accept, AcceptDone, AcceptFails,
         Register, RegisterFails, CloseConnection, Read, ReadEnds, ParseDone
    <3> QED
      BY <3>1 DEF pool, Handed
  <2> QED
    BY <2>1, <2>2, <2>3, <2>4 DEF Thread
<1>2. CASE Worker
  BY <1>2, WorkerHands
<1>3. CASE Stop \/ StartFails \/ Owner \/ Outside \/ UNCHANGED vars
  <2>1. UNCHANGED <<line, started, finished>>
    BY <1>3 DEF Stop, StartFails, Owner, StartThread, DestroyPool, Pool!Close, Sweep, FreePool,
       SweepNext, FreeReactor, Outside, Send, HangUp, Connect, vars, pool
  <2> QED
    BY <2>1 DEF Handed
<1> QED
  BY <1>1, <1>2, <1>3 DEF Next, Outside

Orderly == RequestsWhole /\ (Forsaken \/ Framed)

LEMMA StepOrderly == Standing /\ Orderly /\ [Next]_vars => Orderly'
<1> SUFFICES ASSUME Standing, Orderly, [Next]_vars PROVE Orderly'
  OBVIOUS
<1>1. CASE Forsaken
  <2>1. Forsaken' /\ Handed' \subseteq Handed
    BY <1>1, ForsakenStep, ForsakenHands DEF Standing
  <2> QED
    BY <2>1 DEF Orderly, RequestsWhole, Request
<1>2. CASE ~Forsaken
  <2>1. Framed' \/ FreePool
    BY <1>2, LivingFramed DEF Standing, Orderly
  <2>2. CASE Framed'
    BY <2>2 DEF Orderly, Framed
  <2>3. CASE FreePool
    <3>1. main' = "ruined" /\ Handed' = Handed
      BY <2>3 DEF FreePool, pool, Handed
    <3> QED
      BY <3>1 DEF Orderly, RequestsWhole, Request, Forsaken
  <2> QED
    BY <2>1, <2>2, <2>3
<1> QED
  BY <1>1, <1>2

LEMMA OrderlyCorrect == Spec => []Orderly
<1>1. Init => Orderly
  BY InitFramed DEF Orderly, Framed
<1> QED
  BY <1>1, StepOrderly, StandingCorrect, PTL DEF Spec

(***************************************************************************)
(* However reads, appends, growth, drains and compactions of the buffer    *)
(* fall, each task of a connection that reaches a handler is the request   *)
(* of its number: all of it, and nothing of another.                       *)
(***************************************************************************)
THEOREM RequestsCorrect == Spec => []RequestsWhole
<1>1. Orderly => RequestsWhole
  BY DEF Orderly
<1> QED
  BY <1>1, OrderlyCorrect, PTL

-----------------------------------------------------------------------------
(* The courier.  A task is in the line or with a handler, once; and no     *)
(* handler runs once the reactor is freed.                                 *)

TasksOnce ==
  /\ IsInjective(line) /\ ToSet(line) \cap started = {}
  /\ main = "gone" => started = {}

\* What TaskQueue calls fresh is not in the line.
LEMMA FreshLine ==
  ASSUME PoolTypes, NEW x, Pool!Fresh(x)
  PROVE  x \notin ToSet(line) /\ x \notin started
BY DEF PoolTypes, Pool!Fresh, Pool!InLine, ToSet

LEMMA DispatchOnce ==
  ASSUME IInv, TasksOnce, NEW t \in Threads, NEW c \in Clients,
         DispatchAccepted(t, c) \/ DispatchRefused(t, c) \/ DispatchFails(t, c)
  PROVE  TasksOnce'
<1> DEFINE x == NextTask(c)
<1>1. Handling(t, c, "parse") /\ Whole(c)
  BY DEF DispatchAccepted, DispatchRefused, DispatchFails
<1>2. main # "gone"
  BY <1>1, HandlingFacts DEF Handling
<1>3. main' = main
  BY DEF DispatchAccepted, DispatchRefused, DispatchFails
<1>4. line \in Seq(Tasks) /\ x \in Tasks
  BY <1>1, WholeFacts DEF IInv, Typed, PoolTypes
<1>5. CASE DispatchAccepted(t, c)
  <2>1. line' = Append(line, x) /\ started' = started /\ Pool!Fresh(x)
    BY <1>5 DEF DispatchAccepted, Pool!Accept
  <2>2. x \notin ToSet(line) /\ x \notin started
    BY <2>1, FreshLine DEF IInv, Typed
  <2> HIDE DEF x
  <2>3. ToSet(line') = ToSet(line) \cup {x} /\ IsInjective(line')
    BY <1>4, <2>1, <2>2, AppendSet DEF TasksOnce
  <2> QED
    BY <1>2, <1>3, <2>1, <2>2, <2>3 DEF TasksOnce
<1>6. CASE DispatchRefused(t, c)
  <2>1. line' = line /\ started' = started \cup {x} /\ Pool!Fresh(x)
    BY <1>6 DEF DispatchRefused, Pool!Refuse
  <2>2. x \notin ToSet(line)
    BY <2>1, FreshLine DEF IInv, Typed
  <2> HIDE DEF x
  <2> QED
    BY <1>2, <1>3, <2>1, <2>2 DEF TasksOnce
<1>7. CASE DispatchFails(t, c)
  BY <1>2, <1>3, <1>7 DEF DispatchFails, pool, TasksOnce
<1> QED
  BY <1>5, <1>6, <1>7

LEMMA StartOnce ==
  ASSUME Standing, TasksOnce, StartTask
  PROVE  TasksOnce'
<1>1. /\ ~closed /\ line # <<>> /\ main' = main
      /\ started' = started \cup {Head(line)} /\ line' = Tail(line)
  BY DEF StartTask, Pool!Start
<1>2. main # "gone"
  BY <1>1 DEF Standing, Forsaken, IInv, Answered, PoolClosed
<1>3. line \in Seq(Tasks)
  BY DEF Standing, Typed, PoolTypes
<1>4. /\ ToSet(line) = ToSet(Tail(line)) \cup {Head(line)}
      /\ IsInjective(Tail(line)) /\ Head(line) \notin ToSet(Tail(line))
  BY <1>1, <1>3, TailItems DEF TasksOnce
<1> QED
  BY <1>1, <1>2, <1>4 DEF TasksOnce

(* A thread other than at a dispatch or in a handler, and the clients.     *)
LEMMA QuietOnce ==
  ASSUME TasksOnce, line' = line, started' \subseteq started,
         main' = "gone" => main = "gone" \/ started' = {}
  PROVE  TasksOnce'
BY DEF TasksOnce

LEMMA RunOnce ==
  ASSUME Standing, TasksOnce, Defined, NEW t \in Threads, Run(t)
  PROVE  TasksOnce'
<1>1. CASE \E c \in Clients :
             DispatchAccepted(t, c) \/ DispatchRefused(t, c) \/ DispatchFails(t, c)
  <2>1. ~Forsaken
    <3> SUFFICES ASSUME Forsaken PROVE FALSE
      OBVIOUS
    <3>1. \A c \in Clients : ~(Handling(t, c, "parse") /\ Whole(c))
      BY DEF Run, Dangling, PoolFreed, Forsaken, Defined
    <3> QED
      BY <1>1, <3>1 DEF DispatchAccepted, DispatchRefused, DispatchFails
  <2> QED
    BY <1>1, <2>1, DispatchOnce DEF Standing
<1>2. CASE RunInline(t)
  <2>1. line' = line /\ started' \subseteq started /\ main' = main
    BY <1>2 DEF RunInline, Pool!Finish
  <2> QED
    BY <2>1, QuietOnce
<1>3. CASE \/ Wait(t) \/ Leave(t) \/ Accept(t) \/ AcceptDone(t)
           \/ \E c \in Clients :
                \/ AcceptFails(t, c) \/ Register(t, c) \/ RegisterFails(t, c)
                \/ CloseConnection(t, c)
                \/ Read(t, c) \/ ReadEnds(t, c) \/ ParseDone(t, c)
  <2>1. UNCHANGED <<line, started, main>>
    BY <1>3 DEF Wait, Leave, Accept, AcceptDone, AcceptFails, Register, RegisterFails,
       CloseConnection, Read, ReadEnds, ParseDone, pool
  <2> QED
    BY <2>1, QuietOnce
<1> QED
  BY <1>1, <1>2, <1>3 DEF Run, Handle

LEMMA StepOnce == Standing /\ TasksOnce /\ [Next]_vars => TasksOnce'
<1> SUFFICES ASSUME Standing, TasksOnce, [Next]_vars PROVE TasksOnce'
  OBVIOUS
<1>1. CASE \E t \in Threads : Thread(t)
  <2>1. PICK t \in Threads : Thread(t)
    BY <1>1
  <2>2. CASE UseFreed(t)
    <3>1. UNCHANGED <<line, started>> /\ main' # "gone"
      BY <2>2 DEF UseFreed, pool
    <3> QED
      BY <3>1, QuietOnce
  <2> QED
    BY <2>1, <2>2, RunOnce DEF Thread
<1>2. CASE Worker
  <2>1. CASE \E x \in started : RunTask(x)
    <3>1. line' = line /\ started' \subseteq started /\ main' = main
      BY <2>1 DEF RunTask, Pool!Finish
    <3> QED
      BY <3>1, QuietOnce
  <2> QED
    BY <1>2, <2>1, StartOnce DEF Worker
<1>3. CASE Stop \/ StartFails \/ Owner
  <2>1. line' = line /\ started' = started /\ (main' = "gone" => started = {})
    BY <1>3 DEF Stop, StartFails, Owner, StartThread, DestroyPool, Pool!Close, Sweep, FreePool,
       SweepNext, FreeReactor, pool
  <2> QED
    BY <2>1, QuietOnce
<1>4. CASE Outside \/ UNCHANGED vars
  <2>1. UNCHANGED <<line, started, main>>
    BY <1>4 DEF vars, pool, Outside, Send, HangUp, Connect
  <2> QED
    BY <2>1, QuietOnce
<1> QED
  BY <1>1, <1>2, <1>3, <1>4 DEF Next, Outside

LEMMA OnceCorrect == Spec => []TasksOnce
<1>1. Init => TasksOnce
  BY DEF Init, Pool!Init, TasksOnce, ToSet, IsInjective
<1> QED
  BY <1>1, StepOnce, StandingCorrect, PTL DEF Spec

-----------------------------------------------------------------------------
(* Each step of the reactor is one of the courier's, or none               *)

(* A unit that arrives completes one request at most.                      *)
LEMMA SentSteps ==
  ASSUME Typed, NEW c \in Clients, Send(c)
  PROVE  /\ SentWhole(c)' \in {SentWhole(c), SentWhole(c) + 1}
         /\ \A d \in Clients : d # c => SentWhole(d)' = SentWhole(d)
<1> DEFINE s == Stream[c]
           n == arrived[c]
<1>1. /\ n \in Nat /\ n < Len(s) /\ arrived'[c] = n + 1
      /\ \A d \in Clients : d # c => arrived'[d] = arrived[d]
  BY DEF Typed, InputTypes, Send
<1>2. /\ DOMAIN s = 1 .. Len(s) /\ Len(s) \in Nat
      /\ \A i \in DOMAIN s : s[i] \in Nat \ {0}
      /\ \A i \in DOMAIN s : i > 1 => s[i - 1] <= s[i] /\ s[i] <= s[i - 1] + 1
  BY StreamFacts
<1>3. \A d \in Clients : d # c => SentWhole(d)' = SentWhole(d)
  BY <1>1 DEF SentWhole
<1>4. SentWhole(c) = s[n + 1] - 1
  BY <1>1 DEF SentWhole
<1>5. n + 1 \in DOMAIN s /\ s # <<>>
  BY <1>1, <1>2
<1>6. CASE n + 1 = Len(s)
  <2>1. SentWhole(c)' = s[n + 1]
    <3>1. ~(arrived'[c] < Len(s))
      BY <1>1, <1>2, <1>6
    <3> QED
      BY <1>5, <1>6, <3>1 DEF SentWhole, Last
  <2> HIDE DEF s, n
  <2>2. s[n + 1] \in Nat
    BY <1>2, <1>5
  <2> QED
    BY <1>3, <1>4, <2>1, <2>2
<1>7. CASE n + 1 # Len(s)
  <2>1. n + 1 < Len(s)
    BY <1>1, <1>2, <1>7
  <2>2. SentWhole(c)' = s[n + 2] - 1
    BY <1>1, <2>1 DEF SentWhole
  <2> HIDE DEF s, n
  <2>3. n + 2 \in DOMAIN s /\ n + 2 > 1 /\ (n + 2) - 1 = n + 1
    BY <1>1, <1>2, <2>1
  <2>4. s[n + 1] <= s[n + 2] /\ s[n + 2] <= s[n + 1] + 1
    BY <1>2, <2>3
  <2>5. s[n + 1] \in Nat /\ s[n + 2] \in Nat
    BY <1>2, <1>5, <2>3
  <2> QED
    BY <1>3, <1>4, <2>2, <2>4, <2>5
<1> QED
  BY <1>6, <1>7

(* The request at the front of the buffer has been sent to its end.        *)
LEMMA TakenSent ==
  ASSUME IInv, Framed, NEW t \in Threads, NEW c \in Clients,
         Handling(t, c, "parse"), Whole(c)
  PROVE  asked[c] < SentWhole(c)
<1> DEFINE s == Stream[c]
           b == Before(c, asked[c])
           n == TotalExpected(c, b + 1)
           k == asked[c]
<1>1. /\ Rest(c) \in Seq(DOMAIN s) /\ Rest(c) # <<>>
      /\ Len(Rest(c)) = Len(buf[c]) - readPos[c]
      /\ Len(Rest(c)) >= TotalExpected(c, Head(Rest(c)))
      /\ TotalExpected(c, Head(Rest(c))) \in Nat \ {0}
      /\ asked[c] \in Nat /\ taken[c] \in Nat /\ arrived[c] \in Nat
      /\ taken[c] <= arrived[c] /\ arrived[c] <= Len(s)
      /\ Len(buf[c]) \in Nat /\ readPos[c] \in Nat
  <2>1. InputTypes
    BY DEF IInv, Typed
  <2>2. /\ Rest(c) \in Seq(DOMAIN s)
        /\ Len(Rest(c)) = Len(buf[c]) - readPos[c]
        /\ TotalExpected(c, Head(Rest(c))) \in Nat \ {0}
    BY <2>1, RestFacts, WholeFacts
  <2>3. /\ asked[c] \in Nat /\ taken[c] \in Nat /\ arrived[c] \in Nat
        /\ taken[c] <= arrived[c] /\ arrived[c] <= Len(s)
        /\ buf[c] \in Seq(Nat) /\ readPos[c] \in Nat
    BY <2>1 DEF InputTypes
  <2>4. Rest(c) # <<>> /\ Len(Rest(c)) >= TotalExpected(c, Head(Rest(c)))
    BY DEF Whole
  <2> QED
    BY <2>2, <2>3, <2>4
<1>2. /\ Len(Rest(c)) \in Nat
      /\ \A i \in 1 .. Len(Rest(c)) : Rest(c)[i] = b + i
  BY RestUnits DEF IInv, Typed, Framed
<1>3. Head(Rest(c)) = b + 1 /\ b + 1 \in DOMAIN s
  <2>1. 1 \in 1 .. Len(Rest(c)) /\ Head(Rest(c)) = Rest(c)[1]
    BY <1>1, <1>2
  <2> QED
    BY <1>1, <1>2, <2>1
<1>4. b \in Nat
  BY <1>1, BeforeFirst
<1>5. /\ n \in Nat \ {0} /\ b + n <= Len(s)
      /\ {i \in DOMAIN s : s[i] = k + 1} = b + 1 .. b + n
  BY <1>1, <1>3, NextRequest
<1>6. b + Len(buf[c]) = taken[c] + readPos[c]
  <2>1. where[c] = "open" /\ owner[c] = t /\ pc[t] = "parse"
    BY HandlingFacts DEF Handling
  <2>2. ~Ended(c)
    BY <2>1 DEF Ended
  <2> QED
    BY <2>2 DEF Framed, UpToDate, InStep
<1>7. n <= Len(Rest(c))
  BY <1>1, <1>3
<1>8. b + n <= arrived[c]
  <2> DEFINE a == arrived[c]
             r == taken[c]
             l == Len(buf[c])
             p == readPos[c]
             m == Len(Rest(c))
  <2>1. /\ a \in Nat /\ r \in Nat /\ l \in Nat /\ p \in Nat /\ m = l - p /\ r <= a
        /\ b + l = r + p /\ n <= m /\ n \in Nat /\ b \in Nat
    BY <1>1, <1>4, <1>5, <1>6, <1>7
  <2> HIDE DEF a, r, l, p, m, b, n
  <2> QED
    BY <2>1 DEF a
<1>9. /\ DOMAIN s = 1 .. Len(s) /\ Len(s) \in Nat
      /\ \A i \in DOMAIN s : s[i] \in Nat
  BY StreamFacts
<1>10. b + n \in DOMAIN s /\ s[b + n] = k + 1
  <2> HIDE DEF b, n, s, k
  <2>1. b + n \in b + 1 .. b + n
    BY <1>4, <1>5
  <2> QED
    BY <1>5, <2>1
<1>11. CASE arrived[c] < Len(s)
  <2> DEFINE j == arrived[c] + 1
  <2>1. SentWhole(c) = s[j] - 1
    BY <1>11 DEF SentWhole
  <2>2. j \in DOMAIN s /\ b + n <= j /\ j \notin b + 1 .. b + n
    <3> DEFINE a == arrived[c]
    <3>1. a \in Nat /\ b + n <= a /\ a < Len(s) /\ b \in Nat /\ n \in Nat
      BY <1>1, <1>4, <1>5, <1>8, <1>11
    <3> HIDE DEF a, b, n, s
    <3> QED
      BY <1>9, <3>1 DEF a
  <2>3. s[b + n] <= s[j]
    BY <1>10, <2>2, StreamSorted
  <2>4. s[j] # k + 1
    BY <1>5, <2>2
  <2>5. s[j] \in Nat /\ k \in Nat
    BY <1>1, <1>9, <2>2
  <2> HIDE DEF b, n, s, j, k
  <2>6. k < s[j] - 1
    BY <1>10, <2>3, <2>4, <2>5
  <2> QED
    BY <2>1, <2>6 DEF k
<1>12. CASE ~(arrived[c] < Len(s))
  <2>1. s # <<>> /\ Len(s) \in DOMAIN s
    BY <1>9, <1>10
  <2>2. SentWhole(c) = s[Len(s)]
    BY <1>12, <2>1 DEF SentWhole, Last
  <2>3. s[b + n] <= s[Len(s)]
    BY <1>5, <1>10, <2>1, StreamSorted
  <2>4. s[Len(s)] \in Nat /\ k \in Nat
    BY <1>1, <1>9, <2>1
  <2> HIDE DEF b, n, s, k
  <2>5. k < s[Len(s)]
    BY <1>10, <2>3, <2>4
  <2> QED
    BY <2>2, <2>5 DEF k, s
<1> QED
  BY <1>11, <1>12

Delivers == Promise!Next \/ UNCHANGED Promise!vars

\* What Courier sees.
Seen == <<arrived, fin, failures, asked, line, started, main, answers>>

LEMMA UnseenStep ==
  ASSUME UNCHANGED Seen
  PROVE  Delivers
<1>1. \A c \in Clients : SentWhole(c)' = SentWhole(c)
  BY DEF Seen, SentWhole
<1>2. Held' = Held
  BY DEF Seen, Held
<1> QED
  BY <1>1, <1>2 DEF Seen, Delivers, Promise!vars, Forsaken

LEMMA FailStep ==
  ASSUME Typed, Fails, UNCHANGED <<arrived, fin, asked, line, started, main, answers>>
  PROVE  Delivers
<1>1. \A c \in Clients : SentWhole(c)' = SentWhole(c)
  BY DEF SentWhole
<1>2. Held' = Held
  BY DEF Held
<1>3. failures' > 0
  <2>1. failures \in Nat /\ failures' = failures + 1
    BY LimitsAssumption DEF Typed, MainTypes, Fails
  <2> QED
    BY <2>1
<1>4. Promise!Fail
  BY <1>1, <1>2, <1>3 DEF Promise!Fail
<1> QED
  BY <1>4 DEF Delivers, Promise!Next

LEMMA SendDelivers ==
  ASSUME Typed, NEW c \in Clients, Send(c)
  PROVE  Delivers
<1> DEFINE sent == [d \in Clients |-> SentWhole(d)]
<1>1. UNCHANGED <<fin, failures, asked, line, started, main, answers>> /\ ~fin[c]
  BY DEF Send, input, pool
<1>2. Held' = Held
  BY <1>1 DEF Held
<1>3. CASE SentWhole(c)' = SentWhole(c)
  <2>1. sent' = sent
    BY <1>3, SentSteps
  <2> QED
    BY <1>1, <1>2, <2>1 DEF Delivers, Promise!vars, Forsaken
<1>4. CASE SentWhole(c)' = SentWhole(c) + 1
  <2>1. sent' = [sent EXCEPT ![c] = @ + 1]
    BY <1>4, SentSteps
  <2>2. Promise!Complete(c)
    BY <1>1, <1>2, <2>1 DEF Promise!Complete, Forsaken
  <2> QED
    BY <2>2 DEF Delivers, Promise!Next
<1> QED
  BY <1>3, <1>4, SentSteps

LEMMA HangUpDelivers ==
  ASSUME Typed, NEW c \in Clients, HangUp(c)
  PROVE  Delivers
<1>1. /\ UNCHANGED <<arrived, failures, asked, line, started, main, answers>>
      /\ fin' = [fin EXCEPT ![c] = TRUE]
  BY DEF HangUp, input, pool
<1>2. \A d \in Clients : SentWhole(d)' = SentWhole(d)
  BY <1>1 DEF SentWhole
<1>3. Held' = Held
  BY <1>1 DEF Held
<1>4. {d \in Clients : fin'[d]} = {d \in Clients : fin[d]} \cup {c}
  BY <1>1 DEF Typed, InputTypes
<1>5. Promise!Quit(c)
  BY <1>1, <1>2, <1>3, <1>4 DEF Promise!Quit, Forsaken
<1> QED
  BY <1>5 DEF Delivers, Promise!Next

LEMMA DispatchDelivers ==
  ASSUME IInv, Framed, NEW t \in Threads, NEW c \in Clients,
         DispatchAccepted(t, c) \/ DispatchRefused(t, c) \/ DispatchFails(t, c)
  PROVE  Delivers
<1> DEFINE x == NextTask(c)
           r == <<c, asked[c] + 1>>
<1>1. /\ Handling(t, c, "parse") /\ Whole(c)
      /\ asked' = [asked EXCEPT ![c] = @ + 1]
      /\ UNCHANGED <<arrived, fin, main, answers>>
  BY DEF DispatchAccepted, DispatchRefused, DispatchFails, Advance, client
<1>2. main # "gone"
  BY <1>1, HandlingFacts DEF Handling
<1>3. \A d \in Clients : SentWhole(d)' = SentWhole(d)
  BY <1>1 DEF SentWhole
<1>4. asked[c] < SentWhole(c)
  BY <1>1, TakenSent
<1>5. Promise!NextTaken(c)
  BY <1>1, <1>2, <1>4 DEF Promise!NextTaken
<1>6. /\ x \in Tasks /\ line \in Seq(Tasks)
      /\ <<x[1], x[2]>> = r
  BY <1>1, WholeFacts, TaskWhole DEF IInv, Typed, PoolTypes, Framed
<1>7. CASE DispatchAccepted(t, c) \/ DispatchRefused(t, c)
  <2>1. /\ failures' = failures
        /\ \/ line' = Append(line, x) /\ started' = started
           \/ line' = line /\ started' = started \cup {x}
    BY <1>7 DEF DispatchAccepted, DispatchRefused, Pool!Accept, Pool!Refuse
  <2> HIDE DEF x
  <2>2. ToSet(line') \cup started' = ToSet(line) \cup started \cup {x}
    <3>1. CASE line' = Append(line, x) /\ started' = started
      <4>1. ToSet(Append(line, x)) = ToSet(line) \cup {x}
        BY <1>6, AppendSet
      <4> QED
        BY <3>1, <4>1
    <3>2. CASE line' = line /\ started' = started \cup {x}
      BY <3>2
    <3> QED
      BY <2>1, <3>1, <3>2
  <2>3. Held' = Held \cup {r}
    <3>1. Held' = {<<y[1], y[2]>> : y \in ToSet(line') \cup started'}
      BY DEF Held
    <3>2. Held' = {<<y[1], y[2]>> : y \in ToSet(line) \cup started} \cup {<<x[1], x[2]>>}
      BY <2>2, <3>1
    <3> HIDE DEF r
    <3> QED
      BY <1>6, <3>2 DEF Held
  <2>4. Promise!Take(c)
    BY <1>1, <1>2, <1>3, <1>5, <2>1, <2>3 DEF Promise!Take, Forsaken
  <2> QED
    BY <2>4 DEF Delivers, Promise!Next
<1>8. CASE DispatchFails(t, c)
  <2>1. UNCHANGED <<line, started>> /\ failures' = failures + 1
    BY <1>8 DEF DispatchFails, pool, Fails
  <2>2. failures' > 0
    <3>1. failures \in Nat
      BY LimitsAssumption DEF IInv, Typed, MainTypes
    <3> QED
      BY <2>1, <3>1
  <2>3. Held' = Held
    BY <2>1 DEF Held
  <2>4. Promise!PassOver(c)
    BY <1>1, <1>2, <1>3, <1>5, <2>2, <2>3 DEF Promise!PassOver
  <2> QED
    BY <2>4 DEF Delivers, Promise!Next
<1> QED
  BY <1>7, <1>8

(* The answer goes to one connection at most: that of the asker, if it is  *)
(* open.                                                                   *)
LEMMA AnswerDelivers ==
  ASSUME Typed, FdsOwn, RequestsWhole, TasksOnce, AnswersArrive', NEW x \in started,
         Pool!Finish(x), Answer(x), UNCHANGED <<arrived, fin, failures, asked, main>>
  PROVE  Delivers
<1> DEFINE r == <<x[1], x[2]>>
           there == Holding(fd[x[1]])
<1>1. main # "gone" /\ started' = started \ {x} /\ line' = line
  BY DEF TasksOnce, Pool!Finish
<1>2. \A d \in Clients : SentWhole(d)' = SentWhole(d)
  BY DEF SentWhole
<1>3. /\ line \in Seq(Tasks) /\ ToSet(line) \subseteq Tasks /\ started \subseteq Tasks
      /\ x \in Tasks
  BY DEF Typed, PoolTypes, ToSet
<1>4. r \in Held
  BY DEF Held
<1>5. ASSUME NEW y \in ToSet(line) \cup started, <<y[1], y[2]>> = r
      PROVE  y = x
  <2>1. y[1] = x[1] /\ y[2] = x[2]
    BY <1>5
  <2>2. y[3] = Request(y[1], y[2]) /\ x[3] = Request(x[1], x[2])
    BY DEF RequestsWhole, Handed
  <2>3. y[3] = x[3]
    BY <2>1, <2>2
  <2>4. y = <<y[1], y[2], y[3]>> /\ x = <<x[1], x[2], x[3]>>
    <3>1. y \in Tasks /\ x \in Tasks
      BY <1>3
    <3> QED
      BY <3>1 DEF Tasks
  <2> QED
    BY <2>1, <2>3, <2>4
<1>6. ToSet(line') \cup started' = (ToSet(line) \cup started) \ {x}
  BY <1>1 DEF TasksOnce
<1>7. Held' = Held \ {r}
  <2>1. Held' = {<<y[1], y[2]>> : y \in (ToSet(line) \cup started) \ {x}}
    BY <1>6 DEF Held
  <2>2. ASSUME NEW y \in ToSet(line) \cup started
        PROVE  <<y[1], y[2]>> = r <=> y = x
    BY <1>5
  <2> HIDE DEF r
  <2> QED
    BY <2>1, <2>2 DEF Held
<1>8. \E d \in Clients \cup {Nobody} : answers' = answers \cup {<<x[1], x[2], d>>}
  <2>1. CASE there = {}
    BY <2>1 DEF Answer
  <2>2. CASE there # {}
    <3>1. PICK d \in Clients : d \in there
      BY <2>2 DEF Holding
    <3>2. there = {d}
      BY <3>1 DEF Holding, FdsOwn
    <3>3. answers' = answers \cup {<<x[1], x[2], e>> : e \in there}
      BY <2>2 DEF Answer
    <3> QED
      BY <3>2, <3>3
  <2> QED
    BY <2>1, <2>2
<1>9. PICK d \in Clients \cup {Nobody} : answers' = answers \cup {<<x[1], x[2], d>>}
  BY <1>8
<1>10. d = x[1] \/ fin[x[1]] \/ failures > 0 \/ Forsaken
  <2>1. <<x[1], x[2], d>> \in answers'
    BY <1>9
  <2> QED
    BY <2>1 DEF AnswersArrive, Forsaken
<1>11. x[1] \in Clients
  BY <1>3 DEF Tasks
<1>12. r[1] = x[1] /\ r[2] = x[2]
  OBVIOUS
<1> HIDE DEF r
<1>13. Promise!Answer(r, d)
  BY <1>1, <1>2, <1>7, <1>9, <1>10, <1>11, <1>12 DEF Promise!Answer, Forsaken
<1> QED
  BY <1>1, <1>4, <1>13 DEF Delivers, Promise!Next

LEMMA SweepDelivers ==
  ASSUME Sweep
  PROVE  Delivers
<1>1. main = "destroying" /\ main' = "gone" /\ UNCHANGED <<arrived, fin, failures, asked, answers>>
  BY DEF Sweep, client, input
<1>2. \A c \in Clients : SentWhole(c)' = SentWhole(c)
  BY <1>1 DEF SentWhole
<1>3. Promise!End
  BY <1>1, <1>2 DEF Promise!End, Forsaken
<1> QED
  BY <1>3 DEF Delivers, Promise!Next

LEMMA StartDelivers ==
  ASSUME Typed, StartTask
  PROVE  Delivers
<1>1. /\ line # <<>> /\ started' = started \cup {Head(line)} /\ line' = Tail(line)
      /\ UNCHANGED <<arrived, fin, failures, asked, main, answers>>
  BY DEF StartTask, Pool!Start, client, input
<1>2. line \in Seq(Tasks)
  BY DEF Typed, PoolTypes
<1>3. ToSet(line) = ToSet(Tail(line)) \cup {Head(line)}
  BY <1>1, <1>2, TailItems
<1>4. ToSet(line') \cup started' = ToSet(line) \cup started
  BY <1>1, <1>3
<1>5. Held' = Held
  BY <1>4 DEF Held
<1>6. \A c \in Clients : SentWhole(c)' = SentWhole(c)
  BY <1>1 DEF SentWhole
<1> QED
  BY <1>1, <1>5, <1>6 DEF Delivers, Promise!vars, Forsaken

(* The owner goes on, with the reactor freed under its threads or not.     *)
LEMMA GoesOnDelivers ==
  ASSUME UNCHANGED <<arrived, fin, failures, asked, line, started, answers>>,
         main # "gone", main' # "gone", Forsaken' <=> Forsaken
  PROVE  Delivers
<1>1. \A c \in Clients : SentWhole(c)' = SentWhole(c)
  BY DEF SentWhole
<1>2. Held' = Held
  BY DEF Held
<1>3. (failures > 0 \/ Forsaken)' = (failures > 0 \/ Forsaken)
  OBVIOUS
<1> QED
  BY <1>1, <1>2, <1>3 DEF Delivers, Promise!vars

LEMMA FreePoolDelivers ==
  ASSUME FreePool
  PROVE  Delivers
<1>1. /\ UNCHANGED <<arrived, fin, failures, asked, line, started, answers>>
      /\ main = "abandoned" /\ main' = "ruined"
  BY DEF FreePool, client, input, pool
<1>2. \A c \in Clients : SentWhole(c)' = SentWhole(c)
  BY <1>1 DEF SentWhole
<1>3. Held' = Held
  BY <1>1 DEF Held
<1>4. Forsaken'
  BY <1>1 DEF Forsaken
<1>5. Promise!Fail
  BY <1>1, <1>2, <1>3, <1>4 DEF Promise!Fail
<1> QED
  BY <1>5 DEF Delivers, Promise!Next

LEMMA OwnerDelivers ==
  ASSUME Stop \/ StartFails \/ Owner
  PROVE  Delivers
<1>1. CASE Stop \/ StartFails \/ (\E t \in Threads : StartThread(t)) \/ DestroyPool
  <2>1. /\ UNCHANGED <<arrived, fin, failures, asked, line, started, answers>>
        /\ main # "gone" /\ main' # "gone" /\ ~Forsaken /\ ~Forsaken'
    BY <1>1 DEF Stop, StartFails, StartThread, DestroyPool, Pool!Close, client, input, pool,
       Forsaken
  <2> QED
    BY <2>1, GoesOnDelivers
<1>2. CASE SweepNext \/ FreeReactor
  <2>1. /\ UNCHANGED <<arrived, fin, failures, asked, line, started, answers>>
        /\ main # "gone" /\ main' # "gone" /\ Forsaken /\ Forsaken'
    BY <1>2 DEF SweepNext, FreeReactor, client, input, pool, Forsaken
  <2> QED
    BY <2>1, GoesOnDelivers
<1> QED
  BY <1>1, <1>2, SweepDelivers, FreePoolDelivers DEF Owner

LEMMA RunDelivers ==
  ASSUME Standing, Orderly, TasksOnce, AnswersArrive', Defined, NEW t \in Threads, Run(t)
  PROVE  Delivers
<1>1. CASE \E c \in Clients :
             DispatchAccepted(t, c) \/ DispatchRefused(t, c) \/ DispatchFails(t, c)
  <2>1. ~Forsaken
    <3> SUFFICES ASSUME Forsaken PROVE FALSE
      OBVIOUS
    <3>1. \A c \in Clients : ~(Handling(t, c, "parse") /\ Whole(c))
      BY DEF Run, Dangling, PoolFreed, Forsaken, Defined
    <3> QED
      BY <1>1, <3>1 DEF DispatchAccepted, DispatchRefused, DispatchFails
  <2> QED
    BY <1>1, <2>1, DispatchDelivers DEF Standing, Orderly
<1>2. CASE RunInline(t)
  <2>1. PICK x \in InlineOf(t) : Pool!Finish(x) /\ Answer(x)
    BY <1>2 DEF RunInline
  <2>2. x \in started /\ UNCHANGED <<arrived, fin, failures, asked, main>>
    BY <1>2 DEF RunInline, InlineOf, client, input
  <2> QED
    BY <2>1, <2>2, AnswerDelivers DEF Standing, Orderly
<1>3. CASE \E c \in Clients : AcceptFails(t, c) \/ RegisterFails(t, c) \/ ReadEnds(t, c)
  <2>1. /\ UNCHANGED <<arrived, fin, asked, line, started, main, answers>>
        /\ Fails \/ failures' = failures
    BY <1>3 DEF AcceptFails, RegisterFails, ReadEnds, client, input, pool
  <2>2. CASE Fails
    BY <2>1, <2>2, FailStep DEF Standing
  <2>3. CASE failures' = failures
    BY <2>1, <2>3, UnseenStep DEF Seen
  <2> QED
    BY <2>1, <2>2, <2>3
<1>4. CASE \/ Wait(t) \/ Leave(t) \/ Accept(t) \/ AcceptDone(t)
           \/ \E c \in Clients :
                Register(t, c) \/ CloseConnection(t, c) \/ Read(t, c) \/ ParseDone(t, c)
  <2>1. UNCHANGED Seen
    BY <1>4 DEF Wait, Leave, Accept, AcceptDone, Register, CloseConnection, Read, ParseDone,
       Seen, client, input, pool
  <2> QED
    BY <2>1, UnseenStep
<1> QED
  BY <1>1, <1>2, <1>3, <1>4 DEF Run, Handle

LEMMA StepDelivers ==
  Standing /\ AnswersArrive' /\ Orderly /\ TasksOnce /\ [Next]_vars
    => [Promise!Next]_(Promise!vars)
<1> SUFFICES ASSUME Standing, AnswersArrive', Orderly, TasksOnce, [Next]_vars
             PROVE  Delivers
  BY DEF Delivers
<1>1. CASE \E t \in Threads : Thread(t)
  <2>1. PICK t \in Threads : Thread(t)
    BY <1>1
  <2>2. CASE UseFreed(t)
    <3>1. /\ UNCHANGED <<arrived, fin, failures, asked, line, started, answers>>
          /\ main' = "undefined"
      BY <2>2 DEF UseFreed, client, input, pool
    <3>2. Forsaken
      BY <2>2, NothingFreed DEF Standing
    <3> QED
      BY <3>1, <3>2, GoesOnDelivers DEF Forsaken
  <2> QED
    BY <2>1, <2>2, RunDelivers DEF Thread
<1>2. CASE Worker
  <2>1. CASE \E x \in started : RunTask(x)
    <3>1. PICK x \in started : RunTask(x)
      BY <2>1
    <3>2. Pool!Finish(x) /\ Answer(x) /\ UNCHANGED <<arrived, fin, failures, asked, main>>
      BY <3>1 DEF RunTask, client, input
    <3> QED
      BY <3>2, AnswerDelivers DEF Standing, Orderly
  <2> QED
    BY <1>2, <2>1, StartDelivers DEF Worker, Standing
<1>3. CASE Stop \/ StartFails \/ Owner
  BY <1>3, OwnerDelivers
<1>4. CASE Outside
  <2>1. PICK c \in Clients : Send(c) \/ HangUp(c) \/ \E t \in Threads : Connect(c, t)
    BY <1>4 DEF Outside
  <2>2. CASE \E t \in Threads : Connect(c, t)
    <3>1. UNCHANGED Seen
      BY <2>2 DEF Connect, Seen, client, input, pool
    <3> QED
      BY <3>1, UnseenStep
  <2> QED
    BY <2>1, <2>2, SendDelivers, HangUpDelivers DEF Standing
<1>5. CASE UNCHANGED vars
  <2>1. UNCHANGED Seen
    BY <1>5 DEF vars, Seen, client, input, pool
  <2> QED
    BY <2>1, UnseenStep
<1> QED
  BY <1>1, <1>2, <1>3, <1>4, <1>5 DEF Next, Outside

LEMMA InitDelivers == Init => Promise!Init
<1> SUFFICES ASSUME Init PROVE Promise!Init
  OBVIOUS
<1>1. /\ \A c \in Clients : arrived[c] = 0 /\ ~fin[c] /\ asked[c] = 0
      /\ asked = [c \in Clients |-> 0]
      /\ line = <<>> /\ started = {} /\ failures = 0 /\ answers = {} /\ main = "starting"
  BY DEF Init, Pool!Init
<1>2. ASSUME NEW c \in Clients PROVE SentWhole(c) = 0
  <2>1. /\ DOMAIN Stream[c] = 1 .. Len(Stream[c]) /\ Len(Stream[c]) \in Nat
        /\ 1 \in DOMAIN Stream[c] => Stream[c][1] = 1
    BY StreamFacts
  <2>2. CASE Len(Stream[c]) = 0
    <3>1. Stream[c] = <<>>
      BY <2>2, StreamAssumption
    <3> QED
      BY <1>1, <2>2, <3>1 DEF SentWhole
  <2>3. CASE Len(Stream[c]) # 0
    BY <1>1, <2>1, <2>3 DEF SentWhole
  <2> QED
    BY <2>2, <2>3
<1>3. Held = {}
  BY <1>1 DEF Held, ToSet
<1>4. {c \in Clients : fin[c]} = {} /\ (failures > 0 \/ Forsaken) = FALSE
  BY <1>1 DEF Forsaken
<1> QED
  BY <1>1, <1>2, <1>3, <1>4 DEF Promise!Init

(***************************************************************************)
(* The reactor implements Courier, for any threads, clients, descriptors,  *)
(* streams and buffers: every request is taken up once, in order and when  *)
(* all of it has come, is with one handler at a time, and is answered at   *)
(* most once, to its asker unless that client has quit, an allocation has  *)
(* failed, or the reactor is freed under its threads after a failed start; *)
(* none runs once net_reactor_destroy is through with a reactor that was   *)
(* stopped.                                                                *)
(***************************************************************************)
THEOREM CourierImplemented == Spec => ImplementsCourier
<1>1. Standing => AnswersArrive
  BY AnswersOK
<1> QED
  BY <1>1, InitDelivers, StepDelivers, StandingCorrect, OrderlyCorrect, OnceCorrect, PTL
     DEF Spec, ImplementsCourier, Promise!Spec
=============================================================================
