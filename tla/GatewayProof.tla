---------------------------- MODULE GatewayProof ----------------------------
(***************************************************************************)
(* Theorems about the gateway's threads, for every number of threads and   *)
(* clients and every limit on descriptors: events are those of connections *)
(* their thread owns, no edge is lost except by the break on EAGAIN, the   *)
(* accept queue stays covered, and no request is closed unanswered.        *)
(***************************************************************************)
EXTENDS Gateway, ReadyListProof, FiniteSetTheorems

\* An item is on a ready list, or in what is left of a batch, at most once.
Lists == \A t \in Threads : IsInjective(ready[t]) /\ IsInjective(batch[t])

\* What a client has sent is there to be read until its connection is closed,
\* unless a reset took it away.
InboxExact ==
  \A c \in Clients : conn[c] # "closed" /\ c \notin reset => inbox[c] = sent[c]

\* A connection that was reset is at its end.
ResetsEnd == \A c \in reset : fin[c]

Typed == TypeOK /\ Lists /\ InboxExact /\ ResetsEnd

\* The items whose events are on their way to a thread.
Coming(t) == ToSet(ready[t]) \cup ToSet(batch[t])

-----------------------------------------------------------------------------
(* The lists under an edge, a wait, the end of an event and a close        *)

LEMMA PendingComing ==
  ASSUME TypeOK, NEW t \in Threads, NEW i
  PROVE  Pending(t, i) <=> i \in Coming(t)
<1>1. ready[t] \in Seq(Items) /\ batch[t] \in Seq(Items)
  BY DEF TypeOK
<1>2. /\ DOMAIN ready[t] = 1 .. Len(ready[t])
      /\ DOMAIN batch[t] = 1 .. Len(batch[t])
  BY <1>1
<1> QED
  BY <1>2 DEF Pending, Contains, Coming, ToSet

LEMMA EdgeLists ==
  ASSUME Typed, NEW S, NEW i \in Items, ready' = Edge(S, i)
  PROVE  /\ ready' \in [Threads -> Seq(Items)]
         /\ \A t \in Threads :
              /\ IsInjective(ready'[t])
              /\ ToSet(ready'[t]) = IF t \in S THEN ToSet(ready[t]) \cup {i}
                                    ELSE ToSet(ready[t])
<1>1. ASSUME NEW t \in Threads
      PROVE  /\ ready[t] \in Seq(Items) /\ IsInjective(ready[t])
             /\ ready'[t] = IF t \in S THEN Offered(ready[t], i) ELSE ready[t]
  BY DEF Typed, TypeOK, Lists, Edge
<1>2. ASSUME NEW t \in Threads
      PROVE  /\ Offered(ready[t], i) \in Seq(Items)
             /\ ToSet(Offered(ready[t], i)) = ToSet(ready[t]) \cup {i}
             /\ IsInjective(Offered(ready[t], i))
  BY <1>1, OfferedItems
<1>3. ASSUME NEW t \in Threads
      PROVE  /\ ready'[t] \in Seq(Items) /\ IsInjective(ready'[t])
             /\ ToSet(ready'[t]) = IF t \in S THEN ToSet(ready[t]) \cup {i}
                                   ELSE ToSet(ready[t])
  <2>1. CASE t \in S
    BY <2>1, <1>1, <1>2
  <2>2. CASE t \notin S
    BY <2>2, <1>1
  <2> QED
    BY <2>1, <2>2
<1>4. ready' = [t \in Threads |-> ready'[t]]
  BY DEF Edge
<1> QED
  BY <1>3, <1>4

LEMMA WaitLists ==
  ASSUME Typed, NEW t \in Threads, Wait(t)
  PROVE  /\ ready' \in [Threads -> Seq(Items)] /\ batch' \in [Threads -> Seq(Items)]
         /\ Lists'
         /\ \A u \in Threads : u # t => Coming(u)' = Coming(u)
         /\ Coming(t)' = {i \in Coming(t) : Readable(i)}
<1> DEFINE events == Kept(ready[t], {i \in Items : Readable(i)})
<1>1. /\ ready \in [Threads -> Seq(Items)] /\ batch \in [Threads -> Seq(Items)]
      /\ \A u \in Threads : IsInjective(ready[u]) /\ IsInjective(batch[u])
  BY DEF Typed, TypeOK, Lists
<1>2. /\ events \in Seq(Items) /\ IsInjective(events)
      /\ ToSet(events) = ToSet(ready[t]) \cap {i \in Items : Readable(i)}
  BY <1>1, KeptItems
<1>3. /\ batch[t] = <<>> /\ batch' = [batch EXCEPT ![t] = events]
      /\ ready' = [ready EXCEPT ![t] = <<>>]
  BY DEF history, Wait
<1> HIDE DEF events
<1>4. <<>> \in Seq(Items) /\ ToSet(<<>>) = {} /\ IsInjective(<<>>)
  BY DEF ToSet, IsInjective
<1>5. ToSet(ready[t]) \subseteq Items
  BY <1>1 DEF ToSet
<1>6. /\ ready'[t] = <<>> /\ batch'[t] = events
      /\ \A u \in Threads : u # t => ready'[u] = ready[u] /\ batch'[u] = batch[u]
  BY <1>1, <1>3
<1>7. Lists'
  BY <1>1, <1>2, <1>4, <1>6 DEF Lists
<1>8. Coming(t)' = {i \in Coming(t) : Readable(i)}
  BY <1>2, <1>3, <1>4, <1>5, <1>6 DEF Coming
<1>9. ready' \in [Threads -> Seq(Items)] /\ batch' \in [Threads -> Seq(Items)]
  BY <1>1, <1>2, <1>3, <1>4
<1> QED
  BY <1>6, <1>7, <1>8, <1>9 DEF Coming

(* The event in hand is done with.                                         *)
LEMMA TailLists ==
  ASSUME Typed, NEW t \in Threads, batch[t] # <<>>,
         batch' = [batch EXCEPT ![t] = Tail(@)]
  PROVE  /\ batch' \in [Threads -> Seq(Items)]
         /\ Head(batch[t]) \in Items
         /\ \A u \in Threads : IsInjective(batch'[u])
         /\ \A u \in Threads : u # t => batch'[u] = batch[u]
         /\ batch'[t] = Tail(batch[t])
         /\ ToSet(batch[t]) = ToSet(batch'[t]) \cup {Head(batch[t])}
         /\ Head(batch[t]) \notin ToSet(batch'[t])
<1>1. /\ batch \in [Threads -> Seq(Items)]
      /\ \A u \in Threads : IsInjective(batch[u])
  BY DEF Typed, TypeOK, Lists
<1>2. /\ Head(batch[t]) \in Items /\ Tail(batch[t]) \in Seq(Items)
      /\ ToSet(batch[t]) = ToSet(Tail(batch[t])) \cup {Head(batch[t])}
      /\ IsInjective(Tail(batch[t]))
      /\ Head(batch[t]) \notin ToSet(Tail(batch[t]))
  <2>1. batch[t] \in Seq(Items) /\ IsInjective(batch[t])
    BY <1>1
  <2> QED
    BY <2>1, TailItems
<1>3. /\ batch'[t] = Tail(batch[t])
      /\ \A u \in Threads : u # t => batch'[u] = batch[u]
  BY <1>1
<1>4. batch' \in [Threads -> Seq(Items)]
  BY <1>1, <1>2
<1> QED
  BY <1>1, <1>2, <1>3, <1>4

(* close() takes the connection out of the lists of its thread.            *)
LEMMA CloseLists ==
  ASSUME Typed, NEW t \in Threads, NEW c \in Clients, Handling(t, c), Close(t, c)
  PROVE  /\ ready' \in [Threads -> Seq(Items)] /\ batch' \in [Threads -> Seq(Items)]
         /\ Lists'
         /\ \A u \in Threads : u # t => Coming(u)' = Coming(u)
         /\ Coming(t)' = Coming(t) \ {c} /\ c \in Coming(t)
<1> DEFINE left == Kept(ready[t], Items \ {c})
<1>1. /\ ready \in [Threads -> Seq(Items)]
      /\ \A u \in Threads : IsInjective(ready[u])
  BY DEF Typed, TypeOK, Lists
<1>2. /\ left \in Seq(Items) /\ IsInjective(left)
      /\ ToSet(left) = ToSet(ready[t]) \cap (Items \ {c})
  BY <1>1, KeptItems
<1>3. ready' = [ready EXCEPT ![t] = left]
  BY DEF Close
<1> HIDE DEF left
<1>4. batch[t] # <<>> /\ Head(batch[t]) = c /\ batch' = [batch EXCEPT ![t] = Tail(@)]
  BY DEF Handling, Close
<1>5. /\ batch' \in [Threads -> Seq(Items)]
      /\ \A u \in Threads : IsInjective(batch'[u])
      /\ \A u \in Threads : u # t => batch'[u] = batch[u]
      /\ ToSet(batch[t]) = ToSet(batch'[t]) \cup {c}
      /\ c \notin ToSet(batch'[t])
  BY <1>4, TailLists
<1>6. ready'[t] = left /\ \A u \in Threads : u # t => ready'[u] = ready[u]
  BY <1>1, <1>3
<1>7. ready' \in [Threads -> Seq(Items)]
  BY <1>1, <1>2, <1>3
<1>8. ToSet(ready[t]) \subseteq Items
  BY <1>1 DEF ToSet
<1>9. Coming(t)' = Coming(t) \ {c} /\ c \in Coming(t)
  BY <1>2, <1>5, <1>6, <1>8 DEF Coming
<1>10. Lists'
  BY <1>1, <1>2, <1>5, <1>6 DEF Lists
<1> QED
  BY <1>5, <1>6, <1>7, <1>9, <1>10 DEF Coming

LEMMA AcceptLists ==
  ASSUME Typed, NEW t \in Threads, Accept(t)
  PROVE  /\ ready' \in [Threads -> Seq(Items)] /\ batch' \in [Threads -> Seq(Items)]
         /\ Lists'
         /\ Head(backlog) \in Clients
         /\ \A u \in Threads : u # t => Coming(u)' = Coming(u)
         /\ Coming(t)' \ {Listener} =
              (Coming(t) \ {Listener})
                \cup (IF Readable(Head(backlog)) THEN {Head(backlog)} ELSE {})
<1> DEFINE c == Head(backlog)
<1>1. /\ backlog \in Seq(Clients) /\ backlog # <<>>
      /\ ready \in [Threads -> Seq(Items)]
      /\ \A u \in Threads : IsInjective(ready[u])
  BY DEF history, Accept, Typed, TypeOK, Lists
<1>2. c \in Clients /\ c \in Items /\ c # Listener
  <2>1. c \in Clients
    BY <1>1, HeadTailProperties
  <2> QED
    BY <2>1, ClientsAssumption DEF Items
<1>3. /\ batch[t] # <<>> /\ Head(batch[t]) = Listener
      /\ batch' = [batch EXCEPT ![t] = Tail(@)]
      /\ ready' = IF Readable(c) THEN Edge({t}, c) ELSE ready
  BY DEF history, Accept, Handling
<1> HIDE DEF c
<1>4. /\ batch' \in [Threads -> Seq(Items)]
      /\ \A u \in Threads : IsInjective(batch'[u])
      /\ \A u \in Threads : u # t => batch'[u] = batch[u]
      /\ ToSet(batch[t]) = ToSet(batch'[t]) \cup {Listener}
  BY <1>3, TailLists
<1>5. /\ ready' \in [Threads -> Seq(Items)]
      /\ \A u \in Threads :
           /\ IsInjective(ready'[u])
           /\ ToSet(ready'[u]) = IF u = t /\ Readable(c) THEN ToSet(ready[u]) \cup {c}
                                 ELSE ToSet(ready[u])
  <2>1. CASE Readable(c)
    BY <2>1, <1>2, <1>3, EdgeLists
  <2>2. CASE ~Readable(c)
    BY <2>2, <1>1, <1>3
  <2> QED
    BY <2>1, <2>2
<1>6. Lists'
  BY <1>4, <1>5 DEF Lists
<1>7. \A u \in Threads : u # t => Coming(u)' = Coming(u)
  BY <1>4, <1>5 DEF Coming
<1>8. Coming(t)' \ {Listener} =
        (Coming(t) \ {Listener}) \cup (IF Readable(c) THEN {c} ELSE {})
  BY <1>2, <1>4, <1>5 DEF Coming
<1> QED
  BY <1>2, <1>4, <1>5, <1>6, <1>7, <1>8 DEF c

(* A connection that cannot be set up only uses up the event.              *)
LEMMA RefusedLists ==
  ASSUME Typed, NEW t \in Threads, AcceptRefused(t)
  PROVE  /\ batch' \in [Threads -> Seq(Items)] /\ ready' = ready
         /\ Lists'
         /\ \A u \in Threads : u # t => Coming(u)' = Coming(u)
         /\ Listener \in Coming(t)
         /\ Coming(t)' \ {Listener} = Coming(t) \ {Listener}
<1>1. /\ batch[t] # <<>> /\ Head(batch[t]) = Listener /\ ready' = ready
      /\ batch' = [batch EXCEPT ![t] = Tail(@)]
  BY DEF AcceptRefused, Handling
<1>2. /\ batch' \in [Threads -> Seq(Items)]
      /\ \A u \in Threads : IsInjective(batch'[u])
      /\ \A u \in Threads : u # t => batch'[u] = batch[u]
      /\ ToSet(batch[t]) = ToSet(batch'[t]) \cup {Listener}
  BY <1>1, TailLists
<1> QED
  BY <1>1, <1>2 DEF Typed, Lists, Coming

LEMMA AcceptNothingLists ==
  ASSUME Typed, NEW t \in Threads, AcceptNothing(t)
  PROVE  /\ batch' \in [Threads -> Seq(Items)] /\ ready' = ready
         /\ Lists'
         /\ dropped' \in SUBSET Items /\ dropped \subseteq dropped'
         /\ \A u \in Threads : u # t => Coming(u)' = Coming(u)
         /\ Coming(t)' \subseteq Coming(t)
         /\ Coming(t) \subseteq Coming(t)' \cup {Listener} \cup dropped'
<1> DEFINE quits == Cardinality(Open) < FdLimit
           rest == Tail(batch[t])
<1>1. /\ batch \in [Threads -> Seq(Items)] /\ dropped \in SUBSET Items
      /\ \A u \in Threads : IsInjective(ready[u]) /\ IsInjective(batch[u])
  BY DEF Typed, TypeOK, Lists
<1>2. /\ batch[t] # <<>> /\ Head(batch[t]) = Listener /\ ready' = ready
      /\ batch' = [batch EXCEPT ![t] = IF quits THEN <<>> ELSE rest]
      /\ dropped' = IF quits THEN dropped \cup ToSet(rest) ELSE dropped
  BY DEF AcceptNothing, Handling, kernel
<1>3. /\ rest \in Seq(Items) /\ IsInjective(rest)
      /\ ToSet(batch[t]) = ToSet(rest) \cup {Listener}
  <2>1. batch[t] \in Seq(Items) /\ IsInjective(batch[t])
    BY <1>1
  <2> QED
    BY <2>1, <1>2, TailItems
<1> HIDE DEF quits, rest
<1>4. <<>> \in Seq(Items) /\ ToSet(<<>>) = {} /\ IsInjective(<<>>)
  BY DEF ToSet, IsInjective
<1>5. ToSet(rest) \subseteq Items
  BY <1>3 DEF ToSet
<1>6. /\ batch'[t] = (IF quits THEN <<>> ELSE rest)
      /\ \A u \in Threads : u # t => batch'[u] = batch[u]
  BY <1>1, <1>2
<1>7. batch' \in [Threads -> Seq(Items)]
  BY <1>1, <1>2, <1>3, <1>4
<1>8. Lists'
  BY <1>1, <1>2, <1>3, <1>4, <1>6 DEF Lists
<1>9. /\ Coming(t)' \subseteq Coming(t)
      /\ Coming(t) \subseteq Coming(t)' \cup {Listener} \cup dropped'
  BY <1>2, <1>3, <1>4, <1>6 DEF Coming
<1>10. dropped' \in SUBSET Items /\ dropped \subseteq dropped'
  BY <1>1, <1>2, <1>5
<1>11. \A u \in Threads : u # t => Coming(u)' = Coming(u)
  BY <1>2, <1>6 DEF Coming
<1> QED
  BY <1>2, <1>7, <1>8, <1>9, <1>10, <1>11

(* read() found nothing: the event is done with, and nothing else.         *)
LEMMA SkipLists ==
  ASSUME Typed, NEW t \in Threads, NEW c \in Clients, Handling(t, c),
         batch' = [batch EXCEPT ![t] = Tail(@)], ready' = ready
  PROVE  /\ batch' \in [Threads -> Seq(Items)]
         /\ Lists'
         /\ \A u \in Threads : u # t => Coming(u)' = Coming(u)
         /\ Coming(t) = Coming(t)' \cup {c}
<1>1. /\ batch' \in [Threads -> Seq(Items)]
      /\ \A u \in Threads : IsInjective(batch'[u])
      /\ \A u \in Threads : u # t => batch'[u] = batch[u]
      /\ ToSet(batch[t]) = ToSet(batch'[t]) \cup {c}
  BY TailLists DEF Handling
<1> QED
  BY <1>1 DEF Typed, Lists, Coming

-----------------------------------------------------------------------------
(* Types                                                                   *)

LEMMA FillType ==
  ASSUME TypeOK, RL!Fill(1)
  PROVE  tokens' \in 0 .. MaxTokens
<1>1. MaxTokens \in Nat /\ RefillRate \in Nat
  BY LimitsAssumption
<1>2. tokens \in 0 .. MaxTokens
  BY DEF TypeOK
<1>3. RefillRate * 1 = RefillRate
  BY <1>1
<1>4. tokens' = IF tokens + RefillRate > MaxTokens THEN MaxTokens
                ELSE tokens + RefillRate
  BY <1>3 DEF RL!Fill, RL!Brim
<1> QED
  BY <1>1, <1>2, <1>4

LEMMA AnswerType ==
  ASSUME TypeOK, NEW c \in Clients, Answer(c)
  PROVE  /\ tokens' \in 0 .. MaxTokens
         /\ reply' \in [Clients -> {"none", "429", "served"}]
         /\ reply'[c] # "none"
         /\ \A d \in Clients : d # c => reply'[d] = reply[d]
<1>1. /\ tokens \in 0 .. MaxTokens /\ MaxTokens \in Nat
      /\ reply \in [Clients -> {"none", "429", "served"}]
  BY LimitsAssumption DEF TypeOK
<1>2. tokens' \in 0 .. MaxTokens
  BY <1>1 DEF Answer, RL!Empty, RL!Take
<1>3. \E r \in {"429", "served"} : reply' = [reply EXCEPT ![c] = r]
  BY DEF Answer
<1> QED
  BY <1>1, <1>2, <1>3

LEMMA ConnectTyped ==
  ASSUME Typed, NEW c \in Clients, Connect(c)
  PROVE  Typed'
<1>1. /\ backlog \in Seq(Clients) /\ overrun \in BOOLEAN
      /\ conn \in [Clients -> {"away", "waiting", "open", "closed"}]
  BY DEF Typed, TypeOK
<1>2. /\ backlog' = Append(backlog, c) /\ ready' = Edge(Threads, Listener)
      /\ conn[c] = "away" /\ conn' = [conn EXCEPT ![c] = "waiting"]
      /\ overrun' = (overrun \/ Len(backlog) >= Cardinality(Threads))
      /\ UNCHANGED <<owner, inbox, fin, batch, reply, tokens, sent, dropped, refused, reset>>
  BY DEF Connect, Watchers
<1>3. /\ backlog' \in Seq(Clients) /\ overrun' \in BOOLEAN
      /\ conn' \in [Clients -> {"away", "waiting", "open", "closed"}]
  BY <1>1, <1>2
<1>4. Listener \in Items
  BY DEF Items
<1>5. /\ ready' \in [Threads -> Seq(Items)]
      /\ \A t \in Threads : IsInjective(ready'[t])
  BY <1>2, <1>4, EdgeLists
<1>6. InboxExact' /\ ResetsEnd'
  BY <1>1, <1>2 DEF Typed, InboxExact, ResetsEnd
<1> QED
  BY <1>2, <1>3, <1>5, <1>6 DEF Typed, TypeOK, Lists

LEMMA ArriveTyped ==
  ASSUME Typed, NEW c \in Clients, Send(c) \/ HangUp(c) \/ Reset(c)
  PROVE  Typed'
<1>1. /\ ready' = Edge({owner[c]}, c) /\ conn[c] \in {"waiting", "open"}
      /\ UNCHANGED <<backlog, conn, owner, batch, reply, tokens, dropped>>
      /\ UNCHANGED <<refused, overrun>>
  BY DEF history, Send, HangUp, Reset
<1>2. /\ inbox' \in [Clients -> 0 .. MaxSends] /\ sent' \in [Clients -> 0 .. MaxSends]
      /\ fin' \in [Clients -> BOOLEAN] /\ reset' \in SUBSET Clients /\ InboxExact'
  <2>1. /\ inbox \in [Clients -> 0 .. MaxSends] /\ sent \in [Clients -> 0 .. MaxSends]
        /\ fin \in [Clients -> BOOLEAN] /\ MaxSends \in Nat
        /\ reset \in SUBSET Clients /\ InboxExact
    BY LimitsAssumption DEF Typed, TypeOK
  <2>2. CASE Send(c)
    <3>1. /\ sent' = [sent EXCEPT ![c] = @ + 1] /\ inbox' = [inbox EXCEPT ![c] = @ + 1]
          /\ sent[c] < MaxSends /\ fin' = fin /\ reset' = reset
          /\ c \in reset => fin[c]
      BY <2>2 DEF Send, Typed, ResetsEnd
    <3>2. ~fin[c]
      BY <2>2 DEF Send
    <3>3. inbox[c] = sent[c]
      BY <2>1, <1>1, <3>1, <3>2 DEF InboxExact
    <3>4. sent[c] + 1 \in 0 .. MaxSends
      BY <2>1, <3>1
    <3> QED
      BY <2>1, <3>1, <3>3, <3>4, <1>1 DEF InboxExact
  <2>3. CASE HangUp(c)
    BY <2>1, <2>3, <1>1 DEF history, HangUp, InboxExact
  <2>4. CASE Reset(c)
    <3>1. /\ reset' = reset \cup {c} /\ sent' = sent
          /\ fin' = [fin EXCEPT ![c] = TRUE] /\ inbox' = [inbox EXCEPT ![c] = 0]
      BY <2>4 DEF Reset
    <3> QED
      BY <2>1, <3>1, <1>1 DEF InboxExact
  <2> QED
    BY <2>2, <2>3, <2>4
<1>3. c \in Items
  BY DEF Items
<1>4. /\ ready' \in [Threads -> Seq(Items)]
      /\ \A t \in Threads : IsInjective(ready'[t])
  BY <1>1, <1>3, EdgeLists
<1>5. ResetsEnd'
  BY DEF history, Send, HangUp, Reset, Typed, TypeOK, ResetsEnd
<1> QED
  BY <1>1, <1>2, <1>4, <1>5 DEF Typed, TypeOK, Lists

LEMMA TickTyped ==
  ASSUME Typed, Tick
  PROVE  Typed'
<1>1. tokens' \in 0 .. MaxTokens
  BY FillType DEF history, Tick, Typed
<1> QED
  BY <1>1 DEF Tick, kernel, history, Typed, TypeOK, Lists, InboxExact, ResetsEnd

LEMMA WaitTyped ==
  ASSUME Typed, NEW t \in Threads, Wait(t)
  PROVE  Typed'
<1>1. ready' \in [Threads -> Seq(Items)] /\ batch' \in [Threads -> Seq(Items)] /\ Lists'
  BY WaitLists
<1> QED
  BY <1>1 DEF history, Wait, Typed, TypeOK, InboxExact, ResetsEnd

LEMMA AcceptTyped ==
  ASSUME Typed, NEW t \in Threads, Accept(t), conn[Head(backlog)] # "closed"
  PROVE  Typed'
<1> DEFINE c == Head(backlog)
<1>1. /\ ready' \in [Threads -> Seq(Items)] /\ batch' \in [Threads -> Seq(Items)]
      /\ Lists' /\ c \in Clients
  BY AcceptLists
<1>2. backlog \in Seq(Clients) /\ backlog # <<>> /\ backlog' = Tail(backlog)
  BY DEF history, Accept, Typed, TypeOK
<1>3. backlog' \in Seq(Clients)
  BY <1>2, HeadTailProperties
<1>4. conn' = [conn EXCEPT ![c] = "open"] /\ owner' = [owner EXCEPT ![c] = t]
  BY DEF history, Accept
<1>5. UNCHANGED <<inbox, fin, reply, tokens, sent, dropped, refused, reset, overrun>>
  BY DEF history, Accept
<1>6. conn[c] # "closed"
  OBVIOUS
<1> HIDE DEF c
<1>7. /\ conn \in [Clients -> {"away", "waiting", "open", "closed"}]
      /\ owner \in [Clients -> Threads \cup {NoThread}]
      /\ InboxExact
  BY DEF Typed, TypeOK
<1>8. /\ conn' \in [Clients -> {"away", "waiting", "open", "closed"}]
      /\ owner' \in [Clients -> Threads \cup {NoThread}]
      /\ InboxExact'
  BY <1>1, <1>4, <1>5, <1>6, <1>7 DEF InboxExact
<1> QED
  BY <1>1, <1>3, <1>5, <1>8 DEF Typed, TypeOK, ResetsEnd

LEMMA RefusedTyped ==
  ASSUME Typed, NEW t \in Threads, AcceptRefused(t)
  PROVE  Typed'
<1> DEFINE c == Head(backlog)
<1>1. batch' \in [Threads -> Seq(Items)] /\ ready' = ready /\ Lists'
  BY RefusedLists
<1>2. backlog \in Seq(Clients) /\ backlog # <<>> /\ backlog' = Tail(backlog)
  BY DEF AcceptRefused, Typed, TypeOK
<1>3. c \in Clients /\ backlog' \in Seq(Clients)
  BY <1>2, HeadTailProperties
<1>4. /\ conn' = [conn EXCEPT ![c] = "closed"] /\ owner' = [owner EXCEPT ![c] = t]
      /\ refused' = refused \cup {c}
      /\ UNCHANGED <<inbox, fin, reply, tokens, sent, dropped, reset, overrun>>
  BY DEF AcceptRefused
<1> HIDE DEF c
<1>5. /\ conn \in [Clients -> {"away", "waiting", "open", "closed"}]
      /\ owner \in [Clients -> Threads \cup {NoThread}]
      /\ refused \in SUBSET Clients /\ InboxExact
  BY DEF Typed, TypeOK
<1>6. /\ conn' \in [Clients -> {"away", "waiting", "open", "closed"}]
      /\ owner' \in [Clients -> Threads \cup {NoThread}]
      /\ refused' \in SUBSET Clients /\ InboxExact'
  BY <1>3, <1>4, <1>5 DEF InboxExact
<1> QED
  BY <1>1, <1>3, <1>4, <1>6 DEF Typed, TypeOK, ResetsEnd

LEMMA AcceptNothingTyped ==
  ASSUME Typed, NEW t \in Threads, AcceptNothing(t)
  PROVE  Typed'
<1>1. /\ batch' \in [Threads -> Seq(Items)] /\ ready' = ready /\ Lists'
      /\ dropped' \in SUBSET Items
  BY AcceptNothingLists
<1>2. /\ UNCHANGED <<backlog, conn, owner, inbox, fin, reply, tokens, sent>>
      /\ UNCHANGED <<refused, reset>> /\ overrun' \in BOOLEAN
  BY DEF AcceptNothing, kernel
<1> QED
  BY <1>1, <1>2 DEF Typed, TypeOK, InboxExact, ResetsEnd

LEMMA ServeTyped ==
  ASSUME Typed, NEW t \in Threads, NEW c \in Clients, Serve(t, c)
  PROVE  Typed'
<1>1. /\ ready' \in [Threads -> Seq(Items)] /\ batch' \in [Threads -> Seq(Items)]
      /\ Lists'
  BY CloseLists DEF history, Serve
<1>2. /\ tokens' \in 0 .. MaxTokens
      /\ reply' \in [Clients -> {"none", "429", "served"}]
  BY AnswerType DEF history, Serve, Typed
<1>3. /\ inbox' = [inbox EXCEPT ![c] = 0]
      /\ conn' = [conn EXCEPT ![c] = "closed"]
      /\ UNCHANGED <<backlog, owner, fin, sent, dropped, refused, reset, overrun>>
  BY DEF history, Serve, Close
<1>4. /\ inbox \in [Clients -> 0 .. MaxSends] /\ MaxSends \in Nat /\ InboxExact
      /\ conn \in [Clients -> {"away", "waiting", "open", "closed"}]
  BY LimitsAssumption DEF Typed, TypeOK
<1>5. /\ inbox' \in [Clients -> 0 .. MaxSends] /\ InboxExact'
      /\ conn' \in [Clients -> {"away", "waiting", "open", "closed"}]
  BY <1>3, <1>4 DEF InboxExact
<1> QED
  BY <1>1, <1>2, <1>3, <1>5 DEF Typed, TypeOK, ResetsEnd

LEMMA ReadNothingTyped ==
  ASSUME Typed, NEW t \in Threads, NEW c \in Clients, ReadNothing(t, c)
  PROVE  Typed'
<1>1. UNCHANGED <<backlog, owner, inbox, fin, reply, tokens, sent, dropped,
                  refused, reset, overrun>>
  BY DEF history, ReadNothing
<1>2. /\ ready' \in [Threads -> Seq(Items)] /\ batch' \in [Threads -> Seq(Items)]
      /\ Lists' /\ conn' \in [Clients -> {"away", "waiting", "open", "closed"}]
      /\ InboxExact'
  <2>1. /\ conn \in [Clients -> {"away", "waiting", "open", "closed"}]
        /\ ready \in [Threads -> Seq(Items)] /\ InboxExact
    BY DEF Typed, TypeOK
  <2>2. CASE fin[c]
    <3>1. Handling(t, c) /\ Close(t, c)
      BY <2>2 DEF history, ReadNothing
    <3>2. conn' = [conn EXCEPT ![c] = "closed"]
      BY <3>1 DEF Close
    <3>3. /\ ready' \in [Threads -> Seq(Items)] /\ batch' \in [Threads -> Seq(Items)]
          /\ Lists'
      BY <3>1, CloseLists
    <3> QED
      BY <2>1, <3>2, <3>3, <1>1 DEF InboxExact
  <2>3. CASE ~fin[c]
    <3>1. /\ Handling(t, c) /\ batch' = [batch EXCEPT ![t] = Tail(@)]
          /\ ready' = ready /\ conn' = conn
      BY <2>3 DEF history, ReadNothing
    <3>2. batch' \in [Threads -> Seq(Items)] /\ Lists'
      BY <3>1, SkipLists
    <3> QED
      BY <2>1, <3>1, <3>2, <1>1 DEF InboxExact
  <2> QED
    BY <2>2, <2>3
<1> QED
  BY <1>1, <1>2 DEF Typed, TypeOK, ResetsEnd

-----------------------------------------------------------------------------
(***************************************************************************)
(* The stages of a connection: nobody owns it before it is accepted, its   *)
(* thread from then on; the accept queue holds connections that wait, each *)
(* once; one that is closed without a response sent nothing.               *)
(***************************************************************************)
Stages ==
  /\ \A c \in Clients :
       /\ conn[c] \in {"away", "waiting"} => owner[c] = NoThread
       /\ conn[c] \in {"open", "closed"} => owner[c] \in Threads
  /\ IsInjective(backlog)
  /\ \A c \in ToSet(backlog) : conn[c] = "waiting"

Base == Typed /\ Stages /\ ClosedAnswered

LEMMA WaitingHead ==
  ASSUME Base, backlog # <<>>
  PROVE  /\ Head(backlog) \in Clients /\ conn[Head(backlog)] = "waiting"
         /\ Len(Tail(backlog)) = Len(backlog) - 1
         /\ IsInjective(Tail(backlog))
         /\ \A c \in ToSet(Tail(backlog)) :
              c \in Clients /\ conn[c] = "waiting" /\ c # Head(backlog)
<1>1. /\ backlog \in Seq(Clients) /\ IsInjective(backlog)
      /\ \A c \in ToSet(backlog) : conn[c] = "waiting"
  BY DEF Base, Typed, TypeOK, Stages
<1>2. /\ Head(backlog) \in Clients /\ Tail(backlog) \in Seq(Clients)
      /\ Len(Tail(backlog)) = Len(backlog) - 1
      /\ ToSet(backlog) = ToSet(Tail(backlog)) \cup {Head(backlog)}
      /\ IsInjective(Tail(backlog)) /\ Head(backlog) \notin ToSet(Tail(backlog))
  BY <1>1, TailItems
<1>3. ToSet(Tail(backlog)) \subseteq Clients
  BY <1>2 DEF ToSet
<1> QED
  BY <1>1, <1>2, <1>3

LEMMA ConnectBase ==
  ASSUME Base, NEW c \in Clients, Connect(c)
  PROVE  Base'
<1>1. Typed'
  BY ConnectTyped DEF Base
<1>2. /\ backlog \in Seq(Clients) /\ IsInjective(backlog)
      /\ \A d \in ToSet(backlog) : conn[d] = "waiting"
      /\ conn \in [Clients -> {"away", "waiting", "open", "closed"}]
  BY DEF Base, Typed, TypeOK, Stages
<1>3. /\ conn[c] = "away" /\ conn' = [conn EXCEPT ![c] = "waiting"]
      /\ backlog' = Append(backlog, c)
      /\ UNCHANGED <<owner, reply, fin, sent, refused, reset>>
  BY DEF Connect
<1>4. c \notin ToSet(backlog) /\ ToSet(backlog) \subseteq Clients
  BY <1>2, <1>3 DEF ToSet
<1>5. /\ IsInjective(backlog') /\ ToSet(backlog') = ToSet(backlog) \cup {c}
  BY <1>2, <1>3, <1>4, AppendSet
<1>6. Stages'
  BY <1>2, <1>3, <1>4, <1>5 DEF Base, Stages
<1>7. ClosedAnswered'
  BY <1>2, <1>3 DEF Base, ClosedAnswered
<1> QED
  BY <1>1, <1>6, <1>7 DEF Base

LEMMA ArriveBase ==
  ASSUME Base, NEW c \in Clients, Send(c) \/ HangUp(c) \/ Reset(c)
  PROVE  Base'
<1>1. Typed'
  BY ArriveTyped DEF Base
<1>2. /\ UNCHANGED <<backlog, conn, owner, reply>> /\ conn[c] \in {"waiting", "open"}
  BY DEF history, Send, HangUp, Reset
<1>3. /\ \A d \in Clients : d # c => fin'[d] = fin[d] /\ sent'[d] = sent[d]
      /\ refused' = refused /\ reset \subseteq reset'
  BY DEF history, Send, HangUp, Reset, Base, Typed, TypeOK
<1>4. Stages'
  BY <1>2 DEF Base, Stages
<1>5. ClosedAnswered'
  BY <1>2, <1>3 DEF Base, ClosedAnswered
<1> QED
  BY <1>1, <1>4, <1>5 DEF Base

LEMMA AcceptBase ==
  ASSUME Base, NEW t \in Threads, Accept(t)
  PROVE  Base'
<1> DEFINE c == Head(backlog)
<1>1. backlog # <<>> /\ backlog' = Tail(backlog)
  BY DEF history, Accept
<1>2. /\ c \in Clients /\ conn[c] = "waiting" /\ IsInjective(Tail(backlog))
      /\ \A d \in ToSet(Tail(backlog)) : d \in Clients /\ conn[d] = "waiting" /\ d # c
  BY <1>1, WaitingHead
<1>3. Typed'
  BY <1>2, AcceptTyped DEF Base
<1>4. /\ conn' = [conn EXCEPT ![c] = "open"] /\ owner' = [owner EXCEPT ![c] = t]
      /\ UNCHANGED <<reply, fin, sent, refused, reset>>
  BY DEF history, Accept
<1> HIDE DEF c
<1>5. /\ conn \in [Clients -> {"away", "waiting", "open", "closed"}]
      /\ owner \in [Clients -> Threads \cup {NoThread}]
  BY DEF Base, Typed, TypeOK
<1>6. Stages'
  BY <1>1, <1>2, <1>4, <1>5 DEF Base, Stages
<1>7. ClosedAnswered'
  BY <1>2, <1>4, <1>5 DEF Base, ClosedAnswered
<1> QED
  BY <1>3, <1>6, <1>7 DEF Base

LEMMA RefusedBase ==
  ASSUME Base, NEW t \in Threads, AcceptRefused(t)
  PROVE  Base'
<1> DEFINE c == Head(backlog)
<1>1. backlog # <<>> /\ backlog' = Tail(backlog)
  BY DEF AcceptRefused
<1>2. /\ c \in Clients /\ conn[c] = "waiting" /\ IsInjective(Tail(backlog))
      /\ \A d \in ToSet(Tail(backlog)) : d \in Clients /\ conn[d] = "waiting" /\ d # c
  BY <1>1, WaitingHead
<1>3. Typed'
  BY RefusedTyped DEF Base
<1>4. /\ conn' = [conn EXCEPT ![c] = "closed"] /\ owner' = [owner EXCEPT ![c] = t]
      /\ refused' = refused \cup {c} /\ UNCHANGED <<reply, fin, sent, reset>>
  BY DEF AcceptRefused
<1> HIDE DEF c
<1>5. /\ conn \in [Clients -> {"away", "waiting", "open", "closed"}]
      /\ owner \in [Clients -> Threads \cup {NoThread}]
  BY DEF Base, Typed, TypeOK
<1>6. Stages'
  BY <1>1, <1>2, <1>4, <1>5 DEF Base, Stages
<1>7. ClosedAnswered'
  BY <1>2, <1>4, <1>5 DEF Base, ClosedAnswered
<1> QED
  BY <1>3, <1>6, <1>7 DEF Base

(* A thread closes only what it owns.                                      *)
LEMMA CloseBase ==
  ASSUME Base, NEW t \in Threads, NEW c \in Clients,
         conn[c] = "open", owner[c] = t, Serve(t, c) \/ ReadNothing(t, c)
  PROVE  Base'
<1>1. Typed'
  BY ServeTyped, ReadNothingTyped DEF Base
<1>2. /\ conn \in [Clients -> {"away", "waiting", "open", "closed"}]
      /\ conn' = [conn EXCEPT ![c] = "closed"] \/ conn' = conn
      /\ UNCHANGED <<backlog, owner, fin, sent, refused, reset>>
  BY DEF history, Serve, ReadNothing, Close, Base, Typed, TypeOK
<1>3. ToSet(backlog) \subseteq Clients
  BY DEF ToSet, Base, Typed, TypeOK
<1>4. Stages'
  BY <1>2, <1>3 DEF Base, Stages
<1>5. ClosedAnswered'
  <2>1. CASE Serve(t, c)
    <3>1. reply'[c] # "none" /\ \A d \in Clients : d # c => reply'[d] = reply[d]
      BY <2>1, AnswerType DEF history, Serve, Base, Typed
    <3> QED
      BY <1>2, <3>1 DEF Base, ClosedAnswered
  <2>2. CASE ReadNothing(t, c)
    <3>1. inbox[c] = 0 /\ UNCHANGED reply /\ (conn' = conn \/ fin[c])
      BY <2>2 DEF history, ReadNothing
    <3>2. sent[c] = 0 \/ c \in reset
      BY <3>1 DEF Base, Typed, InboxExact
    <3> QED
      BY <1>2, <3>1, <3>2 DEF Base, ClosedAnswered
  <2> QED
    BY <2>1, <2>2
<1> QED
  BY <1>1, <1>4, <1>5 DEF Base

LEMMA QuietBase ==
  ASSUME Base, NEW t \in Threads, Wait(t) \/ AcceptNothing(t) \/ Tick
  PROVE  Base'
<1>1. Typed'
  BY WaitTyped, AcceptNothingTyped, TickTyped DEF Base
<1>2. UNCHANGED <<backlog, conn, owner, reply, fin, sent, refused, reset>>
  BY DEF history, Wait, AcceptNothing, Tick, kernel
<1> QED
  BY <1>1, <1>2 DEF Base, Stages, ClosedAnswered

-----------------------------------------------------------------------------
(***************************************************************************)
(* The edges.  What comes to a thread is a connection it holds open, what  *)
(* is readable comes to its owner, and as many threads are to be woken for *)
(* the listening socket as clients wait in the accept queue.               *)
(***************************************************************************)
Current ==
  \A t \in Threads, c \in Clients : c \in Coming(t) => conn[c] = "open" /\ owner[c] = t

Covered ==
  \A c \in Clients :
    conn[c] = "open" /\ Readable(c) => c \in Coming(owner[c]) \/ c \in dropped

Wakers == {t \in Threads : Listener \in Coming(t)}

QueueCovered == overrun \/ Len(backlog) <= Cardinality(Wakers)

Edges == Current /\ Covered /\ QueueCovered

IInv == Base /\ Edges

LEMMA WakersCount ==
  /\ IsFiniteSet(Wakers) /\ Cardinality(Wakers) \in Nat
  /\ IsFiniteSet(Wakers') /\ Cardinality(Wakers') \in Nat
  /\ Cardinality(Threads) \in Nat
<1>1. Wakers \subseteq Threads /\ Wakers' \subseteq Threads
  BY DEF Wakers
<1> QED
  BY <1>1, ThreadsAssumption, FS_Subset, FS_CardinalityType

LEMMA ConnectEdges ==
  ASSUME IInv, NEW c \in Clients, Connect(c)
  PROVE  Edges'
<1>1. /\ Typed /\ Current /\ Covered
      /\ conn \in [Clients -> {"away", "waiting", "open", "closed"}]
      /\ backlog \in Seq(Clients)
  BY DEF IInv, Edges, Base, Typed, TypeOK
<1>2. /\ conn[c] = "away" /\ conn' = [conn EXCEPT ![c] = "waiting"]
      /\ backlog' = Append(backlog, c) /\ ready' = Edge(Threads, Listener)
      /\ overrun' = (overrun \/ Len(backlog) >= Cardinality(Threads))
      /\ UNCHANGED <<owner, inbox, fin, batch, dropped>>
  BY DEF Connect, Watchers
<1>3. Listener \in Items /\ Listener \notin Clients
  BY ClientsAssumption DEF Items
<1>4. \A t \in Threads : Coming(t)' = Coming(t) \cup {Listener}
  BY <1>1, <1>2, <1>3, EdgeLists DEF Coming
<1>5. Current'
  BY <1>1, <1>2, <1>3, <1>4 DEF Current
<1>6. \A d \in Clients : conn'[d] = "open" => conn[d] = "open" /\ owner[d] \in Threads
  BY <1>1, <1>2 DEF IInv, Base, Stages
<1>7. \A d \in Clients : Readable(d)' <=> Readable(d)
  BY <1>2, <1>3 DEF Readable
<1>8. Covered'
  BY <1>1, <1>2, <1>4, <1>6, <1>7 DEF Covered
<1>9. QueueCovered'
  <2>1. Wakers' = Threads
    BY <1>4 DEF Wakers
  <2>2. Len(backlog') = Len(backlog) + 1 /\ Len(backlog) \in Nat
    BY <1>1, <1>2
  <2>3. Cardinality(Threads) \in Nat
    BY WakersCount
  <2>4. overrun' \/ Len(backlog') <= Cardinality(Threads)
    <3>1. CASE Len(backlog) >= Cardinality(Threads)
      BY <1>2, <3>1
    <3>2. CASE ~(Len(backlog) >= Cardinality(Threads))
      BY <2>2, <2>3, <3>2
    <3> QED
      BY <3>1, <3>2
  <2> QED
    BY <2>1, <2>4 DEF QueueCovered
<1> QED
  BY <1>5, <1>8, <1>9 DEF Edges

LEMMA ArriveEdges ==
  ASSUME IInv, NEW c \in Clients, Send(c) \/ HangUp(c) \/ Reset(c)
  PROVE  Edges'
<1>1. /\ Typed /\ Current /\ Covered /\ QueueCovered /\ Stages
      /\ inbox \in [Clients -> 0 .. MaxSends] /\ fin \in [Clients -> BOOLEAN]
  BY DEF IInv, Edges, Base, Typed, TypeOK
<1>2. /\ conn[c] \in {"waiting", "open"} /\ ready' = Edge({owner[c]}, c)
      /\ UNCHANGED <<backlog, conn, owner, batch, dropped, overrun>>
  BY DEF history, Send, HangUp, Reset
<1>3. c \in Items /\ c # Listener /\ Listener \notin Clients
  BY ClientsAssumption DEF Items
<1>4. \A t \in Threads :
        Coming(t)' = IF t = owner[c] THEN Coming(t) \cup {c} ELSE Coming(t)
  <2>1. \A t \in Threads :
          ToSet(ready'[t]) = IF t \in {owner[c]} THEN ToSet(ready[t]) \cup {c}
                             ELSE ToSet(ready[t])
    BY <1>1, <1>2, <1>3, EdgeLists
  <2> QED
    BY <1>2, <2>1 DEF Coming
<1>5. owner[c] \in Threads => conn[c] = "open"
  BY <1>1, <1>2, ThreadsAssumption DEF Stages
<1>6. Current'
  BY <1>1, <1>2, <1>4, <1>5 DEF Current
<1>7. \A d \in Clients : d # c => (Readable(d)' <=> Readable(d))
  BY <1>1, <1>3 DEF history, Readable, Send, HangUp, Reset
<1>8. \A d \in Clients : conn[d] = "open" => owner[d] \in Threads
  BY <1>1 DEF Stages
<1>9. Covered'
  BY <1>1, <1>2, <1>4, <1>7, <1>8 DEF Covered
<1>10. Wakers' = Wakers
  BY <1>3, <1>4 DEF Wakers
<1>11. QueueCovered'
  BY <1>1, <1>2, <1>10 DEF QueueCovered
<1> QED
  BY <1>6, <1>9, <1>11 DEF Edges

LEMMA TickEdges ==
  ASSUME IInv, Tick
  PROVE  Edges'
<1>1. UNCHANGED <<backlog, ready, conn, owner, inbox, fin, batch, dropped, overrun>>
  BY DEF history, Tick, kernel
<1> QED
  BY <1>1 DEF IInv, Edges, Current, Covered, QueueCovered, Wakers, Coming, Readable

LEMMA WaitEdges ==
  ASSUME IInv, NEW t \in Threads, Wait(t)
  PROVE  Edges'
<1>1. /\ Typed /\ Current /\ Covered /\ QueueCovered /\ Stages
      /\ backlog \in Seq(Clients)
  BY DEF IInv, Edges, Base, Typed, TypeOK
<1>2. UNCHANGED <<backlog, conn, owner, inbox, fin, dropped, overrun>>
  BY DEF history, Wait
<1>3. /\ \A u \in Threads : u # t => Coming(u)' = Coming(u)
      /\ Coming(t)' = {i \in Coming(t) : Readable(i)}
  BY <1>1, WaitLists
<1>4. Current'
  BY <1>1, <1>2, <1>3 DEF Current
<1>5. \A c \in Clients : Readable(c)' <=> Readable(c)
  BY <1>2 DEF Readable
<1>6. Covered'
  BY <1>1, <1>2, <1>3, <1>5 DEF Covered, Stages
<1>7. QueueCovered'
  <2>1. CASE backlog = <<>>
    BY <2>1, <1>2, WakersCount DEF QueueCovered
  <2>2. CASE backlog # <<>>
    <3>1. Wakers' = Wakers
      BY <2>2, <1>3 DEF Wakers, Readable
    <3> QED
      BY <3>1, <1>1, <1>2 DEF QueueCovered
  <2> QED
    BY <2>1, <2>2
<1> QED
  BY <1>4, <1>6, <1>7 DEF Edges

LEMMA AcceptEdges ==
  ASSUME IInv, NEW t \in Threads, Accept(t)
  PROVE  Edges'
<1> DEFINE c == Head(backlog)
<1>1. /\ Base /\ Typed /\ Current /\ Covered /\ QueueCovered /\ Stages
      /\ backlog \in Seq(Clients)
      /\ conn \in [Clients -> {"away", "waiting", "open", "closed"}]
      /\ owner \in [Clients -> Threads \cup {NoThread}]
  BY DEF IInv, Edges, Base, Typed, TypeOK
<1>2. backlog # <<>> /\ backlog' = Tail(backlog)
  BY DEF history, Accept
<1>3. /\ c \in Clients /\ conn[c] = "waiting" /\ Len(Tail(backlog)) = Len(backlog) - 1
  BY <1>1, <1>2, WaitingHead
<1>4. /\ conn' = [conn EXCEPT ![c] = "open"] /\ owner' = [owner EXCEPT ![c] = t]
      /\ UNCHANGED <<inbox, fin, dropped, overrun>>
      /\ Handling(t, Listener)
  BY DEF history, Accept
<1>5. /\ \A u \in Threads : u # t => Coming(u)' = Coming(u)
      /\ Coming(t)' \ {Listener} =
           (Coming(t) \ {Listener}) \cup (IF Readable(c) THEN {c} ELSE {})
  BY <1>1, AcceptLists
<1> HIDE DEF c
<1>6. Listener \notin Clients
  BY ClientsAssumption
<1>7. /\ \A d \in Clients : d \in Coming(t)' <=> d \in Coming(t) \/ (d = c /\ Readable(c))
      /\ \A d \in Clients : Readable(d)' <=> Readable(d)
  BY <1>4, <1>5, <1>6 DEF Readable
<1>8. \A u \in Threads : c \notin Coming(u)
  BY <1>1, <1>3 DEF Current
<1>9. /\ conn'[c] = "open" /\ owner'[c] = t
      /\ \A d \in Clients : d # c => conn'[d] = conn[d] /\ owner'[d] = owner[d]
  BY <1>1, <1>3, <1>4
<1>10. Current'
  BY <1>1, <1>5, <1>7, <1>8, <1>9 DEF Current
<1>11. Covered'
  <2>1. \A d \in Clients : conn[d] = "open" => owner[d] \in Threads
    BY <1>1 DEF Stages
  <2> QED
    BY <1>1, <1>4, <1>5, <1>7, <1>9, <2>1 DEF Covered
<1>12. QueueCovered'
  <2>1. t \in Wakers
    <3>1. batch[t] \in Seq(Items) /\ batch[t] # <<>> /\ Head(batch[t]) = Listener
      BY <1>1, <1>4 DEF Handling, Typed, TypeOK
    <3>2. ToSet(batch[t]) = ToSet(Tail(batch[t])) \cup {Listener}
      BY <3>1, TailItems
    <3> QED
      BY <3>2 DEF Wakers, Coming
  <2>2. Wakers \ {t} \subseteq Wakers'
    BY <1>5 DEF Wakers
  <2>3. Cardinality(Wakers \ {t}) = Cardinality(Wakers) - 1
    BY <2>1, WakersCount, FS_RemoveElement
  <2>4. Cardinality(Wakers \ {t}) <= Cardinality(Wakers')
    BY <2>2, WakersCount, FS_Subset
  <2>5. Len(backlog) \in Nat
    BY <1>1
  <2> QED
    BY <1>1, <1>2, <1>3, <1>4, <2>3, <2>4, <2>5, WakersCount DEF QueueCovered
<1> QED
  BY <1>10, <1>11, <1>12 DEF Edges

LEMMA RefusedEdges ==
  ASSUME IInv, NEW t \in Threads, AcceptRefused(t)
  PROVE  Edges'
<1> DEFINE c == Head(backlog)
<1>1. /\ Base /\ Typed /\ Current /\ Covered /\ QueueCovered /\ Stages
      /\ backlog \in Seq(Clients)
      /\ conn \in [Clients -> {"away", "waiting", "open", "closed"}]
      /\ owner \in [Clients -> Threads \cup {NoThread}]
  BY DEF IInv, Edges, Base, Typed, TypeOK
<1>2. backlog # <<>> /\ backlog' = Tail(backlog)
  BY DEF AcceptRefused
<1>3. /\ c \in Clients /\ conn[c] = "waiting" /\ Len(Tail(backlog)) = Len(backlog) - 1
  BY <1>1, <1>2, WaitingHead
<1>4. /\ conn' = [conn EXCEPT ![c] = "closed"] /\ owner' = [owner EXCEPT ![c] = t]
      /\ UNCHANGED <<inbox, fin, dropped, overrun>>
  BY DEF AcceptRefused
<1>5. /\ \A u \in Threads : u # t => Coming(u)' = Coming(u)
      /\ Listener \in Coming(t)
      /\ Coming(t)' \ {Listener} = Coming(t) \ {Listener}
  BY <1>1, RefusedLists
<1> HIDE DEF c
<1>6. /\ \A d \in Clients : d \in Coming(t)' <=> d \in Coming(t)
      /\ \A d \in Clients : Readable(d)' <=> Readable(d)
  BY <1>4, <1>5, ClientsAssumption DEF Readable
<1>7. /\ \A u \in Threads : c \notin Coming(u)
      /\ conn'[c] = "closed"
      /\ \A d \in Clients : d # c => conn'[d] = conn[d] /\ owner'[d] = owner[d]
  BY <1>1, <1>3, <1>4 DEF Current
<1>8. Current'
  BY <1>1, <1>5, <1>6, <1>7 DEF Current
<1>9. Covered'
  <2>1. \A d \in Clients : conn[d] = "open" => owner[d] \in Threads
    BY <1>1 DEF Stages
  <2> QED
    BY <1>1, <1>4, <1>5, <1>6, <1>7, <2>1 DEF Covered
<1>10. QueueCovered'
  <2>1. t \in Wakers /\ Wakers \ {t} \subseteq Wakers'
    BY <1>5 DEF Wakers
  <2>2. Cardinality(Wakers \ {t}) = Cardinality(Wakers) - 1
    BY <2>1, WakersCount, FS_RemoveElement
  <2>3. Cardinality(Wakers \ {t}) <= Cardinality(Wakers')
    BY <2>1, WakersCount, FS_Subset
  <2>4. Len(backlog) \in Nat
    BY <1>1
  <2> QED
    BY <1>1, <1>2, <1>3, <1>4, <2>2, <2>3, <2>4, WakersCount DEF QueueCovered
<1> QED
  BY <1>8, <1>9, <1>10 DEF Edges

LEMMA AcceptNothingEdges ==
  ASSUME IInv, NEW t \in Threads, AcceptNothing(t)
  PROVE  Edges'
<1>1. /\ Typed /\ Current /\ Covered /\ QueueCovered /\ Stages
  BY DEF IInv, Edges, Base
<1>2. /\ UNCHANGED <<backlog, conn, owner, inbox, fin>>
      /\ backlog = <<>> \/ overrun'
  <2>1. Cardinality(Open) \in Nat /\ FdLimit \in Nat
    <3>1. Open \subseteq Clients
      BY DEF Open
    <3> QED
      BY <3>1, ClientsAssumption, LimitsAssumption, FS_Subset, FS_CardinalityType
  <2>2. Cardinality(Open) >= FdLimit => ~(Cardinality(Open) < FdLimit)
    BY <2>1
  <2> QED
    BY <2>2 DEF AcceptNothing, kernel
<1>3. /\ dropped \subseteq dropped'
      /\ \A u \in Threads : u # t => Coming(u)' = Coming(u)
      /\ Coming(t)' \subseteq Coming(t)
      /\ Coming(t) \subseteq Coming(t)' \cup {Listener} \cup dropped'
  BY <1>1, AcceptNothingLists
<1>4. Current'
  BY <1>1, <1>2, <1>3 DEF Current
<1>5. \A c \in Clients : c # Listener /\ (Readable(c)' <=> Readable(c))
  BY <1>2, ClientsAssumption DEF Readable
<1>6. Covered'
  <2>1. \A c \in Clients : conn[c] = "open" => owner[c] \in Threads
    BY <1>1 DEF Stages
  <2> QED
    BY <1>1, <1>2, <1>3, <1>5, <2>1 DEF Covered
<1>7. QueueCovered'
  BY <1>2, WakersCount DEF QueueCovered
<1> QED
  BY <1>4, <1>6, <1>7 DEF Edges

(* The connection in hand is one the thread holds open.                    *)
LEMMA HandledOpen ==
  ASSUME IInv, NEW t \in Threads, NEW c \in Clients, Handling(t, c)
  PROVE  c \in Coming(t) /\ conn[c] = "open" /\ owner[c] = t
<1>1. batch[t] \in Seq(Items) /\ batch[t] # <<>> /\ Head(batch[t]) = c
  BY DEF Handling, IInv, Base, Typed, TypeOK
<1>2. ToSet(batch[t]) = ToSet(Tail(batch[t])) \cup {c}
  BY <1>1, TailItems
<1> QED
  BY <1>2 DEF Coming, IInv, Edges, Current

LEMMA CloseEdges ==
  ASSUME IInv, NEW t \in Threads, NEW c \in Clients,
         Handling(t, c), Close(t, c),
         \A d \in Clients : d # c => inbox'[d] = inbox[d],
         UNCHANGED <<backlog, owner, fin, dropped, overrun>>
  PROVE  Edges'
<1>1. /\ Typed /\ Current /\ Covered /\ QueueCovered /\ Stages
      /\ conn \in [Clients -> {"away", "waiting", "open", "closed"}]
  BY DEF IInv, Edges, Base, Typed, TypeOK
<1>2. conn[c] = "open" /\ owner[c] = t
  BY HandledOpen
<1>3. conn' = [conn EXCEPT ![c] = "closed"]
  BY DEF Close
<1>4. /\ \A u \in Threads : u # t => Coming(u)' = Coming(u)
      /\ Coming(t)' = Coming(t) \ {c}
  BY <1>1, CloseLists
<1>5. Listener # c /\ Listener \notin Clients
  BY ClientsAssumption
<1>6. Current'
  BY <1>1, <1>2, <1>3, <1>4 DEF Current
<1>7. \A d \in Clients : d # c => (Readable(d)' <=> Readable(d))
  BY <1>5 DEF Readable
<1>8. \A d \in Clients : conn[d] = "open" => owner[d] \in Threads
  BY <1>1 DEF Stages
<1>9. Covered'
  BY <1>1, <1>3, <1>4, <1>7, <1>8 DEF Covered
<1>10. Wakers' = Wakers
  BY <1>4, <1>5 DEF Wakers
<1>11. QueueCovered'
  BY <1>1, <1>10 DEF QueueCovered
<1> QED
  BY <1>6, <1>9, <1>11 DEF Edges

LEMMA ServeEdges ==
  ASSUME IInv, NEW t \in Threads, NEW c \in Clients, Serve(t, c)
  PROVE  Edges'
<1>1. Handling(t, c) /\ Close(t, c) /\ UNCHANGED <<backlog, owner, fin, dropped, overrun>>
  BY DEF history, Serve
<1>2. \A d \in Clients : d # c => inbox'[d] = inbox[d]
  BY DEF history, Serve, IInv, Base, Typed, TypeOK
<1> QED
  BY <1>1, <1>2, CloseEdges

LEMMA ReadNothingEdges ==
  ASSUME IInv, NEW t \in Threads, NEW c \in Clients, ReadNothing(t, c)
  PROVE  Edges'
<1>1. /\ Handling(t, c) /\ inbox[c] = 0
      /\ UNCHANGED <<backlog, owner, inbox, fin, dropped, overrun>>
  BY DEF history, ReadNothing
<1>2. CASE fin[c]
  <2>1. Close(t, c)
    BY <1>2 DEF history, ReadNothing
  <2> QED
    BY <1>1, <2>1, CloseEdges
<1>3. CASE ~fin[c]
  <2>1. batch' = [batch EXCEPT ![t] = Tail(@)] /\ ready' = ready /\ conn' = conn
    BY <1>3 DEF history, ReadNothing
  <2>2. /\ Typed /\ Current /\ Covered /\ QueueCovered /\ Stages
    BY DEF IInv, Edges, Base
  <2>3. /\ \A u \in Threads : u # t => Coming(u)' = Coming(u)
        /\ Coming(t) = Coming(t)' \cup {c}
    BY <1>1, <2>1, <2>2, SkipLists
  <2>4. Listener # c /\ Listener \notin Clients
    BY ClientsAssumption
  <2>5. Current'
    BY <1>1, <2>1, <2>2, <2>3 DEF Current
  <2>6. ~Readable(c) /\ \A d \in Clients : Readable(d)' <=> Readable(d)
    BY <1>1, <1>3, <2>4 DEF Readable
  <2>7. \A d \in Clients : conn[d] = "open" => owner[d] \in Threads
    BY <2>2 DEF Stages
  <2>8. Covered'
    BY <1>1, <2>1, <2>2, <2>3, <2>6, <2>7 DEF Covered
  <2>9. Wakers' = Wakers
    BY <2>3, <2>4 DEF Wakers
  <2>10. QueueCovered'
    BY <1>1, <2>2, <2>9 DEF QueueCovered
  <2> QED
    BY <2>5, <2>8, <2>10 DEF Edges
<1> QED
  BY <1>2, <1>3

-----------------------------------------------------------------------------
(* The theorems                                                            *)

LEMMA InitInv == Init => IInv
<1> SUFFICES ASSUME Init PROVE IInv
  OBVIOUS
<1>1. /\ <<>> \in Seq(Items) /\ <<>> \in Seq(Clients)
      /\ ToSet(<<>>) = {} /\ IsInjective(<<>>) /\ Len(<<>>) = 0
  BY DEF ToSet, IsInjective
<1>2. TypeOK
  <2>1. /\ MaxSends \in Nat /\ MaxTokens \in Nat
    BY LimitsAssumption
  <2>2. /\ 0 \in 0 .. MaxSends /\ MaxTokens \in 0 .. MaxTokens
    BY <2>1
  <2> QED
    BY <1>1, <2>2 DEF Init, TypeOK
<1>3. Lists /\ InboxExact /\ ResetsEnd
  BY <1>1 DEF Init, Lists, InboxExact, ResetsEnd
<1>4. Stages /\ ClosedAnswered
  BY <1>1 DEF Init, Stages, ClosedAnswered
<1>5. \A t \in Threads : Coming(t) = {}
  BY <1>1 DEF Init, Coming
<1>6. Current /\ Covered
  BY <1>5 DEF Init, Current, Covered
<1>7. QueueCovered
  BY <1>1, WakersCount DEF Init, QueueCovered
<1> QED
  BY <1>2, <1>3, <1>4, <1>6, <1>7 DEF IInv, Base, Typed, Edges

LEMMA StepInv == IInv /\ [Next]_vars => IInv'
<1> SUFFICES ASSUME IInv, [Next]_vars PROVE IInv'
  OBVIOUS
<1>1. ASSUME NEW t \in Threads, Wait(t) PROVE IInv'
  BY <1>1, QuietBase, WaitEdges DEF IInv
<1>2. ASSUME NEW t \in Threads, Accept(t) PROVE IInv'
  BY <1>2, AcceptBase, AcceptEdges DEF IInv
<1>3. ASSUME NEW t \in Threads, AcceptRefused(t) \/ AcceptNothing(t) PROVE IInv'
  BY <1>3, RefusedBase, RefusedEdges, QuietBase, AcceptNothingEdges DEF IInv
<1>4. ASSUME NEW t \in Threads, NEW c \in Clients, Serve(t, c) \/ ReadNothing(t, c)
      PROVE  IInv'
  <2>1. Handling(t, c)
    BY <1>4 DEF history, Serve, ReadNothing
  <2>2. conn[c] = "open" /\ owner[c] = t
    BY <2>1, HandledOpen
  <2> QED
    BY <1>4, <2>2, CloseBase, ServeEdges, ReadNothingEdges DEF IInv
<1>5. ASSUME NEW c \in Clients, Connect(c) PROVE IInv'
  BY <1>5, ConnectBase, ConnectEdges DEF IInv
<1>6. ASSUME NEW c \in Clients, Send(c) \/ HangUp(c) \/ Reset(c) PROVE IInv'
  BY <1>6, ArriveBase, ArriveEdges DEF IInv
<1>7. CASE Tick
  <2>1. PICK t : t \in Threads
    BY ThreadsAssumption
  <2> QED
    BY <1>7, <2>1, QuietBase, TickEdges DEF IInv
<1>8. CASE UNCHANGED vars
  BY <1>8 DEF history, vars, kernel, IInv, Base, Typed, TypeOK, Lists, InboxExact, ResetsEnd, Stages,
     ClosedAnswered, Edges, Current, Covered, QueueCovered, Wakers, Coming, Readable
<1> QED
  BY <1>1, <1>2, <1>3, <1>4, <1>5, <1>6, <1>7, <1>8 DEF Next, Thread

LEMMA InvCorrect == Spec => []IInv
  BY InitInv, StepInv, PTL DEF Spec

(* The state keeps its types: the bucket within its capacity, batches and  *)
(* ready lists of known items.                                             *)
THEOREM TypeCorrect == Spec => []TypeOK
<1>1. IInv => TypeOK
  BY DEF IInv, Base, Typed
<1> QED
  BY <1>1, InvCorrect, PTL

(* No thread handles, or will handle, an event of a connection that it has *)
(* closed or that another thread accepted.                                 *)
THEOREM EventsCorrect == Spec => []EventsCurrent
<1>1. IInv => EventsCurrent
  BY PendingComing DEF IInv, Base, Typed, Edges, Current, EventsCurrent
<1> QED
  BY <1>1, InvCorrect, PTL

(* What an open connection received has an event on its way to its owner,  *)
(* unless the break on EAGAIN threw that event away.                       *)
THEOREM RequestsCovered == Spec => []RequestCovered
<1>1. IInv => RequestCovered
  <2> SUFFICES ASSUME IInv PROVE RequestCovered
    OBVIOUS
  <2>1. \A c \in Clients : conn[c] = "open" => owner[c] \in Threads
    BY DEF IInv, Base, Stages
  <2> QED
    BY <2>1, PendingComing DEF IInv, Base, Typed, Edges, Covered, RequestCovered, Open
<1> QED
  BY <1>1, InvCorrect, PTL

(* As many threads are to be woken for the listening socket as clients     *)
(* wait in the accept queue, unless they once outnumbered the threads or   *)
(* an accept found no descriptor left.                                     *)
THEOREM BacklogCorrect == Spec => []BacklogCovered
<1>1. IInv => BacklogCovered
  <2> SUFFICES ASSUME IInv PROVE BacklogCovered
    OBVIOUS
  <2>1. Wakers = {t \in Threads : Pending(t, Listener)}
    BY PendingComing DEF Wakers, IInv, Base, Typed
  <2> QED
    BY <2>1 DEF IInv, Edges, QueueCovered, BacklogCovered
<1> QED
  BY <1>1, InvCorrect, PTL

(* A connection that was closed without a response had sent nothing, was   *)
(* reset by its client, or could not be set up as it was accepted.         *)
THEOREM AnswersCorrect == Spec => []ClosedAnswered
<1>1. IInv => ClosedAnswered
  BY DEF IInv, Base
<1> QED
  BY <1>1, InvCorrect, PTL
=============================================================================
