------------------------------ MODULE Gateway ------------------------------
(***************************************************************************)
(* The gateway's threads (gateway/src/server.c): one listening socket,     *)
(* registered edge-triggered with the epoll instance of every thread, and  *)
(* the connections each thread accepts, registered with its own instance.  *)
(*                                                                         *)
(* A thread is either waiting (its batch is empty) or works through the    *)
(* events its last epoll_wait returned, one event an action.  Only the     *)
(* kernel acts on what the threads share: the accept queue.                *)
(*                                                                         *)
(* The rate limiter is the bucket of TokenBucket, which rate_limit.c       *)
(* implements.  A request it lets past is "served": with a 200 or a 503,   *)
(* as load_balancer_select finds an instance or none.  server_stop is not  *)
(* here: main never gets past server_wait.  Nor is SIGPIPE, which nothing  *)
(* ignores: a response written to a connection that was reset after the    *)
(* read ends the process, and with it the behaviour.                       *)
(***************************************************************************)
EXTENDS Naturals, Sequences, FiniteSets, SequencesExt, ReadyList

CONSTANTS
  Threads,      \* the threads, each with its epoll instance
  Clients,      \* the clients, each with one connection
  Listener,     \* the listening socket
  Earlier,      \* the clients that connect before a given one
  NoThread,     \* no thread: the owner of a connection not accepted
  FdLimit,      \* connections the process can hold open at once
  MaxSends,     \* segments a client sends: the bound on the run
  Faulty,       \* clients whose connection may be reset, or fail to be set up:
                \* likewise
  MaxTokens, RefillRate    \* the rate limiter

ASSUME ThreadsAssumption ==
  IsFiniteSet(Threads) /\ Threads # {} /\ NoThread \notin Threads
ASSUME ClientsAssumption == IsFiniteSet(Clients) /\ Listener \notin Clients
ASSUME EarlierAssumption == Earlier \in [Clients -> SUBSET Clients]
ASSUME LimitsAssumption ==
  /\ {FdLimit, MaxSends, MaxTokens, RefillRate} \subseteq Nat \ {0}
  /\ Faulty \subseteq Clients

VARIABLES
  backlog,      \* the accept queue of the listening socket
  conn,         \* where each client's connection stands
  owner,        \* the thread that accepted it
  inbox,        \* segments received and not read
  fin,          \* the client has shut its side
  ready,        \* the ready list of each epoll instance
  batch,        \* the events a thread has still to handle
  reply,        \* the response written to each client
  tokens,       \* what is left in the rate limiter's bucket
  sent,         \* history: segments each client has sent
  dropped,      \* history: clients whose event a thread threw away
  refused,      \* history: clients accepted that could not be set up
  reset,        \* history: clients that reset their connection
  overrun       \* history: once more clients than threads were waiting, or
                \* an accept found no descriptor left

kernel == <<backlog, ready>>
history == <<sent, dropped, refused, reset, overrun>>
vars == <<kernel, conn, owner, inbox, fin, batch, reply, tokens, history>>

RL == INSTANCE TokenBucket WITH
        level <- tokens, reply <- "none", monotone <- TRUE, Horizon <- 1

Items == Clients \cup {Listener}

Open == {c \in Clients : conn[c] = "open"}

Readable(i) ==
  IF i = Listener THEN backlog # <<>> ELSE inbox[i] > 0 \/ fin[i]

\* The edge of item i reaches the ready lists of the epoll instances in S.
Edge(S, i) ==
  [t \in Threads |-> IF t \in S THEN Offered(ready[t], i) ELSE ready[t]]

Init ==
  /\ backlog = <<>>
  /\ conn = [c \in Clients |-> "away"]
  /\ owner = [c \in Clients |-> NoThread]
  /\ inbox = [c \in Clients |-> 0]
  /\ fin = [c \in Clients |-> FALSE]
  /\ ready = [t \in Threads |-> <<>>]
  /\ batch = [t \in Threads |-> <<>>]
  /\ reply = [c \in Clients |-> "none"]
  /\ tokens = MaxTokens
  /\ sent = [c \in Clients |-> 0]
  /\ dropped = {}
  /\ refused = {}
  /\ reset = {}
  /\ overrun = FALSE

-----------------------------------------------------------------------------
(* The clients and the clock *)

\* Mutation: the last thread does not watch the listening socket.
AllButOne == Threads \ {CHOOSE t \in Threads : TRUE}

\* server_start registers the listening socket with every epoll instance.
Watchers == Threads

Connect(c) ==
  /\ conn[c] = "away" /\ \A d \in Earlier[c] : conn[d] # "away"
  /\ conn' = [conn EXCEPT ![c] = "waiting"]
  /\ backlog' = Append(backlog, c)
  /\ ready' = Edge(Watchers, Listener)
  /\ overrun' = (overrun \/ Len(backlog) >= Cardinality(Threads))
  /\ UNCHANGED <<owner, inbox, fin, batch, reply, tokens, sent, dropped,
                 refused, reset>>

\* A segment, or the end of the stream, reaches the gateway's socket.
Send(c) ==
  /\ conn[c] \in {"waiting", "open"}
  /\ sent[c] < MaxSends /\ ~fin[c]
  /\ sent' = [sent EXCEPT ![c] = @ + 1]
  /\ inbox' = [inbox EXCEPT ![c] = @ + 1]
  /\ ready' = Edge({owner[c]}, c)
  /\ UNCHANGED <<backlog, conn, owner, fin, batch, reply, tokens,
                 dropped, refused, reset, overrun>>

HangUp(c) ==
  /\ conn[c] \in {"waiting", "open"}
  /\ ~fin[c]
  /\ fin' = [fin EXCEPT ![c] = TRUE]
  /\ ready' = Edge({owner[c]}, c)
  /\ UNCHANGED <<backlog, conn, owner, inbox, batch, reply, tokens,
                 history>>

\* A reset takes with it what has not been read; read then fails.
Reset(c) ==
  /\ conn[c] \in {"waiting", "open"}
  /\ c \in Faulty \ reset
  /\ reset' = reset \cup {c}
  /\ fin' = [fin EXCEPT ![c] = TRUE]
  /\ inbox' = [inbox EXCEPT ![c] = 0]
  /\ ready' = Edge({owner[c]}, c)
  /\ UNCHANGED <<backlog, conn, owner, batch, reply, tokens, sent,
                 dropped, refused, overrun>>

\* Mutation: the bucket fills past its capacity.
TickUncapped ==
  /\ tokens' = tokens + RefillRate
  /\ UNCHANGED <<kernel, conn, owner, inbox, fin, batch, reply, history>>

\* A second goes by.
Tick ==
  /\ RL!Fill(1)
  /\ UNCHANGED <<kernel, conn, owner, inbox, fin, batch, reply, history>>

-----------------------------------------------------------------------------
(* thread_func *)

\* epoll_wait: what is still readable is reported, and only once per edge.
Wait(t) ==
  /\ batch[t] = <<>> /\ ready[t] # <<>>
  /\ batch' = [batch EXCEPT ![t] = Kept(ready[t], {i \in Items : Readable(i)})]
  /\ ready' = [ready EXCEPT ![t] = <<>>]
  /\ UNCHANGED <<backlog, conn, owner, inbox, fin, reply, tokens, history>>

Handling(t, i) == batch[t] # <<>> /\ Head(batch[t]) = i

\* Mutation: EPOLL_CTL_ADD does not look whether data is there already.
AcceptUnpolled(t) ==
  /\ Handling(t, Listener)
  /\ backlog # <<>> /\ Cardinality(Open) < FdLimit
  /\ LET c == Head(backlog) IN
       /\ conn' = [conn EXCEPT ![c] = "open"]
       /\ owner' = [owner EXCEPT ![c] = t]
  /\ backlog' = Tail(backlog)
  /\ batch' = [batch EXCEPT ![t] = Tail(@)]
  /\ UNCHANGED <<ready, inbox, fin, reply, tokens, history>>

\* One connection is accepted for an event, and EPOLL_CTL_ADD puts it on the
\* ready list at once if the client was quick.
Accept(t) ==
  /\ Handling(t, Listener)
  /\ backlog # <<>> /\ Cardinality(Open) < FdLimit
  /\ LET c == Head(backlog) IN
       /\ conn' = [conn EXCEPT ![c] = "open"]
       /\ owner' = [owner EXCEPT ![c] = t]
       /\ ready' = IF Readable(c) THEN Edge({t}, c) ELSE ready
  /\ backlog' = Tail(backlog)
  /\ batch' = [batch EXCEPT ![t] = Tail(@)]
  /\ UNCHANGED <<inbox, fin, reply, tokens, history>>

\* A connection whose set_nonblocking or EPOLL_CTL_ADD fails is closed as it
\* comes, unanswered; the event is used up.
AcceptRefused(t) ==
  /\ Handling(t, Listener)
  /\ backlog # <<>> /\ Cardinality(Open) < FdLimit
  /\ Head(backlog) \in Faulty
  /\ LET c == Head(backlog) IN
       /\ conn' = [conn EXCEPT ![c] = "closed"]
       /\ owner' = [owner EXCEPT ![c] = t]
       /\ refused' = refused \cup {c}
  /\ backlog' = Tail(backlog)
  /\ batch' = [batch EXCEPT ![t] = Tail(@)]
  /\ UNCHANGED <<ready, inbox, fin, reply, tokens, sent, dropped, reset,
                 overrun>>

\* EAGAIN leaves the loop over the events, and with it the rest of the batch.
\* Any other error (no descriptor left) goes on to the next event.
AcceptNothing(t) ==
  /\ Handling(t, Listener)
  /\ backlog = <<>> \/ Cardinality(Open) >= FdLimit
  /\ LET rest == Tail(batch[t])
         quits == Cardinality(Open) < FdLimit
     IN /\ batch' = [batch EXCEPT ![t] = IF quits THEN <<>> ELSE rest]
        /\ dropped' = IF quits THEN dropped \cup ToSet(rest) ELSE dropped
        /\ overrun' = (overrun \/ ~quits)
  /\ UNCHANGED <<kernel, conn, owner, inbox, fin, reply, tokens, sent,
                 refused, reset>>

\* Mutation: the connection's edge outlives it.
CloseKeepsEdge(t, c) ==
  /\ conn' = [conn EXCEPT ![c] = "closed"]
  /\ batch' = [batch EXCEPT ![t] = Tail(@)]
  /\ UNCHANGED ready

\* Closing takes the connection out of the epoll instance as well.
Close(t, c) ==
  /\ conn' = [conn EXCEPT ![c] = "closed"]
  /\ ready' = [ready EXCEPT ![t] = Kept(@, Items \ {c})]
  /\ batch' = [batch EXCEPT ![t] = Tail(@)]

\* rate_limit_check, auth_check (which lets everybody in), load_balancer_select
Answer(c) ==
  \/ RL!Empty /\ reply' = [reply EXCEPT ![c] = "429"]
  \/ RL!Take /\ reply' = [reply EXCEPT ![c] = "served"]

\* Mutation: a request is closed unanswered when the client has shut its side.
ServeOpenOnly(t, c) ==
  /\ Handling(t, c)
  /\ inbox[c] > 0
  /\ inbox' = [inbox EXCEPT ![c] = 0]
  /\ IF fin[c] THEN UNCHANGED <<reply, tokens>> ELSE Answer(c)
  /\ Close(t, c)
  /\ UNCHANGED <<backlog, owner, fin, history>>

\* One read of up to 4096 bytes is the request, whole or not.
Serve(t, c) ==
  /\ Handling(t, c)
  /\ inbox[c] > 0
  /\ inbox' = [inbox EXCEPT ![c] = 0]
  /\ Answer(c)
  /\ Close(t, c)
  /\ UNCHANGED <<backlog, owner, fin, history>>

\* Mutation: the end of the stream is taken for EAGAIN.
ReadNothingKeeps(t, c) ==
  /\ Handling(t, c)
  /\ inbox[c] = 0
  /\ batch' = [batch EXCEPT ![t] = Tail(@)]
  /\ UNCHANGED <<kernel, conn, owner, inbox, fin, reply, tokens, history>>

\* read returns 0 (the client hung up), fails (it reset), or says EAGAIN.
ReadNothing(t, c) ==
  /\ Handling(t, c)
  /\ inbox[c] = 0
  /\ IF fin[c] THEN Close(t, c)
     ELSE batch' = [batch EXCEPT ![t] = Tail(@)] /\ UNCHANGED <<conn, ready>>
  /\ UNCHANGED <<backlog, owner, inbox, fin, reply, tokens, history>>

Thread(t) ==
  \/ Wait(t)
  \/ Accept(t)
  \/ AcceptRefused(t)
  \/ AcceptNothing(t)
  \/ \E c \in Clients : Serve(t, c) \/ ReadNothing(t, c)

Next ==
  \/ \E t \in Threads : Thread(t)
  \/ \E c \in Clients : Connect(c) \/ Send(c) \/ HangUp(c) \/ Reset(c)
  \/ Tick

Spec == Init /\ [][Next]_vars

\* A thread with an event to handle gets to run.  No client owes anything.
FairSpec == Spec /\ \A t \in Threads : WF_vars(Thread(t))

-----------------------------------------------------------------------------
(* Properties *)

TypeOK ==
  /\ backlog \in Seq(Clients)
  /\ conn \in [Clients -> {"away", "waiting", "open", "closed"}]
  /\ owner \in [Clients -> Threads \cup {NoThread}]
  /\ inbox \in [Clients -> 0 .. MaxSends] /\ sent \in [Clients -> 0 .. MaxSends]
  /\ fin \in [Clients -> BOOLEAN]
  /\ ready \in [Threads -> Seq(Items)] /\ batch \in [Threads -> Seq(Items)]
  /\ reply \in [Clients -> {"none", "429", "served"}]
  /\ tokens \in 0 .. MaxTokens
  /\ dropped \in SUBSET Items /\ overrun \in BOOLEAN
  /\ refused \in SUBSET Clients /\ reset \in SUBSET Clients

Pending(t, i) == Contains(ready[t], i) \/ Contains(batch[t], i)

(***************************************************************************)
(* The accept queue is covered by edges: as long as never more clients     *)
(* were waiting than there are threads, and no accept ran out of           *)
(* descriptors, every waiting client has an event of the listening socket  *)
(* on its way, although a thread accepts only one connection for an event. *)
(***************************************************************************)
BacklogCovered ==
  overrun \/ Len(backlog) <= Cardinality({t \in Threads : Pending(t, Listener)})

(***************************************************************************)
(* No edge of a connection is lost, except by the break on EAGAIN: what    *)
(* was received on an open connection has an event on its way to the       *)
(* thread that owns it, whenever it came: before the accept, before the    *)
(* EPOLL_CTL_ADD, while the thread was in the middle of another batch.     *)
(***************************************************************************)
RequestCovered ==
  \A c \in Open : Readable(c) => Pending(owner[c], c) \/ c \in dropped

(***************************************************************************)
(* An event handled by a thread is always that of a connection it owns and *)
(* has not closed.                                                         *)
(***************************************************************************)
EventsCurrent ==
  \A t \in Threads, c \in Clients :
    Pending(t, c) => conn[c] = "open" /\ owner[c] = t

(***************************************************************************)
(* A connection is closed without a response only when the client hung up  *)
(* and had sent nothing, or reset the connection, or when the connection   *)
(* could not be set up as it was accepted.                                 *)
(***************************************************************************)
ClosedAnswered ==
  \A c \in Clients :
    conn[c] = "closed" /\ reply[c] = "none" =>
      (fin[c] /\ sent[c] = 0) \/ c \in reset \cup refused

(***************************************************************************)
(* Whoever connects and sends a request, or hangs up, sees the connection  *)
(* closed, if no thread threw the event away and the listening socket was  *)
(* not overrun.                                                            *)
(***************************************************************************)
Spoke(c) == conn[c] \in {"waiting", "open"} /\ Readable(c)

ServedOrForgotten ==
  \A c \in Clients : Spoke(c) ~> (conn[c] = "closed" \/ c \in dropped \/ overrun)

(***************************************************************************)
(* "Handle client request" (server.c on its client branch): a request on   *)
(* an accepted connection gets its answer.                                 *)
(***************************************************************************)
EveryRequestAnswered ==
  \A c \in Clients : (c \in Open /\ inbox[c] > 0) ~> reply[c] # "none"
=============================================================================
