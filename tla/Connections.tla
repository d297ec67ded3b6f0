---------------------------- MODULE Connections ----------------------------
(***************************************************************************)
(* The reactor threads of lib/net (net_epoll.c): the accept loop, reading  *)
(* and framing, the hand-over of requests, closing, stop and destroy.      *)
(*                                                                         *)
(* Each thread has a listening socket (SO_REUSEPORT: the kernel chooses    *)
(* which of them a client reaches) and an epoll instance that watches it   *)
(* and the connections accepted from it.  A client makes one connection,   *)
(* which stands for its net_connection_t too.  Descriptors are numbers and *)
(* are used again.  A request is handed to the worker pool, of which       *)
(* TaskQueue says what it promises and ThreadPool how it keeps it; the     *)
(* handler writes its answer to the descriptor it was given.               *)
(*                                                                         *)
(* Data is counted in units: unit i of what a client sends belongs to      *)
(* request Stream[c][i], and the first unit of a request is its header.    *)
(*                                                                         *)
(* A thread whose next step would use memory that is freed takes UseFreed  *)
(* instead: what follows is undefined, and the model ends there.  A crash  *)
(* only ends a behaviour early, and is no step of its own: that of a       *)
(* memcpy to the buffer of a connection whose malloc failed unnoticed, and *)
(* that of SIGPIPE, which a write to a connection that was reset raises    *)
(* and nothing ignores.                                                    *)
(***************************************************************************)
EXTENDS Naturals, Sequences, FiniteSets, SequencesExt, ReadyList

CONSTANTS
  Threads,      \* the reactor threads
  Clients,      \* the clients, each with one connection
  Listener,     \* the listening socket of a thread
  Nobody,       \* no thread, no client
  Routes,       \* the threads whose listening sockets each client may reach
  Stream,       \* the requests of each client, unit by unit
  FdLimit,      \* the descriptors for connections are 0 .. FdLimit - 1
  TableSize,    \* MAX_FDS, the length of reactor->conns
  InitialCap,   \* INITIAL_BUF_SIZE
  QueueSize,    \* room in the worker pool
  MaxFailures,  \* failing allocations: the bound on the run
  Mixed         \* clients hang up and allocations fail in one run, and they
                \* fail after a failed start too: FALSE is a bound on the run

ASSUME PartiesAssumption ==
  /\ IsFiniteSet(Threads) /\ IsFiniteSet(Clients)
  /\ Listener \notin Clients /\ Nobody \notin Threads \cup Clients
ASSUME RoutesAssumption == Routes \in [Clients -> SUBSET Threads]
ASSUME StreamAssumption == Stream \in [Clients -> Seq(Nat \ {0})]
\* The units of request k are numbered k, and requests follow one another.
ASSUME OrderAssumption ==
  \A c \in Clients : \A i \in DOMAIN Stream[c] :
    IF i = 1 THEN Stream[c][i] = 1
    ELSE Stream[c][i] \in {Stream[c][i - 1], Stream[c][i - 1] + 1}
ASSUME LimitsAssumption ==
  {FdLimit, TableSize, InitialCap, QueueSize} \subseteq Nat \ {0}
    /\ MaxFailures \in Nat /\ Mixed \in BOOLEAN

VARIABLES
  where,        \* how far each client's connection has got
  owner,        \* the thread that accepted it
  fd,           \* its descriptor (kept when it is closed)
  arrived,      \* how many units the client has sent
  fin,          \* the client has shut its side, or reset the connection
  backlog,      \* the accept queue of each listening socket
  watched,      \* the connections added to their thread's epoll instance
  ready,        \* the ready list of each epoll instance
  pc,           \* where each thread is
  batch,        \* the events it has still to handle, the current one first
  conns,        \* reactor->conns
  taken,        \* how many units have been read from each connection
  buf,          \* conn->buf, the first conn->length units of it
  readPos,      \* conn->read_pos
  capacity,     \* conn->capacity
  asked,        \* how many requests have been framed
  line, started, finished, closed,   \* the worker pool
  main,         \* where the owner of the reactor is
  swept,        \* the entry net_reactor_destroy has come to
  failures,     \* how many allocations have failed
  answers       \* history: request k of c was answered to the connection of d

client == <<arrived, fin>>
socket == <<owner, fd>>
input == <<taken, buf, readPos, capacity, asked>>
pool == <<line, started, finished, closed>>
thread == <<pc, batch>>
vars == <<where, socket, client, backlog, watched, ready, thread, conns, input,
          pool, main, swept, failures, answers>>

Tasks == Clients \X Nat \X Seq(Nat)
Pool == INSTANCE TaskQueue WITH Capacity <- QueueSize

\* reactor->stop
stop == main \in {"joining", "destroying", "gone"}

\* net_reactor_run has returned -1.
Failed == {"failed", "abandoned", "ruined", "freed", "undefined"}

Items == Clients \cup {Listener}

Fds == 0 .. FdLimit - 1
Holding(f) == {c \in Clients : where[c] = "open" /\ fd[c] = f}
Free == {f \in Fds : Holding(f) = {}}
Lowest(S) == CHOOSE f \in S : \A g \in S : f <= g

Readable(t, i) ==
  IF i = Listener THEN backlog[t] # <<>> ELSE arrived[i] > taken[i] \/ fin[i]

\* The edge of item i reaches the ready list of thread t.
Edge(t, i) ==
  [ready EXCEPT ![t] = Offered(@, i)]

\* The thread runs: its listening socket is open.
Listening(t) == pc[t] \notin {"unborn", "left"}

\* An edge of the connection of c, which its thread's instance may watch.
Arrival(c) ==
  ready' = IF c \in watched /\ Listening(owner[c]) THEN Edge(owner[c], c)
           ELSE ready

\* net_reactor_create, and net_reactor_run as far as its loop
Init ==
  /\ where = [c \in Clients |-> "away"]
  /\ owner = [c \in Clients |-> Nobody]
  /\ fd = [c \in Clients |-> 0]
  /\ arrived = [c \in Clients |-> 0] /\ fin = [c \in Clients |-> FALSE]
  /\ backlog = [t \in Threads |-> <<>>]
  /\ watched = {}
  /\ ready = [t \in Threads |-> <<>>]
  /\ pc = [t \in Threads |-> "unborn"] /\ batch = [t \in Threads |-> <<>>]
  /\ conns = [f \in 0 .. TableSize - 1 |-> Nobody]
  /\ taken = [c \in Clients |-> 0]
  /\ buf = [c \in Clients |-> <<>>] /\ readPos = [c \in Clients |-> 0]
  /\ capacity = [c \in Clients |-> InitialCap]
  /\ asked = [c \in Clients |-> 0]
  /\ Pool!Init
  /\ main = "starting" /\ swept = 0
  /\ failures = 0
  /\ answers = {}

-----------------------------------------------------------------------------
(* The clients *)

Connect(c, t) ==
  /\ where[c] = "away" /\ t \in Routes[c] /\ Listening(t)
  /\ where' = [where EXCEPT ![c] = "queued"]
  /\ backlog' = [backlog EXCEPT ![t] = Append(@, c)]
  /\ ready' = Edge(t, Listener)
  /\ UNCHANGED <<socket, client, watched, thread, conns, input, pool, main,
                 swept, failures, answers>>

Send(c) ==
  /\ where[c] \in {"queued", "open"} /\ ~fin[c]
  /\ arrived[c] < Len(Stream[c])
  /\ arrived' = [arrived EXCEPT ![c] = @ + 1]
  /\ Arrival(c)
  /\ UNCHANGED <<where, socket, fin, backlog, watched, thread, conns, input,
                 pool, main, swept, failures, answers>>

HangUp(c) ==
  /\ where[c] \in {"queued", "open"} /\ ~fin[c]
  /\ Mixed \/ failures = 0
  /\ fin' = [fin EXCEPT ![c] = TRUE]
  /\ Arrival(c)
  /\ UNCHANGED <<where, socket, arrived, backlog, watched, thread, conns,
                 input, pool, main, swept, failures, answers>>

-----------------------------------------------------------------------------
(* reactor_thread_func *)

\* epoll_wait: what is still readable is reported, and once for each edge.
Wait(t) ==
  /\ pc[t] = "wait" /\ ready[t] # <<>>
  /\ LET events == Kept(ready[t], {i \in Items : Readable(t, i)}) IN
       /\ batch' = [batch EXCEPT ![t] = events]
       /\ pc' = [pc EXCEPT ![t] = IF events = <<>> THEN "wait" ELSE "events"]
  /\ ready' = [ready EXCEPT ![t] = <<>>]
  /\ UNCHANGED <<where, socket, client, backlog, watched, conns, input, pool,
                 main, swept, failures, answers>>

Handling(t, i, at) == pc[t] = at /\ batch[t] # <<>> /\ Head(batch[t]) = i

Goto(t, at) == pc' = [pc EXCEPT ![t] = at] /\ UNCHANGED batch

\* On to the next event, or to the test of reactor->stop.
EventDone(t) ==
  /\ batch' = [batch EXCEPT ![t] = Tail(@)]
  /\ pc' = [pc EXCEPT ![t] = IF Tail(batch[t]) # <<>> THEN "events"
                             ELSE IF stop THEN "leave" ELSE "wait"]

\* The loop is left (from epoll_wait after at most 1000 ms): the listening
\* socket is closed, and whoever waited there is reset.
Leave(t) ==
  /\ pc[t] = "leave" \/ (pc[t] = "wait" /\ stop)
  /\ pc' = [pc EXCEPT ![t] = "left"]
  /\ where' = [c \in Clients |->
                 IF Contains(backlog[t], c) THEN "reset" ELSE where[c]]
  /\ backlog' = [backlog EXCEPT ![t] = <<>>]
  /\ ready' = [ready EXCEPT ![t] = <<>>]
  /\ UNCHANGED <<socket, client, watched, batch, conns, input, pool, main,
                 swept, failures, answers>>

\* An allocation fails.
Fails ==
  /\ failures < MaxFailures
  /\ Mixed \/ (main \notin Failed /\ \A c \in Clients : ~fin[c])
  /\ failures' = failures + 1

\* accept() gives the lowest descriptor that is free.  With none it fails,
\* whether or not somebody waits, and `continue' calls it again: the thread
\* spins here, with no step in this model, until one is free or reactor->stop.
\* (The flag may be set between its test and the accept: as if it came later.)
Accept(t) ==
  /\ Handling(t, Listener, "events")
  /\ ~stop /\ Free # {} /\ backlog[t] # <<>>
  /\ LET c == Head(backlog[t]) IN
       /\ where' = [where EXCEPT ![c] = "open"]
       /\ owner' = [owner EXCEPT ![c] = t]
       /\ fd' = [fd EXCEPT ![c] = Lowest(Free)]
  /\ backlog' = [backlog EXCEPT ![t] = Tail(@)]
  /\ Goto(t, "accepted")
  /\ UNCHANGED <<client, watched, ready, conns, input, pool, main, swept,
                 failures, answers>>

\* Mutation: the accept loop does not look at reactor->stop.
AcceptUntilEmpty(t) ==
  /\ Handling(t, Listener, "events")
  /\ Free # {} /\ backlog[t] = <<>>
  /\ EventDone(t)
  /\ UNCHANGED <<where, socket, client, backlog, watched, ready, conns, input,
                 pool, main, swept, failures, answers>>

\* The loop ends on EAGAIN, or when the reactor stops.
AcceptDone(t) ==
  /\ Handling(t, Listener, "events")
  /\ stop \/ (Free # {} /\ backlog[t] = <<>>)
  /\ EventDone(t)
  /\ UNCHANGED <<where, socket, client, backlog, watched, ready, conns, input,
                 pool, main, swept, failures, answers>>

\* The connection a thread has accepted and not registered.
Newcomer(t, c) == where[c] = "open" /\ owner[c] = t /\ c \notin watched

\* malloc fails: the connection is closed at once.
AcceptFails(t, c) ==
  /\ Handling(t, Listener, "accepted") /\ Newcomer(t, c)
  /\ Fails
  /\ where' = [where EXCEPT ![c] = "closed"]
  /\ Goto(t, "events")
  /\ UNCHANGED <<socket, client, backlog, watched, ready, conns, input, pool,
                 main, swept, answers>>

Enter(c, who) ==
  conns' = IF fd[c] < TableSize THEN [conns EXCEPT ![fd[c]] = who] ELSE conns

\* Mutation: one connection is accepted for an event.
RegisterOne(t, c) ==
  /\ Handling(t, Listener, "accepted") /\ Newcomer(t, c)
  /\ Enter(c, c)
  /\ watched' = watched \cup {c}
  /\ ready' = IF Readable(t, c) THEN Edge(t, c) ELSE ready
  /\ EventDone(t)
  /\ UNCHANGED <<where, socket, client, backlog, input, pool, main, swept,
                 failures, answers>>

\* The table, then EPOLL_CTL_ADD, which looks at the socket at once.
Register(t, c) ==
  /\ Handling(t, Listener, "accepted") /\ Newcomer(t, c)
  /\ Enter(c, c)
  /\ watched' = watched \cup {c}
  /\ ready' = IF Readable(t, c) THEN Edge(t, c) ELSE ready
  /\ Goto(t, "events")
  /\ UNCHANGED <<where, socket, client, backlog, input, pool, main, swept,
                 failures, answers>>

\* EPOLL_CTL_ADD fails: close_connection.
RegisterFails(t, c) ==
  /\ Handling(t, Listener, "accepted") /\ Newcomer(t, c)
  /\ Fails
  /\ Enter(c, c)
  /\ Goto(t, "closing")
  /\ UNCHANGED <<where, socket, client, backlog, watched, ready, input, pool,
                 main, swept, answers>>

-----------------------------------------------------------------------------
(* close_connection *)

\* The connection in hand: that of the event, or the one just accepted.
InHand(t, c) ==
  /\ batch[t] # <<>>
  /\ Head(batch[t]) = c \/ (Head(batch[t]) = Listener /\ Newcomer(t, c))

Unregister(c) == Enter(c, Nobody) /\ UNCHANGED <<where, watched, ready>>

\* Mutation: an edge of the connection outlives it.
ReleaseKeepsEdge(t, c) ==
  /\ where' = [where EXCEPT ![c] = "closed"]
  /\ watched' = watched \ {c}
  /\ UNCHANGED <<ready, conns>>

\* close() takes the connection out of the epoll instance as well.
Release(t, c) ==
  /\ where' = [where EXCEPT ![c] = "closed"]
  /\ watched' = watched \ {c}
  /\ ready' = [ready EXCEPT ![t] = Kept(@, Items \ {c})]
  /\ UNCHANGED conns

\* After an accept, back to its loop.
CloseDone(t) ==
  IF Head(batch[t]) = Listener THEN Goto(t, "events") ELSE EventDone(t)

\* Mutation: the descriptor goes first.
CloseConnectionLate(t, c) ==
  /\ InHand(t, c)
  /\ \/ pc[t] = "closing" /\ Release(t, c) /\ Goto(t, "releasing")
     \/ pc[t] = "releasing" /\ Unregister(c) /\ CloseDone(t)
  /\ UNCHANGED <<socket, client, backlog, input, pool, main, swept, failures,
                 answers>>

\* The table entry goes before the descriptor: another thread's accept may be
\* given the descriptor, and fill the entry, at once.
CloseConnection(t, c) ==
  /\ InHand(t, c)
  /\ \/ pc[t] = "closing" /\ Unregister(c) /\ Goto(t, "releasing")
     \/ pc[t] = "releasing" /\ Release(t, c) /\ CloseDone(t)
  /\ UNCHANGED <<socket, client, backlog, input, pool, main, swept, failures,
                 answers>>

-----------------------------------------------------------------------------
(* handle_client_data *)

Unread(c) == [i \in 1 .. arrived[c] - taken[c] |-> taken[c] + i]

\* The capacity, doubled until n units fit: n rounds are enough.
Doubled(cap, n) ==
  LET grown[k \in 0 .. n] ==
        IF k = 0 THEN cap
        ELSE IF grown[k - 1] >= n THEN grown[k - 1] ELSE 2 * grown[k - 1]
  IN grown[n]

\* Mutation: a single read.
ReadOnce(t, c) ==
  /\ Handling(t, c, "events")
  /\ ~fin[c] /\ arrived[c] > taken[c]
  /\ buf' = [buf EXCEPT ![c] = Append(@, taken[c] + 1)]
  /\ capacity' = [capacity EXCEPT ![c] = Doubled(@, Len(buf'[c]))]
  /\ taken' = [taken EXCEPT ![c] = @ + 1]
  /\ Goto(t, "parse")
  /\ UNCHANGED <<where, socket, client, backlog, watched, ready, conns,
                 readPos, asked, pool, main, swept, failures, answers>>

\* Read until EAGAIN, and then look at what has come.
Read(t, c) ==
  /\ Handling(t, c, "events")
  /\ ~fin[c]
  /\ buf' = [buf EXCEPT ![c] = @ \o Unread(c)]
  /\ capacity' = [capacity EXCEPT ![c] = Doubled(@, Len(buf'[c]))]
  /\ taken' = [taken EXCEPT ![c] = arrived[c]]
  /\ Goto(t, "parse")
  /\ UNCHANGED <<where, socket, client, backlog, watched, ready, conns,
                 readPos, asked, pool, main, swept, failures, answers>>

\* Mutation: EAGAIN is an error like others.
ReadEndsAnyway(t, c) ==
  /\ Handling(t, c, "events")
  /\ taken' = [taken EXCEPT ![c] = arrived[c]]
  /\ Goto(t, "closing")
  /\ UNCHANGED <<where, socket, client, backlog, watched, ready, conns, buf,
                 readPos, capacity, asked, pool, main, swept, failures,
                 answers>>

\* The end of the stream, or an error, closes the connection on the spot, with
\* what was read before it; so does a realloc that fails.
ReadEnds(t, c) ==
  /\ Handling(t, c, "events")
  /\ \/ fin[c] /\ UNCHANGED failures
     \/ /\ arrived[c] > taken[c]
        /\ Len(buf[c]) + arrived[c] - taken[c] > capacity[c]
        /\ Fails
  /\ taken' = [taken EXCEPT ![c] = arrived[c]]
  /\ Goto(t, "closing")
  /\ UNCHANGED <<where, socket, client, backlog, watched, ready, conns, buf,
                 readPos, capacity, asked, pool, main, swept, answers>>

Rest(c) == SubSeq(buf[c], readPos[c] + 1, Len(buf[c]))

\* header_len + content_length of the request whose header is unit i
TotalExpected(c, i) ==
  Cardinality({j \in DOMAIN Stream[c] : Stream[c][j] = Stream[c][i]})

Whole(c) == Rest(c) # <<>> /\ Len(Rest(c)) >= TotalExpected(c, Head(Rest(c)))

NextTask(c) ==
  <<c, asked[c] + 1, SubSeq(Rest(c), 1, TotalExpected(c, Head(Rest(c))))>>

\* Mutation: the length is reset and the position is not.
AdvanceUnreset(c) ==
  LET at == readPos[c] + TotalExpected(c, Head(Rest(c)))
  IN /\ readPos' = [readPos EXCEPT ![c] = at]
     /\ buf' = [buf EXCEPT ![c] = IF at = Len(@) THEN <<>> ELSE @]
     /\ asked' = [asked EXCEPT ![c] = @ + 1]
     /\ UNCHANGED <<taken, capacity>>

\* Past the request; a buffer read to its end starts again.
Advance(c) ==
  LET at == readPos[c] + TotalExpected(c, Head(Rest(c)))
      drained == at = Len(buf[c])
  IN /\ readPos' = [readPos EXCEPT ![c] = IF drained THEN 0 ELSE at]
     /\ buf' = [buf EXCEPT ![c] = IF drained THEN <<>> ELSE @]
     /\ asked' = [asked EXCEPT ![c] = @ + 1]
     /\ UNCHANGED <<taken, capacity>>

\* net_threadpool_add takes the request.
DispatchAccepted(t, c) ==
  /\ Handling(t, c, "parse") /\ Whole(c)
  /\ Pool!Accept(NextTask(c))
  /\ Advance(c)
  /\ UNCHANGED <<where, socket, client, backlog, watched, ready, thread, conns,
                 main, swept, failures, answers>>

\* Mutation: -1 is not looked at.
DispatchForgets(t, c) ==
  /\ Handling(t, c, "parse") /\ Whole(c)
  /\ closed \/ Len(line) = QueueSize
  /\ Advance(c)
  /\ UNCHANGED <<where, socket, client, backlog, watched, ready, thread, conns,
                 pool, main, swept, failures, answers>>

\* It is full: the thread runs the handler itself.
DispatchRefused(t, c) ==
  /\ Handling(t, c, "parse") /\ Whole(c)
  /\ Pool!Refuse(NextTask(c))
  /\ Advance(c)
  /\ Goto(t, "inline")
  /\ UNCHANGED <<where, socket, client, backlog, watched, ready, conns, main,
                 swept, failures, answers>>

\* One of the two mallocs fails: the request is passed over.
DispatchFails(t, c) ==
  /\ Handling(t, c, "parse") /\ Whole(c)
  /\ Fails
  /\ Advance(c)
  /\ UNCHANGED <<where, socket, client, backlog, watched, ready, thread, conns,
                 pool, main, swept, answers>>

Compact(c) == readPos[c] > capacity[c] \div 2

\* Mutation: the position moves to the front and the data stays.
ParseDoneUnmoved(t, c) ==
  /\ Handling(t, c, "parse") /\ ~Whole(c)
  /\ readPos' = [readPos EXCEPT ![c] = IF Compact(c) THEN 0 ELSE @]
  /\ EventDone(t)
  /\ UNCHANGED <<where, socket, client, backlog, watched, ready, conns, taken,
                 buf, capacity, asked, pool, main, swept, failures, answers>>

\* No whole request is left; what remains may move to the front.
ParseDone(t, c) ==
  /\ Handling(t, c, "parse") /\ ~Whole(c)
  /\ buf' = [buf EXCEPT ![c] = IF Compact(c) THEN Rest(c) ELSE @]
  /\ readPos' = [readPos EXCEPT ![c] = IF Compact(c) THEN 0 ELSE @]
  /\ EventDone(t)
  /\ UNCHANGED <<where, socket, client, backlog, watched, ready, conns, taken,
                 capacity, asked, pool, main, swept, failures, answers>>

-----------------------------------------------------------------------------
(* The handler, in a worker or in the reactor thread *)

\* write(client_fd): whoever has the descriptor now gets the answer.
Answer(x) ==
  LET there == Holding(fd[x[1]])
  IN answers' = answers \cup
       (IF there = {} THEN {<<x[1], x[2], Nobody>>}
        ELSE {<<x[1], x[2], d>> : d \in there})

InlineOf(t) ==
  {x \in started :
     pc[t] = "inline" /\ x[1] = Head(batch[t]) /\ x[2] = asked[x[1]]}

InlineTasks == UNION {InlineOf(t) : t \in Threads}

RunInline(t) ==
  /\ pc[t] = "inline"
  /\ \E x \in InlineOf(t) : Pool!Finish(x) /\ Answer(x)
  /\ Goto(t, "parse")
  /\ UNCHANGED <<where, socket, client, backlog, watched, ready, conns, input,
                 main, swept, failures>>

StartTask ==
  /\ Pool!Start
  /\ UNCHANGED <<where, socket, client, backlog, watched, ready, thread, conns,
                 input, main, swept, failures, answers>>

\* worker_task_wrapper
RunTask(x) ==
  /\ x \notin InlineTasks
  /\ Pool!Finish(x) /\ Answer(x)
  /\ UNCHANGED <<where, socket, client, backlog, watched, ready, thread, conns,
                 input, main, swept, failures>>

-----------------------------------------------------------------------------
(* The owner of the reactor *)

\* One round of net_reactor_run: a listening socket, an epoll instance and a
\* thread.  It returns 0 after the last.
StartThread(t) ==
  /\ main = "starting" /\ pc[t] = "unborn"
  /\ pc' = [pc EXCEPT ![t] = "wait"]
  /\ main' = IF \E u \in Threads \ {t} : pc[u] = "unborn" THEN main ELSE "run"
  /\ UNCHANGED <<where, socket, client, backlog, watched, ready, batch, conns,
                 input, pool, swept, failures, answers>>

\* A round fails: -1 at once, and the threads that run already go on.
StartFails ==
  /\ main = "starting" /\ failures < MaxFailures
  /\ main' = "failed"
  /\ UNCHANGED <<where, socket, client, backlog, watched, ready, thread, conns,
                 input, pool, swept, failures, answers>>

\* net_reactor_stop
Stop ==
  /\ main = "run"
  /\ main' = "joining"
  /\ UNCHANGED <<where, socket, client, backlog, watched, ready, thread, conns,
                 input, pool, swept, failures, answers>>

\* net_reactor_destroy, once the threads are joined, or straight after a
\* failed start, which nobody stops: the pool first ...
DestroyPool ==
  /\ \/ /\ main = "joining" /\ \A t \in Threads : pc[t] = "left"
        /\ main' = "destroying"
     \/ main = "failed" /\ main' = "abandoned"
  /\ Pool!Close
  /\ UNCHANGED <<where, socket, client, backlog, watched, ready, thread, conns,
                 input, swept, failures, answers>>

\* Mutation: the workers are not waited for.
SweepEarly ==
  /\ main = "destroying"
  /\ main' = "gone"
  /\ where' = [c \in Clients |->
                 IF \E f \in DOMAIN conns : conns[f] = c THEN "closed"
                 ELSE where[c]]
  /\ conns' = [f \in DOMAIN conns |-> Nobody]
  /\ UNCHANGED <<socket, client, backlog, watched, ready, thread, input, pool,
                 swept, failures, answers>>

\* ... and when its workers are joined, every connection of the table.  With
\* the threads of the reactor joined too, nobody sees them go one by one.
Sweep ==
  /\ main = "destroying" /\ started = {}
  /\ main' = "gone"
  /\ where' = [c \in Clients |->
                 IF \E f \in DOMAIN conns : conns[f] = c THEN "closed"
                 ELSE where[c]]
  /\ conns' = [f \in DOMAIN conns |-> Nobody]
  /\ UNCHANGED <<socket, client, backlog, watched, ready, thread, input, pool,
                 swept, failures, answers>>

(* The same under threads that run on, after a failed start *)

\* free(pool), when its workers are joined.
FreePool ==
  /\ main = "abandoned" /\ started \subseteq InlineTasks
  /\ main' = "ruined"
  /\ UNCHANGED <<where, socket, client, backlog, watched, ready, thread, conns,
                 input, pool, swept, failures, answers>>

\* close_connection for the next entry of the table.  Threads fill and clear
\* entries meanwhile, behind the loop as well.
SweepNext ==
  /\ main = "ruined" /\ swept < TableSize
  /\ swept' = swept + 1
  /\ LET c == conns[swept] IN
       IF c = Nobody THEN UNCHANGED <<where, watched, ready, conns>>
       ELSE /\ conns' = [conns EXCEPT ![swept] = Nobody]
            /\ where' = [where EXCEPT ![c] = "closed"]
            /\ watched' = watched \ {c}
            /\ ready' = [ready EXCEPT ![owner[c]] = Kept(@, Items \ {c})]
  /\ UNCHANGED <<socket, client, backlog, thread, input, pool, main, failures,
                 answers>>

\* free(reactor)
FreeReactor ==
  /\ main = "ruined" /\ swept = TableSize
  /\ main' = "freed"
  /\ UNCHANGED <<where, socket, client, backlog, watched, ready, thread, conns,
                 input, pool, swept, failures, answers>>

PoolFreed == main \in {"ruined", "freed", "gone"}
ReactorFreed == main \in {"freed", "gone"}

\* The connection in hand has been closed by somebody else.
Stale(t) ==
  /\ pc[t] \in {"events", "parse", "closing", "releasing"}
  /\ \/ \E c \in Clients : Handling(t, c, pc[t]) /\ where[c] = "closed"
     \/ /\ pc[t] \in {"closing", "releasing"} /\ Handling(t, Listener, pc[t])
        /\ \A c \in Clients : ~Newcomer(t, c)

\* The thread is about to use what is freed: its connection, the pool (before
\* that, a malloc might fail, and the request be passed over: left out), or
\* the reactor.  A handler has copies of what it needs.
Dangling(t) ==
  \/ Stale(t)
  \/ PoolFreed /\ \E c \in Clients : Handling(t, c, "parse") /\ Whole(c)
  \/ ReactorFreed /\ Listening(t) /\ pc[t] # "inline"

\* The owner may have looked at the entry of a connection just before its
\* thread cleared it, or as soon as it was filled and before EPOLL_CTL_ADD.
Colliding(t) ==
  /\ main = "ruined" /\ pc[t] \in {"accepted", "releasing"}
  /\ \E c \in Clients : InHand(t, c) /\ fd[c] = swept /\ swept < TableSize

UseFreed(t) ==
  /\ Dangling(t) \/ Colliding(t)
  /\ main' = "undefined"
  /\ UNCHANGED <<where, socket, client, backlog, watched, ready, thread, conns,
                 input, pool, swept, failures, answers>>

Handle(t, c) ==
  \/ AcceptFails(t, c) \/ Register(t, c) \/ RegisterFails(t, c)
  \/ CloseConnection(t, c)
  \/ Read(t, c) \/ ReadEnds(t, c)
  \/ DispatchAccepted(t, c) \/ DispatchRefused(t, c) \/ DispatchFails(t, c)
  \/ ParseDone(t, c)

Run(t) ==
  /\ ~Dangling(t)
  /\ \/ Wait(t) \/ Leave(t)
     \/ Accept(t) \/ AcceptDone(t)
     \/ \E c \in Clients : Handle(t, c)
     \/ RunInline(t)

\* What happens is still what the program says.
Defined == main # "undefined"

Thread(t) == Defined /\ (Run(t) \/ UseFreed(t))

Worker == Defined /\ (StartTask \/ \E x \in started : RunTask(x))

Owner ==
  \/ \E t \in Threads : StartThread(t)
  \/ DestroyPool \/ Sweep
  \/ FreePool \/ SweepNext \/ FreeReactor

Next ==
  \/ \E t \in Threads : Thread(t)
  \/ Worker
  \/ Stop \/ StartFails \/ Owner
  \/ \E c \in Clients :
       Defined /\ (Send(c) \/ HangUp(c) \/ \E t \in Threads : Connect(c, t))

Spec == Init /\ [][Next]_vars

\* Threads run, handlers return, and the owner goes on once it has begun to
\* stop.  Clients owe nothing, and nobody has to stop the reactor.
FairSpec ==
  Spec /\ (\A t \in Threads : WF_vars(Thread(t))) /\ WF_vars(Worker)
       /\ WF_vars(Owner)

-----------------------------------------------------------------------------
(* Properties *)

TypeOK ==
  /\ where \in [Clients -> {"away", "queued", "reset", "open", "closed"}]
  /\ owner \in [Clients -> Threads \cup {Nobody}]
  /\ fd \in [Clients -> Fds]
  /\ fin \in [Clients -> BOOLEAN]
  /\ \A c \in Clients :
       /\ 0 <= taken[c] /\ taken[c] <= arrived[c]
       /\ arrived[c] <= Len(Stream[c])
       /\ buf[c] \in Seq(DOMAIN Stream[c]) /\ Len(buf[c]) <= capacity[c]
       /\ readPos[c] \in 0 .. Len(buf[c])
       /\ asked[c] \in Nat
  /\ backlog \in [Threads -> Seq(Clients)]
  /\ watched \in SUBSET Clients
  /\ ready \in [Threads -> Seq(Items)]
  /\ batch \in [Threads -> Seq(Items)]
  /\ pc \in [Threads -> {"wait", "events", "accepted", "parse", "inline",
                         "closing", "releasing", "leave", "left", "unborn"}]
  /\ conns \in [0 .. TableSize - 1 -> Clients \cup {Nobody}]
  /\ line \in Seq(Tasks) /\ Len(line) <= QueueSize
  /\ started \subseteq Tasks /\ finished \subseteq Tasks /\ closed \in BOOLEAN
  /\ main \in {"starting", "run", "joining", "destroying", "gone"} \cup Failed
  /\ swept \in 0 .. TableSize
  /\ failures \in 0 .. MaxFailures

\* Connections are closed and freed under threads that run: the pool of a
\* reactor whose start failed is gone, and what depends on it no longer holds.
Forsaken == main \in {"ruined", "freed", "undefined"}

(***************************************************************************)
(* reactor->conns is exact while threads accept and close at the same time *)
(* and descriptors are used again: an entry is an open connection with     *)
(* that descriptor (net_send and net_reactor_destroy follow it), and each  *)
(* registered connection the table has room for is entered.                *)
(***************************************************************************)
Releasing(c) ==
  pc[owner[c]] = "releasing" /\ Head(batch[owner[c]]) = c

TableExact ==
  Forsaken \/
    /\ \A f \in DOMAIN conns : conns[f] # Nobody => conns[f] \in Holding(f)
    /\ \A c \in watched :
         fd[c] < TableSize /\ where[c] = "open" /\ ~Releasing(c)
           => conns[fd[c]] = c

(***************************************************************************)
(* No thread uses a connection, the pool or the reactor after it is freed, *)
(* unless net_reactor_run failed with threads running, under whom its      *)
(* caller destroys the reactor: no event of a closed connection is left in *)
(* a ready list or in the rest of a batch (reactor_thread_func casts its   *)
(* pointer unseen), and the join covers every step of a thread.            *)
(***************************************************************************)
Due(t, i) == Contains(ready[t], i) \/ Contains(batch[t], i)

FreedUnused == main = "undefined" => \E t \in Threads : pc[t] = "unborn"

(***************************************************************************)
(* Framing: whatever pieces the data arrives in, and however the buffer    *)
(* grows, is drained and compacted, the k-th task of a connection is its   *)
(* k-th request, whole and with nothing else.                              *)
(***************************************************************************)
Request(c, k) ==
  Kept([i \in DOMAIN Stream[c] |-> i],
       {i \in DOMAIN Stream[c] : Stream[c][i] = k})

Handed == ToSet(line) \cup started \cup finished

RequestsWhole == \A x \in Handed : x[3] = Request(x[1], x[2])

(***************************************************************************)
(* Edge-triggered input is never left lying: what a registered connection  *)
(* has received and not read has an event on its way, and a whole request  *)
(* is in the buffer only while its thread is framing.                      *)
(***************************************************************************)
Framing(c) ==
  pc[owner[c]] \in {"parse", "inline", "closing", "releasing"}
    /\ Head(batch[owner[c]]) = c

InputCovered ==
  Forsaken \/
    \A c \in watched :
      where[c] = "open" /\ Listening(owner[c]) =>
        /\ Readable(owner[c], c) => Due(owner[c], c)
        /\ Whole(c) => Framing(c)

(***************************************************************************)
(* Whoever waits at a listening socket has an event of it on its way, as   *)
(* the accept loop goes on until there is nobody left, or the stop.        *)
(***************************************************************************)
BacklogCovered ==
  ~stop /\ ~Forsaken =>
    \A t \in Threads : backlog[t] # <<>> => Due(t, Listener)

(***************************************************************************)
(* An answer fails to reach the client that asked only if that client shut *)
(* its side first, an allocation failed, or the start did: nothing else    *)
(* closes a connection under its requests, and the stop and destruction of *)
(* a reactor that was started do not.                                      *)
(***************************************************************************)
AnswersArrive ==
  \A a \in answers : a[3] = a[1] \/ fin[a[1]] \/ failures > 0 \/ Forsaken

(***************************************************************************)
(* The reactor with its threads, buffers and descriptors implements        *)
(* Courier: no request is taken up twice, out of order or before the whole *)
(* of it has arrived, none is held by two handlers, none answered twice or *)
(* after net_reactor_destroy has joined the workers, and an answer reaches *)
(* who asked, with the excuses of Courier.                                 *)
(***************************************************************************)
\* The requests that come before that of the next unit, if there is one.
SentWhole(c) ==
  IF arrived[c] < Len(Stream[c]) THEN Stream[c][arrived[c] + 1] - 1
  ELSE IF Stream[c] = <<>> THEN 0 ELSE Last(Stream[c])

Held == {<<x[1], x[2]>> : x \in ToSet(line) \cup started}

Promise == INSTANCE Courier WITH
  sent <- [c \in Clients |-> SentWhole(c)],
  quit <- {c \in Clients : fin[c]},
  faulty <- failures > 0 \/ Forsaken,
  taken <- asked,
  held <- IF main = "gone" THEN {} ELSE Held,
  over <- main = "gone"

ImplementsCourier == Promise!Spec

(***************************************************************************)
(* Whole requests are answered, to the client that sent them, unless that  *)
(* client shuts its side, an allocation fails (for them, or so that their  *)
(* connection is closed), the reactor stops or is freed after a failed     *)
(* start, or a thread meets the end of the descriptors (and spins in       *)
(* accept).                                                                *)
(***************************************************************************)
Sent(c, k) ==
  /\ arrived[c] >= Last(Request(c, k))
  /\ where[c] \in {"queued", "open"} \/ (where[c] = "closed" /\ failures = 0)
PassedOver(c, k) ==
  failures > 0 /\ asked[c] >= k /\ \A x \in Handed : ~(x[1] = c /\ x[2] = k)
Unanswered ==
  {c \in Clients : ~fin[c] /\ \E k \in ToSet(Stream[c]) :
     Sent(c, k) /\ ~PassedOver(c, k) /\ <<c, k, c>> \notin answers}
Spinning(t) == Handling(t, Listener, "events") /\ Free = {} /\ ~stop

RequestsAnswered ==
  Unanswered # {} ~>
    Unanswered = {} \/ stop \/ Forsaken \/ \E t \in Threads : Spinning(t)

(***************************************************************************)
(* net_reactor_stop and net_reactor_destroy return, even from threads that *)
(* spin in accept for want of a descriptor.                                *)
(***************************************************************************)
StopReturns == stop ~> main = "gone"

(***************************************************************************)
(* "client_fd: socket for the client connection" (net_epoll.h, on the      *)
(* callback): no client is sent the answer to another.  The code keeps a   *)
(* number: once the asker is gone, a new client may have it.               *)
(***************************************************************************)
AnswersOwn == \A a \in answers : a[3] \in {a[1], Nobody}
=============================================================================
