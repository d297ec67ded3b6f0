# A verification project for q_c_gateway

TLA+ models, TLC runs and TLAPS proofs of the micro-service gateway, of the
network library `lib/net` and of the example service built on it.
Everything is translated from the C source; `PROJECT.json` names, for every
definition, the lines it stands for.

To check: `tlc -config pool.cfg MCThreadPool` (and so on, see *Runs*), and
`tlapm` on the modules whose names end in `Proof` (some minutes for the largest).

## 1. Inventory

The repository holds two programs and a library, some 2600 lines of C without
tests.

| part | state | operations | what is hard |
|---|---|---|---|
| **lib/net worker pool** `net_threadpool.c` | ring of tasks (`queue`, `head`, `tail`, `count`), `shutdown`, the global `g_exit_flag`, a mutex and a condition variable | worker loop, `net_threadpool_add`, `net_threadpool_destroy` | many producers and consumers, wake-ups, exit at any moment, a full ring |
| **lib/net reactor** `net_epoll.c` | per thread an epoll instance and a listening socket; `conns[fd]`; per connection an input buffer, an output buffer with positions, `send_lock` | accept loop, `handle_client_data` (read, frame, dispatch), `handle_client_out`, `net_send`, `close_connection`, run/stop/destroy | edge-triggered events, workers that answer on descriptors the reactor may have closed, partial writes |
| **gateway server** `gateway/src/server.c` | one listening socket shared by the epoll instances of all threads | `thread_func`: accept, read once, limit, choose, answer, close | edges shared and lost, batches of events, descriptors running out |
| **rate limiter** `rate_limit.c` | one token bucket with a mutex | `rate_limit_init`, `rate_limit_check` | lazy refill by the wall clock, `int` arithmetic |
| **service registry** `service_registry.c` | array of `Service`, each with a pointer to its array of instances; one global mutex and one per slot | register, unregister, get | an index used after its lock is released, structures moved under it |
| **load balancer** `load_balancer.c` | an index and a weight per service name, a count of connections per instance | `load_balancer_select` (round robin; two more choices are never called) | cursors that outlive what they count, a loop that counts weights down |
| **auth, health check** | none in use | `auth_check` lets everybody in; the health thread is never started | - |
| **employee service** `service/src` | two employees, photos as files | routing, list, get, photo upload and download | files written and read at once, short writes, binary bodies handled as strings |
| **config, log, entry points** | tables, a `FILE` | start-up order, printing | - |
| **example server** `examples/echo_server.c` | `g_exit_flag` | signal handler, stop, destroy | exit with work in progress |

How they meet: the reactor threads are the producers of the worker pool and run
a request themselves when it refuses; handlers write to client sockets, directly
or through `net_send`, which shares a connection's output buffer with the reactor
under `send_lock`. The gateway does not use the library: its threads call the
limiter, then the balancer, which reads the registry, under the locks of those
modules. Nothing in the repository registers a service, so the balancer's answer
is always "none" (a 503) as shipped, and `net_send` is called by no handler: both
are modelled as the interfaces they are.

As committed the library does not compile (`g_exit_flag` is declared in no
header, and `net_stack_type_t` is used before it is declared), and neither does the
service (`net_reactor_create` is called without a queue size, `parse_http_request` used
before it is declared). The models take `g_exit_flag` to be the flag the example
server sets, and the queue size as a constant.

Where the documents say other than the code, beyond what the runs show: net_epoll.h:11 promises a
handler the data without the header, and it is given both; README.md describes health
checks, authentication and a choice of balancing methods that nothing starts or calls;
a GET of any unknown path lists the employees; the length announced for one employee is
an estimate, and too short; the comment in net_reactor_destroy (net_epoll.c:621) takes all connections to be closed
by then, and after every stop those still open are closed by the loop it stands in; a selection counts a connection that is
never taken off again.

What makes each part correct: the pool neither loses nor doubles a task, and
wakes somebody for each; a request is handed over once, whole and in order; the stream of a connection is in order, in one piece and
complete; every edge is served or known to be lost; no request passes the limiter
unpaid; the table of services is what was registered; choices rotate, honour weights
and level connections; a request ends where it says; a photo is one upload's, and an
answer one piece of the length it announces.
The hazards, each at its line, are in `PROJECT.json`.

## 2. Modules

| module | what it is |
|---|---|
| `TaskQueue` | abstract: a bounded first-in first-out line with hands, which may refuse |
| `ThreadPool` | the worker pool and its callers; implements `TaskQueue` |
| `ReadyList` | the list of ready items of an epoll instance, and the parts of a list that satisfy a predicate; used by the two modules with threads on epoll and, for the text of a stream, by `EmployeeService` |
| `Courier` | abstract: requests taken up once, in order and complete, and answered at most once, to who asked |
| `Connections` | the reactor threads, their connections, start, stop and destroy; uses `TaskQueue` for the pool, and implements `Courier` |
| `HttpFraming` | where a request ends in the text that has come |
| `EmployeeService` | the handler of the example service, and its photos |
| `TokenBucket` | abstract: a bucket that fills by itself |
| `RateLimit` | `rate_limit.c`; implements `TokenBucket` |
| `Gateway` | the gateway's threads; uses `TokenBucket` for the limiter |
| `ByteStream` | abstract: messages in order and in one piece |
| `OutputPath` | `net_send`, `handle_client_out`, the dispatch; implements `ByteStream` |
| `ServiceRegistry` | `service_registry.c`, by critical section |
| `LoadBalancer` | extends `ServiceRegistry` with `load_balancer_select` |
| `Selection` | the weighted and the least-connections choice |
| `MC...` | constants and symmetry for TLC |
| `...Proof` | theorems; `ReadyListProof` has the lemmas about lists that the proofs of `Gateway`, `Connections`, `EmployeeService` and `LoadBalancer` share; `EmployeeServiceProof` also holds the proof about `HttpFraming`, `LoadBalancerProof` the one about `Selection` |

Operators marked *Mutation* state a plausible slip in the definition that follows
them; nothing in the specifications uses them. Each replaces its definition in a
run that must then fail.

### ThreadPool

A critical section under `pool->lock` is an action. `wpc` is where a worker is:
at the test of the exit flag, at the lock, waiting, in a handler, gone. The
condition variable is the set of workers waiting, and a signal takes one of them
to the lock; `SpuriousWakeup` is allowed by POSIX. `net_threadpool_add` is split by
its result, `AddAccepted` and `AddRefused`, because the reactor thread goes on to run
the refused task itself. `exitFlag` is read without the lock, in an action of its
own. `StopReactor`, `LeaveLoop`, `Destroy` and `Free` are `net_reactor_stop` and
`net_threadpool_destroy` with their joins.

### Connections

What stands between a client's bytes and a handler's answer: accept, read, frame,
hand over, close, and the shutdown of it all. An action is what a thread does between two points where
another may act: `Accept` and `Register` (table entry and EPOLL_CTL_ADD); `Read` (the loop
to EAGAIN, buffer growth) or `ReadEnds`; one `Dispatch...` for each request framed, `ParseDone` with
the compaction; `CloseConnection` in two steps, the table entry and the descriptor. The pool
is `TaskQueue`, so that what `ThreadPool` is shown to keep is what is used here; any number of
tasks may be with workers at once. A connection is known by its client, and keeps its
descriptor `fd` after it is closed because tasks do. Descriptors are numbers, the lowest free
one is given out, as POSIX has it. Data is counted in units which know their request: the
search for the end of the header and Content-Length come down to `TotalExpected`. A thread that
finds no descriptor in accept spins (`continue`): it has no step until one is free.
`net_reactor_run` is `StartThread` for each thread, and clients come as soon as the first
listens. After a stop, with threads and workers joined, the end is `DestroyPool` and `Sweep`.

When a round of the start fails (`StartFails`) the callers destroy the reactor without stopping it, under the
threads that run. There the end is taken apart: `DestroyPool`, `FreePool`, `SweepNext` for each
entry of the table, `FreeReactor`, each between any two steps of the threads, which go on with their
batches and handlers (an inline handler has copies of all it needs, and may still answer, to whoever
has the descriptor). A thread whose next step would use a closed connection, the freed pool or
the freed reactor (`Dangling`), or which is between the table and its connection just where the
owner is (`Colliding`), takes `UseFreed` instead: from there on C leaves open what happens, and the
model ends. `FreedUnused` says that only a failed start leads there. What the properties except on account
of it is one predicate, `Forsaken`: the pool of such a reactor is freed.

`Doubled`, the growth of a buffer, and `Kept` of `ReadyList` are recursive functions, so that they can be reasoned about.
`Courier` is what all of this comes to for a client and for a handler: `SentWhole` counts the requests
that have come to their last unit, `asked` those taken up, and `Held` are those in the line or with a handler. Its
three excuses, a client that quit, an allocation that failed and a failed start, are all the departures there are; the answer that goes to
the next owner of a descriptor is one of the first kind. Freeing a reactor that was stopped ends everything (`End`): no
handler may run after it, which is what joining the workers first is for. `RequestsAnswered` excuses a request
that was passed over only if an allocation failed, and asks for the answers to requests on connections that
were closed without a failure as well.
Two crashes end a behaviour early and are no steps: the first memcpy to a `conn->buf` whose malloc failed, which
line 476 does not look at, and SIGPIPE, which a write to a connection that was reset raises and nothing ignores.
Not here: EPOLLOUT (OutputPath), EPOLLHUP and EPOLLERR alone (a socket that has them is
readable too, and read comes first), and a reactor without a pool.

### HttpFraming

`my_strnstr`, `strcasestr` and `atoi` as `handle_client_data` uses them, on texts of
tokens that are each one long: line ends, '\0', the words `Content-Length:`, numerals and
other text (`Tokens`; `Words` is the other text). The sums wrap at a `size_t`. A text comes piece by piece (`Receive`) and requests are taken off its
front (`CutOff`), by what is there at the time. `FramingExact` compares the code's search with a reading of the text
line by line, and has `Connections`' `TotalExpected` as its consequence: a request is cut off at
the same place whatever has come behind it. strcasestr is given a buffer without a '\0' and searches on into what
earlier requests left there and, if it has to, past the allocation; what it finds there is not used, and that it reads there
is not modelled.

### EmployeeService

A job is a request in the hands of a worker (or of the reactor thread, if the pool refused it), an
action is a job up to and with its next system call: opening with O_TRUNC, writing, fstat,
reading a chunk, writing to the socket. Jobs run side by side, those of one connection too, as
the library hands them out without waiting. Sockets are non-blocking and take what there is
room for (`Deliver`); a file call may fail or fall short (`Fails`). A body goes through `Copied`
(strncpy), a missing id leaves any id in place (`EmpId`: an uninitialised array on the stack). Of an
answer the status and two lengths are kept: announced and carried. Ids are one digit.

A client may leave at any time (`Disconnect`: the reactor closes its connection), and another connect
(`Connect`). Nobody tells the jobs. Descriptors are numbers, for connections and for the files jobs have
open, each the lowest that is free; `Write` goes to the number a job was given, and so to its client,
to another client, into a photo that is open for writing (`Spoil`), or nowhere. `struck` are the jobs whose
client was sent somebody else's answer meanwhile, `spoilt` the photos hit. As long as the reactor has not closed the connection, a write to a client
that left may raise SIGPIPE, which ends the service; that is no step.

A body of MAX_BUFFER bytes or more runs over the array parse_http_request copies it to: `Overrun` notes it
and the model ends there, so that the properties are about services to which nobody has sent one. The branch for bodies
over 10 MB (`TooLarge`) is then out of reach, in the program as in the model.

### RateLimit, TokenBucket

`rate_limit_check` holds the mutex from end to end: it is one action, `Admit` or
`Refuse`. The clock `now` is external and jumps ahead and back. Sums wrap at
`IntMax`. `TokenBucket` fills as time passes; the refinement maps its level to what
the next check would find. Once the clock has been set back the two differ in when
tokens come, and `TokenBucket` allows for it (`Void`); `NeverOverdrawn` holds even then.

### Gateway

An action is one event of a batch. The kernel (accept queue, ready lists, edges) is
modelled from how the code uses it and marked external: an edge reaches the ready
list of every epoll instance that watches the item, `epoll_wait` reports it once if it
is still readable. `Accept` takes one connection; `AcceptRefused` closes one that cannot be made non-blocking or
added to the epoll instance, which uses the event up (noted in `refused`); `AcceptNothing` has the two error
paths of accept itself, `break` on EAGAIN (the rest of the batch is thrown away, noted in `dropped`) and
`continue` on others. A client may shut its side or reset its connection (`Reset`: what was not read is gone). `overrun` notes that more clients than threads were waiting or
that a descriptor was missing. A request is one read. The content of a request and
the 401 branch (auth_check always returns 0) are left out; 200 and 503 are one
outcome, "served". A response to a connection that is reset between read and write raises SIGPIPE, which
ends the process; that is no step.

### OutputPath, ByteStream

`net_send` is two actions, `NetSend` up to its write and `Buffer` (or `BufferFails`, when
realloc does) from there to `epoll_ctl`, with `send_lock` held in between, because the
kernel and the reactor's `epoll_wait` run on in that gap. `handle_client_out` is one.
Data is counted in units that know their message, so that order can be seen.
Short writes, edges and the look `EPOLL_CTL_MOD` takes at the socket are external.
`missed` notes that the dispatcher passed an EPOLLOUT over. Errors that close the
connection are not here.

### ServiceRegistry, LoadBalancer

Each critical section is an action; between two of them a call holds an index, as
the code does. `services` is the array of structures with their `instances` pointers,
`heap` what they point to, memory of `malloc` included (`Garbage`), so that closing the
gap by structure assignment shows its effect. A selection is `SelectFinds` and then
`SelectNone` or `SelectChooses`. Inside a critical section other sections of the other
mutex may run in the program: the gap is closed (service_registry.c:177) under `service_registry_mutex`
beside sections under the mutexes of the slots, and copies those mutexes along, locked or not. The model keeps
sections whole and has no mutex in the structures. With two registrars an index
may be stale when it is used: `raced` notes the first call that goes on with one, and the
model ends there, since structures may then be written beyond the array's end.

### Selection

Both choices run under the mutex of the service from end to end, so each is a function: of the instances, and
of the index and the weight kept for the name. The loop of the weighted choice is a recursive
function, its two variables the argument; that it ends is part of what is checked. A step is a call of
load_balancer_select, were it to make that choice.

## 3. Runs

| run | instance | expected |
|---|---|---|
| `pool` | 2 workers, 2 reactor threads, 3 tasks, ring of 2; 16 000 states | pass, safety, refinement, liveness |
| `rate_limit` | 3 tokens, 2 a second, clock within 5 s of the start; 2 000 states | pass; no deadlock |
| `connections` | 2 threads, 2 clients, 2 descriptors of which 1 is in the table, two requests of two units and one of one, a start that may fail; 322 000 states | pass, safety, refinement and liveness |
| `connections_stray` | one thread | `AnswersOwn` violated |
| `gateway` | 2 threads, 3 clients of which 1 may reset or be refused, 2 descriptors; 448 000 states | pass, safety and liveness |
| `gateway_batch` | 2 threads, 2 clients | `EveryRequestAnswered` violated |
| `output` | messages of 1, 3 and 4 units, socket of 2, first buffer of 3; 26 000 states | pass |
| `output_stuck` | two messages | `RestSentLater` violated |
| `registry` | 2 registrars with 5 calls, 2 threads with 3 choices, 2 names, 3 addresses, 2 slots of 2; 600 000 states up to symmetry, and 500 groups of up to 3 instances for `Selection` | pass |
| `registry_alias` | 1 registrar, 1 thread | `RegisteredKept` violated |
| `service` | 3 clients of which 1 may leave and 1 connects later, 5 descriptors for them and the files, six mixes of requests, chunks of 4, sockets of 6, photos of up to 5 bytes; and 6 200 texts for `HttpFraming`; 732 000 states | pass |
| `service_photo` | the same | `StoredAsSent` violated |

Why the bounds are enough. Three tasks on a ring of two fill it, wrap it and
overflow it, with two workers to race for a wake-up. In `Connections` four units in a buffer of three are
read in every grouping, grow the buffer and leave half a request behind a whole one,
where it is compacted; two connections on two threads share a batch or race for a descriptor; a
queue of one refuses. MaxFailures is one, and (`Mixed` is FALSE) a run has either failures or
hang-ups, and no failure after a failed start: the theorems hold for `Mixed` either way; that the first client always reaches the first thread (`Routes`), and that
clients connect in the order of their names (`Earlier` in Gateway), loses nothing as they are
alike. Three clients on two threads
and two descriptors overrun the accept queue and the descriptor table, and put a
connection's event behind the listener's in a batch. A message of four units with a
first buffer of three needs the doubling loop twice over, and a socket of two leaves
the read position beyond the half of the buffer, where net_send compacts. Three
addresses for two places fill a service, and five calls let one registrar remove and create services
between the two halves of another's call. In `EmployeeService` a photo takes two chunks, a socket is full after one, and the
uploads beside a download are shorter and longer than each other and than the file that was there, and empty. The groups of
`Selection` have up to three instances, healthy or not, with weights of 0 to 3 or uneven connections, and indices and weights
left over that fit none of them (`AllMarks`); six choices level connections that differ by three. The texts of
`HttpFraming` are a request line, two lines that are fields, near fields or not fields, separated by a whole or half a line end, with
parts of a body and of the next request behind them, and all texts of up to six short tokens. MaxSends, MaxClock, MaxInput, MaxCalls,
MaxSelects, MaxChoices, MaxCycles and MaxFailures bound how often the environment acts; `Faulty` (who may reset in `Gateway`, or be refused),
`Leavers` (who may leave in `EmployeeService`) and `MaxSpoilt` (how far into a photo stray answers go) what it does: one such client of three is
enough for its descriptor to go to each of the others, and to a file. Of five descriptors two are left for files when
all three are connected, so that the third upload finds none. Where deadlock is not checked, the
system may really stop: nobody has to submit, connect, send or register.

What the violations show is in the findings of `PROJECT.json`: a `break` that drops a batch of edges; an
EPOLLOUT passed over; an array of instances shared by two services; an answer that goes
to the next owner of a descriptor; a photo cut at its first zero byte.

Beside each of these runs stands one that says what does hold: `AcceptedTaskRuns`
until exit, `AnswersArrive` and `RequestsAnswered` while the client stays, `RequestCovered` and `ServedOrForgotten` unless dropped or overrun,
`SentOrMissed`, `TableExact` until arrays are shared, `UploadStored` up to the zero byte. Two more limits of
the code have no violation of their own because the exceptions of these properties name them: tasks
that are in the ring when the pool is told to quit are neither run nor freed (`AcceptedTaskRuns`; the example calls its exit
graceful), and one accept per edge leaves a client waiting when more come at once than threads
(`overrun` in `ServedOrForgotten`).

The runs `service` and `registry` check two specifications each (`RunSpec` in their MC modules): a behaviour is
one of `EmployeeService` or one of `HttpFraming`, one of `LoadBalancer` or one of `Selection`. They share no
variable, so that nothing is lost by not interleaving them.

### Fairness

*Threads are scheduled*: weak fairness of each worker, of each gateway and reactor
thread and of a sender in net_send. In `Connections` the workers together are enough, as every task
runs once. *A join goes on*: weak fairness of `Destroy` and
`Free`, and of `Owner` in `Connections`, which also goes on starting threads, and destroying after a failed start; a reactor thread notices `stop` because its epoll_wait returns after 1000 ms
(`LeaveLoop`). *The peer reads what it is sent* in `OutputPath`. Nothing is assumed of
clients, of submitters, of spurious wake-ups or of the mutexes beyond progress:
no property needs a lock to be fair.

## 4. Proofs

For every value of the constants:

* `ThreadPoolProof`: `TypeCorrect`, `CursorsCorrect` (tail is count slots after head),
  `WakeupsKept`, `TasksConserved` and `TaskQueueImplemented`. Type correctness is inductive with the statement that a worker in a
  handler has a task; the cursors follow from it and arithmetic modulo the ring's
  size, stated as lemmas. For the wake-ups the invariant is that, while a worker
  sleeps, count is at most the number of workers at the lock; the work is in
  the cardinalities, as a signal moves one worker and a take removes one of each. For the
  refinement every section of the ring is shown to be one step of the line or none: what the
  line holds is read off the ring from head, and a take or an add shortens or lengthens it
  at one end, which is where the cursors are needed.
* `RateLimitProof`: `TypeCorrect`, `AdmissionsPaid`, `LazyRefillCorrect` (the refinement),
  each from NoOverflow, the assumption that the sums fit an `int`. The strengthening
  is that the last refill is never in the future unless the clock was set back.
* `OutputPathProof`: `TypeCorrect`, `MaskCorrect`, `OutputCoveredCorrect` and `ByteStreamImplemented`. The first two are inductive only together, and with
  `InHand`: who holds the lock between the two halves of net_send has something left to
  buffer; without it the mask could be armed for an empty buffer. That no wake-up is lost needs two facts more
  (`WakeInv`): before the mask is armed a short write leaves the socket with an edge to come or with room, and an
  armed mask has that edge, an event on the ready list or one being dispatched. The refinement needs that the rest of a message in hand is the tail of that message.
* `GatewayProof`: `TypeCorrect`, `EventsCorrect`, `RequestsCovered`, `BacklogCorrect`, `AnswersCorrect`. The
  invariant says where every connection's events can be (with its owner, once, and only while it is open), that
  nobody is in the accept queue twice, that who was closed without an answer hung up, reset or was refused, and, for the accept queue, compares its length with the number of threads that have an event of
  the listening socket: each action moves at most one of either, and the comparison is carried through the cardinalities.
* `ConnectionsProof`: `TypeCorrect`, `TableCorrect`, `FreedCorrect`, `InputCorrect`, `BacklogCorrect`,
  `AnswersCorrect`, `RequestsCorrect` and `CourierImplemented`, the first six from one invariant (`Standing`). It has two sides: what holds of any reactor,
  one that is freed under its threads included (types, that open descriptors differ, and `Joined`: past the join no thread is in its loop); and, unless the reactor is `Forsaken`, `IInv` in five parts, each with a comment there: types with the bounds of the buffers (`Typed`), where
  everything is (`Places`), edges (`Edges`), the table (`Table`), answers (`Answered`). None is inductive alone. `TableExact` needs that descriptors of open
  connections differ and that an entry is never that of a connection past its removal (`EntriesHeld`): this is where the order in
  close_connection, entry before descriptor, comes in. `InputCovered` needs `Late`: data that came after a thread
  has read, and before it is done framing, has an edge of its own on the ready list, as the event in hand will not see it; and that
  a buffer is empty until its connection is registered. `AnswersArrive` needs that tasks not yet done
  belong to open connections or excused ones, that the pool is closed exactly when the owner destroys, and that nobody closes without an excuse. `FreedUnused` needs of `Places` and `Edges` that a thread that has a connection in hand has one which is open and its own, so that nothing
  it uses is freed until `FreePool`, which only a failed start leads to.
  `RequestsWhole` has a second invariant on top (`Framed`): what was taken from the stream is what was handed over and the rest of the
  buffer, so that the rest starts with the next request (`InOrder`), and a connection that is neither being framed nor past its end is
  up to date. By `OrderAssumption`, that requests follow one another, the units of the next request are a run at the head of the rest; that this run is
  the request is an induction over its length (`KeptRun`). The refinement of `Courier` rests on both: the request at the front of the buffer has all its
  units among those taken, so that the next unit to come belongs to a later one (`TakenSent`); two tasks with the same number are the same, as
  each is the request of its number; and a task is in one place (`TasksOnce`), so that with its answer it is gone. That answer goes to one connection, as
  open descriptors differ; this is a fact of a reactor that is freed under its threads too, whose handlers answer on.
* `ReadyListProof`: what `Offered` and `Kept` do to the items of a list, that none comes twice, and what `Kept` makes of one list behind another. Facts about the recursive functions `Kept` and `Doubled` are
  proved by collecting the arguments for which they hold and showing the set to be all of Nat (`NatSet`, from the least counterexample).
* `LoadBalancerProof`: `TypeCorrect`, `TableCorrect`, `RotationCorrect`, `ChoiceCorrect`, for the registry with the balancer
  on it, and `LevelledCorrect` and `SharesCorrect` for `SelectionSpec`. `TableExact` is inductive with two facts: services in use point to different arrays, and no address is twice in one. Each
  critical section is then read as a change of places: an insert adds one, a removal and the closing of the gap move those after
  it. What such a section promises the threads that choose is stated once (`Effect`): names stay where they are unless a service went,
  and a count changes only with what is registered. The rotation follows from a closed form of the turns (`InTurn`): the turn d after another is
  the instance d places on, wrapped once, while d is less than the count; the cursor continues it. A cursor past the instances, which
  unregistering leaves behind, fits in as a first turn outside of them. The choice by connections is read off the table of its
  recursive function, an induction over the instances: it is a healthy one with the fewest connections, so that with the one
  it is given it is at most one ahead. The choice by weight needs first that its loop ends. `Rank` falls with every turn of it: the
  level of the pass it is in (one below the other as the weight counts down, the last being a pass in which an instance is still to come that fits), and then what is left of the pass
  (`RankFalls`). That the recursive function exists follows by induction over the rank. A cycle is the set of choices owed (`Owed`: an instance and a weight not above its
  own), whose cardinality is the sum of the weights. A mark is at the position which as many owed choices precede; a choice takes the next owed one, and wraps
  to the first (`WeightedReturns`). What is left over from other instances is worked off after one choice of each at most (`ShareInv`), and from then on
  the last choices are the positions before the mark, each once, so that an instance is counted as often as it is owed (`CycleShares`).
* `EmployeeServiceProof`: `TypeCorrect`, `UploadsStored`, `AnswersCorrect`, and `FramingCorrect` for `FramingSpec`. The first two
  are inductive with what the code relies on and does not say. Descriptors: a connection has its number for itself, also beside the files that are written, and a job that
  runs has one that was once given out (`Numbered`); this is what keeps an answer to a client that has not been disconnected out of the photos. Files: that of a job that runs is there, and its position is
  at the start until the job moves it, or a stray answer does (`Opened`); and, unless uploads of a photo overlapped, one job at most has it open for writing and it
  is still empty, but for such answers (`Alone`). `AnswersExact` has a second
  invariant on top (`WireInv`), of jobs whose connection has not been closed: how far each answer has come at each of its job's system calls (`Answering`: a download has sent, with the chunk
  in its buffer, the file from the start to the offset), that the answer of a job that runs alone on its connection, and that no stray answer met, is the last on
  the wire and stays in one piece when others follow (`InPlace`); that jobs side by side are noted as such (`Beside`), that a download
  running while its photo is open for writing is noted too (`Met`), without which its file could change under it; and that what is not for its receiver was for a
  connection that was closed (`Owned`). `StepWire` shows once what a step of one job leaves of all the
  other answers. The search of `HttpFraming` is an induction from the end of the text back: from each place it finds the first blank line
  with no '\0' before it. Assumed: the sizes are positive where the code's are, and requests carry bodies of bytes, of any length; of texts, that `\r`, `\n`, '\0'
  and numbers are different things.

The assumptions on constants are those the modules declare (`PartiesAssumption`, `LimitsAssumption` and so on): sets of parties are finite,
distinct markers differ, limits are positive. TLC evaluates them in every run.

`SelectionSpec` and `FramingSpec` are those modules by themselves; the runs `registry` and `service` take their steps beside those of the
other module, with which they share nothing.

Only model-checked: what is temporal (`AcceptedTaskRuns`, `DestroyReturns`, `ServedOrForgotten`, `SentOrMissed`, `RequestsAnswered`,
`StopReturns`), as liveness under fairness is out of the prover's reach. Every invariant the runs check, and every
refinement, is a theorem.

## 5. Not modelled

Health check (never started), auth (lets everybody in), configuration and logging hold
no state the other parts depend on; the entry points call the parts in an order that
lets the models start with all of them in place. Cleanup functions of the gateway are never
reached: `pause` returns only after a handled signal, and no handler is installed.

Logging is sequential text, but two slips in it are worth knowing: `log_write` hands the same
`va_list` to vfprintf twice (log.c:73 and 80), and uses localtime's static buffer from every thread.

Of `lib/net`: errors of write that close a connection (`OutputPath` keeps it open), and net_send looking
its connection up without a lock while the reactor may free it; no handler calls net_send. Nor what C leaves
undefined, where the models that reach it end: `Connections` at the use of freed memory after a failed start, `EmployeeService` at a body, and without reaching them at a method, a path or an id,
that is too long for its array, `ServiceRegistry` at a stale index. Nor the crashes that only end a behaviour early: SIGPIPE, and the
unchecked malloc of a connection's buffer (net_epoll.c:476).

## 6. Plan

1. (done) Pool, limiter, gateway threads, output path, registry and balancer, connections
   with start and stop, framing, both unused selections, the employee service.
2. (done) The abstract specifications `TaskQueue`, `TokenBucket`, `ByteStream` and `Courier`, and the
   proofs that the modules implement them; the proofs of all invariants.
3. Left: net_send's lookup against close_connection, should a handler come to call it; the limiter beyond NoOverflow;
   a promise of its own for the gateway's threads, as `Courier` is for the library's.
