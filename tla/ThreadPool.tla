---------------------------- MODULE ThreadPool -----------------------------
(***************************************************************************)
(* The worker pool of lib/net (net_threadpool.c): a ring of tasks behind   *)
(* one mutex and one condition variable, the workers that drain it, the    *)
(* reactor threads that fill it (handle_client_data in net_epoll.c) and    *)
(* the thread that takes it down (net_reactor_stop, net_reactor_destroy).  *)
(*                                                                         *)
(* Every field of the pool is read and written with pool->lock held, so    *)
(* a critical section is one action, cut only where pthread_cond_wait      *)
(* releases the mutex.  g_exit_flag is read outside the lock, and that     *)
(* read is an action of its own.                                           *)
(***************************************************************************)
EXTENDS Integers, Sequences, FiniteSets

CONSTANTS
  Workers,     \* the threads of the pool
  Producers,   \* the reactor threads
  Tasks,       \* the tasks ever dispatched: the bound on the run
  QueueSize,   \* pool->queue_size
  NoTask       \* no task: an unused slot, an empty local variable

ASSUME WorkersAssumption == IsFiniteSet(Workers)
ASSUME QueueAssumption == QueueSize \in Nat \ {0}
ASSUME TasksAssumption == NoTask \notin Tasks

VARIABLES
  queue, head, tail, count, shutdown,   \* the fields of net_threadpool_t
  exitFlag,    \* g_exit_flag
  wpc,         \* where each worker stands in threadpool_worker
  task,        \* each worker's local copy of the task it took
  ppc,         \* where each reactor thread stands
  ptask,       \* the refused task a reactor thread runs itself
  stop,        \* reactor->stop
  owner,       \* where the destroying thread stands
  submitted,   \* history: tasks dispatched so far
  ran          \* history: how often each task ran (2 stands for "again")

pool == <<queue, head, tail, count, shutdown>>
workerVars == <<wpc, task>>
producerVars == <<ppc, ptask, submitted>>
vars == <<pool, exitFlag, workerVars, producerVars, stop, owner, ran>>

Slots == 0 .. QueueSize - 1
Slot(i) == (head + i) % QueueSize

\* Mutation: no test of count before an add.
NeverFull == FALSE
Full == count = QueueSize

\* Mutations: head is advanced before the slot is read; the newest goes first.
FrontAfterAdvance == queue[Slot(1)]
Newest == queue[Slot(count - 1)]
Front == queue[head]

LiveSlots == {Slot(i) : i \in 0 .. count - 1}
Asleep == {w \in Workers : wpc[w] = "wait"}
AtLock == {w \in Workers : wpc[w] = "lock"}

(***************************************************************************)
(* net_threadpool_create: an empty ring (malloc'ed, so its slots hold      *)
(* nothing of use), every worker about to test the exit flag.              *)
(***************************************************************************)
Init ==
  /\ queue = [i \in Slots |-> NoTask]
  /\ head = 0 /\ tail = 0 /\ count = 0
  /\ shutdown = FALSE
  /\ exitFlag = FALSE
  /\ wpc = [w \in Workers |-> "test"]
  /\ task = [w \in Workers |-> NoTask]
  /\ ppc = [p \in Producers |-> "idle"]
  /\ ptask = [p \in Producers |-> NoTask]
  /\ stop = FALSE
  /\ owner = "live"
  /\ submitted = {}
  /\ ran = [t \in Tasks |-> 0]

Execute(t) == ran' = [ran EXCEPT ![t] = IF @ = 0 THEN 1 ELSE 2]

-----------------------------------------------------------------------------
(* threadpool_worker *)

\* while (g_exit_flag != 1)
TestExitFlag(w) ==
  /\ wpc[w] = "test"
  /\ wpc' = [wpc EXCEPT ![w] = IF exitFlag THEN "done" ELSE "lock"]
  /\ UNCHANGED <<pool, exitFlag, task, producerVars, stop, owner, ran>>

\* The queue is empty: pthread_cond_wait releases the mutex and sleeps.
Sleep(w) ==
  /\ wpc[w] = "lock"
  /\ count = 0 /\ ~shutdown
  /\ wpc' = [wpc EXCEPT ![w] = "wait"]
  /\ UNCHANGED <<pool, exitFlag, task, producerVars, stop, owner, ran>>

\* pthread_cond_wait may return without a signal; the loop tests again.
SpuriousWakeup(w) ==
  /\ wpc[w] = "wait"
  /\ wpc' = [wpc EXCEPT ![w] = "lock"]
  /\ UNCHANGED <<pool, exitFlag, task, producerVars, stop, owner, ran>>

\* if (pool->shutdown) return NULL: whatever is queued stays queued.
Leave(w) ==
  /\ wpc[w] = "lock"
  /\ shutdown
  /\ wpc' = [wpc EXCEPT ![w] = "done"]
  /\ UNCHANGED <<pool, exitFlag, task, producerVars, stop, owner, ran>>

Take(w) ==
  /\ wpc[w] = "lock"
  /\ count > 0 /\ ~shutdown
  /\ task' = [task EXCEPT ![w] = Front]
  /\ head' = (head + 1) % QueueSize
  /\ count' = count - 1
  /\ wpc' = [wpc EXCEPT ![w] = "run"]
  /\ UNCHANGED <<queue, tail, shutdown, exitFlag, producerVars, stop, owner, ran>>

\* worker_task_wrapper: the handler returns and the task data is freed.
RunTask(w) ==
  /\ wpc[w] = "run"
  /\ Execute(task[w])
  /\ task' = [task EXCEPT ![w] = NoTask]
  /\ wpc' = [wpc EXCEPT ![w] = "test"]
  /\ UNCHANGED <<pool, exitFlag, producerVars, stop, owner>>

Worker(w) ==
  TestExitFlag(w) \/ Sleep(w) \/ Leave(w) \/ Take(w) \/ RunTask(w)

-----------------------------------------------------------------------------
(* net_threadpool_add, and what handle_client_data does with its result *)

\* Mutations: a signal for the first task of an empty ring only; none at all.
SignalFirst ==
  IF Asleep = {} \/ count > 0 THEN wpc' = wpc
  ELSE \E w \in Asleep : wpc' = [wpc EXCEPT ![w] = "lock"]
NoSignal == wpc' = wpc

\* pthread_cond_signal wakes one sleeping worker, if there is one.
Signal ==
  IF Asleep = {} THEN wpc' = wpc
  ELSE \E w \in Asleep : wpc' = [wpc EXCEPT ![w] = "lock"]

AddAccepted(p, t) ==
  /\ ppc[p] = "idle"
  /\ t \notin submitted
  /\ ~Full /\ ~shutdown
  /\ queue' = [queue EXCEPT ![tail] = t]
  /\ tail' = (tail + 1) % QueueSize
  /\ count' = count + 1
  /\ Signal
  /\ submitted' = submitted \cup {t}
  /\ UNCHANGED <<head, shutdown, exitFlag, task, ppc, ptask, stop, owner, ran>>

\* -1: the reactor thread calls the handler itself.
AddRefused(p, t) ==
  /\ ppc[p] = "idle"
  /\ t \notin submitted
  /\ Full \/ shutdown
  /\ ppc' = [ppc EXCEPT ![p] = "inline"]
  /\ ptask' = [ptask EXCEPT ![p] = t]
  /\ submitted' = submitted \cup {t}
  /\ UNCHANGED <<pool, exitFlag, workerVars, stop, owner, ran>>

RunInline(p) ==
  /\ ppc[p] = "inline"
  /\ Execute(ptask[p])
  /\ ppc' = [ppc EXCEPT ![p] = "idle"]
  /\ ptask' = [ptask EXCEPT ![p] = NoTask]
  /\ UNCHANGED <<pool, exitFlag, workerVars, submitted, stop, owner>>

\* reactor_thread_func leaves its loop once it sees reactor->stop.
LeaveLoop(p) ==
  /\ ppc[p] = "idle"
  /\ stop
  /\ ppc' = [ppc EXCEPT ![p] = "stopped"]
  /\ UNCHANGED <<pool, exitFlag, workerVars, ptask, submitted, stop, owner, ran>>

-----------------------------------------------------------------------------
(* The owner of the reactor *)

\* handle_signal of the example server
RaiseExitFlag ==
  /\ ~exitFlag
  /\ exitFlag' = TRUE
  /\ UNCHANGED <<pool, workerVars, producerVars, stop, owner, ran>>

\* net_reactor_stop raises reactor->stop and then joins the reactor threads.
StopReactor ==
  /\ ~stop
  /\ stop' = TRUE
  /\ UNCHANGED <<pool, exitFlag, workerVars, producerVars, owner, ran>>

\* Mutation: a signal in place of the broadcast.
DestroySignalling ==
  /\ owner = "live"
  /\ stop /\ \A p \in Producers : ppc[p] = "stopped"
  /\ shutdown' = TRUE
  /\ Signal
  /\ owner' = "joining"
  /\ UNCHANGED <<queue, head, tail, count, exitFlag, task, producerVars, stop, ran>>

\* net_threadpool_destroy, called once net_reactor_stop has joined them all:
\* shutdown and broadcast under the lock, then one pthread_join per worker.
Destroy ==
  /\ owner = "live"
  /\ stop /\ \A p \in Producers : ppc[p] = "stopped"
  /\ shutdown' = TRUE
  /\ wpc' = [w \in Workers |-> IF w \in Asleep THEN "lock" ELSE wpc[w]]
  /\ owner' = "joining"
  /\ UNCHANGED <<queue, head, tail, count, exitFlag, task, producerVars, stop, ran>>

Free ==
  /\ owner = "joining"
  /\ \A w \in Workers : wpc[w] = "done"
  /\ owner' = "freed"
  /\ UNCHANGED <<pool, exitFlag, workerVars, producerVars, stop, ran>>

Next ==
  \/ \E w \in Workers : Worker(w) \/ SpuriousWakeup(w)
  \/ \E p \in Producers :
        \/ \E t \in Tasks : AddAccepted(p, t) \/ AddRefused(p, t)
        \/ RunInline(p)
        \/ LeaveLoop(p)
  \/ RaiseExitFlag
  \/ StopReactor
  \/ Destroy
  \/ Free

Spec == Init /\ [][Next]_vars

(***************************************************************************)
(* A runnable thread is scheduled, a handler returns, and a thread that    *)
(* has called stop and destroy goes on with them.  Nobody has to submit a  *)
(* task, raise the flag or ask for the stop, and no wake-up is owed        *)
(* without a signal.                                                       *)
(***************************************************************************)
Fairness ==
  /\ \A w \in Workers : WF_vars(Worker(w))
  /\ \A p \in Producers : WF_vars(RunInline(p)) /\ WF_vars(LeaveLoop(p))
  /\ WF_vars(Destroy)
  /\ WF_vars(Free)

FairSpec == Spec /\ Fairness

-----------------------------------------------------------------------------
(* Properties *)

TypeOK ==
  /\ queue \in [Slots -> Tasks \cup {NoTask}]
  /\ head \in Slots /\ tail \in Slots /\ count \in 0 .. QueueSize
  /\ shutdown \in BOOLEAN /\ exitFlag \in BOOLEAN /\ stop \in BOOLEAN
  /\ wpc \in [Workers -> {"test", "lock", "wait", "run", "done"}]
  /\ task \in [Workers -> Tasks \cup {NoTask}]
  /\ ppc \in [Producers -> {"idle", "inline", "stopped"}]
  /\ ptask \in [Producers -> Tasks \cup {NoTask}]
  /\ owner \in {"live", "joining", "freed"}
  /\ submitted \in SUBSET Tasks
  /\ ran \in [Tasks -> 0 .. 2]

(***************************************************************************)
(* The three cursors agree, however often the ring has wrapped: tail is    *)
(* count slots after head (net_threadpool_add advances one, the worker     *)
(* the others).                                                            *)
(***************************************************************************)
CursorsAgree == tail = Slot(count)

(***************************************************************************)
(* A dispatched task is in exactly one place: one live slot of the ring,   *)
(* one worker's hands, one reactor thread's hands, or done, having run     *)
(* exactly once.  Nothing is lost in a slot another add overwrites, taken  *)
(* by two workers, or run twice.                                           *)
(***************************************************************************)
Places(t) ==
  Cardinality({i \in LiveSlots : queue[i] = t})
    + Cardinality({w \in Workers : task[w] = t})
    + Cardinality({p \in Producers : ptask[p] = t})
    + ran[t]

TaskConserved ==
  \A t \in Tasks : Places(t) = IF t \in submitted THEN 1 ELSE 0

(***************************************************************************)
(* While a worker sleeps, every queued task has a worker of its own that   *)
(* is awake and on its way to the lock: one signal per add is enough, and  *)
(* none is lost between the test of count and the wait.                    *)
(***************************************************************************)
NoLostWakeup == Asleep # {} => count <= Cardinality(AtLock)

(***************************************************************************)
(* A queued task is run, unless the pool is told to quit first             *)
(* (g_exit_flag, or shutdown from net_threadpool_destroy).                 *)
(***************************************************************************)
Queued(t) == \E i \in LiveSlots : queue[i] = t

AcceptedTaskRuns ==
  \A t \in Tasks : Queued(t) ~> (ran[t] = 1 \/ exitFlag \/ shutdown)

(***************************************************************************)
(* net_reactor_stop followed by net_reactor_destroy returns: the broadcast *)
(* reaches every sleeping worker and each pthread_join succeeds.           *)
(***************************************************************************)
DestroyReturns == stop ~> (owner = "freed")

(***************************************************************************)
(* The pool implements the bounded first-in first-out line of TaskQueue.   *)
(***************************************************************************)
Line == [i \in 1 .. count |-> queue[Slot(i - 1)]]
InHand ==
  {t \in Tasks : \/ \E w \in Workers : task[w] = t
                 \/ \E p \in Producers : ptask[p] = t}

TQ == INSTANCE TaskQueue WITH
        Capacity <- QueueSize,
        line <- Line,
        started <- InHand,
        finished <- {t \in Tasks : ran[t] > 0},
        closed <- shutdown

ImplementsTaskQueue == TQ!Spec
=============================================================================
