-------------------------- MODULE ThreadPoolProof --------------------------
(***************************************************************************)
(* Theorems about the worker pool, for every number of workers, reactor    *)
(* threads and tasks and every size of the ring.                           *)
(***************************************************************************)
EXTENDS ThreadPool, FiniteSetTheorems, SequenceTheorems, TLAPS

-----------------------------------------------------------------------------
(* Arithmetic of the ring *)

LEMMA ModSmall ==
  ASSUME NEW n \in Nat \ {0}, NEW a \in 0 .. n - 1
  PROVE  a % n = a
  BY SMT

LEMMA ModWrap ==
  ASSUME NEW n \in Nat \ {0}, NEW a \in n .. 2 * n - 1
  PROVE  a % n = a - n
  BY SMT

\* What Slot and the advance of a cursor compute: one conditional wrap.
LEMMA SlotValue ==
  ASSUME NEW h \in Slots, NEW i \in 0 .. QueueSize
  PROVE  /\ (h + i) % QueueSize \in Slots
         /\ (h + i) % QueueSize = IF h + i < QueueSize THEN h + i
                                  ELSE h + i - QueueSize
  <1> USE QueueAssumption DEF Slots
  <1>1. CASE h + i < QueueSize
    <2>1. h + i \in 0 .. QueueSize - 1
      BY <1>1
    <2>2. (h + i) % QueueSize = h + i
      BY <2>1, ModSmall
    <2>3. QED
      BY <1>1, <2>1, <2>2
  <1>2. CASE h + i >= QueueSize
    <2>1. h + i \in QueueSize .. 2 * QueueSize - 1
      BY <1>2
    <2>2. (h + i) % QueueSize = h + i - QueueSize
      BY <2>1, ModWrap
    <2>3. QED
      BY <1>2, <2>1, <2>2
  <1>3. QED
    BY <1>1, <1>2

LEMMA Advance ==
  ASSUME NEW h \in Slots
  PROVE  /\ (h + 1) % QueueSize \in Slots
         /\ (h + 1) % QueueSize = IF h + 1 < QueueSize THEN h + 1 ELSE 0
  <1>1. 1 \in 0 .. QueueSize
    BY QueueAssumption
  <1>2. /\ (h + 1) % QueueSize \in Slots
        /\ (h + 1) % QueueSize = IF h + 1 < QueueSize THEN h + 1
                                 ELSE h + 1 - QueueSize
    BY <1>1, SlotValue
  <1>3. ~(h + 1 < QueueSize) => h + 1 - QueueSize = 0
    BY QueueAssumption DEF Slots
  <1>4. QED
    BY <1>2, <1>3

LEMMA ExecuteType ==
  ASSUME NEW t, ran \in [Tasks -> 0 .. 2], Execute(t)
  PROVE  ran' \in [Tasks -> 0 .. 2]
  <1>1. (IF ran[t] = 0 THEN 1 ELSE 2) \in 0 .. 2
    OBVIOUS
  <1>2. QED
    BY <1>1 DEF Execute

-----------------------------------------------------------------------------
(***************************************************************************)
(* Type correctness: in particular head and tail never leave the ring and  *)
(* count stays between 0 and the size of the ring.                         *)
(***************************************************************************)
LEMMA TypeStep == TypeOK /\ [Next]_vars => TypeOK'
  <1> SUFFICES ASSUME TypeOK, [Next]_vars
               PROVE  TypeOK'
    OBVIOUS
  <1> USE DEF TypeOK, pool, workerVars, producerVars
  <1>1. ASSUME NEW w \in Workers, TestExitFlag(w) PROVE TypeOK'
    BY <1>1 DEF TestExitFlag
  <1>2. ASSUME NEW w \in Workers, Sleep(w) PROVE TypeOK'
    BY <1>2 DEF Sleep
  <1>3. ASSUME NEW w \in Workers, Leave(w) PROVE TypeOK'
    BY <1>3 DEF Leave
  <1>4. ASSUME NEW w \in Workers, Take(w) PROVE TypeOK'
    <2>1. head' \in Slots
      BY <1>4, Advance DEF Take
    <2>2. count' \in 0 .. QueueSize /\ head \in Slots
      BY <1>4, QueueAssumption DEF Take
    <2>3. task' \in [Workers -> Tasks \cup {NoTask}]
      BY <1>4 DEF Take, Front
    <2>4. QED
      BY <1>4, <2>1, <2>2, <2>3 DEF Take
  <1>5. ASSUME NEW w \in Workers, RunTask(w) PROVE TypeOK'
    <2>1. ran' \in [Tasks -> 0 .. 2]
      BY <1>5, ExecuteType DEF RunTask
    <2>2. QED
      BY <1>5, <2>1 DEF RunTask
  <1>6. ASSUME NEW w \in Workers, SpuriousWakeup(w) PROVE TypeOK'
    BY <1>6 DEF SpuriousWakeup
  <1>7. ASSUME NEW p \in Producers, NEW t \in Tasks, AddAccepted(p, t)
        PROVE TypeOK'
    <2>1. wpc' \in [Workers -> {"test", "lock", "wait", "run", "done"}]
      BY <1>7 DEF AddAccepted, Signal
    <2>2. tail' \in Slots
      BY <1>7, Advance DEF AddAccepted
    <2>3. count' \in 0 .. QueueSize
      BY <1>7, QueueAssumption DEF AddAccepted, Full
    <2>4. QED
      BY <1>7, <2>1, <2>2, <2>3 DEF AddAccepted
  <1>8. ASSUME NEW p \in Producers, NEW t \in Tasks, AddRefused(p, t)
        PROVE TypeOK'
    BY <1>8 DEF AddRefused
  <1>9. ASSUME NEW p \in Producers, RunInline(p) PROVE TypeOK'
    <2>1. ran' \in [Tasks -> 0 .. 2]
      BY <1>9, ExecuteType DEF RunInline
    <2>2. QED
      BY <1>9, <2>1 DEF RunInline
  <1>10. ASSUME NEW p \in Producers, LeaveLoop(p) PROVE TypeOK'
    BY <1>10 DEF LeaveLoop
  <1>11. CASE RaiseExitFlag
    BY <1>11 DEF RaiseExitFlag
  <1>12. CASE StopReactor
    BY <1>12 DEF StopReactor
  <1>13. CASE Destroy
    BY <1>13 DEF Destroy
  <1>14. CASE Free
    BY <1>14 DEF Free
  <1>15. CASE UNCHANGED vars
    BY <1>15 DEF vars
  <1>16. QED
    BY <1>1, <1>2, <1>3, <1>4, <1>5, <1>6, <1>7, <1>8, <1>9, <1>10, <1>11,
       <1>12, <1>13, <1>14, <1>15 DEF Next, Worker

THEOREM TypeCorrect == Spec => []TypeOK
  <1>1. Init => TypeOK
    <2>1. 0 \in Slots /\ 0 \in 0 .. QueueSize
      BY QueueAssumption DEF Slots
    <2>2. Init => /\ queue \in [Slots -> Tasks \cup {NoTask}]
                  /\ head \in Slots /\ tail \in Slots
                  /\ count \in 0 .. QueueSize
      BY <2>1 DEF Init
    <2>3. Init => /\ ran \in [Tasks -> 0 .. 2]
                  /\ submitted \in SUBSET Tasks
      BY DEF Init
    <2>4. Init => /\ task \in [Workers -> Tasks \cup {NoTask}]
                  /\ ptask \in [Producers -> Tasks \cup {NoTask}]
      BY DEF Init
    <2>5. QED
      BY <2>2, <2>3, <2>4 DEF Init, TypeOK
  <1>2. QED
    BY <1>1, TypeStep, PTL DEF Spec

-----------------------------------------------------------------------------
(***************************************************************************)
(* The cursors of the ring agree after any number of wraps: only an        *)
(* accepted add moves tail and only a take moves head, each with count.    *)
(***************************************************************************)
THEOREM CursorsCorrect == Spec => []CursorsAgree
  <1>1. Init => CursorsAgree
    <2>1. 0 \in 0 .. QueueSize - 1
      BY QueueAssumption
    <2>2. QED
      BY <2>1, ModSmall, QueueAssumption DEF Init, CursorsAgree, Slot
  <1>2. TypeOK /\ CursorsAgree /\ [Next]_vars => CursorsAgree'
    <2> SUFFICES ASSUME TypeOK, CursorsAgree, [Next]_vars
                 PROVE  CursorsAgree'
      OBVIOUS
    <2> USE DEF CursorsAgree, Slot
    <2>0. head \in Slots /\ tail \in Slots /\ count \in 0 .. QueueSize
      BY DEF TypeOK
    <2>1. ASSUME NEW w \in Workers, Take(w) PROVE CursorsAgree'
      <3>1. /\ head' = (head + 1) % QueueSize /\ head' \in Slots
            /\ count' = count - 1 /\ count' \in 0 .. QueueSize
            /\ tail' = tail
        BY <2>0, <2>1, Advance, QueueAssumption DEF Take
      <3>2. tail = IF head + count < QueueSize THEN head + count
                   ELSE head + count - QueueSize
        BY <2>0, SlotValue
      <3>3. head' = IF head + 1 < QueueSize THEN head + 1 ELSE 0
        BY <2>0, <3>1, Advance
      <3>4. (head' + count') % QueueSize =
              IF head' + count' < QueueSize THEN head' + count'
              ELSE head' + count' - QueueSize
        BY <3>1, SlotValue
      <3>5. count \in 1 .. QueueSize
        BY <2>0, <2>1, QueueAssumption DEF Take
      <3>6. QED
        BY <2>0, <3>1, <3>2, <3>3, <3>4, <3>5, QueueAssumption DEF Slots
    <2>2. ASSUME NEW p \in Producers, NEW t \in Tasks, AddAccepted(p, t)
          PROVE CursorsAgree'
      <3>1. /\ tail' = (tail + 1) % QueueSize
            /\ count' = count + 1 /\ count' \in 0 .. QueueSize
            /\ head' = head
        BY <2>0, <2>2, QueueAssumption DEF AddAccepted, Full
      <3>2. tail = IF head + count < QueueSize THEN head + count
                   ELSE head + count - QueueSize
        BY <2>0, SlotValue
      <3>3. tail' = IF tail + 1 < QueueSize THEN tail + 1 ELSE 0
        BY <2>0, <3>1, Advance
      <3>4. (head' + count') % QueueSize =
              IF head' + count' < QueueSize THEN head' + count'
              ELSE head' + count' - QueueSize
        BY <2>0, <3>1, SlotValue
      <3>5. QED
        BY <2>0, <3>1, <3>2, <3>3, <3>4, QueueAssumption DEF Slots
    <2>3. CASE UNCHANGED <<head, tail, count>>
      BY <2>3
    <2>4. QED
      BY <2>1, <2>2, <2>3
      DEF Next, Worker, vars, pool, TestExitFlag, Sleep, Leave, RunTask,
          SpuriousWakeup, AddRefused, RunInline, LeaveLoop, RaiseExitFlag,
          StopReactor, Destroy, Free
  <1>3. QED
    BY <1>1, <1>2, TypeCorrect, PTL DEF Spec

-----------------------------------------------------------------------------
(***************************************************************************)
(* No wake-up is lost.  The invariant is inductive given the types: an add *)
(* that raises count moves one sleeper to the lock, a take that lowers it  *)
(* removes one worker from there, and a worker only falls asleep, or       *)
(* leaves from the lock, when count is 0 or nobody sleeps any more.        *)
(***************************************************************************)
AwakeAfterShutdown == shutdown => Asleep = {}

LEMMA AtLockFinite ==
  ASSUME NEW w \in Workers
  PROVE  /\ IsFiniteSet(AtLock)
         /\ Cardinality(AtLock) \in Nat
         /\ w \notin AtLock =>
              Cardinality(AtLock \cup {w}) = Cardinality(AtLock) + 1
         /\ w \in AtLock =>
              /\ Cardinality(AtLock \ {w}) = Cardinality(AtLock) - 1
              /\ Cardinality(AtLock) > 0
  <1>1. IsFiniteSet(AtLock)
    BY WorkersAssumption, FS_Subset DEF AtLock
  <1>2. w \in AtLock => Cardinality(AtLock) > 0
    BY <1>1, FS_EmptySet, FS_CardinalityType
  <1>3. QED
    BY <1>1, <1>2, FS_CardinalityType, FS_AddElement, FS_RemoveElement

THEOREM WakeupsKept == Spec => []NoLostWakeup
  <1> DEFINE I == NoLostWakeup /\ AwakeAfterShutdown
  <1>1. Init => I
    BY DEF Init, NoLostWakeup, AwakeAfterShutdown, Asleep
  <1>2. TypeOK /\ I /\ [Next]_vars => I'
    <2> SUFFICES ASSUME TypeOK, I, [Next]_vars
                 PROVE  I'
      OBVIOUS
    <2> USE DEF NoLostWakeup, AwakeAfterShutdown
    <2>1. ASSUME NEW w \in Workers, TestExitFlag(w) PROVE I'
      <3>1. Asleep' = Asleep
        BY <2>1 DEF TestExitFlag, TypeOK, Asleep
      <3>2. \/ AtLock' = AtLock
            \/ AtLock' = AtLock \cup {w} /\ w \notin AtLock
        BY <2>1 DEF TestExitFlag, TypeOK, AtLock
      <3>3. count' = count /\ shutdown' = shutdown
        BY <2>1 DEF TestExitFlag, pool
      <3>4. QED
        BY <3>1, <3>2, <3>3, AtLockFinite DEF TypeOK
    <2>2. ASSUME NEW w \in Workers, Sleep(w) PROVE I'
      <3>1. count' = 0 /\ ~shutdown'
        BY <2>2 DEF Sleep, pool
      <3>2. AtLock' = AtLock \ {w} /\ w \in AtLock
        BY <2>2 DEF Sleep, TypeOK, AtLock
      <3>3. QED
        BY <3>1, <3>2, AtLockFinite
    <2>3. ASSUME NEW w \in Workers, Leave(w) PROVE I'
      <3>1. Asleep' = Asleep /\ Asleep = {}
        BY <2>3 DEF Leave, TypeOK, Asleep
      <3>2. QED
        BY <3>1
    <2>4. ASSUME NEW w \in Workers, Take(w) PROVE I'
      <3>1. Asleep' = Asleep
        BY <2>4 DEF Take, TypeOK, Asleep
      <3>2. AtLock' = AtLock \ {w} /\ w \in AtLock
        BY <2>4 DEF Take, TypeOK, AtLock
      <3>3. count' = count - 1 /\ shutdown' = shutdown
        BY <2>4 DEF Take
      <3>4. QED
        BY <3>1, <3>2, <3>3, AtLockFinite DEF TypeOK
    <2>5. ASSUME NEW w \in Workers, RunTask(w) PROVE I'
      <3>1. Asleep' = Asleep /\ AtLock' = AtLock
        BY <2>5 DEF RunTask, TypeOK, Asleep, AtLock
      <3>2. QED
        BY <2>5, <3>1 DEF RunTask, pool
    <2>6. ASSUME NEW w \in Workers, SpuriousWakeup(w) PROVE I'
      <3>1. Asleep' = Asleep \ {w}
        BY <2>6 DEF SpuriousWakeup, TypeOK, Asleep
      <3>2. AtLock' = AtLock \cup {w} /\ w \notin AtLock /\ w \in Asleep
        BY <2>6 DEF SpuriousWakeup, TypeOK, AtLock, Asleep
      <3>3. count' = count /\ shutdown' = shutdown
        BY <2>6 DEF SpuriousWakeup, pool
      <3>4. QED
        BY <3>1, <3>2, <3>3, AtLockFinite DEF TypeOK
    <2>7. ASSUME NEW p \in Producers, NEW t \in Tasks, AddAccepted(p, t)
          PROVE I'
      <3>1. count' = count + 1 /\ shutdown' = shutdown
        BY <2>7 DEF AddAccepted
      <3>2. CASE Asleep = {}
        <4>1. Asleep' = {}
          BY <2>7, <3>2 DEF AddAccepted, Signal, Asleep
        <4>2. QED
          BY <4>1
      <3>3. CASE Asleep # {}
        <4>1. PICK w \in Asleep : wpc' = [wpc EXCEPT ![w] = "lock"]
          BY <2>7, <3>3 DEF AddAccepted, Signal
        <4>2. Asleep' = Asleep \ {w} /\ w \in Workers
          BY <4>1 DEF TypeOK, Asleep
        <4>3. AtLock' = AtLock \cup {w} /\ w \notin AtLock
          BY <4>1 DEF TypeOK, AtLock, Asleep
        <4>4. QED
          BY <3>1, <3>3, <4>2, <4>3, AtLockFinite DEF TypeOK
      <3>4. QED
        BY <3>2, <3>3
    <2>8. CASE Destroy
      <3>1. Asleep' = {}
        BY <2>8 DEF Destroy, TypeOK, Asleep
      <3>2. QED
        BY <3>1
    <2>9. CASE UNCHANGED <<wpc, count, shutdown>>
      BY <2>9 DEF Asleep, AtLock
    <2>10. QED
      BY <2>1, <2>2, <2>3, <2>4, <2>5, <2>6, <2>7, <2>8, <2>9
      DEF Next, Worker, vars, pool, workerVars, AddRefused, RunInline,
          LeaveLoop, RaiseExitFlag, StopReactor, Free
  <1>3. QED
    BY <1>1, <1>2, TypeCorrect, PTL DEF Spec

-----------------------------------------------------------------------------
(* The live slots of the ring under an add and a take                      *)

LEMMA SlotDistinct ==
  ASSUME NEW h \in Slots, NEW i \in 0 .. QueueSize, NEW j \in 0 .. QueueSize,
         i < j, j - i < QueueSize
  PROVE  (h + i) % QueueSize # (h + j) % QueueSize
  <1>1. /\ (h + i) % QueueSize = IF h + i < QueueSize THEN h + i
                                 ELSE h + i - QueueSize
        /\ (h + j) % QueueSize = IF h + j < QueueSize THEN h + j
                                 ELSE h + j - QueueSize
    BY SlotValue
  <1>2. QED
    BY <1>1, QueueAssumption DEF Slots

\* The slot after the head's is the first of the ring that a take leaves.
LEMMA SlotAdvance ==
  ASSUME NEW h \in Slots, NEW i \in 0 .. QueueSize - 1
  PROVE  (((h + 1) % QueueSize) + i) % QueueSize = (h + (i + 1)) % QueueSize
  <1>1. /\ (h + 1) % QueueSize \in Slots
        /\ (h + 1) % QueueSize = IF h + 1 < QueueSize THEN h + 1 ELSE 0
    BY Advance
  <1>2. i \in 0 .. QueueSize /\ i + 1 \in 0 .. QueueSize
    BY QueueAssumption
  <1>3. (((h + 1) % QueueSize) + i) % QueueSize =
          IF ((h + 1) % QueueSize) + i < QueueSize THEN ((h + 1) % QueueSize) + i
          ELSE ((h + 1) % QueueSize) + i - QueueSize
    BY <1>1, <1>2, SlotValue
  <1>4. (h + (i + 1)) % QueueSize =
          IF h + (i + 1) < QueueSize THEN h + (i + 1)
          ELSE h + (i + 1) - QueueSize
    BY <1>2, SlotValue
  <1>5. QED
    BY <1>1, <1>3, <1>4, QueueAssumption DEF Slots

LEMMA LiveType ==
  ASSUME TypeOK
  PROVE  LiveSlots \in SUBSET Slots
  <1>1. ASSUME NEW i \in 0 .. count - 1 PROVE Slot(i) \in Slots
    <2>1. i \in 0 .. QueueSize /\ head \in Slots
      BY QueueAssumption DEF TypeOK
    <2>2. QED
      BY <2>1, SlotValue DEF Slot
  <1>2. QED
    BY <1>1 DEF LiveSlots

LEMMA LiveAfterTake ==
  ASSUME TypeOK, count > 0,
         head' = (head + 1) % QueueSize, count' = count - 1
  PROVE  /\ Slot(0) = head /\ head \in LiveSlots
         /\ \A i \in 0 .. count - 2 : (head' + i) % QueueSize = Slot(i + 1)
         /\ LiveSlots' = LiveSlots \ {head}
  <1>1. /\ head \in Slots /\ count \in 1 .. QueueSize
        /\ head + 0 = head /\ head \in 0 .. QueueSize - 1
    BY QueueAssumption DEF TypeOK, Slots
  <1>2. Slot(0) = head
    BY <1>1, ModSmall, QueueAssumption DEF Slot
  <1>3. 0 \in 0 .. count - 1
    BY <1>1, QueueAssumption
  <1>4. \A i \in 0 .. count - 2 : (head' + i) % QueueSize = Slot(i + 1)
    <2> SUFFICES ASSUME NEW i \in 0 .. count - 2
                 PROVE  (head' + i) % QueueSize = Slot(i + 1)
      OBVIOUS
    <2>1. i \in 0 .. QueueSize - 1
      BY <1>1, QueueAssumption
    <2>2. QED
      BY <1>1, <2>1, SlotAdvance DEF Slot
  <1>5. \A i \in 1 .. count - 1 : Slot(i) # head
    <2> SUFFICES ASSUME NEW i \in 1 .. count - 1 PROVE Slot(i) # Slot(0)
      BY <1>2
    <2>1. /\ 0 \in 0 .. QueueSize /\ i \in 0 .. QueueSize
          /\ 0 < i /\ i - 0 < QueueSize
      BY <1>1, QueueAssumption
    <2>2. QED
      BY <1>1, <2>1, SlotDistinct DEF Slot
  <1>6. LiveSlots' = {(head' + i) % QueueSize : i \in 0 .. count - 2}
    <2>1. count' - 1 = count - 2
      BY <1>1
    <2>2. QED
      BY <2>1 DEF LiveSlots, Slot
  <1>7. LiveSlots' = {Slot(i) : i \in 1 .. count - 1}
    <2>1. ASSUME NEW i \in 0 .. count - 2 PROVE i + 1 \in 1 .. count - 1
      BY <1>1
    <2>2. ASSUME NEW i \in 1 .. count - 1
          PROVE  i - 1 \in 0 .. count - 2 /\ (i - 1) + 1 = i
      BY <1>1
    <2>3. ASSUME NEW i \in 1 .. count - 1
          PROVE  Slot(i) = (head' + (i - 1)) % QueueSize
      BY <2>2, <1>4
    <2>4. QED
      BY <1>4, <1>6, <2>1, <2>2, <2>3
  <1>8. /\ \A i \in 0 .. count - 1 : i = 0 \/ i \in 1 .. count - 1
        /\ \A i \in 1 .. count - 1 : i \in 0 .. count - 1
    BY <1>1
  <1>9. QED
    BY <1>2, <1>3, <1>4, <1>5, <1>7, <1>8 DEF LiveSlots

LEMMA LiveAfterAdd ==
  ASSUME TypeOK, CursorsAgree, ~Full, head' = head, count' = count + 1
  PROVE  /\ tail \notin LiveSlots
         /\ \A i \in 0 .. count - 1 : Slot(i) # tail
         /\ LiveSlots' = LiveSlots \cup {tail}
  <1>1. /\ head \in Slots /\ count \in 0 .. QueueSize - 1
        /\ tail = Slot(count)
    BY QueueAssumption DEF TypeOK, CursorsAgree, Full
  <1>2. \A i \in 0 .. count - 1 : Slot(i) # tail
    <2> SUFFICES ASSUME NEW i \in 0 .. count - 1 PROVE Slot(i) # Slot(count)
      BY <1>1
    <2>1. /\ count \in 0 .. QueueSize /\ i \in 0 .. QueueSize
          /\ i < count /\ count - i < QueueSize
      BY <1>1, QueueAssumption
    <2>2. QED
      BY <1>1, <2>1, SlotDistinct DEF Slot
  <1>3. LiveSlots' = {Slot(i) : i \in 0 .. count}
    <2>1. count' - 1 = count
      BY <1>1
    <2>2. QED
      BY <2>1 DEF LiveSlots, Slot
  <1>4. \A i \in 0 .. count : i = count \/ i \in 0 .. count - 1
    BY <1>1
  <1>5. count \in 0 .. count /\ \A i \in 0 .. count - 1 : i \in 0 .. count
    BY <1>1
  <1>6. QED
    BY <1>1, <1>2, <1>3, <1>4, <1>5 DEF LiveSlots

-----------------------------------------------------------------------------
(***************************************************************************)
(* Where a task is: the slots, the workers and the reactor threads that    *)
(* hold it.  The invariant says it without counting: a submitted task has  *)
(* exactly one holder and has not run, or none and has run once; any other *)
(* task has no holder.  It is inductive only together with HandsFree: what *)
(* a worker takes, or a reactor thread keeps, overwrites nothing.          *)
(***************************************************************************)
SlotsOf(t) == {i \in LiveSlots : queue[i] = t}
WorkersOf(t) == {w \in Workers : task[w] = t}
ProducersOf(t) == {p \in Producers : ptask[p] = t}

InRing(t) ==
  /\ \E i \in LiveSlots : SlotsOf(t) = {i}
  /\ WorkersOf(t) = {} /\ ProducersOf(t) = {} /\ ran[t] = 0

WithWorker(t) ==
  /\ \E w \in Workers : WorkersOf(t) = {w}
  /\ SlotsOf(t) = {} /\ ProducersOf(t) = {} /\ ran[t] = 0

WithProducer(t) ==
  /\ \E p \in Producers : ProducersOf(t) = {p}
  /\ SlotsOf(t) = {} /\ WorkersOf(t) = {} /\ ran[t] = 0

Nowhere(t) == SlotsOf(t) = {} /\ WorkersOf(t) = {} /\ ProducersOf(t) = {}

Held(t) ==
  IF t \in submitted
  THEN InRing(t) \/ WithWorker(t) \/ WithProducer(t)
         \/ (Nowhere(t) /\ ran[t] = 1)
  ELSE Nowhere(t) /\ ran[t] = 0

HandsFree ==
  /\ \A i \in LiveSlots : queue[i] \in Tasks
  /\ \A w \in Workers : IF wpc[w] = "run" THEN task[w] \in Tasks
                                          ELSE task[w] = NoTask
  /\ \A p \in Producers : IF ppc[p] = "inline" THEN ptask[p] \in Tasks
                                               ELSE ptask[p] = NoTask

Conserved == HandsFree /\ \A t \in Tasks : Held(t)

PoolInv == TypeOK /\ CursorsAgree /\ Conserved

LEMMA TakeConserves ==
  ASSUME PoolInv, NEW w \in Workers, Take(w)
  PROVE  Conserved'
  <1> USE DEF PoolInv, Conserved
  <1>1. /\ task' = [task EXCEPT ![w] = queue[head]]
        /\ wpc' = [wpc EXCEPT ![w] = "run"] /\ wpc[w] = "lock"
        /\ UNCHANGED <<queue, ppc, ptask, submitted, ran>>
    BY DEF Take, Front, producerVars
  <1>2. head \in LiveSlots /\ LiveSlots' = LiveSlots \ {head}
    BY LiveAfterTake DEF Take
  <1>3. queue[head] \in Tasks /\ task[w] = NoTask
    BY <1>1, <1>2 DEF HandsFree
  <1>4. /\ task \in [Workers -> Tasks \cup {NoTask}]
        /\ wpc \in [Workers -> {"test", "lock", "wait", "run", "done"}]
    BY DEF TypeOK
  <1>5. HandsFree'
    BY <1>1, <1>2, <1>3, <1>4 DEF HandsFree
  <1>6. ASSUME NEW t \in Tasks PROVE Held(t)'
    <2> USE DEF SlotsOf, WorkersOf, ProducersOf
    <2>1. ProducersOf(t)' = ProducersOf(t)
      BY <1>1
    <2>2. CASE t = queue[head]
      <3>1. head \in SlotsOf(t)
        BY <2>2, <1>2
      <3>2. t \in submitted /\ InRing(t)
        BY <3>1 DEF Held, InRing, WithWorker, WithProducer, Nowhere
      <3>3. SlotsOf(t) = {head} /\ WorkersOf(t) = {}
        BY <3>1, <3>2 DEF InRing
      <3>4. SlotsOf(t)' = {}
        BY <3>3, <1>1, <1>2
      <3>5. WorkersOf(t)' = {w}
        BY <3>3, <2>2, <1>1, <1>4
      <3>6. WithWorker(t)'
        BY <3>2, <3>4, <3>5, <2>1, <1>1 DEF InRing, WithWorker
      <3>7. QED
        BY <3>2, <3>6, <1>1 DEF Held
    <2>3. CASE t # queue[head]
      <3>1. SlotsOf(t)' = SlotsOf(t) /\ head \notin SlotsOf(t)
        BY <2>3, <1>1, <1>2
      <3>2. WorkersOf(t)' = WorkersOf(t)
        BY <2>3, <1>1, <1>3, <1>4, TasksAssumption
      <3>3. \A i \in LiveSlots : SlotsOf(t) = {i} => i \in LiveSlots'
        BY <3>1, <1>2
      <3>4. QED
        BY <2>1, <3>1, <3>2, <3>3, <1>1
        DEF Held, InRing, WithWorker, WithProducer, Nowhere
    <2>4. QED
      BY <2>2, <2>3
  <1>7. QED
    BY <1>5, <1>6

LEMMA RunTaskConserves ==
  ASSUME PoolInv, NEW w \in Workers, RunTask(w)
  PROVE  Conserved'
  <1> USE DEF PoolInv, Conserved
  <1>1. /\ task' = [task EXCEPT ![w] = NoTask] /\ wpc[w] = "run"
        /\ wpc' = [wpc EXCEPT ![w] = "test"]
        /\ ran' = [ran EXCEPT ![task[w]] = IF @ = 0 THEN 1 ELSE 2]
        /\ UNCHANGED <<queue, head, count, ppc, ptask, submitted>>
    BY DEF RunTask, Execute, producerVars, pool
  <1>2. task[w] \in Tasks
    BY <1>1 DEF HandsFree
  <1>3. /\ task \in [Workers -> Tasks \cup {NoTask}] /\ ran \in [Tasks -> 0 .. 2]
        /\ wpc \in [Workers -> {"test", "lock", "wait", "run", "done"}]
    BY DEF TypeOK
  <1>4. LiveSlots' = LiveSlots
    BY <1>1 DEF LiveSlots, Slot
  <1>5. HandsFree'
    BY <1>1, <1>3, <1>4 DEF HandsFree
  <1>6. ASSUME NEW t \in Tasks PROVE Held(t)'
    <2> USE DEF SlotsOf, WorkersOf, ProducersOf
    <2>1. ProducersOf(t)' = ProducersOf(t) /\ SlotsOf(t)' = SlotsOf(t)
      BY <1>1, <1>4
    <2>2. CASE t = task[w]
      <3>1. w \in WorkersOf(t)
        BY <2>2
      <3>2. t \in submitted /\ WithWorker(t)
        BY <3>1 DEF Held, InRing, WithWorker, WithProducer, Nowhere
      <3>3. WorkersOf(t) = {w}
        BY <3>1, <3>2 DEF WithWorker
      <3>4. WorkersOf(t)' = {}
        BY <3>3, <1>1, <1>3, TasksAssumption
      <3>5. ran'[t] = 1
        BY <3>2, <2>2, <1>1, <1>3 DEF WithWorker
      <3>6. QED
        BY <2>1, <3>2, <3>4, <3>5, <1>1 DEF Held, WithWorker, Nowhere
    <2>3. CASE t # task[w]
      <3>1. WorkersOf(t)' = WorkersOf(t)
        BY <2>3, <1>1, <1>3, TasksAssumption
      <3>2. ran'[t] = ran[t]
        BY <2>3, <1>1, <1>3
      <3>3. QED
        BY <2>1, <3>1, <3>2, <1>1, <1>4
        DEF Held, InRing, WithWorker, WithProducer, Nowhere
    <2>4. QED
      BY <2>2, <2>3
  <1>7. QED
    BY <1>5, <1>6

LEMMA RunInlineConserves ==
  ASSUME PoolInv, NEW p \in Producers, RunInline(p)
  PROVE  Conserved'
  <1> USE DEF PoolInv, Conserved
  <1>1. /\ ptask' = [ptask EXCEPT ![p] = NoTask] /\ ppc[p] = "inline"
        /\ ppc' = [ppc EXCEPT ![p] = "idle"]
        /\ ran' = [ran EXCEPT ![ptask[p]] = IF @ = 0 THEN 1 ELSE 2]
        /\ UNCHANGED <<queue, head, count, wpc, task, submitted>>
    BY DEF RunInline, Execute, workerVars, pool
  <1>2. ptask[p] \in Tasks
    BY <1>1 DEF HandsFree
  <1>3. /\ ptask \in [Producers -> Tasks \cup {NoTask}] /\ ran \in [Tasks -> 0 .. 2]
        /\ ppc \in [Producers -> {"idle", "inline", "stopped"}]
    BY DEF TypeOK
  <1>4. LiveSlots' = LiveSlots
    BY <1>1 DEF LiveSlots, Slot
  <1>5. HandsFree'
    BY <1>1, <1>3, <1>4 DEF HandsFree
  <1>6. ASSUME NEW t \in Tasks PROVE Held(t)'
    <2> USE DEF SlotsOf, WorkersOf, ProducersOf
    <2>1. WorkersOf(t)' = WorkersOf(t) /\ SlotsOf(t)' = SlotsOf(t)
      BY <1>1, <1>4
    <2>2. CASE t = ptask[p]
      <3>1. p \in ProducersOf(t)
        BY <2>2
      <3>2. t \in submitted /\ WithProducer(t)
        BY <3>1 DEF Held, InRing, WithWorker, WithProducer, Nowhere
      <3>3. ProducersOf(t) = {p}
        BY <3>1, <3>2 DEF WithProducer
      <3>4. ProducersOf(t)' = {}
        BY <3>3, <1>1, <1>3, TasksAssumption
      <3>5. ran'[t] = 1
        BY <3>2, <2>2, <1>1, <1>3 DEF WithProducer
      <3>6. QED
        BY <2>1, <3>2, <3>4, <3>5, <1>1 DEF Held, WithProducer, Nowhere
    <2>3. CASE t # ptask[p]
      <3>1. ProducersOf(t)' = ProducersOf(t)
        BY <2>3, <1>1, <1>3, TasksAssumption
      <3>2. ran'[t] = ran[t]
        BY <2>3, <1>1, <1>3
      <3>3. QED
        BY <2>1, <3>1, <3>2, <1>1, <1>4
        DEF Held, InRing, WithWorker, WithProducer, Nowhere
    <2>4. QED
      BY <2>2, <2>3
  <1>7. QED
    BY <1>5, <1>6

LEMMA AddRefusedConserves ==
  ASSUME PoolInv, NEW p \in Producers, NEW u \in Tasks, AddRefused(p, u)
  PROVE  Conserved'
  <1> USE DEF PoolInv, Conserved
  <1>1. /\ ptask' = [ptask EXCEPT ![p] = u] /\ ppc[p] = "idle"
        /\ ppc' = [ppc EXCEPT ![p] = "inline"]
        /\ u \notin submitted /\ submitted' = submitted \cup {u}
        /\ UNCHANGED <<queue, head, count, wpc, task, ran>>
    BY DEF AddRefused, workerVars, pool
  <1>2. ptask[p] = NoTask
    BY <1>1 DEF HandsFree
  <1>3. /\ ptask \in [Producers -> Tasks \cup {NoTask}]
        /\ ppc \in [Producers -> {"idle", "inline", "stopped"}]
    BY DEF TypeOK
  <1>4. LiveSlots' = LiveSlots
    BY <1>1 DEF LiveSlots, Slot
  <1>5. HandsFree'
    BY <1>1, <1>3, <1>4 DEF HandsFree
  <1>6. ASSUME NEW t \in Tasks PROVE Held(t)'
    <2> USE DEF SlotsOf, WorkersOf, ProducersOf
    <2>1. WorkersOf(t)' = WorkersOf(t) /\ SlotsOf(t)' = SlotsOf(t)
      BY <1>1, <1>4
    <2>2. CASE t = u
      <3>1. Nowhere(t) /\ ran[t] = 0
        BY <2>2, <1>1 DEF Held
      <3>2. ProducersOf(t)' = {p}
        BY <3>1, <2>2, <1>1, <1>3 DEF Nowhere
      <3>3. QED
        BY <2>1, <2>2, <3>1, <3>2, <1>1 DEF Held, WithProducer, Nowhere
    <2>3. CASE t # u
      <3>1. ProducersOf(t)' = ProducersOf(t)
        BY <2>3, <1>1, <1>2, <1>3, TasksAssumption
      <3>2. t \in submitted' <=> t \in submitted
        BY <2>3, <1>1
      <3>3. QED
        BY <2>1, <3>1, <3>2, <1>1, <1>4
        DEF Held, InRing, WithWorker, WithProducer, Nowhere
    <2>4. QED
      BY <2>2, <2>3
  <1>7. QED
    BY <1>5, <1>6

LEMMA AddAcceptedConserves ==
  ASSUME PoolInv, NEW p \in Producers, NEW u \in Tasks, AddAccepted(p, u)
  PROVE  Conserved'
  <1> USE DEF PoolInv, Conserved
  <1>1. /\ queue' = [queue EXCEPT ![tail] = u]
        /\ u \notin submitted /\ submitted' = submitted \cup {u}
        /\ UNCHANGED <<task, ppc, ptask, ran>>
    BY DEF AddAccepted
  <1>2. tail \notin LiveSlots /\ LiveSlots' = LiveSlots \cup {tail}
    BY LiveAfterAdd DEF AddAccepted
  <1>3. /\ queue \in [Slots -> Tasks \cup {NoTask}] /\ tail \in Slots
        /\ wpc \in [Workers -> {"test", "lock", "wait", "run", "done"}]
        /\ LiveSlots \in SUBSET Slots
    BY LiveType DEF TypeOK
  <1>4. \A w \in Workers : wpc'[w] = "run" <=> wpc[w] = "run"
    <2>1. CASE wpc' = wpc
      BY <2>1
    <2>2. ASSUME NEW w \in Asleep, wpc' = [wpc EXCEPT ![w] = "lock"]
          PROVE  \A v \in Workers : wpc'[v] = "run" <=> wpc[v] = "run"
      BY <2>2, <1>3 DEF Asleep
    <2>3. QED
      BY <2>1, <2>2 DEF AddAccepted, Signal
  <1>5. HandsFree'
    BY <1>1, <1>2, <1>3, <1>4 DEF HandsFree
  <1>6. ASSUME NEW t \in Tasks PROVE Held(t)'
    <2> USE DEF SlotsOf, WorkersOf, ProducersOf
    <2>1. WorkersOf(t)' = WorkersOf(t) /\ ProducersOf(t)' = ProducersOf(t)
      BY <1>1
    <2>2. CASE t = u
      <3>1. Nowhere(t) /\ ran[t] = 0
        BY <2>2, <1>1 DEF Held
      <3>2. SlotsOf(t)' = {tail}
        BY <3>1, <2>2, <1>1, <1>2, <1>3 DEF Nowhere
      <3>3. tail \in LiveSlots'
        BY <1>2
      <3>4. QED
        BY <2>1, <2>2, <3>1, <3>2, <3>3, <1>1 DEF Held, InRing, Nowhere
    <2>3. CASE t # u
      <3>1. SlotsOf(t)' = SlotsOf(t)
        BY <2>3, <1>1, <1>2, <1>3
      <3>2. t \in submitted' <=> t \in submitted
        BY <2>3, <1>1
      <3>3. LiveSlots \subseteq LiveSlots'
        BY <1>2
      <3>4. QED
        BY <2>1, <3>1, <3>2, <3>3, <1>1
        DEF Held, InRing, WithWorker, WithProducer, Nowhere
    <2>4. QED
      BY <2>2, <2>3
  <1>7. QED
    BY <1>5, <1>6

\* The other steps move no task.
LEMMA IdleConserves ==
  ASSUME PoolInv, UNCHANGED <<queue, head, count, task, ptask, submitted, ran>>,
         \A w \in Workers : wpc'[w] = "run" <=> wpc[w] = "run",
         \A p \in Producers : ppc'[p] = "inline" <=> ppc[p] = "inline"
  PROVE  Conserved'
  <1>1. LiveSlots' = LiveSlots
    BY DEF LiveSlots, Slot
  <1>2. HandsFree'
    BY <1>1 DEF PoolInv, Conserved, HandsFree
  <1>3. ASSUME NEW t \in Tasks PROVE Held(t)'
    BY <1>1 DEF PoolInv, Conserved, Held, InRing, WithWorker, WithProducer,
                Nowhere, SlotsOf, WorkersOf, ProducersOf
  <1>4. QED
    BY <1>2, <1>3 DEF Conserved

LEMMA InitConserved == Init => Conserved
  <1> SUFFICES ASSUME Init PROVE Conserved
    OBVIOUS
  <1>1. LiveSlots = {}
    BY DEF Init, LiveSlots
  <1>2. HandsFree
    BY <1>1 DEF Init, HandsFree
  <1>3. ASSUME NEW t \in Tasks PROVE Held(t)
    BY <1>1, TasksAssumption
    DEF Init, Held, Nowhere, SlotsOf, WorkersOf, ProducersOf
  <1>4. QED
    BY <1>2, <1>3 DEF Conserved

LEMMA StepConserved == PoolInv /\ [Next]_vars => Conserved'
  <1> SUFFICES ASSUME PoolInv, [Next]_vars PROVE Conserved'
    OBVIOUS
  <1> USE DEF pool, workerVars, producerVars
  <1>0. /\ wpc \in [Workers -> {"test", "lock", "wait", "run", "done"}]
        /\ ppc \in [Producers -> {"idle", "inline", "stopped"}]
    BY DEF PoolInv, TypeOK
  <1>1. ASSUME NEW w \in Workers,
               TestExitFlag(w) \/ Sleep(w) \/ Leave(w) \/ SpuriousWakeup(w)
        PROVE  Conserved'
    <2>1. /\ UNCHANGED <<queue, head, count, task, ppc, ptask, submitted, ran>>
          /\ wpc[w] # "run"
          /\ \E s \in {"test", "lock", "wait", "done"} : wpc' = [wpc EXCEPT ![w] = s]
      BY <1>1 DEF TestExitFlag, Sleep, Leave, SpuriousWakeup
    <2>2. \A v \in Workers : wpc'[v] = "run" <=> wpc[v] = "run"
      BY <2>1, <1>0
    <2>3. QED
      BY <2>1, <2>2, IdleConserves
  <1>2. ASSUME NEW w \in Workers, Take(w) PROVE Conserved'
    BY <1>2, TakeConserves
  <1>3. ASSUME NEW w \in Workers, RunTask(w) PROVE Conserved'
    BY <1>3, RunTaskConserves
  <1>4. ASSUME NEW p \in Producers, NEW t \in Tasks, AddAccepted(p, t)
        PROVE  Conserved'
    BY <1>4, AddAcceptedConserves
  <1>5. ASSUME NEW p \in Producers, NEW t \in Tasks, AddRefused(p, t)
        PROVE  Conserved'
    BY <1>5, AddRefusedConserves
  <1>6. ASSUME NEW p \in Producers, RunInline(p) PROVE Conserved'
    BY <1>6, RunInlineConserves
  <1>7. ASSUME NEW p \in Producers, LeaveLoop(p) PROVE Conserved'
    <2>1. /\ UNCHANGED <<queue, head, count, wpc, task, ptask, submitted, ran>>
          /\ ppc[p] # "inline" /\ ppc' = [ppc EXCEPT ![p] = "stopped"]
      BY <1>7 DEF LeaveLoop
    <2>2. \A q \in Producers : ppc'[q] = "inline" <=> ppc[q] = "inline"
      BY <2>1, <1>0
    <2>3. QED
      BY <2>1, <2>2, IdleConserves
  <1>8. CASE Destroy
    <2>1. \A v \in Workers : wpc'[v] = "run" <=> wpc[v] = "run"
      BY <1>8, <1>0 DEF Destroy, Asleep
    <2>2. UNCHANGED <<queue, head, count, task, ppc, ptask, submitted, ran>>
      BY <1>8 DEF Destroy
    <2>3. QED
      BY <2>1, <2>2, IdleConserves
  <1>9. CASE RaiseExitFlag \/ StopReactor \/ Free \/ UNCHANGED vars
    <2>1. UNCHANGED <<queue, head, count, wpc, task, ppc, ptask, submitted, ran>>
      BY <1>9 DEF RaiseExitFlag, StopReactor, Free, vars
    <2>2. QED
      BY <2>1, IdleConserves
  <1>10. QED
    BY <1>1, <1>2, <1>3, <1>4, <1>5, <1>6, <1>7, <1>8, <1>9 DEF Next, Worker

LEMMA PoolInvCorrect == Spec => []PoolInv
  <1>1. Spec => []Conserved
    BY InitConserved, StepConserved, TypeCorrect, CursorsCorrect, PTL
    DEF Spec, PoolInv
  <1>2. QED
    BY <1>1, TypeCorrect, CursorsCorrect, PTL DEF PoolInv

(***************************************************************************)
(* No task is lost in a slot that another add overwrites, taken by two     *)
(* workers or run twice: each dispatched task is in exactly one place, for *)
(* every number of threads and tasks and every size of the ring.           *)
(***************************************************************************)
THEOREM TasksConserved == Spec => []TaskConserved
  <1>1. ASSUME PoolInv, NEW t \in Tasks
        PROVE  Places(t) = IF t \in submitted THEN 1 ELSE 0
    <2>1. Held(t)
      BY <1>1 DEF PoolInv, Conserved
    <2>2. /\ Cardinality({}) = 0
          /\ \A x : Cardinality({x}) = 1
      BY FS_EmptySet, FS_Singleton
    <2>3. Places(t) = Cardinality(SlotsOf(t)) + Cardinality(WorkersOf(t))
                        + Cardinality(ProducersOf(t)) + ran[t]
      BY DEF Places, SlotsOf, WorkersOf, ProducersOf
    <2>4. ran[t] \in 0 .. 2
      BY <1>1 DEF PoolInv, TypeOK
    <2>5. CASE t \in submitted
      <3>1. CASE InRing(t)
        BY <3>1, <2>2, <2>3, <2>5 DEF InRing
      <3>2. CASE WithWorker(t)
        <4>1. Cardinality(WorkersOf(t)) = 1 /\ SlotsOf(t) = {} /\ ProducersOf(t) = {}
          BY <3>2, <2>2 DEF WithWorker
        <4>2. QED
          BY <3>2, <4>1, <2>2, <2>3, <2>5 DEF WithWorker
      <3>3. CASE WithProducer(t)
        <4>1. Cardinality(ProducersOf(t)) = 1 /\ SlotsOf(t) = {} /\ WorkersOf(t) = {}
          BY <3>3, <2>2 DEF WithProducer
        <4>2. QED
          BY <3>3, <4>1, <2>2, <2>3, <2>5 DEF WithProducer
      <3>4. CASE Nowhere(t) /\ ran[t] = 1
        BY <3>4, <2>2, <2>3, <2>5 DEF Nowhere
      <3>5. QED
        BY <3>1, <3>2, <3>3, <3>4, <2>1, <2>5 DEF Held
    <2>6. CASE t \notin submitted
      BY <2>1, <2>2, <2>3, <2>6 DEF Held, Nowhere
    <2>7. QED
      BY <2>5, <2>6
  <1>2. PoolInv => TaskConserved
    BY <1>1 DEF TaskConserved
  <1>3. QED
    BY <1>2, PoolInvCorrect, PTL

-----------------------------------------------------------------------------
(* The refinement of TaskQueue: the ring, read from its head, is the line. *)

LEMMA LineSeq ==
  ASSUME TypeOK
  PROVE  /\ Line \in Seq(Tasks \cup {NoTask})
         /\ Len(Line) = count /\ DOMAIN Line = 1 .. count
  <1>1. count \in Nat
    BY QueueAssumption DEF TypeOK
  <1>2. \A i \in 1 .. count : queue[Slot(i - 1)] \in Tasks \cup {NoTask}
    <2> SUFFICES ASSUME NEW i \in 1 .. count
                 PROVE  queue[Slot(i - 1)] \in Tasks \cup {NoTask}
      OBVIOUS
    <2>1. i - 1 \in 0 .. count - 1
      BY <1>1
    <2>2. Slot(i - 1) \in Slots
      BY <2>1, LiveType DEF LiveSlots
    <2>3. QED
      BY <2>2 DEF TypeOK
  <1>3. Line \in [1 .. count -> Tasks \cup {NoTask}]
    BY <1>2 DEF Line
  <1>4. QED
    BY <1>1, <1>3

\* What stands in the line is what the live slots hold.
LEMMA LineSlots ==
  ASSUME TypeOK, NEW t
  PROVE  t \in TQ!InLine <=> SlotsOf(t) # {}
  <1>1. count \in Nat
    BY QueueAssumption DEF TypeOK
  <1>2. ASSUME t \in TQ!InLine PROVE SlotsOf(t) # {}
    <2>1. PICK i \in 1 .. count : t = queue[Slot(i - 1)]
      BY <1>2, LineSeq DEF TQ!InLine, Line
    <2>2. i - 1 \in 0 .. count - 1
      BY <1>1
    <2>3. Slot(i - 1) \in SlotsOf(t)
      BY <2>1, <2>2 DEF SlotsOf, LiveSlots
    <2>4. QED
      BY <2>3
  <1>3. ASSUME SlotsOf(t) # {} PROVE t \in TQ!InLine
    <2>1. PICK i \in 0 .. count - 1 : queue[Slot(i)] = t
      BY <1>3 DEF SlotsOf, LiveSlots
    <2>2. i + 1 \in 1 .. count /\ (i + 1) - 1 = i
      BY <1>1
    <2>3. i + 1 \in DOMAIN Line /\ Line[i + 1] = t
      BY <2>1, <2>2, LineSeq DEF Line
    <2>4. QED
      BY <2>3 DEF TQ!InLine
  <1>4. QED
    BY <1>2, <1>3

\* A task not submitted is new to the abstract queue.
LEMMA NewIsFresh ==
  ASSUME PoolInv, NEW t \in Tasks, t \notin submitted
  PROVE  TQ!Fresh(t)
  <1>1. Nowhere(t) /\ ran[t] = 0
    BY DEF PoolInv, Conserved, Held
  <1>2. t \notin TQ!InLine
    BY <1>1, LineSlots DEF PoolInv, Nowhere
  <1>3. t \notin InHand
    BY <1>1 DEF Nowhere, WorkersOf, ProducersOf, InHand
  <1>4. QED
    BY <1>1, <1>2, <1>3 DEF TQ!Fresh

LEMMA AddAcceptedAccepts ==
  ASSUME PoolInv, NEW p \in Producers, NEW t \in Tasks, AddAccepted(p, t)
  PROVE  TQ!Accept(t)
  <1> USE DEF PoolInv
  <1>1. /\ t \notin submitted /\ ~Full /\ ~shutdown
        /\ queue' = [queue EXCEPT ![tail] = t]
        /\ count' = count + 1 /\ head' = head
        /\ UNCHANGED <<shutdown, task, ptask, ran>>
    BY DEF AddAccepted
  <1>2. TQ!Fresh(t)
    BY <1>1, NewIsFresh
  <1>3. /\ count \in Nat /\ Line \in Seq(Tasks \cup {NoTask})
        /\ Len(Line) = count /\ count < QueueSize
    BY <1>1, LineSeq, QueueAssumption DEF TypeOK, Full
  <1>4. Line' = Append(Line, t)
    <2>1. /\ tail = Slot(count) /\ tail \in Slots
          /\ queue \in [Slots -> Tasks \cup {NoTask}]
          /\ \A i \in 0 .. count - 1 : Slot(i) # tail /\ Slot(i) \in Slots
      BY <1>1, LiveAfterAdd, LiveType DEF TypeOK, CursorsAgree, LiveSlots
    <2>2. Line' = [i \in 1 .. count + 1 |-> queue'[Slot(i - 1)]]
      BY <1>1 DEF Line, Slot
    <2>3. \A i \in 1 .. count : queue'[Slot(i - 1)] = Line[i]
      <3> SUFFICES ASSUME NEW i \in 1 .. count
                   PROVE  queue'[Slot(i - 1)] = Line[i]
        OBVIOUS
      <3>1. i - 1 \in 0 .. count - 1
        BY <1>3
      <3>2. queue'[Slot(i - 1)] = queue[Slot(i - 1)]
        BY <3>1, <2>1, <1>1
      <3>3. QED
        BY <3>2 DEF Line
    <2>4. queue'[Slot((count + 1) - 1)] = t
      <3>1. (count + 1) - 1 = count
        BY <1>3
      <3>2. QED
        BY <3>1, <2>1, <1>1
    <2>5. /\ Append(Line, t) \in Seq(Tasks \cup {NoTask})
          /\ Len(Append(Line, t)) = count + 1
          /\ \A i \in 1 .. count : Append(Line, t)[i] = Line[i]
          /\ Append(Line, t)[count + 1] = t
      BY <1>3, AppendProperties
    <2>6. \A i \in 1 .. count + 1 : Line'[i] = Append(Line, t)[i]
      <3> SUFFICES ASSUME NEW i \in 1 .. count + 1
                   PROVE  Line'[i] = Append(Line, t)[i]
        OBVIOUS
      <3>1. Line'[i] = queue'[Slot(i - 1)]
        BY <2>2
      <3>2. CASE i = count + 1
        BY <3>1, <3>2, <2>4, <2>5
      <3>3. CASE i # count + 1
        <4>1. i \in 1 .. count
          BY <3>3, <1>3
        <4>2. QED
          BY <4>1, <3>1, <2>3, <2>5
      <3>4. QED
        BY <3>2, <3>3
    <2>7. /\ Line' \in Seq(Tasks \cup {NoTask}) /\ Len(Line') = count + 1
      <3>1. count + 1 \in Nat
        BY <1>3
      <3>2. \A i \in 1 .. count + 1 : Append(Line, t)[i] \in Tasks \cup {NoTask}
        BY <2>5
      <3>3. Line' \in [1 .. count + 1 -> Tasks \cup {NoTask}]
        BY <2>2, <2>6, <3>2
      <3>4. QED
        BY <3>1, <3>3
    <2>8. QED
      BY <2>5, <2>6, <2>7, SeqEqual
  <1>5. InHand' = InHand
    BY <1>1 DEF InHand
  <1>6. QED
    BY <1>1, <1>2, <1>3, <1>4, <1>5 DEF TQ!Accept

LEMMA AddRefusedRefuses ==
  ASSUME PoolInv, NEW p \in Producers, NEW t \in Tasks, AddRefused(p, t)
  PROVE  TQ!Refuse(t)
  <1> USE DEF PoolInv
  <1>1. /\ t \notin submitted /\ ppc[p] = "idle" /\ (Full \/ shutdown)
        /\ ptask' = [ptask EXCEPT ![p] = t]
        /\ UNCHANGED <<queue, head, count, shutdown, task, ran>>
    BY DEF AddRefused, pool, workerVars
  <1>2. TQ!Fresh(t)
    BY <1>1, NewIsFresh
  <1>3. shutdown \/ Len(Line) = QueueSize
    BY <1>1, LineSeq DEF Full
  <1>4. InHand' = InHand \cup {t}
    <2>1. ptask[p] = NoTask
      BY <1>1 DEF Conserved, HandsFree
    <2>2. \A u \in Tasks : (\E q \in Producers : ptask'[q] = u)
                             <=> u = t \/ \E q \in Producers : ptask[q] = u
      BY <1>1, <2>1, TasksAssumption DEF TypeOK
    <2>3. QED
      BY <1>1, <2>2 DEF InHand
  <1>5. Line' = Line
    BY <1>1 DEF Line, Slot
  <1>6. QED
    BY <1>1, <1>2, <1>3, <1>4, <1>5 DEF TQ!Refuse

LEMMA TakeStarts ==
  ASSUME PoolInv, NEW w \in Workers, Take(w)
  PROVE  TQ!Start
  <1> USE DEF PoolInv
  <1>1. /\ wpc[w] = "lock" /\ count > 0 /\ ~shutdown
        /\ task' = [task EXCEPT ![w] = queue[head]]
        /\ head' = (head + 1) % QueueSize /\ count' = count - 1
        /\ UNCHANGED <<queue, shutdown, ptask, ran>>
    BY DEF Take, Front, producerVars
  <1>2. /\ Slot(0) = head /\ head \in LiveSlots
        /\ \A i \in 0 .. count - 2 : (head' + i) % QueueSize = Slot(i + 1)
    BY <1>1, LiveAfterTake
  <1>3. /\ count \in Nat /\ Line \in Seq(Tasks \cup {NoTask})
        /\ Len(Line) = count
    BY LineSeq, QueueAssumption DEF TypeOK
  <1>4. Line # <<>> /\ Head(Line) = queue[head]
    <2>1. Line # <<>>
      BY <1>1, <1>3
    <2>2. Head(Line) = Line[1] /\ 1 \in 1 .. count /\ 1 - 1 = 0
      BY <1>1, <1>3
    <2>3. QED
      BY <2>1, <2>2, <1>2 DEF Line
  <1>5. Line' = Tail(Line)
    <2>1. /\ Tail(Line) \in Seq(Tasks \cup {NoTask})
          /\ Len(Tail(Line)) = count - 1
          /\ \A i \in 1 .. count - 1 : Tail(Line)[i] = Line[i + 1]
      BY <1>3, <1>4, HeadTailProperties
    <2>2. Line' = [i \in 1 .. count - 1 |-> queue[(head' + (i - 1)) % QueueSize]]
      BY <1>1 DEF Line, Slot
    <2>3. \A i \in 1 .. count - 1 : Line'[i] = Tail(Line)[i]
      <3> SUFFICES ASSUME NEW i \in 1 .. count - 1
                   PROVE  Line'[i] = Tail(Line)[i]
        OBVIOUS
      <3>1. /\ i - 1 \in 0 .. count - 2 /\ (i - 1) + 1 = i
            /\ i + 1 \in 1 .. count /\ (i + 1) - 1 = i
        BY <1>3
      <3>2. Line'[i] = queue[Slot(i)]
        BY <3>1, <2>2, <1>2
      <3>3. Line[i + 1] = queue[Slot(i)]
        BY <3>1 DEF Line
      <3>4. QED
        BY <3>2, <3>3, <2>1
    <2>4. Line' \in Seq(Tasks \cup {NoTask}) /\ Len(Line') = count - 1
      <3>1. count - 1 \in Nat
        BY <1>1, <1>3
      <3>2. \A i \in 1 .. count - 1 : Tail(Line)[i] \in Tasks \cup {NoTask}
        BY <2>1
      <3>3. Line' \in [1 .. count - 1 -> Tasks \cup {NoTask}]
        BY <2>2, <2>3, <3>2
      <3>4. QED
        BY <3>1, <3>3
    <2>5. QED
      BY <2>1, <2>3, <2>4, SeqEqual
  <1>6. InHand' = InHand \cup {queue[head]}
    <2>1. task[w] = NoTask /\ queue[head] \in Tasks
      BY <1>1, <1>2 DEF Conserved, HandsFree
    <2>2. \A u \in Tasks : (\E v \in Workers : task'[v] = u)
                             <=> u = queue[head] \/ \E v \in Workers : task[v] = u
      BY <1>1, <2>1, TasksAssumption DEF TypeOK
    <2>3. QED
      BY <1>1, <2>1, <2>2 DEF InHand
  <1>7. QED
    BY <1>1, <1>4, <1>5, <1>6 DEF TQ!Start

LEMMA ExecuteFinishes ==
  ASSUME TypeOK, NEW t \in Tasks, Execute(t)
  PROVE  {u \in Tasks : ran'[u] > 0} = {u \in Tasks : ran[u] > 0} \cup {t}
  <1>1. ran' = [ran EXCEPT ![t] = IF ran[t] = 0 THEN 1 ELSE 2]
    BY DEF Execute
  <1>2. ran \in [Tasks -> 0 .. 2]
    BY DEF TypeOK
  <1>3. ran'[t] > 0
    BY <1>1, <1>2
  <1>4. \A u \in Tasks : u # t => ran'[u] = ran[u]
    BY <1>1, <1>2
  <1>5. QED
    BY <1>3, <1>4

LEMMA RunTaskFinishes ==
  ASSUME PoolInv, NEW w \in Workers, RunTask(w)
  PROVE  \E u \in Tasks : TQ!Finish(u)
  <1> USE DEF PoolInv
  <1>1. /\ wpc[w] = "run" /\ Execute(task[w])
        /\ task' = [task EXCEPT ![w] = NoTask]
        /\ UNCHANGED <<queue, head, count, shutdown, ptask>>
    BY DEF RunTask, pool, producerVars
  <1>2. PICK t \in Tasks : t = task[w]
    BY <1>1 DEF Conserved, HandsFree
  <1>3. WorkersOf(t) = {w} /\ ProducersOf(t) = {}
    <2>1. w \in WorkersOf(t)
      BY <1>2 DEF WorkersOf
    <2>2. Held(t)
      BY <1>2 DEF Conserved
    <2>3. QED
      BY <2>1, <2>2 DEF Held, InRing, WithWorker, WithProducer, Nowhere
  <1>4. t \in InHand
    BY <1>2 DEF InHand
  <1>5. InHand' = InHand \ {t}
    <2>1. \A v \in Workers : task'[v] = IF v = w THEN NoTask ELSE task[v]
      BY <1>1 DEF TypeOK
    <2>2. \A v \in Workers : task[v] = t => v = w
      BY <1>3 DEF WorkersOf
    <2>3. \A p \in Producers : ptask[p] # t
      BY <1>3 DEF ProducersOf
    <2>4. \A u \in Tasks : (\E v \in Workers : task'[v] = u)
                             <=> u # t /\ \E v \in Workers : task[v] = u
      BY <1>2, <2>1, <2>2, TasksAssumption
    <2>5. QED
      BY <1>1, <2>3, <2>4 DEF InHand
  <1>6. Line' = Line
    BY <1>1 DEF Line, Slot
  <1>7. {u \in Tasks : ran'[u] > 0} = {u \in Tasks : ran[u] > 0} \cup {t}
    BY <1>1, <1>2, ExecuteFinishes
  <1>8. TQ!Finish(t)
    BY <1>1, <1>4, <1>5, <1>6, <1>7 DEF TQ!Finish
  <1>9. QED
    BY <1>8

LEMMA RunInlineFinishes ==
  ASSUME PoolInv, NEW p \in Producers, RunInline(p)
  PROVE  \E u \in Tasks : TQ!Finish(u)
  <1> USE DEF PoolInv
  <1>1. /\ ppc[p] = "inline" /\ Execute(ptask[p])
        /\ ptask' = [ptask EXCEPT ![p] = NoTask]
        /\ UNCHANGED <<queue, head, count, shutdown, task>>
    BY DEF RunInline, pool, workerVars
  <1>2. PICK t \in Tasks : t = ptask[p]
    BY <1>1 DEF Conserved, HandsFree
  <1>3. ProducersOf(t) = {p} /\ WorkersOf(t) = {}
    <2>1. p \in ProducersOf(t)
      BY <1>2 DEF ProducersOf
    <2>2. Held(t)
      BY <1>2 DEF Conserved
    <2>3. QED
      BY <2>1, <2>2 DEF Held, InRing, WithWorker, WithProducer, Nowhere
  <1>4. t \in InHand
    BY <1>2 DEF InHand
  <1>5. InHand' = InHand \ {t}
    <2>1. \A q \in Producers : ptask'[q] = IF q = p THEN NoTask ELSE ptask[q]
      BY <1>1 DEF TypeOK
    <2>2. \A q \in Producers : ptask[q] = t => q = p
      BY <1>3 DEF ProducersOf
    <2>3. \A w \in Workers : task[w] # t
      BY <1>3 DEF WorkersOf
    <2>4. \A u \in Tasks : (\E q \in Producers : ptask'[q] = u)
                             <=> u # t /\ \E q \in Producers : ptask[q] = u
      BY <1>2, <2>1, <2>2, TasksAssumption
    <2>5. QED
      BY <1>1, <2>3, <2>4 DEF InHand
  <1>6. Line' = Line
    BY <1>1 DEF Line, Slot
  <1>7. {u \in Tasks : ran'[u] > 0} = {u \in Tasks : ran[u] > 0} \cup {t}
    BY <1>1, <1>2, ExecuteFinishes
  <1>8. TQ!Finish(t)
    BY <1>1, <1>4, <1>5, <1>6, <1>7 DEF TQ!Finish
  <1>9. QED
    BY <1>8

\* The destroying thread shuts the pool down once.
OwnerAndShutdown == shutdown <=> owner # "live"

LEMMA OwnerCorrect == Spec => []OwnerAndShutdown
  <1>1. Init => OwnerAndShutdown
    BY DEF Init, OwnerAndShutdown
  <1>2. OwnerAndShutdown /\ [Next]_vars => OwnerAndShutdown'
    BY DEF OwnerAndShutdown, Next, Worker, TestExitFlag, Sleep, Leave, Take,
           RunTask, SpuriousWakeup, AddAccepted, AddRefused, RunInline,
           LeaveLoop, RaiseExitFlag, StopReactor, Destroy, Free, vars, pool
  <1>3. QED
    BY <1>1, <1>2, PTL DEF Spec

LEMMA QueueInit == Init => TQ!Init
  <1> SUFFICES ASSUME Init PROVE TQ!Init
    OBVIOUS
  <1>1. Line = <<>>
    BY DEF Init, Line
  <1>2. InHand = {}
    BY TasksAssumption DEF Init, InHand
  <1>3. {t \in Tasks : ran[t] > 0} = {}
    BY DEF Init
  <1>4. QED
    BY <1>1, <1>2, <1>3 DEF Init, TQ!Init

LEMMA QueueStep ==
  PoolInv /\ OwnerAndShutdown /\ [Next]_vars => [TQ!Next]_(TQ!vars)
  <1> SUFFICES ASSUME PoolInv, OwnerAndShutdown, [Next]_vars
               PROVE  [TQ!Next]_(TQ!vars)
    OBVIOUS
  <1>1. ASSUME NEW w \in Workers, Take(w) PROVE TQ!Next
    BY <1>1, TakeStarts DEF TQ!Next
  <1>2. ASSUME NEW w \in Workers, RunTask(w) PROVE TQ!Next
    BY <1>2, RunTaskFinishes DEF TQ!Next
  <1>3. ASSUME NEW p \in Producers, NEW t \in Tasks, AddAccepted(p, t)
        PROVE  TQ!Next
    BY <1>3, AddAcceptedAccepts DEF TQ!Next
  <1>4. ASSUME NEW p \in Producers, NEW t \in Tasks, AddRefused(p, t)
        PROVE  TQ!Next
    BY <1>4, AddRefusedRefuses DEF TQ!Next
  <1>5. ASSUME NEW p \in Producers, RunInline(p) PROVE TQ!Next
    BY <1>5, RunInlineFinishes DEF TQ!Next
  <1>6. CASE Destroy
    <2>1. ~shutdown /\ shutdown' = TRUE
      BY <1>6 DEF Destroy, OwnerAndShutdown, PoolInv, TypeOK
    <2>2. UNCHANGED <<queue, head, count, task, ptask, ran>>
      BY <1>6 DEF Destroy, producerVars
    <2>3. Line' = Line /\ InHand' = InHand
      BY <2>2 DEF Line, Slot, InHand
    <2>4. QED
      BY <2>1, <2>2, <2>3 DEF TQ!Close, TQ!Next
  <1>7. CASE UNCHANGED <<queue, head, count, shutdown, task, ptask, ran>>
    <2>1. Line' = Line /\ InHand' = InHand
      BY <1>7 DEF Line, Slot, InHand
    <2>2. QED
      BY <1>7, <2>1 DEF TQ!vars
  <1>8. QED
    BY <1>1, <1>2, <1>3, <1>4, <1>5, <1>6, <1>7
    DEF Next, Worker, vars, pool, workerVars, producerVars, TestExitFlag,
        Sleep, Leave, SpuriousWakeup, LeaveLoop, RaiseExitFlag, StopReactor, Free

(***************************************************************************)
(* The worker pool implements TaskQueue, for every number of threads and   *)
(* tasks and every size of the ring: tasks leave the ring in the order     *)
(* they entered it, each starts at most once, one that finds it full is    *)
(* run by the thread that brought it, and none leaves it after             *)
(* net_threadpool_destroy has set shutdown.                                *)
(***************************************************************************)
THEOREM TaskQueueImplemented == Spec => ImplementsTaskQueue
  <1>1. QED
    BY QueueInit, QueueStep, PoolInvCorrect, OwnerCorrect, PTL
    DEF Spec, ImplementsTaskQueue, TQ!Spec
=============================================================================
