----------------------------- MODULE TaskQueue -----------------------------
(***************************************************************************)
(* What the worker pool of lib/net promises to the reactor threads that    *)
(* hand it requests, with no ring, mutex, condition variable or worker in  *)
(* sight: a bounded first-in first-out line of tasks.  A task that finds   *)
(* no room is started at once by the thread that brought it.  Every task   *)
(* starts at most once, and none starts from the line once it is closed.   *)
(***************************************************************************)
EXTENDS Naturals, Sequences

CONSTANTS
  Tasks,       \* the tasks that may be handed over, each at most once
  Capacity     \* how many tasks the line holds

VARIABLES
  line,        \* the accepted tasks that have not started, oldest first
  started,     \* the tasks that have started and not finished
  finished,    \* the tasks that have finished
  closed       \* the line has been shut down

vars == <<line, started, finished, closed>>

InLine == {line[i] : i \in DOMAIN line}

Fresh(t) == t \notin InLine \cup started \cup finished

Init ==
  /\ line = <<>>
  /\ started = {}
  /\ finished = {}
  /\ closed = FALSE

Accept(t) ==
  /\ Fresh(t)
  /\ ~closed
  /\ Len(line) < Capacity
  /\ line' = Append(line, t)
  /\ UNCHANGED <<started, finished, closed>>

Refuse(t) ==
  /\ Fresh(t)
  /\ closed \/ Len(line) = Capacity
  /\ started' = started \cup {t}
  /\ UNCHANGED <<line, finished, closed>>

Start ==
  /\ ~closed
  /\ line # <<>>
  /\ started' = started \cup {Head(line)}
  /\ line' = Tail(line)
  /\ UNCHANGED <<finished, closed>>

Finish(t) ==
  /\ t \in started
  /\ started' = started \ {t}
  /\ finished' = finished \cup {t}
  /\ UNCHANGED <<line, closed>>

Close ==
  /\ ~closed
  /\ closed' = TRUE
  /\ UNCHANGED <<line, started, finished>>

Next ==
  \/ \E t \in Tasks : Accept(t) \/ Refuse(t) \/ Finish(t)
  \/ Start
  \/ Close

Spec == Init /\ [][Next]_vars
=============================================================================
