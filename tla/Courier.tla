------------------------------ MODULE Courier ------------------------------
(***************************************************************************)
(* What lib/net promises between its clients and the handler, with no      *)
(* socket, buffer, event, thread or descriptor in sight.  The requests of  *)
(* a client are numbered as it sends them.  Each is taken up once, in      *)
(* order, and not before it is complete; it is then held for the handler   *)
(* and answered at most once, to the client that asked.                    *)
(*                                                                         *)
(* Three things excuse a departure: a client that has quit, whose answers  *)
(* may go astray; an allocation that has failed, which may cost a request  *)
(* or a connection; and a start that has failed, after which the reactor   *)
(* is freed under threads that run.  Once one is freed that was stopped,   *)
(* it is all over.                                                         *)
(***************************************************************************)
EXTENDS Naturals

CONSTANTS
  Clients,
  Nobody       \* whom an answer reaches when there is no connection for it

VARIABLES
  sent,        \* how many requests each client has sent to the end
  quit,        \* the clients that have shut their side
  faulty,      \* an allocation has failed, or the start and what it left
  taken,       \* how many requests of each client have been taken up
  held,        \* the requests the handler has, or will be given
  answers,     \* request k of c was answered to the connection of d
  over         \* nothing is taken up or answered any more

vars == <<sent, quit, faulty, taken, held, answers, over>>

Init ==
  /\ sent = [c \in Clients |-> 0] /\ taken = [c \in Clients |-> 0]
  /\ quit = {} /\ held = {} /\ answers = {}
  /\ faulty = FALSE /\ over = FALSE

Complete(c) ==
  /\ c \notin quit
  /\ sent' = [sent EXCEPT ![c] = @ + 1]
  /\ UNCHANGED <<quit, faulty, taken, held, answers, over>>

Quit(c) ==
  /\ quit' = quit \cup {c}
  /\ UNCHANGED <<sent, faulty, taken, held, answers, over>>

Fail ==
  /\ faulty' = TRUE
  /\ UNCHANGED <<sent, quit, taken, held, answers, over>>

NextTaken(c) ==
  /\ ~over
  /\ taken[c] < sent[c]
  /\ taken' = [taken EXCEPT ![c] = @ + 1]

Take(c) ==
  /\ NextTaken(c)
  /\ held' = held \cup {<<c, taken[c] + 1>>}
  /\ UNCHANGED <<sent, quit, faulty, answers, over>>

\* An allocation fails for this request.
PassOver(c) ==
  /\ NextTaken(c)
  /\ faulty' = TRUE
  /\ UNCHANGED <<sent, quit, held, answers, over>>

Answer(r, d) ==
  /\ ~over
  /\ d = r[1] \/ r[1] \in quit \/ faulty
  /\ held' = held \ {r}
  /\ answers' = answers \cup {<<r[1], r[2], d>>}
  /\ UNCHANGED <<sent, quit, faulty, taken, over>>

\* What is still held is lost.
End ==
  /\ over' = TRUE /\ held' = {}
  /\ UNCHANGED <<sent, quit, faulty, taken, answers>>

Next ==
  \/ Fail \/ End
  \/ \E c \in Clients : Complete(c) \/ Quit(c) \/ Take(c) \/ PassOver(c)
  \/ \E r \in held, d \in Clients \cup {Nobody} : Answer(r, d)

Spec == Init /\ [][Next]_vars
=============================================================================
