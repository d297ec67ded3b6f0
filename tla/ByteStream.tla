----------------------------- MODULE ByteStream -----------------------------
(***************************************************************************)
(* What net_send promises about the bytes of one connection: messages go   *)
(* out one after the other, each in one piece and in the order their sends *)
(* began; what is not on the wire yet waits in a line and leaves it in     *)
(* order.  Only a message whose send fails may stop short, and then before *)
(* the next one starts.                                                    *)
(***************************************************************************)
EXTENDS Naturals, Sequences

CONSTANTS
  Messages,     \* the messages that may be sent, each at most once
  NoMessage,    \* no message
  Bytes(_)      \* the bytes of a message

VARIABLES
  wire,         \* the bytes handed to the network
  line,         \* the bytes waiting
  sending,      \* the message whose send has not returned
  given         \* the messages whose send has begun

vars == <<wire, line, sending, given>>

Init ==
  /\ wire = <<>>
  /\ line = <<>>
  /\ sending = NoMessage
  /\ given = {}

\* The stream so far is added to, never changed; any part of it may move on.
Extend(bytes) ==
  /\ wire' \o line' = wire \o line \o bytes
  /\ Len(wire') >= Len(wire)

Send(m) ==
  /\ sending = NoMessage /\ m \notin given
  /\ given' = given \cup {m}
  /\ sending' \in {m, NoMessage}
  /\ Extend(Bytes(m))

Accept ==
  /\ sending # NoMessage
  /\ sending' = NoMessage
  /\ UNCHANGED <<wire, line, given>>

\* What the network does not have yet of the message is taken back.
Fail ==
  /\ sending # NoMessage
  /\ sending' = NoMessage
  /\ \E n \in 0 .. Len(line) :
       /\ line' = SubSeq(line, 1, n)
       /\ \E k \in 1 .. Len(Bytes(sending)) :
            SubSeq(line, n + 1, Len(line)) =
              SubSeq(Bytes(sending), k, Len(Bytes(sending)))
  /\ UNCHANGED <<wire, given>>

Drain ==
  /\ Extend(<<>>)
  /\ UNCHANGED <<sending, given>>

Next ==
  \/ \E m \in Messages : Send(m)
  \/ Accept \/ Fail \/ Drain

Spec == Init /\ [][Next]_vars
=============================================================================
