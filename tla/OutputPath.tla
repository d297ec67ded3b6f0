----------------------------- MODULE OutputPath -----------------------------
(***************************************************************************)
(* The way out of a connection in lib/net: net_send, which any thread may  *)
(* call, handle_client_out, which drains the application buffer when the   *)
(* socket has room again, and the reactor's dispatch between the two       *)
(* directions of a connection (net_epoll.c).                               *)
(*                                                                         *)
(* net_send holds conn->send_lock from its write to its epoll_ctl, and the *)
(* kernel and the reactor's epoll_wait run on between the two: they are    *)
(* two actions, NetSend and Buffer, and `sender' holds the lock.  Bytes    *)
(* are counted in units; unit i of message m is <<m, i>>.  The connection  *)
(* stays open.                                                             *)
(*                                                                         *)
(* The kernel's side is external: a send buffer of SndBuf units, and an    *)
(* edge-triggered epoll item.  A short write asks for an edge (nospace),   *)
(* which comes when the peer makes room and EPOLLOUT is in the mask.       *)
(***************************************************************************)
EXTENDS Naturals, Sequences, FiniteSets

CONSTANTS
  Messages,     \* the messages sent on the connection
  NoMessage,    \* no message
  Length,       \* the number of units of each message
  InitialCap,   \* INITIAL_BUF_SIZE
  SndBuf,       \* room in the socket's send buffer
  MaxInput      \* how often the client sends something: the bound on the run

ASSUME MessagesAssumption ==
  Length \in [Messages -> Nat \ {0}] /\ NoMessage \notin Messages
ASSUME SizesAssumption == InitialCap \in Nat \ {0} /\ SndBuf \in Nat \ {0}
ASSUME InputAssumption == MaxInput \in Nat

VARIABLES
  outBuf,       \* conn->out_buf, the first out_length units of it
  outReadPos,   \* conn->out_read_pos
  outCapacity,  \* conn->out_capacity
  sender,       \* conn->send_lock: the message whose net_send holds it
  rest,         \* data, len: what that net_send has still to buffer
  armed,        \* EPOLLOUT is in the item's mask
  ready,        \* the item is on the ready list
  report,       \* the events of the item the reactor is dispatching
  inflight,     \* units in the socket's send buffer
  nospace,      \* a write came up short since the last edge
  input,        \* something can be read
  arrived,      \* history: how often the client sent something
  wire,         \* history: the units handed to the kernel
  given,        \* history: the messages net_send was called with
  missed        \* history: EPOLLOUT was reported and passed over

buffer == <<outBuf, outReadPos, outCapacity>>
lock == <<sender, rest>>
item == <<armed, ready, report>>
socket == <<inflight, nospace, wire>>
client == <<input, arrived>>
vars == <<buffer, lock, item, socket, client, given, missed>>

Units(m) == [i \in 1 .. Length[m] |-> <<m, i>>]
Pending == SubSeq(outBuf, outReadPos + 1, Len(outBuf))

Init ==
  /\ outBuf = <<>> /\ outReadPos = 0 /\ outCapacity = 0
  /\ sender = NoMessage /\ rest = <<>>
  /\ armed = FALSE /\ ready = FALSE /\ report = {}
  /\ inflight = 0 /\ nospace = FALSE /\ wire = <<>>
  /\ input = FALSE /\ arrived = 0
  /\ given = {}
  /\ missed = FALSE

-----------------------------------------------------------------------------
(* The kernel and the client *)

Room == SndBuf - inflight
Fitting(n) == IF n <= Room THEN n ELSE Room

\* write() takes what fits; nothing taken is EAGAIN.
Write(data) ==
  LET n == Fitting(Len(data)) IN
    /\ inflight' = inflight + n
    /\ wire' = wire \o SubSeq(data, 1, n)
    /\ nospace' = (nospace \/ n < Len(data))

\* Mutation: a new mask only counts for the edges to come.
ModifyBlindly(out) ==
  /\ armed' = out
  /\ UNCHANGED ready

\* EPOLL_CTL_MOD sets the mask and looks at the socket at once.
Modify(out) ==
  /\ armed' = out
  /\ ready' = (ready \/ input \/ (out /\ Room > 0))

PeerReads ==
  /\ inflight > 0
  /\ \E n \in 0 .. inflight - 1 : inflight' = n
  /\ nospace' = FALSE
  /\ ready' = (ready \/ (nospace /\ armed))
  /\ UNCHANGED <<buffer, lock, armed, report, wire, client, given, missed>>

ClientSends ==
  /\ arrived < MaxInput
  /\ arrived' = arrived + 1
  /\ input' = TRUE
  /\ ready' = TRUE
  /\ UNCHANGED <<buffer, lock, armed, report, socket, given, missed>>

\* epoll_wait reports the state of the moment, masked, once per edge.
EpollWait ==
  /\ ready /\ report = {}
  /\ report' = (IF input THEN {"in"} ELSE {})
                 \cup (IF armed /\ Room > 0 THEN {"out"} ELSE {})
  /\ ready' = FALSE
  /\ UNCHANGED <<buffer, lock, armed, socket, client, given, missed>>

-----------------------------------------------------------------------------
(* net_send *)

\* The lock, and the direct write if nothing is waiting.
NetSend(m) ==
  /\ m \notin given /\ sender = NoMessage
  /\ given' = given \cup {m}
  /\ IF Pending = <<>>
     THEN /\ Write(Units(m))
          /\ rest' = SubSeq(Units(m), Fitting(Length[m]) + 1, Length[m])
     ELSE /\ rest' = Units(m)
          /\ UNCHANGED socket
  /\ sender' = IF rest' = <<>> THEN NoMessage ELSE m
  /\ UNCHANGED <<buffer, item, client, missed>>

Compact == outReadPos > outCapacity \div 2

\* Mutation: the position is reset and the units already sent stay.
Uncompacted == outBuf
Kept == IF Compact THEN Pending ELSE outBuf
Needed == Len(Kept) + Len(rest)

\* Mutation: the capacity is doubled once, without the loop.
DoubledOnce == {IF outCapacity = 0 THEN InitialCap ELSE 2 * outCapacity}

\* The first capacity that is enough, by doubling.
Grown ==
  LET start == IF outCapacity = 0 THEN InitialCap ELSE 2 * outCapacity
  IN {c \in start .. start + 2 * Needed :
        /\ c >= Needed /\ (c = start \/ c < 2 * Needed)
        /\ \E k \in 0 .. Needed : c = start * 2^k}

CompactRest ==
  /\ outReadPos' = IF Compact THEN 0 ELSE outReadPos
  /\ sender' = NoMessage /\ rest' = <<>>

\* The rest is appended to the buffer, EPOLLOUT asked for, the lock given up.
Buffer ==
  /\ sender # NoMessage
  /\ CompactRest
  /\ outBuf' = Kept \o rest
  /\ IF Needed > outCapacity THEN outCapacity' \in Grown
     ELSE UNCHANGED outCapacity
  /\ Modify(TRUE)
  /\ missed' = FALSE
  /\ UNCHANGED <<report, socket, client, given>>

\* realloc fails: what was not written of the message is gone.
BufferFails ==
  /\ sender # NoMessage /\ Needed > outCapacity
  /\ CompactRest
  /\ outBuf' = Kept
  /\ UNCHANGED <<outCapacity, item, socket, client, given, missed>>

-----------------------------------------------------------------------------
(* The reactor *)

\* EPOLLIN goes first, and EPOLLOUT is looked at only without it.
HandleClientData ==
  /\ "in" \in report
  /\ input' = FALSE
  /\ report' = {}
  /\ missed' = (missed \/ ("out" \in report /\ Pending # <<>>))
  /\ UNCHANGED <<buffer, lock, armed, ready, socket, arrived, given>>

\* Mutation: the positions are not reset when everything is sent.
DrainOnward ==
  outReadPos' = outReadPos + Fitting(Len(Pending)) /\ UNCHANGED outBuf

DrainBuffer ==
  LET n == Fitting(Len(Pending)) IN
    IF n = Len(Pending)
    THEN outBuf' = <<>> /\ outReadPos' = 0
    ELSE outReadPos' = outReadPos + n /\ UNCHANGED outBuf

\* Mutation: EPOLLOUT is given up after the first drain.
AnyDrain == TRUE
Finished == outBuf' = <<>>

HandleClientOut ==
  /\ report = {"out"} /\ sender = NoMessage
  /\ report' = {}
  /\ Write(Pending)
  /\ DrainBuffer
  /\ IF Finished THEN Modify(FALSE) ELSE UNCHANGED <<armed, ready>>
  /\ missed' = FALSE
  /\ UNCHANGED <<outCapacity, lock, client, given>>

Reactor == EpollWait \/ HandleClientData \/ HandleClientOut
Sender == Buffer \/ BufferFails

Next ==
  \/ \E m \in Messages : NetSend(m)
  \/ Sender \/ Reactor
  \/ PeerReads \/ ClientSends

Spec == Init /\ [][Next]_vars

\* Threads with something to do get to run, and the peer reads what it is
\* sent; nobody has to send.
FairSpec ==
  Spec /\ WF_vars(Sender) /\ WF_vars(Reactor) /\ WF_vars(PeerReads)

-----------------------------------------------------------------------------
(* Properties *)

Unit == Messages \X Nat

TypeOK ==
  /\ outBuf \in Seq(Unit) /\ rest \in Seq(Unit) /\ wire \in Seq(Unit)
  /\ outCapacity \in Nat /\ Len(outBuf) <= outCapacity
  /\ outReadPos \in 0 .. Len(outBuf)
  /\ sender \in Messages \cup {NoMessage}
  /\ armed \in BOOLEAN /\ ready \in BOOLEAN /\ nospace \in BOOLEAN
  /\ input \in BOOLEAN /\ missed \in BOOLEAN
  /\ report \in SUBSET {"in", "out"}
  /\ inflight \in 0 .. SndBuf
  /\ arrived \in 0 .. MaxInput
  /\ given \in SUBSET Messages

(***************************************************************************)
(* The mask follows the buffer through any mix of net_send's appending,    *)
(* compacting and failing and handle_client_out's draining: EPOLLOUT is    *)
(* asked for exactly while something waits (else the reactor would spin,   *)
(* or the rest would never go out), and a drained buffer is empty and its  *)
(* read position back at the start, on which net_send's compaction relies. *)
(***************************************************************************)
MaskFollowsBuffer ==
  IF armed THEN outReadPos < Len(outBuf) ELSE outBuf = <<>> /\ outReadPos = 0

(***************************************************************************)
(* No wake-up for the rest of a message is lost between the short write    *)
(* and the epoll_ctl that asks for EPOLLOUT, nor between two drains: what  *)
(* waits has an edge to come, an event on the ready list or one being      *)
(* dispatched, except when the dispatcher passed EPOLLOUT over.            *)
(***************************************************************************)
OutputCovered ==
  Pending # <<>> /\ ~missed => nospace \/ ready \/ "out" \in report

\* What a net_send has in hand counts as waiting.
Stream == INSTANCE ByteStream WITH
            line <- Pending \o rest, sending <- sender, Bytes <- Units

(***************************************************************************)
(* The bytes of every message reach the wire in one piece and in order,    *)
(* whatever is sent directly, buffered, compacted or drained later.        *)
(***************************************************************************)
ImplementsByteStream == Stream!Spec

(***************************************************************************)
(* What waits in the buffer gets sent, unless the dispatcher passes an     *)
(* EPOLLOUT over.                                                          *)
(***************************************************************************)
SentOrMissed == Pending # <<>> ~> (Pending = <<>> \/ missed)

(***************************************************************************)
(* "Enable EPOLLOUT to send the rest later" (net_epoll.c, net_send): the   *)
(* rest is sent.  A request of the client that arrives with the EPOLLOUT   *)
(* refutes it: the dispatcher reads and never writes.                      *)
(***************************************************************************)
RestSentLater == Pending # <<>> ~> Pending = <<>>
=============================================================================
