--------------------------- MODULE OutputPathProof ---------------------------
(***************************************************************************)
(* Proofs about OutputPath, for any messages and any sizes of the buffers: *)
(* the buffer's positions stay inside it and it inside its allocation      *)
(* (TypeOK), the epoll mask follows it (MaskFollowsBuffer), what waits has *)
(* a wake-up on its way (OutputCovered), and the whole implements the      *)
(* stream of ByteStream.                                                   *)
(***************************************************************************)
EXTENDS OutputPath, SequenceTheorems, TLAPS

(***************************************************************************)
(* What a net_send that holds the lock has in hand is never nothing.       *)
(***************************************************************************)
InHand == IF sender = NoMessage THEN rest = <<>> ELSE Len(rest) > 0

IInv == TypeOK /\ MaskFollowsBuffer /\ InHand

-----------------------------------------------------------------------------
(* What stands after the first r elements, once more is appended.          *)
LEMMA SuffixConcat ==
  ASSUME NEW S, NEW s \in Seq(S), NEW t \in Seq(S), NEW r \in 0 .. Len(s)
  PROVE  SubSeq(s \o t, r + 1, Len(s \o t)) = SubSeq(s, r + 1, Len(s)) \o t
<1>1. /\ Len(s) \in Nat /\ Len(t) \in Nat
      /\ s \o t \in Seq(S) /\ Len(s \o t) = Len(s) + Len(t)
      /\ \A i \in 1 .. Len(s) + Len(t) :
           (s \o t)[i] = IF i <= Len(s) THEN s[i] ELSE t[i - Len(s)]
  OBVIOUS
<1> DEFINE u == SubSeq(s, r + 1, Len(s))
           w == s \o t
<1>2. /\ u \in Seq(S) /\ Len(u) = Len(s) - r
      /\ \A i \in 1 .. Len(s) - r : u[i] = s[r + i]
  BY <1>1
<1> HIDE DEF u, w
<1>3. /\ w \in Seq(S) /\ Len(w) = Len(s) + Len(t)
      /\ \A i \in 1 .. Len(s) + Len(t) :
           w[i] = IF i <= Len(s) THEN s[i] ELSE t[i - Len(s)]
  BY <1>1 DEF w
<1>4. /\ SubSeq(w, r + 1, Len(w)) \in Seq(S)
      /\ Len(SubSeq(w, r + 1, Len(w))) = Len(s) - r + Len(t)
      /\ \A i \in 1 .. Len(s) - r + Len(t) : SubSeq(w, r + 1, Len(w))[i] = w[r + i]
  BY <1>1, <1>3
<1>5. /\ u \o t \in Seq(S) /\ Len(u \o t) = Len(s) - r + Len(t)
      /\ \A i \in 1 .. Len(s) - r + Len(t) :
           (u \o t)[i] = IF i <= Len(s) - r THEN u[i] ELSE t[i - (Len(s) - r)]
  <2>1. /\ u \o t \in Seq(S) /\ Len(u \o t) = Len(u) + Len(t)
        /\ \A i \in 1 .. Len(u) + Len(t) :
             (u \o t)[i] = IF i <= Len(u) THEN u[i] ELSE t[i - Len(u)]
    <3>1. u \in Seq(S)
      BY <1>2
    <3> QED
      BY <3>1, ConcatProperties
  <2> QED
    BY <2>1, <1>2
<1>6. \A i \in 1 .. Len(s) - r + Len(t) : SubSeq(w, r + 1, Len(w))[i] = (u \o t)[i]
  <2> SUFFICES ASSUME NEW i \in 1 .. Len(s) - r + Len(t)
               PROVE  SubSeq(w, r + 1, Len(w))[i] = (u \o t)[i]
    OBVIOUS
  <2>1. CASE i <= Len(s) - r
    BY <2>1, <1>1, <1>2, <1>3, <1>4, <1>5
  <2>2. CASE ~(i <= Len(s) - r)
    <3>1. r + i \in 1 .. Len(s) + Len(t) /\ ~(r + i <= Len(s))
      BY <2>2, <1>1
    <3>2. w[r + i] = t[r + i - Len(s)]
      BY <3>1, <1>3
    <3>3. (u \o t)[i] = t[i - (Len(s) - r)]
      BY <2>2, <1>5
    <3>4. r + i - Len(s) = i - (Len(s) - r)
      BY <1>1
    <3> QED
      BY <3>2, <3>3, <3>4, <1>4
  <2> QED
    BY <2>1, <2>2
<1>7. SubSeq(w, r + 1, Len(w)) = u \o t
  BY <1>4, <1>5, <1>6, SeqEqual
<1> QED
  BY <1>7 DEF u, w

(* A suffix of a suffix.                                                   *)
LEMMA SuffixSuffix ==
  ASSUME NEW S, NEW s \in Seq(S), NEW r \in 0 .. Len(s), NEW n \in 0 .. Len(s) - r
  PROVE  SubSeq(SubSeq(s, r + 1, Len(s)), n + 1, Len(s) - r)
           = SubSeq(s, r + n + 1, Len(s))
<1>1. Len(s) \in Nat
  OBVIOUS
<1> DEFINE u == SubSeq(s, r + 1, Len(s))
<1>2. u \in Seq(S) /\ Len(u) = Len(s) - r
      /\ \A i \in 1 .. Len(s) - r : u[i] = s[r + i]
  BY <1>1
<1> HIDE DEF u
<1>3. SubSeq(u, n + 1, Len(s) - r) \in Seq(S)
     /\ Len(SubSeq(u, n + 1, Len(s) - r)) = Len(s) - r - n
     /\ \A i \in 1 .. Len(s) - r - n : SubSeq(u, n + 1, Len(s) - r)[i] = u[n + i]
  BY <1>1, <1>2
<1>4. SubSeq(s, r + n + 1, Len(s)) \in Seq(S)
     /\ Len(SubSeq(s, r + n + 1, Len(s))) = Len(s) - r - n
     /\ \A i \in 1 .. Len(s) - r - n : SubSeq(s, r + n + 1, Len(s))[i] = s[r + n + i]
  BY <1>1
<1>5. ASSUME NEW i \in 1 .. Len(s) - r - n
      PROVE  u[n + i] = s[r + n + i]
  <2>1. n + i \in 1 .. Len(s) - r /\ r + (n + i) = r + n + i
    BY <1>1
  <2>2. u[n + i] = s[r + (n + i)]
    BY <2>1, <1>2
  <2> QED
    BY <2>1, <2>2
<1>6. SubSeq(u, n + 1, Len(s) - r) = SubSeq(s, r + n + 1, Len(s))
  BY <1>1, <1>3, <1>4, <1>5, SeqEqual
<1> QED
  BY <1>6 DEF u
(* The units of a message are a sequence as long as the message.           *)
LEMMA UnitsSeq ==
  ASSUME NEW m \in Messages
  PROVE  /\ Units(m) \in Seq(Unit)
         /\ Len(Units(m)) = Length[m]
         /\ Length[m] \in Nat \ {0}
<1>1. Length[m] \in Nat \ {0}
  BY MessagesAssumption
<1>2. \A i \in 1 .. Length[m] : <<m, i>> \in Unit
  BY <1>1 DEF Unit
<1>3. Units(m) \in [1 .. Length[m] -> Unit]
  BY <1>2 DEF Units
<1> QED
  BY <1>1, <1>3

(* A part of a sequence is a sequence of its elements.                     *)
LEMMA PartSeq ==
  ASSUME NEW S, NEW s \in Seq(S), NEW a \in Nat, NEW b \in Nat,
         1 <= a, b <= Len(s)
  PROVE  /\ SubSeq(s, a, b) \in Seq(S)
         /\ Len(SubSeq(s, a, b)) = IF a <= b THEN b - a + 1 ELSE 0
<1>1. Len(s) \in Nat
  OBVIOUS
<1>2. CASE a <= b
  BY <1>1, <1>2
<1>3. CASE ~(a <= b)
  BY <1>1, <1>3
<1> QED
  BY <1>2, <1>3

(* What waits: the buffer beyond the read position.                        *)
LEMMA PendingSeq ==
  ASSUME outBuf \in Seq(Unit), outReadPos \in 0 .. Len(outBuf)
  PROVE  /\ Pending \in Seq(Unit)
         /\ Len(Pending) = Len(outBuf) - outReadPos
<1>1. Len(outBuf) \in Nat /\ outReadPos + 1 \in Nat
  OBVIOUS
<1>2. /\ SubSeq(outBuf, outReadPos + 1, Len(outBuf)) \in Seq(Unit)
      /\ Len(SubSeq(outBuf, outReadPos + 1, Len(outBuf))) =
           IF outReadPos + 1 <= Len(outBuf)
           THEN Len(outBuf) - (outReadPos + 1) + 1 ELSE 0
  BY <1>1, PartSeq
<1> QED
  BY <1>1, <1>2 DEF Pending

(* A write takes between nothing and everything, and never overfills the   *)
(* socket.                                                                 *)
LEMMA FittingBounds ==
  ASSUME NEW n \in Nat, inflight \in 0 .. SndBuf
  PROVE  /\ Fitting(n) \in 0 .. n
         /\ inflight + Fitting(n) \in 0 .. SndBuf
BY SizesAssumption DEF Fitting, Room

LEMMA WriteType ==
  ASSUME NEW data \in Seq(Unit), Write(data),
         wire \in Seq(Unit), inflight \in 0 .. SndBuf, nospace \in BOOLEAN
  PROVE  wire' \in Seq(Unit) /\ inflight' \in 0 .. SndBuf /\ nospace' \in BOOLEAN
<1> DEFINE n == Fitting(Len(data))
<1>1. Len(data) \in Nat
  OBVIOUS
<1>2. n \in 0 .. Len(data) /\ inflight + n \in 0 .. SndBuf
  BY <1>1, FittingBounds
<1>3. SubSeq(data, 1, n) \in Seq(Unit)
  BY <1>1, <1>2, PartSeq
<1>4. /\ inflight' = inflight + n
      /\ wire' = wire \o SubSeq(data, 1, n)
      /\ nospace' = (nospace \/ n < Len(data))
  BY DEF Write
<1> QED
  BY <1>2, <1>3, <1>4

(* The compaction keeps what waits, and the read position inside it.       *)
LEMMA KeptSeq ==
  ASSUME TypeOK, MaskFollowsBuffer, CompactRest
  PROVE  /\ Kept \in Seq(Unit)
         /\ Len(Kept) <= Len(outBuf)
         /\ outReadPos' \in 0 .. Len(Kept)
         /\ armed => outReadPos' < Len(Kept)
         /\ ~armed => Kept = <<>> /\ outReadPos' = 0
<1>1. /\ outBuf \in Seq(Unit) /\ outReadPos \in 0 .. Len(outBuf)
      /\ outCapacity \in Nat /\ armed \in BOOLEAN
  BY DEF TypeOK
<1>2. /\ Pending \in Seq(Unit)
      /\ Len(Pending) = Len(outBuf) - outReadPos
  BY <1>1, PendingSeq
<1>3. outReadPos' = IF Compact THEN 0 ELSE outReadPos
  BY DEF CompactRest
<1>4. CASE Compact
  <2>1. outReadPos > 0
    BY <1>1, <1>4 DEF Compact
  <2>2. armed /\ outReadPos < Len(outBuf)
    BY <2>1, <1>1 DEF MaskFollowsBuffer
  <2> QED
    BY <2>2, <1>1, <1>2, <1>3, <1>4 DEF Kept
<1>5. CASE ~Compact
  BY <1>1, <1>3, <1>5 DEF Kept, MaskFollowsBuffer
<1> QED
  BY <1>4, <1>5

-----------------------------------------------------------------------------
LEMMA InitInv == Init => IInv
<1> SUFFICES ASSUME Init PROVE IInv
  OBVIOUS
<1> USE DEF Init
<1>1. TypeOK
  <2>1. <<>> \in Seq(Unit) /\ Len(<<>>) = 0
    OBVIOUS
  <2>2. inflight \in 0 .. SndBuf /\ arrived \in 0 .. MaxInput
    BY SizesAssumption, InputAssumption
  <2>3. given \in SUBSET Messages /\ report \in SUBSET {"in", "out"}
    OBVIOUS
  <2>4. outReadPos \in 0 .. Len(outBuf) /\ Len(outBuf) <= outCapacity
    BY <2>1
  <2> QED
    BY <2>1, <2>2, <2>3, <2>4 DEF TypeOK
<1>2. MaskFollowsBuffer /\ InHand
  BY DEF MaskFollowsBuffer, InHand
<1> QED
  BY <1>1, <1>2 DEF IInv

LEMMA NetSendInv ==
  ASSUME IInv, NEW m \in Messages, NetSend(m)
  PROVE  IInv'
<1>1. TypeOK /\ MaskFollowsBuffer /\ InHand
  BY DEF IInv
<1>2. /\ Units(m) \in Seq(Unit) /\ Len(Units(m)) = Length[m]
      /\ Length[m] \in Nat \ {0}
  BY UnitsSeq
<1>3. rest' \in Seq(Unit) /\ sender' = IF rest' = <<>> THEN NoMessage ELSE m
  <2>1. sender' = IF rest' = <<>> THEN NoMessage ELSE m
    BY DEF NetSend
  <2>2. CASE Pending = <<>>
    <3>1. rest' = SubSeq(Units(m), Fitting(Length[m]) + 1, Length[m])
      BY <2>2 DEF NetSend
    <3>2. Fitting(Length[m]) \in 0 .. Length[m]
      BY <1>1, <1>2, FittingBounds DEF TypeOK
    <3>3. Fitting(Length[m]) + 1 \in Nat /\ 1 <= Fitting(Length[m]) + 1
      BY <1>2, <3>2
    <3> QED
      BY <2>1, <3>1, <3>3, <1>2, PartSeq
  <2>3. CASE Pending # <<>>
    BY <2>1, <2>3, <1>2 DEF NetSend
  <2> QED
    BY <2>2, <2>3
<1>4. wire' \in Seq(Unit) /\ inflight' \in 0 .. SndBuf /\ nospace' \in BOOLEAN
  <2>1. wire \in Seq(Unit) /\ inflight \in 0 .. SndBuf /\ nospace \in BOOLEAN
    BY <1>1 DEF TypeOK
  <2>2. CASE Pending = <<>>
    <3>1. Write(Units(m))
      BY <2>2 DEF NetSend
    <3> QED
      BY <2>1, <3>1, <1>2, WriteType
  <2>3. CASE Pending # <<>>
    BY <2>1, <2>3 DEF NetSend, socket
  <2> QED
    BY <2>2, <2>3
<1>5. /\ UNCHANGED <<outBuf, outReadPos, outCapacity, armed, ready, report>>
      /\ UNCHANGED <<input, arrived, missed>>
      /\ given' = given \cup {m}
  BY DEF NetSend, buffer, item, client
<1>6. TypeOK'
  BY <1>1, <1>3, <1>4, <1>5 DEF TypeOK
<1>7. MaskFollowsBuffer'
  BY <1>1, <1>5 DEF MaskFollowsBuffer
<1>8. InHand'
  <2>1. m # NoMessage
    BY MessagesAssumption
  <2>2. rest' # <<>> => Len(rest') > 0
    BY <1>3
  <2> QED
    BY <2>1, <2>2, <1>3 DEF InHand
<1> QED
  BY <1>6, <1>7, <1>8 DEF IInv

LEMMA BufferInv ==
  ASSUME IInv, Buffer
  PROVE  IInv'
<1>1. TypeOK /\ MaskFollowsBuffer /\ InHand
  BY DEF IInv
<1>2. CompactRest /\ outBuf' = Kept \o rest /\ sender # NoMessage
  BY DEF Buffer
<1>3. /\ Kept \in Seq(Unit) /\ outReadPos' \in 0 .. Len(Kept)
      /\ Len(Kept) <= Len(outBuf)
  BY <1>1, <1>2, KeptSeq
<1>4. rest \in Seq(Unit) /\ Len(rest) > 0
  BY <1>1, <1>2 DEF TypeOK, InHand
<1>5. outBuf' \in Seq(Unit) /\ Len(outBuf') = Needed /\ Needed \in Nat
      /\ outReadPos' \in 0 .. Len(outBuf') /\ outReadPos' < Len(outBuf')
  BY <1>2, <1>3, <1>4 DEF Needed
<1>6. outCapacity' \in Nat /\ Len(outBuf') <= outCapacity'
  <2>1. outCapacity \in Nat
    BY <1>1 DEF TypeOK
  <2>2. CASE Needed > outCapacity
    <3> DEFINE start == IF outCapacity = 0 THEN InitialCap ELSE 2 * outCapacity
    <3>1. start \in Nat
      BY <2>1, SizesAssumption
    <3>2. outCapacity' \in start .. start + 2 * Needed /\ outCapacity' >= Needed
      BY <2>2 DEF Buffer, Grown
    <3> QED
      BY <3>1, <3>2, <1>5
  <2>3. CASE ~(Needed > outCapacity)
    <3>1. outCapacity' = outCapacity
      BY <2>3 DEF Buffer
    <3> QED
      BY <3>1, <2>1, <2>3, <1>5
  <2> QED
    BY <2>2, <2>3
<1>7. sender' = NoMessage /\ rest' = <<>>
  BY <1>2 DEF CompactRest
<1>8. armed' = TRUE /\ ready' = (ready \/ input \/ (TRUE /\ Room > 0))
  BY DEF Buffer, Modify
<1>9. /\ missed' = FALSE
      /\ UNCHANGED <<report, inflight, nospace, wire, input, arrived, given>>
  BY DEF Buffer, socket, client
<1>10. TypeOK'
  <2>1. ready' \in BOOLEAN
    BY <1>8
  <2>2. <<>> \in Seq(Unit)
    OBVIOUS
  <2>3. /\ wire' \in Seq(Unit) /\ inflight' \in 0 .. SndBuf
        /\ arrived' \in 0 .. MaxInput /\ given' \in SUBSET Messages
        /\ report' \in SUBSET {"in", "out"}
        /\ nospace' \in BOOLEAN /\ input' \in BOOLEAN
    BY <1>1, <1>9 DEF TypeOK
  <2> QED
    BY <2>1, <2>2, <2>3, <1>5, <1>6, <1>7, <1>8, <1>9 DEF TypeOK
<1>11. MaskFollowsBuffer'
  BY <1>5, <1>8 DEF MaskFollowsBuffer
<1>12. InHand'
  BY <1>7 DEF InHand
<1> QED
  BY <1>10, <1>11, <1>12 DEF IInv

LEMMA BufferFailsInv ==
  ASSUME IInv, BufferFails
  PROVE  IInv'
<1>1. TypeOK /\ MaskFollowsBuffer
  BY DEF IInv
<1>2. CompactRest /\ outBuf' = Kept
  BY DEF BufferFails
<1>3. /\ Kept \in Seq(Unit) /\ outReadPos' \in 0 .. Len(Kept)
      /\ Len(Kept) <= Len(outBuf)
      /\ armed => outReadPos' < Len(Kept)
      /\ ~armed => Kept = <<>> /\ outReadPos' = 0
  BY <1>1, <1>2, KeptSeq
<1>4. sender' = NoMessage /\ rest' = <<>>
  BY <1>2 DEF CompactRest
<1>5. /\ UNCHANGED <<outCapacity, armed, ready, report, inflight, nospace>>
      /\ UNCHANGED <<wire, input, arrived, given, missed>>
  BY DEF BufferFails, item, socket, client
<1>6. Len(Kept) <= outCapacity
  <2>1. Len(outBuf) \in Nat /\ Len(outBuf) <= outCapacity /\ outCapacity \in Nat
    BY <1>1 DEF TypeOK
  <2> QED
    BY <2>1, <1>3
<1>7. TypeOK'
  BY <1>1, <1>2, <1>3, <1>4, <1>5, <1>6 DEF TypeOK
<1>8. MaskFollowsBuffer'
  BY <1>2, <1>3, <1>5 DEF MaskFollowsBuffer
<1>9. InHand'
  BY <1>4 DEF InHand
<1> QED
  BY <1>7, <1>8, <1>9 DEF IInv

LEMMA HandleClientOutInv ==
  ASSUME IInv, HandleClientOut
  PROVE  IInv'
<1>1. TypeOK /\ MaskFollowsBuffer /\ InHand
  BY DEF IInv
<1>2. /\ outBuf \in Seq(Unit) /\ outReadPos \in 0 .. Len(outBuf)
      /\ Len(outBuf) \in Nat /\ outCapacity \in Nat /\ Len(outBuf) <= outCapacity
  BY <1>1 DEF TypeOK
<1>3. Pending \in Seq(Unit) /\ Len(Pending) = Len(outBuf) - outReadPos
  BY <1>2, PendingSeq
<1>4. wire' \in Seq(Unit) /\ inflight' \in 0 .. SndBuf /\ nospace' \in BOOLEAN
  <2>1. Write(Pending)
    BY DEF HandleClientOut
  <2> QED
    BY <2>1, <1>1, <1>3, WriteType DEF TypeOK
<1>5. /\ outBuf' \in Seq(Unit) /\ outReadPos' \in 0 .. Len(outBuf')
      /\ Len(outBuf') <= outCapacity
      /\ MaskFollowsBuffer'
      /\ armed' \in BOOLEAN /\ ready' \in BOOLEAN
  <2> DEFINE n == Fitting(Len(Pending))
  <2>1. n \in 0 .. Len(Pending)
    <3>1. Len(Pending) \in Nat /\ inflight \in 0 .. SndBuf
      BY <1>1, <1>2, <1>3 DEF TypeOK
    <3> QED
      BY <3>1, FittingBounds
  <2>2. DrainBuffer /\ IF Finished THEN Modify(FALSE) ELSE UNCHANGED <<armed, ready>>
    BY DEF HandleClientOut
  <2>3. CASE n = Len(Pending)
    <3>1. outBuf' = <<>> /\ outReadPos' = 0
      BY <2>2, <2>3 DEF DrainBuffer
    <3>2. armed' = FALSE /\ ready' \in BOOLEAN
      BY <2>2, <3>1 DEF Finished, Modify
    <3>3. <<>> \in Seq(Unit) /\ Len(<<>>) = 0
      OBVIOUS
    <3>4. outBuf' \in Seq(Unit) /\ outReadPos' \in 0 .. Len(outBuf')
      BY <3>1, <3>3
    <3>5. Len(outBuf') <= outCapacity
      BY <3>1, <3>3, <1>2
    <3>6. MaskFollowsBuffer'
      BY <3>1, <3>2 DEF MaskFollowsBuffer
    <3> QED
      BY <3>2, <3>4, <3>5, <3>6
  <2>4. CASE n # Len(Pending)
    <3>1. outReadPos' = outReadPos + n /\ outBuf' = outBuf
      BY <2>2, <2>4 DEF DrainBuffer
    <3>2. outReadPos' \in 0 .. Len(outBuf) /\ outReadPos' < Len(outBuf)
      BY <3>1, <2>1, <2>4, <1>2, <1>3
    <3>3. outBuf # <<>>
      BY <3>2, <1>2
    <3>4. armed' = armed /\ ready' = ready
      BY <2>2, <3>1, <3>3 DEF Finished
    <3>5. armed /\ ready \in BOOLEAN
      BY <3>3, <1>1 DEF MaskFollowsBuffer, TypeOK
    <3> QED
      BY <3>1, <3>2, <3>4, <3>5, <1>2 DEF MaskFollowsBuffer
  <2> QED
    BY <2>3, <2>4
<1>6. /\ report' = {} /\ missed' = FALSE
      /\ UNCHANGED <<outCapacity, sender, rest, input, arrived, given>>
  BY DEF HandleClientOut, lock, client
<1>7. TypeOK'
  BY <1>1, <1>2, <1>4, <1>5, <1>6 DEF TypeOK
<1>8. InHand'
  BY <1>1, <1>6 DEF InHand
<1> QED
  BY <1>5, <1>7, <1>8 DEF IInv

(* The other steps leave the buffer, the lock and the mask alone.          *)
LEMMA QuietInv ==
  ASSUME IInv, PeerReads \/ ClientSends \/ EpollWait \/ HandleClientData
  PROVE  IInv'
<1>1. TypeOK /\ MaskFollowsBuffer /\ InHand
  BY DEF IInv
<1>2. /\ UNCHANGED <<outBuf, outReadPos, outCapacity, sender, rest, armed>>
      /\ UNCHANGED <<wire, given>>
  BY DEF PeerReads, ClientSends, EpollWait, HandleClientData,
         buffer, lock, socket
<1>3. /\ inflight' \in 0 .. SndBuf /\ nospace' \in BOOLEAN
      /\ ready' \in BOOLEAN /\ input' \in BOOLEAN /\ missed' \in BOOLEAN
      /\ arrived' \in 0 .. MaxInput
      /\ report' \in SUBSET {"in", "out"}
  <2>1. CASE PeerReads
    <3>1. PICK n \in 0 .. inflight - 1 : inflight' = n
      BY <2>1 DEF PeerReads
    <3>2. inflight \in 0 .. SndBuf /\ SndBuf \in Nat
      BY <1>1, SizesAssumption DEF TypeOK
    <3>3. inflight' \in 0 .. SndBuf
      BY <3>1, <3>2
    <3>4. /\ nospace' = FALSE /\ ready' = (ready \/ (nospace /\ armed))
          /\ UNCHANGED <<report, input, arrived, missed>>
      BY <2>1 DEF PeerReads, client
    <3> QED
      BY <1>1, <3>3, <3>4 DEF TypeOK
  <2>2. CASE ClientSends
    BY <1>1, <2>2, InputAssumption DEF ClientSends, TypeOK, socket
  <2>3. CASE EpollWait
    BY <1>1, <2>3 DEF EpollWait, TypeOK, socket, client
  <2>4. CASE HandleClientData
    BY <1>1, <2>4 DEF HandleClientData, TypeOK, socket
  <2> QED
    BY <2>1, <2>2, <2>3, <2>4
<1>4. TypeOK'
  BY <1>1, <1>2, <1>3 DEF TypeOK
<1>5. MaskFollowsBuffer' /\ InHand'
  BY <1>1, <1>2 DEF MaskFollowsBuffer, InHand
<1> QED
  BY <1>4, <1>5 DEF IInv

LEMMA StepInv == IInv /\ [Next]_vars => IInv'
<1> SUFFICES ASSUME IInv, [Next]_vars PROVE IInv'
  OBVIOUS
<1>1. ASSUME NEW m \in Messages, NetSend(m) PROVE IInv'
  BY <1>1, NetSendInv
<1>2. CASE Sender
  BY <1>2, BufferInv, BufferFailsInv DEF Sender
<1>3. CASE HandleClientOut
  BY <1>3, HandleClientOutInv
<1>4. CASE PeerReads \/ ClientSends \/ EpollWait \/ HandleClientData
  BY <1>4, QuietInv
<1>5. CASE UNCHANGED vars
  BY <1>5 DEF IInv, TypeOK, MaskFollowsBuffer, InHand,
              vars, buffer, lock, item, socket, client
<1> QED
  BY <1>1, <1>2, <1>3, <1>4, <1>5 DEF Next, Reactor

LEMMA InvCorrect == Spec => []IInv
<1> QED
  BY InitInv, StepInv, PTL DEF Spec

(***************************************************************************)
(* out_read_pos never passes out_length nor out_length out_capacity, for   *)
(* messages and buffers of any size (net_send, handle_client_out).         *)
(***************************************************************************)
THEOREM TypeCorrect == Spec => []TypeOK
<1>1. IInv => TypeOK
  BY DEF IInv
<1> QED
  BY <1>1, InvCorrect, PTL

(***************************************************************************)
(* EPOLLOUT is in the mask exactly while something waits, and a buffer     *)
(* that has been drained is empty with its read position at the start.     *)
(***************************************************************************)
THEOREM MaskCorrect == Spec => []MaskFollowsBuffer
<1>1. IInv => MaskFollowsBuffer
  BY DEF IInv
<1> QED
  BY <1>1, InvCorrect, PTL
-----------------------------------------------------------------------------
(* The wake-up of what waits                                               *)

(***************************************************************************)
(* A net_send that found the buffer empty and could not write everything   *)
(* has filled the socket: until the peer makes room the write counts as    *)
(* short, so that the epoll_ctl of Buffer either sees room or has an edge  *)
(* to come.                                                                *)
(***************************************************************************)
RoomComes == armed \/ sender # NoMessage => nospace \/ Room > 0

\* OutputCovered, with the mask in the place of the buffer it follows.
ArmedCovered == armed /\ ~missed => nospace \/ ready \/ "out" \in report

WakeInv == RoomComes /\ ArmedCovered

(* What waits is what the mask says: the buffer beyond the read position.  *)
LEMMA WaitingArmed ==
  ASSUME TypeOK, MaskFollowsBuffer
  PROVE  Pending # <<>> <=> armed
<1>1. outBuf \in Seq(Unit) /\ outReadPos \in 0 .. Len(outBuf) /\ armed \in BOOLEAN
  BY DEF TypeOK
<1>2. Pending \in Seq(Unit) /\ Len(Pending) = Len(outBuf) - outReadPos
  BY <1>1, PendingSeq
<1>3. CASE armed
  <2>1. Len(Pending) > 0
    BY <1>1, <1>2, <1>3 DEF MaskFollowsBuffer
  <2> QED
    BY <1>2, <1>3, <2>1
<1>4. CASE ~armed
  <2>1. outBuf = <<>> /\ outReadPos = 0
    BY <1>4 DEF MaskFollowsBuffer
  <2>2. Len(Pending) = 0
    BY <1>2, <2>1
  <2> QED
    BY <1>2, <1>4, <2>2
<1> QED
  BY <1>1, <1>3, <1>4

LEMMA NetSendWake ==
  ASSUME IInv, WakeInv, NEW m \in Messages, NetSend(m)
  PROVE  WakeInv'
<1>1. TypeOK /\ MaskFollowsBuffer /\ RoomComes /\ ArmedCovered
  BY DEF IInv, WakeInv
<1>2. UNCHANGED <<armed, ready, report, missed>>
  BY DEF NetSend, item
<1>3. sender' = IF rest' = <<>> THEN NoMessage ELSE m
  BY DEF NetSend
<1>4. CASE armed
  <2>1. UNCHANGED <<inflight, nospace>>
    BY <1>4, <1>1, WaitingArmed DEF NetSend, socket
  <2> QED
    BY <1>1, <1>2, <1>4, <2>1 DEF WakeInv, RoomComes, ArmedCovered, Room
<1>5. CASE ~armed
  <2> DEFINE n == Fitting(Length[m])
  <2>1. /\ Units(m) \in Seq(Unit) /\ Len(Units(m)) = Length[m]
        /\ Length[m] \in Nat \ {0}
    BY UnitsSeq
  <2>2. /\ nospace' = (nospace \/ n < Length[m])
        /\ rest' = SubSeq(Units(m), n + 1, Length[m])
    BY <1>5, <1>1, <2>1, WaitingArmed DEF NetSend, Write
  <2>3. n \in 0 .. Length[m]
    BY <1>1, <2>1, FittingBounds DEF TypeOK
  <2>4. sender' # NoMessage => nospace'
    <3>1. CASE n < Length[m]
      BY <3>1, <2>2
    <3>2. CASE ~(n < Length[m])
      <4>1. n = Length[m]
        BY <3>2, <2>1, <2>3
      <4>2. rest' \in Seq(Unit) /\ Len(rest') = 0
        BY <4>1, <2>1, <2>2, PartSeq
      <4> QED
        BY <4>2, <1>3
    <3> QED
      BY <3>1, <3>2
  <2> QED
    BY <1>1, <1>2, <1>5, <2>4 DEF WakeInv, RoomComes, ArmedCovered
<1> QED
  BY <1>4, <1>5

LEMMA SenderWake ==
  ASSUME IInv, WakeInv, Sender
  PROVE  WakeInv'
<1>1. RoomComes /\ ArmedCovered
  BY DEF WakeInv
<1>2. CASE Buffer
  <2>1. /\ sender # NoMessage /\ armed' = TRUE
        /\ ready' = (ready \/ input \/ (TRUE /\ Room > 0))
        /\ UNCHANGED <<inflight, nospace>>
    BY <1>2 DEF Buffer, Modify, socket
  <2> QED
    BY <1>1, <2>1 DEF WakeInv, RoomComes, ArmedCovered, Room
<1>3. CASE BufferFails
  <2>1. /\ sender # NoMessage
        /\ UNCHANGED <<armed, ready, report, inflight, nospace, missed>>
    BY <1>3 DEF BufferFails, item, socket
  <2> QED
    BY <1>1, <2>1 DEF WakeInv, RoomComes, ArmedCovered, Room
<1> QED
  BY <1>2, <1>3 DEF Sender

LEMMA HandleClientOutWake ==
  ASSUME IInv, HandleClientOut
  PROVE  WakeInv'
<1> DEFINE n == Fitting(Len(Pending))
<1>1. outBuf \in Seq(Unit) /\ outReadPos \in 0 .. Len(outBuf)
      /\ inflight \in 0 .. SndBuf
  BY DEF IInv, TypeOK
<1>2. n \in 0 .. Len(Pending) /\ Len(Pending) \in Nat
  <2>1. Pending \in Seq(Unit)
    BY <1>1, PendingSeq
  <2>2. Len(Pending) \in Nat
    BY <2>1
  <2> QED
    BY <2>2, <1>1, FittingBounds
<1>3. sender' = NoMessage /\ nospace' = (nospace \/ n < Len(Pending))
  BY DEF HandleClientOut, lock, Write
<1>4. CASE n = Len(Pending)
  <2>1. armed' = FALSE
    BY <1>4 DEF HandleClientOut, DrainBuffer, Finished, Modify
  <2> QED
    BY <1>3, <2>1 DEF WakeInv, RoomComes, ArmedCovered
<1>5. CASE n # Len(Pending)
  <2>1. n < Len(Pending)
    BY <1>2, <1>5
  <2>2. nospace'
    BY <2>1, <1>3, Zenon
  <2> QED
    BY <2>2, Zenon DEF WakeInv, RoomComes, ArmedCovered
<1> QED
  BY <1>4, <1>5

LEMMA QuietWake ==
  ASSUME IInv, WakeInv, PeerReads \/ ClientSends \/ EpollWait \/ HandleClientData
  PROVE  WakeInv'
<1>1. TypeOK /\ MaskFollowsBuffer /\ RoomComes /\ ArmedCovered
  BY DEF IInv, WakeInv
<1>2. CASE PeerReads
  <2>1. PICK n \in 0 .. inflight - 1 : inflight' = n
    BY <1>2 DEF PeerReads
  <2>2. inflight \in 0 .. SndBuf /\ SndBuf \in Nat
    BY <1>1, SizesAssumption DEF TypeOK
  <2>3. SndBuf - inflight' > 0
    BY <2>1, <2>2
  <2>4. /\ ready' = (ready \/ (nospace /\ armed))
        /\ UNCHANGED <<armed, report, missed>>
    BY <1>2 DEF PeerReads
  <2> QED
    BY <1>1, <2>3, <2>4 DEF WakeInv, RoomComes, ArmedCovered, Room
<1>3. CASE ClientSends
  BY <1>1, <1>3 DEF ClientSends, WakeInv, RoomComes, ArmedCovered, Room,
                    buffer, lock, socket
<1>4. CASE EpollWait
  <2>1. /\ armed /\ Room > 0 => "out" \in report'
        /\ UNCHANGED <<armed, sender, inflight, nospace, missed>>
    BY <1>4 DEF EpollWait, lock, socket
  <2> QED
    BY <1>1, <2>1 DEF WakeInv, RoomComes, ArmedCovered, Room
<1>5. CASE HandleClientData
  <2>1. /\ missed' = (missed \/ ("out" \in report /\ Pending # <<>>))
        /\ UNCHANGED <<armed, ready, sender, inflight, nospace>>
    BY <1>5 DEF HandleClientData, lock, socket
  <2>2. armed => Pending # <<>>
    BY <1>1, WaitingArmed
  <2> QED
    BY <1>1, <2>1, <2>2 DEF WakeInv, RoomComes, ArmedCovered, Room
<1> QED
  BY <1>2, <1>3, <1>4, <1>5

LEMMA StepWake == IInv /\ WakeInv /\ [Next]_vars => WakeInv'
<1> SUFFICES ASSUME IInv, WakeInv, [Next]_vars PROVE WakeInv'
  OBVIOUS
<1>1. ASSUME NEW m \in Messages, NetSend(m) PROVE WakeInv'
  BY <1>1, NetSendWake
<1>2. CASE Sender
  BY <1>2, SenderWake
<1>3. CASE HandleClientOut
  BY <1>3, HandleClientOutWake
<1>4. CASE PeerReads \/ ClientSends \/ EpollWait \/ HandleClientData
  BY <1>4, QuietWake
<1>5. CASE UNCHANGED vars
  BY <1>5 DEF WakeInv, RoomComes, ArmedCovered, Room, vars, lock, item, socket
<1> QED
  BY <1>1, <1>2, <1>3, <1>4, <1>5 DEF Next, Reactor

(***************************************************************************)
(* Whatever waits in the buffer of a connection has an edge to come, an    *)
(* event on the ready list or one being dispatched, unless the dispatcher  *)
(* passed EPOLLOUT over, for messages and sockets of any size (net_send's  *)
(* epoll_ctl after a short write, handle_client_out).                      *)
(***************************************************************************)
THEOREM OutputCoveredCorrect == Spec => []OutputCovered
<1>1. Init => WakeInv
  BY DEF Init, WakeInv, RoomComes, ArmedCovered
<1>2. IInv /\ WakeInv => OutputCovered
  BY WaitingArmed DEF IInv, WakeInv, ArmedCovered, OutputCovered
<1> QED
  BY <1>1, <1>2, InvCorrect, StepWake, PTL DEF Spec

-----------------------------------------------------------------------------
(* The refinement of ByteStream                                            *)

(***************************************************************************)
(* What a net_send has in hand is the end of its message: that, and never  *)
(* more, is what a failing net_send takes back.                            *)
(***************************************************************************)
RestIsTail ==
  sender # NoMessage =>
    \E k \in 1 .. Length[sender] : rest = SubSeq(Units(sender), k, Length[sender])

StreamInv == IInv /\ RestIsTail

(* A sequence cut in two.                                                  *)
LEMMA CutConcat ==
  ASSUME NEW S, NEW s \in Seq(S), NEW n \in 0 .. Len(s)
  PROVE  /\ SubSeq(s, 1, n) \in Seq(S) /\ SubSeq(s, n + 1, Len(s)) \in Seq(S)
         /\ SubSeq(s, 1, n) \o SubSeq(s, n + 1, Len(s)) = s
<1>1. Len(s) \in Nat
  OBVIOUS
<1>2. /\ 1 \in 1 .. Len(s) + 1 /\ n \in 1 - 1 .. Len(s)
      /\ Len(s) \in n .. Len(s)
  BY <1>1
<1>3. SubSeq(s, 1, n) \o SubSeq(s, n + 1, Len(s)) = SubSeq(s, 1, Len(s))
  BY <1>2, ConcatAdjacentSubSeq
<1>4. SubSeq(s, 1, Len(s)) = s
  BY SubSeqFull
<1>5. SubSeq(s, 1, n) \in Seq(S) /\ SubSeq(s, n + 1, Len(s)) \in Seq(S)
  BY <1>1, PartSeq
<1> QED
  BY <1>3, <1>4, <1>5

(* Three parts of the stream, and how long two of them are.                *)
LEMMA UnitsConcat ==
  ASSUME NEW s \in Seq(Unit), NEW t \in Seq(Unit), NEW u \in Seq(Unit)
  PROVE  /\ s \o (t \o u) = (s \o t) \o u
         /\ Len(s \o t) >= Len(s)
<1>1. (s \o t) \o u = s \o (t \o u)
  BY ConcatAssociative
<1>2. Len(s \o t) >= Len(s)
  OBVIOUS
<1> QED
  BY <1>1, <1>2

(* A concatenation cut where its parts meet.                               *)
LEMMA ConcatCut ==
  ASSUME NEW S, NEW s \in Seq(S), NEW t \in Seq(S)
  PROVE  /\ SubSeq(s \o t, 1, Len(s)) = s
         /\ SubSeq(s \o t, Len(s) + 1, Len(s \o t)) = t
<1>1. Len(s) \in Nat /\ Len(s) \in 0 .. Len(s)
  OBVIOUS
<1>2. SubSeq(s \o t, Len(s) + 1, Len(s \o t)) = t
  <2>1. SubSeq(s \o t, Len(s) + 1, Len(s \o t)) = SubSeq(s, Len(s) + 1, Len(s)) \o t
    BY <1>1, SuffixConcat
  <2>2. SubSeq(s, Len(s) + 1, Len(s)) = <<>>
    BY <1>1, SubSeqEmpty
  <2> QED
    BY <2>1, <2>2, ConcatEmptySeq
<1>3. SubSeq(s \o t, 1, Len(s)) = s
  <2> DEFINE w == s \o t
  <2>1. /\ w \in Seq(S) /\ Len(w) = Len(s) + Len(t)
        /\ \A i \in 1 .. Len(s) + Len(t) :
             w[i] = IF i <= Len(s) THEN s[i] ELSE t[i - Len(s)]
    BY ConcatProperties
  <2> HIDE DEF w
  <2>2. Len(t) \in Nat
    OBVIOUS
  <2>3. /\ SubSeq(w, 1, Len(s)) \in Seq(S)
        /\ Len(SubSeq(w, 1, Len(s))) = Len(s)
        /\ \A i \in 1 .. Len(s) : SubSeq(w, 1, Len(s))[i] = w[i]
    BY <1>1, <2>1, <2>2
  <2>4. \A i \in 1 .. Len(s) : SubSeq(w, 1, Len(s))[i] = s[i]
    BY <1>1, <2>1, <2>2, <2>3
  <2>5. SubSeq(w, 1, Len(s)) = s
    BY <2>3, <2>4, SeqEqual
  <2> QED
    BY <2>5 DEF w
<1> QED
  BY <1>2, <1>3

(* The compaction leaves what waits as it is.                              *)
LEMMA KeptPending ==
  ASSUME TypeOK, MaskFollowsBuffer, CompactRest
  PROVE  SubSeq(Kept, outReadPos' + 1, Len(Kept)) = Pending
<1>1. outBuf \in Seq(Unit) /\ outReadPos \in 0 .. Len(outBuf)
  BY DEF TypeOK
<1>2. Pending \in Seq(Unit)
  BY <1>1, PendingSeq
<1>3. CASE Compact
  <2>1. Kept = Pending /\ outReadPos' = 0
    BY <1>3 DEF Kept, CompactRest
  <2> QED
    BY <2>1, <1>2, SubSeqFull
<1>4. CASE ~Compact
  BY <1>4 DEF Kept, CompactRest, Pending
<1> QED
  BY <1>3, <1>4

LEMMA PendingBuffered ==
  ASSUME TypeOK, MaskFollowsBuffer, Buffer
  PROVE  Pending' = Pending \o rest
<1>1. CompactRest /\ outBuf' = Kept \o rest
  BY DEF Buffer
<1>2. Kept \in Seq(Unit) /\ outReadPos' \in 0 .. Len(Kept) /\ rest \in Seq(Unit)
  BY <1>1, KeptSeq DEF TypeOK
<1>3. SubSeq(Kept \o rest, outReadPos' + 1, Len(Kept \o rest)) =
        SubSeq(Kept, outReadPos' + 1, Len(Kept)) \o rest
  BY <1>2, SuffixConcat
<1> QED
  BY <1>1, <1>3, KeptPending DEF Pending

LEMMA PendingDrained ==
  ASSUME TypeOK, HandleClientOut
  PROVE  Pending' = SubSeq(Pending, Fitting(Len(Pending)) + 1, Len(Pending))
<1> DEFINE n == Fitting(Len(Pending))
<1>1. /\ outBuf \in Seq(Unit) /\ outReadPos \in 0 .. Len(outBuf)
      /\ inflight \in 0 .. SndBuf /\ Len(outBuf) \in Nat
  BY DEF TypeOK
<1>2. Pending \in Seq(Unit) /\ Len(Pending) = Len(outBuf) - outReadPos
  BY <1>1, PendingSeq
<1>3. n \in 0 .. Len(Pending) /\ Len(Pending) \in Nat
  <2>1. Len(Pending) \in Nat
    BY <1>2
  <2> QED
    BY <2>1, <1>1, FittingBounds
<1>4. CASE n = Len(Pending)
  <2>1. outBuf' = <<>> /\ outReadPos' = 0
    BY <1>4 DEF HandleClientOut, DrainBuffer
  <2>2. Pending' = <<>>
    BY <2>1, SubSeqEmpty DEF Pending
  <2>3. SubSeq(Pending, n + 1, Len(Pending)) = <<>>
    BY <1>3, <1>4, SubSeqEmpty
  <2> QED
    BY <2>2, <2>3
<1>5. CASE n # Len(Pending)
  <2>1. outReadPos' = outReadPos + n /\ outBuf' = outBuf
    BY <1>5 DEF HandleClientOut, DrainBuffer
  <2>2. SubSeq(SubSeq(outBuf, outReadPos + 1, Len(outBuf)), n + 1,
               Len(outBuf) - outReadPos) =
          SubSeq(outBuf, outReadPos + n + 1, Len(outBuf))
    <3>1. n \in 0 .. Len(outBuf) - outReadPos
      BY <1>2, <1>3
    <3> HIDE DEF n
    <3> QED
      BY <1>1, <3>1, SuffixSuffix
  <2> QED
    BY <2>1, <2>2, <1>2 DEF Pending
<1> QED
  BY <1>4, <1>5

LEMMA InitTail == Init => RestIsTail
BY DEF Init, RestIsTail

LEMMA StepTail == IInv /\ RestIsTail /\ [Next]_vars => RestIsTail'
<1> SUFFICES ASSUME IInv, RestIsTail, [Next]_vars PROVE RestIsTail'
  OBVIOUS
<1>1. ASSUME NEW m \in Messages, NetSend(m) PROVE RestIsTail'
  <2> DEFINE n == Fitting(Length[m])
  <2>1. /\ Units(m) \in Seq(Unit) /\ Len(Units(m)) = Length[m]
        /\ Length[m] \in Nat \ {0}
    BY UnitsSeq
  <2>2. sender' = IF rest' = <<>> THEN NoMessage ELSE m
    BY <1>1 DEF NetSend
  <2>3. CASE Pending = <<>>
    <3>1. rest' = SubSeq(Units(m), n + 1, Length[m])
      BY <1>1, <2>3 DEF NetSend
    <3>2. n \in 0 .. Length[m]
      BY <2>1, FittingBounds DEF IInv, TypeOK
    <3>3. rest' # <<>> => n + 1 \in 1 .. Length[m]
      <4>1. n = Length[m] => rest' = <<>>
        BY <2>1, <3>1, SubSeqEmpty
      <4> QED
        BY <4>1, <2>1, <3>2
    <3> QED
      BY <2>2, <3>1, <3>3 DEF RestIsTail
  <2>4. CASE Pending # <<>>
    <3>1. rest' = Units(m)
      BY <1>1, <2>4 DEF NetSend
    <3>2. rest' = SubSeq(Units(m), 1, Length[m]) /\ 1 \in 1 .. Length[m]
      BY <2>1, <3>1, SubSeqFull
    <3> QED
      BY <2>2, <3>2 DEF RestIsTail
  <2> QED
    BY <2>3, <2>4
<1>2. CASE Sender
  BY <1>2 DEF Sender, Buffer, BufferFails, CompactRest, RestIsTail
<1>3. CASE Reactor \/ PeerReads \/ ClientSends \/ UNCHANGED vars
  <2>1. UNCHANGED <<sender, rest>>
    BY <1>3 DEF Reactor, EpollWait, HandleClientData, HandleClientOut,
                PeerReads, ClientSends, vars, lock
  <2> QED
    BY <2>1 DEF RestIsTail
<1> QED
  BY <1>1, <1>2, <1>3 DEF Next

LEMMA StreamInvCorrect == Spec => []StreamInv
<1> QED
  BY InitInv, StepInv, InitTail, StepTail, PTL DEF Spec, StreamInv

LEMMA StreamInit == Init => Stream!Init
<1> SUFFICES ASSUME Init PROVE Stream!Init
  OBVIOUS
<1>1. Pending = <<>>
  BY SubSeqEmpty DEF Init, Pending
<1>2. Pending \o rest = <<>>
  <2>1. rest = <<>> /\ <<>> \in Seq(Unit)
    BY DEF Init
  <2> QED
    BY <1>1, <2>1, ConcatEmptySeq
<1> QED
  BY <1>2 DEF Init, Stream!Init

LEMMA SendsStream ==
  ASSUME StreamInv, NEW m \in Messages, NetSend(m)
  PROVE  Stream!Send(m)
<1> DEFINE n == Fitting(Length[m])
<1>1. /\ TypeOK /\ wire \in Seq(Unit) /\ inflight \in 0 .. SndBuf
      /\ outBuf \in Seq(Unit) /\ outReadPos \in 0 .. Len(outBuf)
  BY DEF StreamInv, IInv, TypeOK
<1>2. Pending \in Seq(Unit) /\ Pending' = Pending
  BY <1>1, PendingSeq DEF NetSend, buffer, Pending
<1>3. /\ Units(m) \in Seq(Unit) /\ Len(Units(m)) = Length[m]
      /\ Length[m] \in Nat \ {0}
  BY UnitsSeq
<1>4. rest = <<>> /\ <<>> \in Seq(Unit)
  BY DEF StreamInv, IInv, InHand, NetSend
<1>5. Pending \o rest = Pending
  BY <1>2, <1>4, ConcatEmptySeq
<1>6. /\ wire' \o (Pending' \o rest') = (wire \o Pending) \o Units(m)
      /\ Len(wire') >= Len(wire)
  <2>1. CASE Pending = <<>>
    <3>1. n \in 0 .. Length[m]
      BY <1>1, <1>3, FittingBounds
    <3>2. /\ wire' = wire \o SubSeq(Units(m), 1, n)
          /\ rest' = SubSeq(Units(m), n + 1, Length[m])
      BY <1>3, <2>1 DEF NetSend, Write
    <3> HIDE DEF n
    <3>3. /\ SubSeq(Units(m), 1, n) \in Seq(Unit) /\ rest' \in Seq(Unit)
          /\ SubSeq(Units(m), 1, n) \o rest' = Units(m)
      BY <1>3, <3>1, <3>2, CutConcat
    <3>4. Pending' \o rest' = rest' /\ wire \o Pending = wire
      BY <1>1, <1>2, <2>1, <3>3, ConcatEmptySeq
    <3> DEFINE part == SubSeq(Units(m), 1, n)
    <3>5. part \in Seq(Unit) /\ wire' = wire \o part /\ part \o rest' = Units(m)
      BY <3>2, <3>3
    <3> HIDE DEF part
    <3>6. /\ wire \o (part \o rest') = (wire \o part) \o rest'
          /\ Len(wire \o part) >= Len(wire)
      BY <1>1, <3>3, <3>5, UnitsConcat
    <3> QED
      BY <3>4, <3>5, <3>6, Zenon
  <2>2. CASE Pending # <<>>
    <3>1. wire' = wire /\ rest' = Units(m)
      BY <2>2 DEF NetSend, socket
    <3>2. wire \o (Pending \o Units(m)) = (wire \o Pending) \o Units(m)
      BY <1>1, <1>2, <1>3, UnitsConcat
    <3>3. Len(wire') >= Len(wire)
      BY <1>1, <3>1
    <3> QED
      BY <1>2, <3>1, <3>2, <3>3, Zenon
  <2> QED
    BY <2>1, <2>2
<1>7. Stream!Extend(Units(m))
  BY <1>5, <1>6 DEF Stream!Extend
<1>8. /\ m \notin given /\ sender = NoMessage /\ given' = given \cup {m}
      /\ sender' \in {m, NoMessage}
  BY DEF NetSend
<1> QED
  BY <1>7, <1>8 DEF Stream!Send

LEMMA BufferAccepts ==
  ASSUME StreamInv, Buffer
  PROVE  Stream!Accept
<1>1. /\ TypeOK /\ MaskFollowsBuffer /\ rest \in Seq(Unit)
      /\ outBuf \in Seq(Unit) /\ outReadPos \in 0 .. Len(outBuf)
  BY DEF StreamInv, IInv, TypeOK
<1>2. sender # NoMessage /\ sender' = NoMessage /\ rest' = <<>>
  BY DEF Buffer, CompactRest
<1>3. Pending' = Pending \o rest
  BY <1>1, PendingBuffered
<1>4. Pending \o rest \in Seq(Unit)
  BY <1>1, PendingSeq, ConcatProperties
<1>5. (Pending \o rest) \o <<>> = Pending \o rest
  BY <1>4, ConcatEmptySeq
<1>6. Pending' \o rest' = Pending \o rest
  BY <1>2, <1>3, <1>5
<1>7. UNCHANGED <<wire, given>>
  BY DEF Buffer, socket
<1> QED
  BY <1>2, <1>6, <1>7 DEF Stream!Accept

LEMMA BufferFailsFails ==
  ASSUME StreamInv, BufferFails
  PROVE  Stream!Fail
<1>1. /\ TypeOK /\ MaskFollowsBuffer /\ rest \in Seq(Unit)
      /\ outBuf \in Seq(Unit) /\ outReadPos \in 0 .. Len(outBuf)
      /\ sender \in Messages \cup {NoMessage}
  BY DEF StreamInv, IInv, TypeOK
<1>2. /\ sender # NoMessage /\ sender' = NoMessage /\ rest' = <<>>
      /\ CompactRest /\ outBuf' = Kept
  BY DEF BufferFails, CompactRest
<1>3. Pending' = Pending
  BY <1>1, <1>2, KeptPending DEF Pending
<1>4. Pending \in Seq(Unit) /\ Len(Pending) \in Nat /\ Len(rest) \in Nat
  <2>1. Pending \in Seq(Unit)
    BY <1>1, PendingSeq
  <2> QED
    BY <2>1, <1>1
<1>5. Pending' \o rest' = Pending
  BY <1>2, <1>3, <1>4, ConcatEmptySeq
<1> DEFINE q == Pending \o rest
<1>6. /\ Len(Pending) \in 0 .. Len(q)
      /\ SubSeq(q, 1, Len(Pending)) = Pending
      /\ SubSeq(q, Len(Pending) + 1, Len(q)) = rest
  <2>1. Len(q) = Len(Pending) + Len(rest)
    BY <1>1, <1>4, ConcatProperties
  <2>2. Len(Pending) \in 0 .. Len(q)
    BY <1>4, <2>1
  <2> QED
    BY <1>1, <1>4, <2>2, ConcatCut
<1>7. PICK k \in 1 .. Length[sender] :
             rest = SubSeq(Units(sender), k, Length[sender])
  BY <1>2 DEF StreamInv, RestIsTail
<1>8. Len(Units(sender)) = Length[sender]
  BY <1>1, <1>2, UnitsSeq
<1>9. \E i \in 0 .. Len(q) :
        /\ Pending' \o rest' = SubSeq(q, 1, i)
        /\ \E j \in 1 .. Len(Units(sender)) :
             SubSeq(q, i + 1, Len(q)) =
               SubSeq(Units(sender), j, Len(Units(sender)))
  BY <1>5, <1>6, <1>7, <1>8
<1>10. UNCHANGED <<wire, given>>
  BY DEF BufferFails, socket
<1> QED
  BY <1>2, <1>9, <1>10 DEF Stream!Fail

LEMMA HandleClientOutDrains ==
  ASSUME StreamInv, HandleClientOut
  PROVE  Stream!Drain
<1> DEFINE n == Fitting(Len(Pending))
<1>1. /\ TypeOK /\ wire \in Seq(Unit) /\ inflight \in 0 .. SndBuf
      /\ outBuf \in Seq(Unit) /\ outReadPos \in 0 .. Len(outBuf)
  BY DEF StreamInv, IInv, TypeOK
<1>2. Pending \in Seq(Unit) /\ Len(Pending) \in Nat
  <2>1. Pending \in Seq(Unit)
    BY <1>1, PendingSeq
  <2> QED
    BY <2>1
<1>3. n \in 0 .. Len(Pending)
  BY <1>1, <1>2, FittingBounds
<1>4. /\ Pending' = SubSeq(Pending, n + 1, Len(Pending))
      /\ wire' = wire \o SubSeq(Pending, 1, n)
  BY <1>1, PendingDrained DEF HandleClientOut, Write
<1>5. /\ rest = <<>> /\ rest' = <<>> /\ <<>> \in Seq(Unit)
      /\ UNCHANGED <<sender, given>>
  BY DEF HandleClientOut, StreamInv, IInv, InHand, lock
<1> HIDE DEF n
<1>6. /\ SubSeq(Pending, 1, n) \in Seq(Unit) /\ Pending' \in Seq(Unit)
      /\ SubSeq(Pending, 1, n) \o Pending' = Pending
  BY <1>2, <1>3, <1>4, CutConcat
<1>7. /\ wire \o (SubSeq(Pending, 1, n) \o Pending') = wire' \o Pending'
      /\ Len(wire') >= Len(wire)
  BY <1>1, <1>4, <1>6, UnitsConcat
<1>8. Pending \o rest = Pending /\ Pending' \o rest' = Pending'
  BY <1>2, <1>5, <1>6, ConcatEmptySeq
<1>9. (wire \o Pending) \o <<>> = wire \o Pending
  <2>1. wire \o Pending \in Seq(Unit)
    BY <1>1, <1>2, ConcatProperties
  <2> QED
    BY <2>1, ConcatEmptySeq
<1>10. Stream!Extend(<<>>)
  BY <1>6, <1>7, <1>8, <1>9 DEF Stream!Extend
<1> QED
  BY <1>5, <1>10 DEF Stream!Drain

LEMMA StreamStep == StreamInv /\ [Next]_vars => [Stream!Next]_(Stream!vars)
<1> SUFFICES ASSUME StreamInv, [Next]_vars PROVE [Stream!Next]_(Stream!vars)
  OBVIOUS
<1>1. ASSUME NEW m \in Messages, NetSend(m) PROVE Stream!Next
  BY <1>1, SendsStream DEF Stream!Next
<1>2. CASE Buffer
  BY <1>2, BufferAccepts DEF Stream!Next
<1>3. CASE BufferFails
  BY <1>3, BufferFailsFails DEF Stream!Next
<1>4. CASE HandleClientOut
  BY <1>4, HandleClientOutDrains DEF Stream!Next
<1>5. CASE EpollWait \/ HandleClientData \/ PeerReads \/ ClientSends \/ UNCHANGED vars
  <2>1. UNCHANGED <<outBuf, outReadPos, sender, rest, wire, given>>
    BY <1>5 DEF EpollWait, HandleClientData, PeerReads, ClientSends,
                vars, buffer, lock, socket
  <2>2. UNCHANGED Stream!vars
    BY <2>1 DEF Stream!vars, Pending
  <2> QED
    BY <2>2
<1> QED
  BY <1>1, <1>2, <1>3, <1>4, <1>5 DEF Next, Sender, Reactor

(***************************************************************************)
(* OutputPath implements ByteStream, for messages, sockets and buffers of  *)
(* any size: the bytes of every message reach the wire in one piece and in *)
(* the order of the sends, whatever net_send writes at once, appends or    *)
(* compacts and handle_client_out drains later; only a net_send whose      *)
(* realloc fails leaves its message short.                                 *)
(***************************************************************************)
THEOREM ByteStreamImplemented == Spec => ImplementsByteStream
<1> QED
  BY StreamInit, StreamInvCorrect, StreamStep, PTL
  DEF Spec, ImplementsByteStream, Stream!Spec

=============================================================================
