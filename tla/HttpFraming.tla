----------------------------- MODULE HttpFraming -----------------------------
(***************************************************************************)
(* Where a request ends: what handle_client_data (net_epoll.c) makes of    *)
(* the text it has received, by search and arithmetic.  Connections has    *)
(* the buffer around it and takes the length of a request as given.        *)
(*                                                                         *)
(* A text is a sequence of tokens, each of them one long: CR and LF, '\0', *)
(* the words "Content-Length:" in any case, a numeral (an integer) and     *)
(* other text.  Nothing is read behind the text, where the buffer has what *)
(* an earlier one left, and strcasestr, which wants a '\0', searches on.   *)
(***************************************************************************)
EXTENDS Integers, Sequences, FiniteSetsExt

CONSTANTS
  Cr, Lf, Eos,    \* '\r', '\n', '\0'
  FieldName,      \* "Content-Length:"
  Words,          \* other text
  SizeLimit,      \* 2^w, for a size_t of w bits
  Texts           \* what a client may send

Tokens == {Cr, Lf, Eos, FieldName} \cup Int \cup Words

ASSUME SizeAssumption == SizeLimit \in Nat \ {0}
ASSUME TokensAssumption ==
  /\ Texts \subseteq Seq(Tokens)
  /\ Cr \notin {Lf, Eos} /\ {Cr, Lf} \cap Int = {}

VARIABLES
  coming,         \* what is still to come
  held            \* the buffer from conn->read_pos on

framingVars == <<coming, held>>

FramingInit == coming \in Texts /\ held = <<>>

Blank == <<Cr, Lf, Cr, Lf>>

\* my_strnstr(s, "\r\n\r\n", slen): the place it finds, 0 for NULL.  It gives up
\* at a '\0', and when what is left is too short.
HeaderEnd(s) ==
  LET from[i \in 1 .. Len(s) + 1] ==
        IF i > Len(s) THEN 0
        ELSE IF s[i] = Eos \/ (s[i] = Cr /\ Len(s) - i < 3) THEN 0
        ELSE IF s[i] = Cr /\ SubSeq(s, i, i + 3) = Blank THEN i
        ELSE from[i + 1]
  IN from[1]

HeaderLength(s) == HeaderEnd(s) + 3

\* strcasestr, if it finds something in the header: what it finds behind that
\* is not used.
FieldsIn(s) == {i \in 1 .. HeaderEnd(s) - 1 : s[i] = FieldName}
\* Mutation: the last one is taken.
LastField(s) == Max(FieldsIn(s))
FieldAt(s) == Min(FieldsIn(s))

\* atoi: passes over white space, line ends among it, and makes 0 of a word.
Atoi(s, i) ==
  LET after == {k \in i .. Len(s) : s[k] \notin {Cr, Lf}}
  IN IF after # {} /\ s[Min(after)] \in Int THEN s[Min(after)] ELSE 0

ContentLength(s) ==
  IF FieldsIn(s) = {} THEN 0 ELSE Atoi(s, FieldAt(s) + 1) % SizeLimit

TotalExpected(s) == (HeaderLength(s) + ContentLength(s)) % SizeLimit

\* The request is all there, as far as the code can see.
Complete(s) == HeaderEnd(s) # 0 /\ Len(s) >= TotalExpected(s)

\* The stream comes in pieces: of one token here, as what follows may or may
\* not look at it before the next.
Receive ==
  /\ coming # <<>>
  /\ held' = Append(held, Head(coming)) /\ coming' = Tail(coming)

\* The request is handed over, and the rest is looked at in the same way.
CutOff ==
  /\ Complete(held)
  /\ held' = SubSeq(held, TotalExpected(held) + 1, Len(held))
  /\ UNCHANGED coming

FramingNext == Receive \/ CutOff

FramingSpec == FramingInit /\ [][FramingNext]_framingVars

-----------------------------------------------------------------------------
(* What the text says, line by line *)

Ends(s) == {i \in 1 .. Len(s) - 3 : SubSeq(s, i, i + 3) = Blank}
WholeHeader(s) == \E i \in Ends(s) : \A k \in 1 .. i : s[k] # Eos

\* The fields of that name: at the start of a line that is not the first.
Fields(s) ==
  {i \in 3 .. Min(Ends(s)) - 1 : s[i] = FieldName /\ s[i - 2] = Cr /\ s[i - 1] = Lf}
Proper(s) ==
  /\ Cardinality(Fields(s)) <= 1
  /\ \A i \in Fields(s) : s[i + 1] \in Nat /\ s[i + 2] = Cr /\ s[i + 3] = Lf
BodyLength(s) ==
  IF Fields(s) = {} THEN 0 ELSE s[(CHOOSE i \in Fields(s) : TRUE) + 1]

\* The words also stand in another place of the header, before the field.
Shadowed(s) ==
  \E i \in 1 .. Min(Ends(s)) - 1 :
    s[i] = FieldName /\ \A f \in Fields(s) : i < f

(***************************************************************************)
(* A request is as long as its one Content-Length field says, as soon as   *)
(* its header is there and however much has come behind it; a header that  *)
(* is not all there is waited for.  Exactly so unless the words appear in  *)
(* another field first (handle_client_data searches the text, not the      *)
(* lines), the value is no natural number, or the sum is beyond a size_t.  *)
(***************************************************************************)
FramingExact ==
  /\ HeaderEnd(held) # 0 <=> WholeHeader(held)
  /\ WholeHeader(held) /\ Proper(held) /\ ~Shadowed(held) =>
       LET total == Min(Ends(held)) + 3 + BodyLength(held) IN
         total < SizeLimit => /\ TotalExpected(held) = total
                              /\ Complete(held) <=> Len(held) >= total
=============================================================================
