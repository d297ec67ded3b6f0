-------------------------- MODULE MCEmployeeService --------------------------
(***************************************************************************)
(* Instances of EmployeeService and HttpFraming for the model checker.     *)
(***************************************************************************)
EXTENDS EmployeeService, HttpFraming

CONSTANTS c1, c2, c3, x, y, z, text

ThreeClients == {c1, c2, c3}
OneLeaver == {c1}
OneId == {1}
ThreeBytes == {x, y, z, Nul}

Ask(method, path, id, body) ==
  [method |-> method, path |-> path, id |-> id, body |-> body]

\* Photo 1 was there before, and takes two reads.
Before == [n \in Names |-> IF n = 1 THEN <<x, y, z, z, z>> ELSE Missing]

Post(id, body) == Ask("POST", "photo", id, body)
Get(path, id) == Ask("GET", path, id, <<>>)

\* c1, who may leave, c2, and c3, who connects later: uploads of three lengths; a
\* download beside an upload of the photo, with and without a third client; a
\* download by a path with no id beside an upload by one; the requests that need
\* no file, and a body with no room.
Mixes == {
  << <<Post(1, <<x, Nul, y>>)>>, <<Post(1, <<z>>)>>, <<Post(1, <<>>)>> >>,
  << <<Get("photo", 1)>>, <<Post(1, <<z>>)>>, <<Get("list", NoId)>> >>,
  << <<Get("photo", 1), Get("list", NoId)>>, <<Post(1, <<z>>)>>, <<>> >>,
  << <<Post(NoId, <<z>>)>>, <<>>, <<Get("photo", NoId)>> >>,
  << <<Get("photo", 1), Get("employee", NoId)>>, <<Ask("PUT", "photo", 1, <<>>)>>,
     <<Post(1, <<x, y, y, z>>)>> >>,
  << <<Ask("POST", "list", NoId, <<z>>)>>, <<Ask("POST", "employee", 1, <<z>>)>>,
     <<>> >> }
Sent == {[c \in ThreeClients |-> m[CASE c = c1 -> 1 [] c = c2 -> 2 [] c = c3 -> 3]] :
           m \in Mixes}
Silent == [c \in ThreeClients |-> <<>>]
SentOrSilent == Sent \cup {Silent}

\* Requests of two fields, proper and improper, with bodies, parts of bodies
\* and parts of the next request behind them; and short texts of every kind.
Lines == { <<text>>, <<FieldName, 2>>, <<FieldName, 0>>, <<FieldName, -1>>,
           <<FieldName>>, <<FieldName, text>>, <<text, FieldName, 1>>, <<Eos>> }
Breaks == { <<Cr, Lf>>, <<Cr>>, <<Lf>> }
Tails == { <<>>, <<text>>, <<2, text>>, <<text, text, FieldName, 1, Cr, Lf, Cr, Lf>> }
OtherText == {text}
Alphabet == {Cr, Lf, Eos, text}
AllTexts ==
  {<<text, Cr, Lf>> \o l \o b \o m \o Blank \o t :
     l \in Lines, b \in Breaks, m \in Lines, t \in Tails}
  \cup UNION {[1 .. n -> Alphabet] : n \in 0 .. 6}

\* Either texts are framed, or requests that were framed are handled.
RunInit ==
  /\ sends \in SentOrSilent
  /\ where = [c \in ThreeClients |-> IF c = c3 THEN "away" ELSE "open"]
  /\ fd = [c \in ThreeClients |-> IF c = c2 THEN 1 ELSE 0]
  /\ Init /\ FramingInit /\ (sends = Silent \/ coming = <<>>)
RunNext ==
  \/ sends # Silent /\ Next /\ UNCHANGED framingVars
  \/ FramingNext /\ UNCHANGED vars
RunSpec == RunInit /\ [][RunNext]_<<vars, framingVars>>
=============================================================================
