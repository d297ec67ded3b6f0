------------------------------ MODULE ReadyList ------------------------------
(***************************************************************************)
(* The ready list of an epoll instance, and of any other list the kernel   *)
(* keeps for a thread: an item stands on it once, at the place of its      *)
(* first edge, until epoll_wait takes the list away or close() the item.   *)
(* Kept also picks the parts of one message out of a stream of many.       *)
(***************************************************************************)
EXTENDS Naturals, Sequences, SequencesExt

\* The list after another edge of item i.
Offered(list, i) == IF Contains(list, i) THEN list ELSE Append(list, i)

\* The items of a list that are in S, in their order.
Kept(list, S) ==
  LET kept[n \in 0 .. Len(list)] ==
        IF n = 0 THEN <<>>
        ELSE IF list[n] \in S THEN Append(kept[n - 1], list[n]) ELSE kept[n - 1]
  IN kept[Len(list)]
=============================================================================
