--------------------------- MODULE ReadyListProof ---------------------------
(***************************************************************************)
(* What the operators of ReadyList return.  Kept is a recursive function:  *)
(* that it exists, and what it computes, is proved by taking the smallest  *)
(* length at which it would not.                                           *)
(***************************************************************************)
EXTENDS ReadyList, SequenceTheorems, WellFoundedInduction, TLAPS

(* Induction, for a set of numbers in the place of a predicate.            *)
LEMMA NatSet ==
  ASSUME NEW T, 0 \in T, \A n \in Nat : n \in T => n + 1 \in T
  PROVE  Nat \subseteq T
<1> DEFINE F == Nat \ T
<1>1. SUFFICES ASSUME F # {} PROVE FALSE
  OBVIOUS
<1>2. IsWellFoundedOn(OpToRel(<, Nat), Nat)
  BY NatLessThanWellFounded
<1>3. PICK n \in F : \A m \in F : ~(<<m, n>> \in OpToRel(<, Nat))
  <2>1. F \subseteq Nat
    OBVIOUS
  <2> HIDE DEF F
  <2> QED
    BY <1>1, <1>2, <2>1, WFMin
<1>4. n \in Nat /\ n # 0 /\ n \notin T
  OBVIOUS
<1>5. n - 1 \in Nat /\ (n - 1) + 1 = n
  BY <1>4
<1>6. n - 1 \in F
  BY <1>4, <1>5
<1>7. <<n - 1, n>> \in OpToRel(<, Nat)
  BY <1>4, <1>5 DEF OpToRel
<1> QED
  BY <1>3, <1>6, <1>7

-----------------------------------------------------------------------------
(* A table of Kept up to length n: what the recursive function tabulates.  *)
Entry(f, list, S, n) ==
  IF n = 0 THEN <<>>
  ELSE IF list[n] \in S THEN Append(f[n - 1], list[n]) ELSE f[n - 1]

Tabulates(f, list, S, n) == f = [m \in 0 .. n |-> Entry(f, list, S, m)]

LEMMA TableExists ==
  ASSUME NEW list, NEW S, NEW n \in Nat
  PROVE  \E f : Tabulates(f, list, S, n)
<1> DEFINE T == {m \in Nat : \E f : Tabulates(f, list, S, m)}
<1>1. 0 \in T
  <2> DEFINE f == [m \in 0 .. 0 |-> <<>>]
  <2>1. f = [m \in 0 .. 0 |-> Entry(f, list, S, m)]
    BY DEF Entry
  <2> QED
    BY <2>1 DEF Tabulates
<1>2. ASSUME NEW m \in Nat, m \in T PROVE m + 1 \in T
  <2>1. PICK f : f = [k \in 0 .. m |-> Entry(f, list, S, k)]
    BY <1>2 DEF Tabulates
  <2> DEFINE g == [k \in 0 .. m + 1 |->
                     IF k <= m THEN f[k] ELSE Entry(f, list, S, m + 1)]
  <2>2. ASSUME NEW k \in 0 .. m + 1 PROVE g[k] = Entry(g, list, S, k)
    <3>1. CASE k = 0
      BY <3>1, <2>1 DEF Entry
    <3>2. CASE k # 0
      <4>1. k - 1 \in 0 .. m /\ k - 1 \in 0 .. m + 1 /\ k - 1 <= m
        BY <3>2
      <4>2. g[k - 1] = f[k - 1]
        BY <4>1
      <4>3. Entry(g, list, S, k) = Entry(f, list, S, k)
        BY <4>2, <3>2 DEF Entry
      <4>4. CASE k <= m
        <5>1. k \in 0 .. m
          BY <4>4
        <5>2. g[k] = f[k] /\ f[k] = Entry(f, list, S, k)
          BY <5>1, <4>4, <2>1
        <5> QED
          BY <4>3, <5>2
      <4>5. CASE ~(k <= m)
        <5>1. k = m + 1
          BY <4>5
        <5>2. g[k] = Entry(f, list, S, m + 1)
          BY <4>5
        <5> QED
          BY <4>3, <5>1, <5>2
      <4> QED
        BY <4>4, <4>5
    <3> QED
      BY <3>1, <3>2
  <2>3. g = [k \in 0 .. m + 1 |-> g[k]]
    OBVIOUS
  <2>4. g = [k \in 0 .. m + 1 |-> Entry(g, list, S, k)]
    <3> HIDE DEF g
    <3> QED
      BY <2>2, <2>3
  <2>5. Tabulates(g, list, S, m + 1)
    BY <2>4 DEF Tabulates
  <2>6. \E h : Tabulates(h, list, S, m + 1)
    <3> HIDE DEF g
    <3> QED
      BY <2>5
  <2> QED
    BY <2>6
<1>3. Nat \subseteq T
  <2> HIDE DEF T
  <2> QED
    BY <1>1, <1>2, NatSet
<1> QED
  BY <1>3

LEMMA KeptTable ==
  ASSUME NEW list, NEW S, Len(list) \in Nat
  PROVE  \E f : /\ Tabulates(f, list, S, Len(list))
                /\ Kept(list, S) = f[Len(list)]
<1> DEFINE f == CHOOSE g : Tabulates(g, list, S, Len(list))
<1>1. Tabulates(f, list, S, Len(list))
  BY TableExists
<1>2. Kept(list, S) = f[Len(list)]
  BY DEF Kept, Tabulates, Entry
<1> HIDE DEF f
<1> QED
  BY <1>1, <1>2

-----------------------------------------------------------------------------
(* What a table holds at each length: the items among the first m of the   *)
(* list that are in S, each once if the list repeats none.                 *)
Among(list, S, m) == {list[i] : i \in 1 .. m} \cap S

RightItems(f, A, list, S, m) ==
  /\ f[m] \in Seq(A)
  /\ ToSet(f[m]) = Among(list, S, m)
  /\ IsInjective(list) => IsInjective(f[m])

LEMMA AppendSet ==
  ASSUME NEW A, NEW s \in Seq(A), NEW e \in A
  PROVE  /\ Append(s, e) \in Seq(A)
         /\ ToSet(Append(s, e)) = ToSet(s) \cup {e}
         /\ IsInjective(s) /\ e \notin ToSet(s) => IsInjective(Append(s, e))
<1> DEFINE r == Append(s, e)
<1>1. /\ r \in Seq(A) /\ Len(r) = Len(s) + 1
      /\ \A i \in 1 .. Len(s) : r[i] = s[i]
      /\ r[Len(s) + 1] = e
  BY AppendProperties
<1> HIDE DEF r
<1>2. /\ Len(s) \in Nat /\ DOMAIN s = 1 .. Len(s)
      /\ DOMAIN r = 1 .. Len(s) + 1
  BY <1>1
<1>3. \A i \in 1 .. Len(s) + 1 : i = Len(s) + 1 \/ i \in 1 .. Len(s)
  BY <1>2
<1>4. /\ \A i \in 1 .. Len(s) : i \in 1 .. Len(s) + 1
      /\ Len(s) + 1 \in 1 .. Len(s) + 1
  BY <1>2
<1>5. ToSet(r) = ToSet(s) \cup {e}
  BY <1>1, <1>2, <1>3, <1>4 DEF ToSet
<1>6. ASSUME IsInjective(s), e \notin ToSet(s) PROVE IsInjective(r)
  <2> SUFFICES ASSUME NEW i \in 1 .. Len(s) + 1, NEW j \in 1 .. Len(s) + 1,
                      r[i] = r[j]
               PROVE  i = j
    BY <1>2 DEF IsInjective
  <2>1. \A k \in 1 .. Len(s) : r[k] # e
    BY <1>1, <1>2, <1>6 DEF ToSet
  <2>2. CASE i \in 1 .. Len(s) /\ j \in 1 .. Len(s)
    BY <2>2, <1>1, <1>2, <1>6 DEF IsInjective
  <2>3. CASE i = Len(s) + 1 \/ j = Len(s) + 1
    BY <2>3, <2>1, <1>1, <1>3
  <2> QED
    BY <2>2, <2>3, <1>3
<1> QED
  BY <1>1, <1>5, <1>6 DEF r

LEMMA TableRight ==
  ASSUME NEW A, NEW list \in Seq(A), NEW S, NEW f,
         Tabulates(f, list, S, Len(list)), NEW m \in 0 .. Len(list)
  PROVE  RightItems(f, A, list, S, m)
<1>1. /\ Len(list) \in Nat
      /\ \A k \in 0 .. Len(list) : f[k] = Entry(f, list, S, k)
  BY DEF Tabulates
<1> DEFINE T == {k \in Nat : k <= Len(list) => RightItems(f, A, list, S, k)}
<1>2. 0 \in T
  <2>1. f[0] = <<>>
    BY <1>1 DEF Entry
  <2>2. <<>> \in Seq(A) /\ ToSet(<<>>) = {} /\ IsInjective(<<>>)
    BY DEF ToSet, IsInjective
  <2>3. Among(list, S, 0) = {}
    BY DEF Among
  <2> QED
    BY <2>1, <2>2, <2>3 DEF RightItems
<1>3. ASSUME NEW k \in Nat, k \in T PROVE k + 1 \in T
  <2> SUFFICES ASSUME k + 1 <= Len(list) PROVE RightItems(f, A, list, S, k + 1)
    OBVIOUS
  <2>1. k <= Len(list) /\ k + 1 \in 0 .. Len(list) /\ (k + 1) - 1 = k
    BY <1>1
  <2>2. RightItems(f, A, list, S, k)
    BY <1>3, <2>1
  <2> DEFINE e == list[k + 1]
  <2>3. k + 1 \in 1 .. Len(list) /\ e \in A
    BY <2>1
  <2>4. f[k + 1] = IF e \in S THEN Append(f[k], e) ELSE f[k]
    BY <1>1, <2>1 DEF Entry
  <2>5. Among(list, S, k + 1) = Among(list, S, k) \cup ({e} \cap S)
    <3>1. \A i \in 1 .. k + 1 : i = k + 1 \/ i \in 1 .. k
      OBVIOUS
    <3>2. k + 1 \in 1 .. k + 1 /\ \A i \in 1 .. k : i \in 1 .. k + 1
      OBVIOUS
    <3> QED
      BY <3>1, <3>2 DEF Among
  <2>6. IsInjective(list) => e \notin Among(list, S, k)
    <3>1. /\ DOMAIN list = 1 .. Len(list)
          /\ \A i \in 1 .. k : i \in 1 .. Len(list) /\ i # k + 1
      BY <1>1, <2>1
    <3> QED
      BY <2>3, <3>1 DEF Among, IsInjective
  <2> HIDE DEF e
  <2>7. CASE e \in S
    <3>1. f[k] \in Seq(A) /\ e \in A /\ f[k + 1] = Append(f[k], e)
      BY <2>2, <2>3, <2>4, <2>7 DEF RightItems
    <3>2. /\ Append(f[k], e) \in Seq(A)
          /\ ToSet(Append(f[k], e)) = ToSet(f[k]) \cup {e}
          /\ IsInjective(f[k]) /\ e \notin ToSet(f[k])
               => IsInjective(Append(f[k], e))
      BY <3>1, AppendSet
    <3>3. ToSet(f[k]) = Among(list, S, k)
          /\ (IsInjective(list) => IsInjective(f[k]))
      BY <2>2 DEF RightItems
    <3>4. Among(list, S, k + 1) = Among(list, S, k) \cup {e}
      BY <2>5, <2>7
    <3> QED
      BY <3>1, <3>2, <3>3, <3>4, <2>6 DEF RightItems
  <2>8. CASE e \notin S
    BY <2>2, <2>4, <2>5, <2>8 DEF RightItems
  <2> QED
    BY <2>7, <2>8
<1>4. Nat \subseteq T
  <2> HIDE DEF T
  <2> QED
    BY <1>2, <1>3, NatSet
<1> QED
  BY <1>1, <1>4

(***************************************************************************)
(* The items epoll_wait still finds readable, or that close() leaves on    *)
(* the list, are those of the list that are in S, none of them twice.      *)
(***************************************************************************)
LEMMA KeptItems ==
  ASSUME NEW A, NEW list \in Seq(A), NEW S
  PROVE  /\ Kept(list, S) \in Seq(A)
         /\ ToSet(Kept(list, S)) = ToSet(list) \cap S
         /\ IsInjective(list) => IsInjective(Kept(list, S))
<1>1. Len(list) \in Nat /\ DOMAIN list = 1 .. Len(list)
  OBVIOUS
<1>2. PICK f : Tabulates(f, list, S, Len(list)) /\ Kept(list, S) = f[Len(list)]
  BY <1>1, KeptTable
<1>3. Len(list) \in 0 .. Len(list)
  BY <1>1
<1>4. RightItems(f, A, list, S, Len(list))
  BY <1>2, <1>3, TableRight
<1> QED
  BY <1>1, <1>2, <1>4 DEF RightItems, Among, ToSet

LEMMA OfferedItems ==
  ASSUME NEW A, NEW list \in Seq(A), NEW i \in A
  PROVE  /\ Offered(list, i) \in Seq(A)
         /\ ToSet(Offered(list, i)) = ToSet(list) \cup {i}
         /\ IsInjective(list) => IsInjective(Offered(list, i))
<1>1. Contains(list, i) <=> i \in ToSet(list)
  BY DEF Contains, ToSet
<1> QED
  BY <1>1, AppendSet DEF Offered

(* What is left of a list when its first item is gone.                     *)
LEMMA TailItems ==
  ASSUME NEW A, NEW list \in Seq(A), list # <<>>
  PROVE  /\ Head(list) \in A /\ Tail(list) \in Seq(A)
         /\ Len(Tail(list)) = Len(list) - 1
         /\ ToSet(list) = ToSet(Tail(list)) \cup {Head(list)}
         /\ IsInjective(list) =>
              IsInjective(Tail(list)) /\ Head(list) \notin ToSet(Tail(list))
<1> DEFINE r == Tail(list)
<1>1. /\ Head(list) \in A /\ r \in Seq(A) /\ Len(r) = Len(list) - 1
      /\ \A i \in 1 .. Len(r) : r[i] = list[i + 1]
  BY HeadTailProperties
<1>2. Head(list) = list[1] /\ Len(list) \in Nat /\ Len(list) > 0
  OBVIOUS
<1> HIDE DEF r
<1>3. DOMAIN list = 1 .. Len(list) /\ DOMAIN r = 1 .. Len(list) - 1
  BY <1>1, <1>2
<1>4. /\ 1 \in 1 .. Len(list)
      /\ \A i \in 1 .. Len(list) - 1 : i + 1 \in 1 .. Len(list) /\ i + 1 # 1
      /\ \A i \in 1 .. Len(list) : i # 1 =>
           i - 1 \in 1 .. Len(list) - 1 /\ (i - 1) + 1 = i
  BY <1>2
<1>5. ToSet(list) = ToSet(r) \cup {Head(list)}
  <2>1. ASSUME NEW x \in ToSet(list) PROVE x \in ToSet(r) \cup {Head(list)}
    <3>1. PICK i \in 1 .. Len(list) : x = list[i]
      BY <1>3 DEF ToSet
    <3>2. CASE i = 1
      BY <3>1, <3>2, <1>2
    <3>3. CASE i # 1
      <4>1. i - 1 \in DOMAIN r /\ r[i - 1] = x
        BY <3>1, <3>3, <1>1, <1>3, <1>4
      <4> QED
        BY <4>1 DEF ToSet
    <3> QED
      BY <3>2, <3>3
  <2>2. ToSet(r) \subseteq ToSet(list) /\ Head(list) \in ToSet(list)
    BY <1>1, <1>2, <1>3, <1>4 DEF ToSet
  <2> QED
    BY <2>1, <2>2
<1>6. ASSUME IsInjective(list) PROVE IsInjective(r) /\ Head(list) \notin ToSet(r)
  <2>1. \A i \in 1 .. Len(list) - 1 : r[i] # list[1]
    BY <1>1, <1>3, <1>4, <1>6 DEF IsInjective
  <2>2. \A i \in 1 .. Len(list) - 1, j \in 1 .. Len(list) - 1 :
          r[i] = r[j] => i + 1 = j + 1
    BY <1>1, <1>3, <1>4, <1>6 DEF IsInjective
  <2>3. IsInjective(r)
    BY <2>2, <1>2, <1>3 DEF IsInjective
  <2> QED
    BY <2>1, <2>3, <1>2, <1>3 DEF ToSet
<1> QED
  BY <1>1, <1>5, <1>6 DEF r

-----------------------------------------------------------------------------
(***************************************************************************)
(* What is kept of two lists, one behind the other, is what is kept of     *)
(* each; of the first only matters which of its own items are in the set.  *)
(***************************************************************************)
LEMMA KeptConcat ==
  ASSUME NEW A, NEW s \in Seq(A), NEW t \in Seq(A), NEW S, NEW T,
         \A i \in 1 .. Len(s) : s[i] \in S <=> s[i] \in T
  PROVE  Kept(s \o t, T) = Kept(s, S) \o Kept(t, T)
<1> DEFINE l == Len(s)
           k == Len(t)
           r == s \o t
<1>1. /\ r \in Seq(A) /\ Len(r) = l + k /\ l \in Nat /\ k \in Nat
      /\ \A i \in 1 .. l : r[i] = s[i]
      /\ \A i \in 1 .. k : r[l + i] = t[i]
  <2>1. \A i \in 1 .. k : l + i \in 1 .. l + k /\ ~(l + i <= l) /\ (l + i) - l = i
    BY LenProperties
  <2> QED
    BY <2>1, ConcatProperties, LenProperties
<1> HIDE DEF r, l, k
<1>2. PICK f : Tabulates(f, r, T, l + k) /\ Kept(r, T) = f[l + k]
  <2>1. Len(r) \in Nat
    BY <1>1
  <2>2. \E f : Tabulates(f, r, T, Len(r)) /\ Kept(r, T) = f[Len(r)]
    BY <2>1, KeptTable
  <2> QED
    BY <1>1, <2>2
<1>3. PICK g : Tabulates(g, s, S, l) /\ Kept(s, S) = g[l]
  BY <1>1, KeptTable DEF l
<1>4. PICK h : Tabulates(h, t, T, k) /\ Kept(t, T) = h[k]
  BY <1>1, KeptTable DEF k
<1>5. /\ \A m \in 0 .. l + k : f[m] = Entry(f, r, T, m)
      /\ \A m \in 0 .. l : g[m] = Entry(g, s, S, m)
      /\ \A m \in 0 .. k : h[m] = Entry(h, t, T, m)
  BY <1>2, <1>3, <1>4 DEF Tabulates
<1> DEFINE P == {m \in Nat : m <= l => f[m] = g[m]}
<1>6. l \in P
  <2>1. 0 \in P
    BY <1>1, <1>5 DEF Entry
  <2>2. ASSUME NEW m \in Nat, m \in P PROVE m + 1 \in P
    <3> SUFFICES ASSUME m + 1 <= l PROVE f[m + 1] = g[m + 1]
      OBVIOUS
    <3>1. /\ m + 1 \in 1 .. l /\ m + 1 \in 0 .. l /\ m + 1 \in 0 .. l + k
          /\ (m + 1) - 1 = m /\ m + 1 # 0 /\ f[m] = g[m]
      BY <1>1, <2>2
    <3>2. r[m + 1] = s[m + 1] /\ (s[m + 1] \in S <=> s[m + 1] \in T)
      BY <1>1, <3>1 DEF l
    <3> QED
      BY <1>5, <3>1, <3>2 DEF Entry
  <2> HIDE DEF P
  <2> QED
    BY <1>1, <2>1, <2>2, NatSet
<1>7. f[l] = g[l]
  BY <1>1, <1>6
<1>8. g[l] \in Seq(A) /\ \A m \in 0 .. k : h[m] \in Seq(A)
  <2>1. l \in 0 .. l
    BY <1>1
  <2>2. RightItems(g, A, s, S, l)
    BY <1>3, <2>1, TableRight DEF l
  <2>3. \A m \in 0 .. k : RightItems(h, A, t, T, m)
    BY <1>4, TableRight DEF k
  <2> QED
    BY <2>2, <2>3 DEF RightItems
<1> DEFINE Joined(m) == f[l + m] = g[l] \o h[m]
           Q == {m \in Nat : m <= k => Joined(m)}
<1>9. k \in Q
  <2>1. 0 \in Q
    <3>1. h[0] = <<>>
      BY <1>1, <1>5 DEF Entry
    <3>2. l + 0 = l /\ g[l] \o <<>> = g[l]
      BY <1>1, <1>8, ConcatEmptySeq
    <3> QED
      BY <1>7, <3>1, <3>2
  <2>2. ASSUME NEW m \in Nat, m \in Q PROVE m + 1 \in Q
    <3> SUFFICES ASSUME m + 1 <= k PROVE Joined(m + 1)
      <4> HIDE DEF Joined
      <4> QED
        OBVIOUS
    <3> DEFINE e == t[m + 1]
               x == g[l]
               y == h[m]
    <3> HIDE DEF x, y, e
    <3>1. /\ m + 1 \in 1 .. k /\ m + 1 \in 0 .. k /\ m \in 0 .. k
          /\ l + (m + 1) \in 0 .. l + k
          /\ (m + 1) - 1 = m /\ m + 1 # 0
          /\ (l + (m + 1)) - 1 = l + m /\ l + (m + 1) # 0
      BY <1>1
    <3>6. f[l + m] = x \o y
      <4>1. Joined(m)
        <5> HIDE DEF Joined
        <5> QED
          BY <1>1, <2>2
      <4> QED
        BY <4>1 DEF x, y
    <3>2. r[l + (m + 1)] = e /\ e \in A /\ x \in Seq(A) /\ y \in Seq(A)
      BY <1>1, <1>8, <3>1, ElementOfSeq DEF k, x, y, e
    <3>7. f[l + (m + 1)] = Entry(f, r, T, l + (m + 1))
      BY <1>5, <3>1
    <3>4. <<e>> \in Seq(A) /\ x \o y \in Seq(A)
      BY <3>2, ConcatProperties
    <3>5. CASE e \in T
      <4>1. f[l + (m + 1)] = Append(f[l + m], e)
        BY <3>1, <3>2, <3>5, <3>7 DEF Entry
      <4>2. Append(f[l + m], e) = (x \o y) \o <<e>>
        BY <3>2, <3>4, <3>6, AppendIsConcat
      <4>3. h[m + 1] = Append(y, e)
        BY <1>5, <3>1, <3>5 DEF Entry, y, e
      <4>4. Append(y, e) = y \o <<e>>
        BY <3>2, AppendIsConcat
      <4>5. (x \o y) \o <<e>> = x \o (y \o <<e>>)
        BY <3>2, <3>4, ConcatAssociative
      <4> QED
        BY <4>1, <4>2, <4>3, <4>4, <4>5 DEF x
    <3>8. CASE e \notin T
      <4>1. f[l + (m + 1)] = f[l + m]
        BY <3>1, <3>2, <3>7, <3>8 DEF Entry
      <4>2. h[m + 1] = y
        BY <1>5, <3>1, <3>8 DEF Entry, y, e
      <4> QED
        BY <3>6, <4>1, <4>2 DEF x
    <3> QED
      BY <3>5, <3>8
  <2> HIDE DEF Q
  <2> QED
    BY <1>1, <2>1, <2>2, NatSet
<1>10. Joined(k)
  <2>1. k <= k
    BY <1>1
  <2> HIDE DEF Joined
  <2> QED
    BY <1>9, <2>1
<1> QED
  BY <1>2, <1>3, <1>4, <1>10 DEF r

(* All of a list is kept, or none.                                         *)
LEMMA KeptAllOrNone ==
  ASSUME NEW A, NEW t \in Seq(A), NEW T
  PROVE  /\ (\A i \in 1 .. Len(t) : t[i] \in T) => Kept(t, T) = t
         /\ (\A i \in 1 .. Len(t) : t[i] \notin T) => Kept(t, T) = <<>>
<1> DEFINE k == Len(t)
<1>1. k \in Nat /\ Kept(t, T) \in Seq(A)
  BY KeptItems
<1>2. PICK h : Tabulates(h, t, T, k) /\ Kept(t, T) = h[k]
  BY <1>1, KeptTable
<1>3. \A m \in 0 .. k : h[m] = Entry(h, t, T, m)
  BY <1>2 DEF Tabulates
<1>4. ASSUME \A i \in 1 .. k : t[i] \in T PROVE h[k] = t
  <2> DEFINE P == {m \in Nat : m <= k => h[m] = SubSeq(t, 1, m)}
  <2>1. 0 \in P
    <3>1. h[0] = <<>> /\ SubSeq(t, 1, 0) = <<>>
      BY <1>1, <1>3, SubSeqEmpty DEF Entry
    <3> QED
      BY <3>1
  <2>2. ASSUME NEW m \in Nat, m \in P PROVE m + 1 \in P
    <3> SUFFICES ASSUME m + 1 <= k PROVE h[m + 1] = SubSeq(t, 1, m + 1)
      OBVIOUS
    <3>1. /\ m + 1 \in 1 .. k /\ m + 1 \in 0 .. k
          /\ (m + 1) - 1 = m /\ m + 1 # 0 /\ h[m] = SubSeq(t, 1, m)
      BY <1>1, <2>2
    <3>2. h[m + 1] = Append(SubSeq(t, 1, m), t[m + 1])
      BY <1>3, <1>4, <3>1 DEF Entry
    <3>3. Append(SubSeq(t, 1, m), t[m + 1]) = SubSeq(t, 1, m + 1)
      BY <3>1
    <3> QED
      BY <3>2, <3>3
  <2>3. k \in P
    <3> HIDE DEF P
    <3> QED
      BY <1>1, <2>1, <2>2, NatSet
  <2>4. SubSeq(t, 1, k) = t
    OBVIOUS
  <2> QED
    BY <1>1, <2>3, <2>4
<1>5. ASSUME \A i \in 1 .. k : t[i] \notin T PROVE h[k] = <<>>
  <2> DEFINE P == {m \in Nat : m <= k => h[m] = <<>>}
  <2>1. 0 \in P
    BY <1>1, <1>3 DEF Entry
  <2>2. ASSUME NEW m \in Nat, m \in P PROVE m + 1 \in P
    BY <1>1, <1>3, <1>5, <2>2 DEF Entry
  <2> HIDE DEF P
  <2>3. k \in P
    BY <1>1, <2>1, <2>2, NatSet
  <2> QED
    BY <1>1, <2>3 DEF P
<1> QED
  BY <1>2, <1>4, <1>5
=============================================================================
