--------------------------- MODULE RateLimitProof --------------------------
(***************************************************************************)
(* Theorems about the rate limiter, for every bucket size, refill rate and *)
(* width of int.  NoOverflow is a hypothesis where it is needed.           *)
(***************************************************************************)
EXTENDS RateLimit, TLAPS

-----------------------------------------------------------------------------
(* Arithmetic *)

LEMMA ModSmall ==
  ASSUME NEW n \in Nat \ {0}, NEW a \in 0 .. n - 1
  PROVE  a % n = a
  BY SMT

LEMMA Product ==
  ASSUME NEW r \in Nat, NEW a \in Nat, NEW b \in Nat
  PROVE  /\ r * a \in Nat
         /\ r * (a + b) = r * a + r * b
         /\ a * r = r * a
  BY SMT

LEMMA ProductMonotone ==
  ASSUME NEW r \in Nat, NEW a \in Nat, NEW b \in Nat, a <= b
  PROVE  r * a <= r * b
  <1>1. b - a \in Nat /\ b = a + (b - a)
    OBVIOUS
  <1>2. r * b = r * a + r * (b - a) /\ r * (b - a) \in Nat /\ r * a \in Nat
    BY <1>1, Product
  <1>3. QED
    BY <1>2

LEMMA ProductPositive ==
  ASSUME NEW r \in Nat \ {0}, NEW a \in Nat \ {0}
  PROVE  r * a \in Nat /\ r * a >= 1
  BY SMT

\* An int keeps the numbers it can hold.
LEMMA WrapFits ==
  ASSUME NEW x \in -(IntMax + 1) .. IntMax
  PROVE  Wrap(x) = x
  <1>1. /\ 2 * (IntMax + 1) \in Nat \ {0}
        /\ x + IntMax + 1 \in 0 .. (2 * (IntMax + 1)) - 1
    BY IntAssumption
  <1>2. (x + IntMax + 1) % (2 * (IntMax + 1)) = x + IntMax + 1
    BY <1>1, ModSmall
  <1>3. QED
    BY <1>2, IntAssumption DEF Wrap

-----------------------------------------------------------------------------
(***************************************************************************)
(* What refill_tokens computes when nothing overflows: Due more tokens, up *)
(* to the brim.                                                            *)
(***************************************************************************)
Clocks ==
  /\ current \in 0 .. MaxTokens
  /\ last \in 0 .. Horizon
  /\ now \in -Horizon .. Horizon

LEMMA RefillValue ==
  ASSUME NoOverflow, Clocks
  PROVE  /\ Due \in Nat
         /\ Refilled = Cap(current + Due)
         /\ RefillTime = IF now > last THEN now ELSE last
         /\ now > last => Due = RefillRate * (now - last) /\ Due >= 1
  <1> USE BucketAssumption, HorizonAssumption, IntAssumption
  <1>1. Elapsed = now - last
    <2>1. now - last \in -(IntMax + 1) .. IntMax
      <3>1. IntMax \in Nat /\ Horizon \in Nat /\ 2 * Horizon <= IntMax
        BY DEF NoOverflow
      <3>2. QED
        BY <3>1 DEF Clocks
    <2>2. QED
      BY <2>1, WrapFits DEF Elapsed
  <1>2. CASE now > last
    <2> DEFINE e == now - last
    <2>1. e \in Nat \ {0} /\ e <= Horizon
      BY <1>2 DEF Clocks
    <2>2. /\ RefillRate * e \in Nat /\ RefillRate * e >= 1
          /\ e * RefillRate = RefillRate * e
          /\ RefillRate * e <= RefillRate * Horizon
          /\ RefillRate * Horizon \in Nat
      <3>1. RefillRate * e \in Nat /\ RefillRate * e >= 1
        BY <2>1, ProductPositive
      <3>2. e * RefillRate = RefillRate * e
        BY <2>1, Product
      <3>3. RefillRate * e <= RefillRate * Horizon
        BY <2>1, ProductMonotone
      <3>4. RefillRate * Horizon \in Nat
        BY ProductPositive
      <3>5. QED
        BY <3>1, <3>2, <3>3, <3>4
    <2> HIDE DEF e
    <2>3. current + RefillRate * e <= IntMax
      <3>1. MaxTokens + RefillRate * Horizon <= IntMax
        BY DEF NoOverflow
      <3>2. QED
        BY <2>2, <3>1 DEF Clocks
    <2>4. Wrap(RefillRate * e) = RefillRate * e
      <3>1. RefillRate * e \in -(IntMax + 1) .. IntMax
        BY <2>2, <2>3 DEF Clocks
      <3>2. QED
        BY <3>1, WrapFits
    <2>5. Wrap(current + RefillRate * e) = current + RefillRate * e
      <3>1. current + RefillRate * e \in -(IntMax + 1) .. IntMax
        BY <2>2, <2>3 DEF Clocks
      <3>2. QED
        BY <3>1, WrapFits
    <2>6. Elapsed = e /\ Elapsed > 0 /\ Due = RefillRate * e
      BY <1>1, <1>2, <2>1 DEF e, Due, Clocks
    <2>7. Refilled = Cap(current + Due) /\ RefillTime = now
      BY <2>2, <2>4, <2>5, <2>6 DEF Refilled, RefillTime
    <2>8. QED
      BY <1>2, <2>2, <2>6, <2>7 DEF e
  <1>3. CASE ~(now > last)
    <2>1. ~(Elapsed > 0) /\ Due = 0
      BY <1>1, <1>3 DEF Due, Clocks
    <2>2. Cap(current + 0) = current
      BY DEF Cap, Clocks
    <2>3. QED
      BY <1>3, <2>1, <2>2 DEF Refilled, RefillTime
  <1>4. QED
    BY <1>2, <1>3

-----------------------------------------------------------------------------
(***************************************************************************)
(* Type correctness: the bucket stays between empty and brim-full, and the *)
(* refill time never leaves the clock's range, set back or not.            *)
(***************************************************************************)
THEOREM TypeCorrect == NoOverflow => (Spec => []TypeOK)
  <1> SUFFICES ASSUME NoOverflow
               PROVE  Spec => []TypeOK
    OBVIOUS
  <1> USE BucketAssumption, HorizonAssumption DEF TypeOK
  <1>1. Init => TypeOK
    BY DEF Init
  <1>2. TypeOK /\ [Next]_vars => TypeOK'
    <2> SUFFICES ASSUME TypeOK, [Next]_vars
                 PROVE  TypeOK'
      OBVIOUS
    <2>1. Refilled \in 0 .. MaxTokens /\ RefillTime \in 0 .. Horizon
      <3>1. Clocks
        BY DEF Clocks
      <3>2. QED
        BY <3>1, RefillValue DEF Cap
    <2>2. CASE Admit
      BY <2>1, <2>2 DEF Admit
    <2>3. CASE Refuse
      BY <2>1, <2>3 DEF Refuse
    <2>4. ASSUME NEW d \in 1 .. Horizon, Tick(d)
          PROVE  TypeOK'
      BY <2>4 DEF Tick
    <2>5. ASSUME NEW d \in 1 .. Horizon, SetBack(d)
          PROVE  TypeOK'
      <3>1. now' \in -Horizon .. Horizon
        BY <2>5 DEF SetBack
      <3>2. QED
        BY <2>5, <3>1 DEF SetBack
    <2>6. CASE UNCHANGED vars
      BY <2>6 DEF vars
    <2>7. QED
      BY <2>2, <2>3, <2>4, <2>5, <2>6 DEF Next, RateLimitCheck
  <1>3. QED
    BY <1>1, <1>2, PTL DEF Spec

-----------------------------------------------------------------------------
(***************************************************************************)
(* No admission goes unpaid.  The invariant is inductive given the types:  *)
(* a check that adds RefillRate * (now - last) tokens moves last to now,   *)
(* and the bound grows by the same product.                                *)
(***************************************************************************)
THEOREM AdmissionsPaid == NoOverflow => (Spec => []NeverOverdrawn)
  <1> SUFFICES ASSUME NoOverflow
               PROVE  Spec => []NeverOverdrawn
    OBVIOUS
  <1> USE BucketAssumption, HorizonAssumption
  <1>1. Init => NeverOverdrawn
    <2>1. RefillRate * 0 = 0
      BY SMT
    <2>2. QED
      BY <2>1 DEF Init, NeverOverdrawn
  <1>2. TypeOK /\ NeverOverdrawn /\ [Next]_vars => NeverOverdrawn'
    <2> SUFFICES ASSUME TypeOK, NeverOverdrawn, [Next]_vars
                 PROVE  NeverOverdrawn'
      OBVIOUS
    <2>1. /\ current \in Nat /\ last \in Nat /\ admitted \in Nat
          /\ now \in Int /\ Clocks
      BY DEF TypeOK, Clocks
    <2>2. /\ Refilled \in Nat
          /\ admitted + Refilled <= MaxTokens + RefillRate * RefillTime
          /\ RefillRate * RefillTime \in Nat
      <3>1. /\ Due \in Nat /\ Refilled = Cap(current + Due)
            /\ RefillTime = IF now > last THEN now ELSE last
            /\ now > last => Due = RefillRate * (now - last) /\ Due >= 1
        BY <2>1, RefillValue
      <3>2. Refilled \in Nat /\ Refilled <= current + Due
        BY <2>1, <3>1 DEF Cap
      <3>3. RefillRate * last \in Nat
        BY <2>1, Product
      <3>4. CASE now > last
        <4>1. now - last \in Nat /\ now = last + (now - last)
          BY <2>1, <3>4
        <4>2. RefillRate * now = RefillRate * last + Due
          BY <2>1, <3>1, <3>4, <4>1, Product
        <4>3. QED
          BY <2>1, <3>1, <3>2, <3>3, <3>4, <4>2 DEF NeverOverdrawn
      <3>5. CASE ~(now > last)
        <4>1. Due = 0
          BY <3>5 DEF Due
        <4>2. QED
          BY <2>1, <3>1, <3>2, <3>3, <3>5, <4>1 DEF NeverOverdrawn
      <3>6. QED
        BY <3>4, <3>5
    <2>3. CASE Admit
      BY <2>1, <2>2, <2>3 DEF Admit, NeverOverdrawn
    <2>4. CASE Refuse
      BY <2>1, <2>2, <2>4 DEF Refuse, NeverOverdrawn
    <2>5. CASE UNCHANGED <<current, last, admitted>>
      BY <2>5 DEF NeverOverdrawn
    <2>6. QED
      BY <2>3, <2>4, <2>5 DEF Next, RateLimitCheck, Tick, SetBack, vars
  <1>3. QED
    BY <1>1, <1>2, TypeCorrect, PTL DEF Spec

-----------------------------------------------------------------------------
(***************************************************************************)
(* The lazy bucket implements the one that fills by itself.  As long as    *)
(* the clock has not been set back it is never behind the refill time, so  *)
(* what a tick adds to the tokens due is RefillRate times its length.      *)
(***************************************************************************)
ClockAhead == monotone => now >= last

LEMMA ClockAheadCorrect == NoOverflow => (Spec => []ClockAhead)
  <1> SUFFICES ASSUME NoOverflow
               PROVE  Spec => []ClockAhead
    OBVIOUS
  <1>1. Init => ClockAhead
    BY DEF Init, ClockAhead
  <1>2. TypeOK /\ ClockAhead /\ [Next]_vars => ClockAhead'
    <2> SUFFICES ASSUME TypeOK, ClockAhead, [Next]_vars
                 PROVE  ClockAhead'
      OBVIOUS
    <2> USE DEF ClockAhead
    <2>1. last \in Int /\ now \in Int /\ Clocks
      BY HorizonAssumption DEF TypeOK, Clocks
    <2>2. RefillTime = IF now > last THEN now ELSE last
      BY <2>1, RefillValue
    <2>3. CASE RateLimitCheck
      <3>1. last' = RefillTime /\ now' = now /\ monotone' = monotone
        BY <2>3 DEF RateLimitCheck, Admit, Refuse
      <3>2. CASE now > last
        BY <2>1, <2>2, <3>1, <3>2
      <3>3. CASE ~(now > last)
        BY <2>1, <2>2, <3>1, <3>3
      <3>4. QED
        BY <3>2, <3>3
    <2>4. ASSUME NEW d \in 1 .. Horizon, Tick(d)
          PROVE  ClockAhead'
      BY <2>1, <2>4 DEF Tick
    <2>5. ASSUME NEW d \in 1 .. Horizon, SetBack(d)
          PROVE  ClockAhead'
      BY <2>5 DEF SetBack
    <2>6. CASE UNCHANGED vars
      BY <2>6 DEF vars
    <2>7. QED
      BY <2>3, <2>4, <2>5, <2>6 DEF Next
  <1>3. QED
    BY <1>1, <1>2, TypeCorrect, PTL DEF Spec

THEOREM LazyRefillCorrect == NoOverflow => (Spec => ImplementsTokenBucket)
  <1> SUFFICES ASSUME NoOverflow
               PROVE  Spec => ImplementsTokenBucket
    OBVIOUS
  <1> USE BucketAssumption, HorizonAssumption
  <1> DEFINE Level == IF current + Due > MaxTokens THEN MaxTokens
                      ELSE current + Due
  <1>1. Init => TB!Init
    BY DEF Init, TB!Init, Due
  <1>2. TypeOK /\ ClockAhead /\ [Next]_vars => [TB!Next]_(TB!vars)
    <2> SUFFICES ASSUME TypeOK, ClockAhead, [Next]_vars
                 PROVE  [TB!Next]_(TB!vars)
      OBVIOUS
    <2>1. /\ current \in 0 .. MaxTokens /\ last \in Nat /\ now \in Int
          /\ monotone \in BOOLEAN /\ Clocks
      BY DEF TypeOK, Clocks
    <2>2. /\ Due \in Nat /\ Refilled = Level
          /\ RefillTime = IF now > last THEN now ELSE last
          /\ Refilled \in 0 .. MaxTokens
      BY <2>1, RefillValue DEF Cap
    <2>3. CASE ~monotone'
      BY <2>1, <2>3 DEF TB!Next, TB!Void, TypeOK
    <2>4. ASSUME monotone, NEW d \in 1 .. Horizon, Tick(d)
          PROVE  TB!Pass(d)
      <3>1. now >= last /\ now - last \in Nat /\ d \in Nat
        BY <2>1, <2>4 DEF ClockAhead
      <3>2. Due = RefillRate * (now - last)
        <4>1. RefillRate * 0 = 0
          BY SMT
        <4>2. QED
          BY <2>1, <3>1, <4>1 DEF Due
      <3>3. now' > last' /\ now' - last' = (now - last) + d
        BY <2>1, <2>4, <3>1 DEF Tick
      <3>4. Due' = RefillRate * ((now - last) + d)
        BY <3>3 DEF Due
      <3>5. Due' = Due + RefillRate * d /\ RefillRate * d \in Nat
        BY <3>1, <3>2, <3>4, Product
      <3>6. QED
        BY <2>1, <2>2, <2>4, <3>5 DEF Tick, TB!Pass, TB!Fill, TB!Brim
    <2>5. ASSUME monotone, RateLimitCheck
          PROVE  /\ Due' = 0
                 /\ last' = now'
      <3>1. last' = RefillTime /\ now' = now
        BY <2>5 DEF RateLimitCheck, Admit, Refuse
      <3>2. now >= last
        BY <2>5 DEF ClockAhead
      <3>3. last' = now'
        BY <2>1, <2>2, <3>1, <3>2
      <3>4. ~(now' > last')
        BY <2>1, <3>1, <3>3
      <3>5. QED
        BY <3>3, <3>4 DEF Due
    <2>6. ASSUME monotone, Admit PROVE TB!Admit
      BY <2>1, <2>2, <2>5, <2>6 DEF RateLimitCheck, Admit, TB!Admit, TB!Take
    <2>7. ASSUME monotone, Refuse PROVE TB!Refuse
      BY <2>1, <2>2, <2>5, <2>7 DEF RateLimitCheck, Refuse, TB!Refuse, TB!Empty
    <2>8. CASE UNCHANGED vars
      BY <2>8 DEF vars, TB!vars, Due
    <2>9. QED
      BY <2>3, <2>4, <2>6, <2>7, <2>8
      DEF Next, RateLimitCheck, SetBack, Tick, Admit, Refuse, TB!Next
  <1>3. QED
    BY <1>1, <1>2, TypeCorrect, ClockAheadCorrect, PTL
    DEF Spec, ImplementsTokenBucket, TB!Spec
=============================================================================
