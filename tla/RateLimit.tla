----------------------------- MODULE RateLimit -----------------------------
(***************************************************************************)
(* The rate limiter of the gateway (rate_limit.c).  One bucket serves all  *)
(* the gateway's threads; rate_limit_check holds its mutex from end to     *)
(* end, so a check is one action whichever thread makes it.  The bucket is *)
(* refilled lazily, by the check, from the seconds on the wall clock since *)
(* the last refill.                                                        *)
(*                                                                         *)
(* main creates the bucket before it starts a thread, so the behaviours    *)
(* begin with it.  The clock is counted in seconds from that moment.  It   *)
(* runs ahead by any amount between two checks, and since time(NULL) is    *)
(* the wall clock it can also be set back.                                 *)
(***************************************************************************)
EXTENDS Integers

CONSTANTS
  MaxTokens,    \* bucket->max_tokens
  RefillRate,   \* bucket->refill_rate
  IntMax,       \* INT_MAX: int arithmetic wraps beyond it
  Horizon       \* the clock stays within Horizon seconds of the start

ASSUME BucketAssumption == MaxTokens \in Nat \ {0} /\ RefillRate \in Nat \ {0}
ASSUME IntAssumption == IntMax \in Nat \ {0} /\ MaxTokens <= IntMax
ASSUME HorizonAssumption == Horizon \in Nat \ {0}

(***************************************************************************)
(* The sums of refill_tokens fit in an int.  The shipped configuration     *)
(* (1000 tokens, 100 per second) keeps this for some 248 days without a    *)
(* request.                                                                *)
(***************************************************************************)
NoOverflow ==
  /\ MaxTokens + RefillRate * Horizon <= IntMax
  /\ 2 * Horizon <= IntMax

VARIABLES
  current,      \* bucket->current_tokens
  last,         \* bucket->last_refill_time
  now,          \* what time(NULL) would return
  reply,        \* the result of the last rate_limit_check
  admitted,     \* history: requests let through so far
  monotone      \* history: the clock has never been set back

vars == <<current, last, now, reply, admitted, monotone>>

\* rate_limit_init
Init ==
  /\ current = MaxTokens
  /\ last = 0
  /\ now = 0
  /\ reply = "none"
  /\ admitted = 0
  /\ monotone = TRUE

Tick(d) ==
  /\ now + d <= Horizon
  /\ now' = now + d
  /\ UNCHANGED <<current, last, reply, admitted, monotone>>

SetBack(d) ==
  /\ now - d >= -Horizon
  /\ now' = now - d
  /\ monotone' = FALSE
  /\ UNCHANGED <<current, last, reply, admitted>>

-----------------------------------------------------------------------------
(* refill_tokens *)

\* A value stored in an int.
Wrap(x) == ((x + IntMax + 1) % (2 * (IntMax + 1))) - (IntMax + 1)

Elapsed == Wrap(now - last)

\* Mutation: a bucket with no brim.
Uncapped(n) == n
Cap(n) == IF n > MaxTokens THEN MaxTokens ELSE n

\* Mutation: a refill only after more than a second.
RefillLate ==
  IF Elapsed > 1 THEN Cap(Wrap(current + Wrap(Elapsed * RefillRate)))
                 ELSE current
Refilled ==
  IF Elapsed > 0 THEN Cap(Wrap(current + Wrap(Elapsed * RefillRate)))
                 ELSE current

\* Mutation: the refill time is kept from the first refill on.
RefillTimeKept == last
RefillTime == IF Elapsed > 0 THEN now ELSE last

(* rate_limit_check: refill, then take a token if there is one. *)

Admit ==
  /\ Refilled > 0
  /\ current' = Refilled - 1
  /\ last' = RefillTime
  /\ reply' = "admitted"
  /\ admitted' = admitted + 1
  /\ UNCHANGED <<now, monotone>>

Refuse ==
  /\ Refilled <= 0
  /\ current' = Refilled
  /\ last' = RefillTime
  /\ reply' = "refused"
  /\ UNCHANGED <<now, admitted, monotone>>

RateLimitCheck == Admit \/ Refuse

Next ==
  \/ RateLimitCheck
  \/ \E d \in 1 .. Horizon : Tick(d) \/ SetBack(d)

Spec == Init /\ [][Next]_vars

-----------------------------------------------------------------------------
(* Properties *)

(***************************************************************************)
(* In particular the bucket is never overdrawn or filled past its brim.    *)
(***************************************************************************)
TypeOK ==
  /\ current \in 0 .. MaxTokens
  /\ last \in 0 .. Horizon
  /\ now \in -Horizon .. Horizon
  /\ reply \in {"none", "admitted", "refused"}
  /\ admitted \in Nat
  /\ monotone \in BOOLEAN

(***************************************************************************)
(* Every admission is paid for: by a token the bucket was created with, or *)
(* by one that a second of the clock brought, each second counted once.    *)
(* The clock may be set back and run over the same seconds again: they     *)
(* bring no second helping, since last_refill_time never goes back.        *)
(***************************************************************************)
NeverOverdrawn ==
  admitted + current <= MaxTokens + RefillRate * last

(***************************************************************************)
(* The lazy refill cannot be told from a bucket that fills by itself:      *)
(* the bucket promised is the one kept, plus what the next check will add. *)
(***************************************************************************)
Due == IF now > last THEN RefillRate * (now - last) ELSE 0

TB == INSTANCE TokenBucket WITH
        level <- IF current + Due > MaxTokens THEN MaxTokens ELSE current + Due

ImplementsTokenBucket == TB!Spec
=============================================================================
