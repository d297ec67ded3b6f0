---------------------------- MODULE TokenBucket ----------------------------
(***************************************************************************)
(* What the gateway's rate limiter promises: a bucket that fills with time *)
(* itself, RefillRate tokens for every second that goes by, and never past *)
(* its brim.  A request is let through exactly when it finds a token, and  *)
(* takes it.  The promise stands as long as the clock is not set back.     *)
(***************************************************************************)
EXTENDS Naturals

CONSTANTS
  MaxTokens,    \* the brim of the bucket
  RefillRate,   \* tokens per second
  Horizon       \* the longest the clock runs between two events

VARIABLES
  level,        \* the tokens in the bucket now
  reply,        \* what the last request was told
  monotone      \* the clock has never been set back

vars == <<level, reply, monotone>>

Brim(n) == IF n > MaxTokens THEN MaxTokens ELSE n

Init ==
  /\ level = MaxTokens
  /\ reply = "none"
  /\ monotone = TRUE

Fill(d) == level' = Brim(level + RefillRate * d)

Take ==
  /\ level > 0
  /\ level' = level - 1

Empty ==
  /\ level = 0
  /\ UNCHANGED level

Pass(d) == Fill(d) /\ UNCHANGED reply
Admit == Take /\ reply' = "admitted"
Refuse == Empty /\ reply' = "refused"

\* Nothing is promised of a clock that has been set back.
Void == monotone' = FALSE

Next ==
  \/ /\ monotone /\ UNCHANGED monotone
     /\ (\E d \in 1 .. Horizon : Pass(d)) \/ Admit \/ Refuse
  \/ Void

Spec == Init /\ [][Next]_vars
=============================================================================
