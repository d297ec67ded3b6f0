--------------------------- MODULE MCThreadPool ----------------------------
(***************************************************************************)
(* Instances of ThreadPool for the model checker.                          *)
(***************************************************************************)
EXTENDS ThreadPool

CONSTANTS w1, w2, r1, r2, t1, t2, t3, none

TwoWorkers == {w1, w2}
TwoReactors == {r1, r2}
ThreeTasks == {t1, t2, t3}
=============================================================================
