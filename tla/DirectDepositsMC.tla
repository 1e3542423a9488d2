------------------------- MODULE DirectDepositsMC ---------------------------
(* Model-checking instances of DirectDeposits.                               *)
EXTENDS DirectDeposits

(* Expired timers differ in nothing but their names.                         *)
TimerSymmetry == Permutations(TimerRuns)
=============================================================================
