-------------------------------- MODULE Sums --------------------------------
(***************************************************************************)
(* The sum of a function's values over a finite set, which the             *)
(* conservation laws of the other modules are stated with.                 *)
(***************************************************************************)
EXTENDS Integers, FiniteSets, Folds

Total(f, S) ==
  MapThenFoldSet(+, 0, LAMBDA x : f[x], LAMBDA T : CHOOSE x \in T : TRUE, S)
=============================================================================
