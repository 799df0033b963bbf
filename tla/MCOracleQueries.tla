--------------------------- MODULE MCOracleQueries ---------------------------
(***************************************************************************)
(* A small instance of OracleQueries: a committee of four, whose quorum is *)
(* three, and two replies to disagree about.                               *)
(***************************************************************************)
EXTENDS OracleQueries, TLC

CommitteeSymmetry == Permutations(Computors) \cup Permutations(Values)

=============================================================================
