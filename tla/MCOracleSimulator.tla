-------------------------- MODULE MCOracleSimulator --------------------------
(***************************************************************************)
(* Small instances of OracleSimulator.                                     *)
(***************************************************************************)
EXTENDS OracleSimulator, TLC

ContractSymmetry == Permutations(Contracts)

=============================================================================
