---------------------------- MODULE MCDeployments ----------------------------
(***************************************************************************)
(* Small instances of Deployments.  "v1" and "v2" have states of different *)
(* sizes and "v2" migrates from "v1".                                      *)
(***************************************************************************)
EXTENDS Deployments, TLC

MCStateSize == [m \in Modules |-> IF m = "v2" THEN 2 ELSE 1]
MCMigrateFrom == [m \in Modules |-> IF m = "v2" THEN 1 ELSE 0]
SessionSymmetry == Permutations(Sessions)

=============================================================================
