--------------------------- MODULE MCUploadClient ---------------------------
(***************************************************************************)
(* Two clients with a module each, for one slot.                           *)
(***************************************************************************)
EXTENDS UploadClient

MCStateSize == [m \in Modules |-> 1]
MCMigrateFrom == [m \in Modules |-> 0]
MCWants == [c \in Sessions |-> IF c = "a" THEN "v1" ELSE "v2"]
MCTarget == [c \in Sessions |-> 1]

=============================================================================
