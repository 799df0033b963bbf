------------------------------ MODULE MCAssets ------------------------------
(***************************************************************************)
(* A small instance of Assets: two contracts, and a user whose probes      *)
(* start at the last place of the table and go on where those of nobody    *)
(* and of the contracts start, and whose key agrees with that of contract  *)
(* 2 in the bits that an issuance compares.                                *)
(***************************************************************************)
EXTENDS Assets

MCUserStart == [u \in Users |-> Capacity - 1]
MCUserLow == [u \in Users |-> 2]

=============================================================================
