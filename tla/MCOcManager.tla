---------------------------- MODULE MCOcManager ----------------------------
(***************************************************************************)
(* A small instance of OcManager.                                          *)
(***************************************************************************)
EXTENDS OcManager

MCRequestSize == [i \in Interfaces |-> IF i = "small" THEN 1 ELSE 2]
MCFee == [i \in Interfaces |-> 10]
MCEndowment == [s \in Slots |-> 30]

=============================================================================
