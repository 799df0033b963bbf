----------------------------- MODULE MCLogStore -----------------------------
(***************************************************************************)
(* LogStore with one small record that enters the digest and a larger one  *)
(* that does not.                                                          *)
(***************************************************************************)
EXTENDS LogStore

MCKinds == {<<1, TRUE>>, <<3, FALSE>>}
=============================================================================
