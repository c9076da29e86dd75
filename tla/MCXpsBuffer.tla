----------------------------- MODULE MCXpsBuffer -----------------------------
(***************************************************************************)
(* An instance of XpsBuffer for TLC.                                       *)
(***************************************************************************)
EXTENDS XpsBuffer, TLC
=============================================================================
