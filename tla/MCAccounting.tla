---------------------------- MODULE MCAccounting ----------------------------
(***************************************************************************)
(* An instance of Accounting for TLC.                                      *)
(***************************************************************************)
EXTENDS Accounting
=============================================================================
