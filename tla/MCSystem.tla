------------------------------ MODULE MCSystem ------------------------------
(***************************************************************************)
(* An instance of System for TLC.                                          *)
(***************************************************************************)
EXTENDS System

\* The page of data.
DataPages == {2}
=============================================================================
