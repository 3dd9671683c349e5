----------------------------- MODULE MCJobClient -----------------------------
(***************************************************************************)
(* Instances of JobClient for TLC.                                         *)
(***************************************************************************)
EXTENDS JobClient
=============================================================================
