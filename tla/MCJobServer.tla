---------------------------- MODULE MCJobServer ----------------------------
(***************************************************************************)
(* Instances of JobServer for model checking.                              *)
(***************************************************************************)
EXTENDS JobServerInvariant, TLC

Symmetry == Permutations(Jobs) \cup Permutations(Conns)

=============================================================================
