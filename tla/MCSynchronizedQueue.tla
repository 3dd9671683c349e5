------------------------- MODULE MCSynchronizedQueue -------------------------
(***************************************************************************)
(* Instances of SynchronizedQueue for TLC.  (No symmetry: the run checks   *)
(* liveness.)                                                              *)
(***************************************************************************)
EXTENDS SynchronizedQueue
=============================================================================
