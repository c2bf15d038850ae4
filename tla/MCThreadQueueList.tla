-------------------------- MODULE MCThreadQueueList --------------------------
(***************************************************************************)
(* A small instance of ThreadQueueList for TLC.  Nothing tells one thread  *)
(* from another.                                                           *)
(***************************************************************************)
EXTENDS ThreadQueueList, TLC

Symmetry == Permutations(Threads)

=============================================================================
