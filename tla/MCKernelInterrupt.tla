------------------------- MODULE MCKernelInterrupt -------------------------
(***************************************************************************)
(* Small instances of KernelInterrupt for TLC.                             *)
(***************************************************************************)
EXTENDS KernelInterrupt

CONSTANTS main, a    \* guest threads; main runs first

ThreadPriorities == [t \in Threads |-> IF t = a THEN UserPriorities - 1 ELSE 0]

=============================================================================
