-------------------------- MODULE MCInterruptQueue --------------------------
(***************************************************************************)
(* Small instances of InterruptQueue for TLC.                              *)
(***************************************************************************)
EXTENDS InterruptQueue

CONSTANTS v1, v2    \* the vertical blank's sub-interrupts

Handlers == <<v1, v2>>

=============================================================================
