---------------------------- MODULE MCCoreTiming ----------------------------
(***************************************************************************)
(* Small instances of CoreTiming for TLC.                                  *)
(***************************************************************************)
EXTENDS CoreTiming

CONSTANTS vblank, sync    \* kinds of events

=============================================================================
