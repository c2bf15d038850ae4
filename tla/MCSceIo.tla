------------------------------- MODULE MCSceIo -------------------------------
(***************************************************************************)
(* Small instances of SceIo for TLC.                                       *)
(***************************************************************************)
EXTENDS SceIo

CONSTANTS a, b, save    \* threads of the guest, and a file

=============================================================================
