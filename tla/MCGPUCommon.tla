----------------------------- MODULE MCGPUCommon -----------------------------
(***************************************************************************)
(* Small instances of GPUCommon for TLC.                                   *)
(***************************************************************************)
EXTENDS GPUCommon

CONSTANT t    \* a thread of the guest

ListPrograms ==
    {<<"draw", "finish">>, <<"sync", "finish", "suspend", "finish">>, <<"pause", "finish", "finish">>}

=============================================================================
