-------------------------- MODULE MCKernelObjects --------------------------
(***************************************************************************)
(* Small instances of KernelObjects for TLC.                               *)
(***************************************************************************)
EXTENDS KernelObjects, TLC

CONSTANTS main, a, b,    \* guest threads; main runs first
          x, y           \* bits of event flags

(* main is the best one and b the worst, as far as the priorities go.      *)
ThreadPriorities ==
    [t \in Threads |-> IF t = main \/ UserPriorities = 1 THEN 0 ELSE IF t = a \/ UserPriorities = 2 THEN 1 ELSE 2]

TwoBits == {{x}, {y}}

(* One waiter wants both bits, one any of them and takes it.               *)
BothAndAny ==
    {[bits |-> {x, y}, wait |-> {}], [bits |-> {x}, wait |-> {PSP_EVENT_WAITOR, PSP_EVENT_WAITCLEAR}]}

(* a and b start alike, and differ for the initial order of the ready      *)
(* queue only, of which no step and no property knows.                     *)
Alike == Permutations({a, b})

NumberPriority == [p \in Packets |-> p]

=============================================================================
