------------------------------- MODULE Queues -------------------------------
(***************************************************************************)
(* What the code does with its lists in more than one place: it goes       *)
(* through one, front to back, and leaves out what does not qualify.       *)
(***************************************************************************)
EXTENDS Naturals, Sequences

(* The elements of the sequence q that are in the set S, in their order.   *)
Selected(q, S) ==
    LET upTo[n \in 0 .. Len(q)] ==
            IF n = 0 THEN << >> ELSE IF q[n] \in S THEN Append(upTo[n - 1], q[n]) ELSE upTo[n - 1]
    IN  upTo[Len(q)]

=============================================================================
