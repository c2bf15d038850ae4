---------------------------- MODULE ReadyQueues ----------------------------
(***************************************************************************)
(* What the scheduler relies on when it uses its ready queue: for every    *)
(* priority a double-ended queue of thread ids, smaller priorities being   *)
(* better.  ThreadQueueList implements this with growing arrays and a      *)
(* linked list of the queues that were ever used.                          *)
(***************************************************************************)
EXTENDS Naturals, Sequences

LOCAL Seqs == INSTANCE SequencesExt

CONSTANTS
    NUM_QUEUES,   \* number of priority levels, 0 being the best
    Threads,      \* the thread ids
    NoThread      \* the id 0, returned when there is no thread to return

VARIABLES
    ready,        \* ready[p]: the threads of priority p, the next to run first
    popped        \* what the last operation returned: a thread better than limit

Priorities == 0 .. NUM_QUEUES - 1
Result(limit, t) == [limit |-> limit, thread |-> t]
NoResult == Result(0, NoThread)

Init ==
    /\ ready = [p \in Priorities |-> << >>]
    /\ popped = NoResult

----------------------------------------------------------------------------
PushFront(p, t) ==
    /\ ready' = [ready EXCEPT ![p] = <<t>> \o @]
    /\ popped' = NoResult

PushBack(p, t) ==
    /\ ready' = [ready EXCEPT ![p] = Append(@, t)]
    /\ popped' = NoResult

(* The best thread that is better than priority `limit` leaves the queue.  *)
PopBetterThan(limit) ==
    \/ \E p \in Priorities :
        /\ p < limit
        /\ ready[p] # << >>
        /\ \A q \in Priorities : q < p => ready[q] = << >>
        /\ popped' = Result(limit, Head(ready[p]))
        /\ ready' = [ready EXCEPT ![p] = Tail(@)]
    \/ /\ \A p \in Priorities : p < limit => ready[p] = << >>
       /\ popped' = Result(limit, NoThread)
       /\ UNCHANGED ready

PopFirst == PopBetterThan(NUM_QUEUES)

Remove(p, t) ==
    /\ ready' = [ready EXCEPT ![p] = Seqs!RemoveFirst(@, t)]
    /\ popped' = NoResult

Rotate(p) ==
    /\ ready' = [ready EXCEPT ![p] = IF @ = << >> THEN @ ELSE Append(Tail(@), Head(@))]
    /\ popped' = NoResult

Clear ==
    /\ ready' = [p \in Priorities |-> << >>]
    /\ popped' = NoResult

Next ==
    \/ \E p \in Priorities, t \in Threads :
        PushFront(p, t) \/ PushBack(p, t) \/ Remove(p, t)
    \/ \E p \in Priorities : PopBetterThan(p) \/ Rotate(p)
    \/ PopFirst
    \/ Clear

Spec == Init /\ [][Next]_<<ready, popped>>

=============================================================================
