-------------------------- MODULE ThreadQueueList --------------------------
(***************************************************************************)
(* The data structure behind threadReadyQueue (struct ThreadQueueList of   *)
(* sceKernelThread.cpp).  Every priority has an array with room at both    *)
(* ends, so that threads can be added in front or behind without moving    *)
(* the others; the array is recentred, and grown when it is nearly full,   *)
(* once either end is reached.  The queues that were ever used are linked  *)
(* from the best to the worst priority, so that the best thread is found   *)
(* without visiting the others.                                            *)
(***************************************************************************)
EXTENDS Integers, FiniteSets

CONSTANTS
    NUM_QUEUES,        \* number of priority levels, 0 being the best
    INITIAL_CAPACITY,  \* slots of a queue when it is first linked
    Threads,           \* the thread ids
    NoThread,          \* the id 0, returned when there is no thread to return
    MaxEntries,        \* bound: the most entries the queues hold together
    AllocOutcomes      \* what realloc can do: TRUE it grows the block, FALSE it fails

ASSUME ConstantsAssumption ==
    /\ NUM_QUEUES \in Nat \ {0}
    /\ INITIAL_CAPACITY \in Nat /\ INITIAL_CAPACITY >= 2
    /\ MaxEntries \in Nat
    /\ NoThread \notin Threads
    /\ AllocOutcomes \in SUBSET BOOLEAN

VARIABLES
    first,    \* the first queue that was ever used
    queues,   \* the queue of every priority
    popped    \* what the last operation returned: a thread better than limit

vars == <<first, queues, popped>>

Priorities == 0 .. NUM_QUEUES - 1
INVALID == NUM_QUEUES    \* the end of the chain: (Queue *) -1, behind every queue
NULL == -1               \* the next of a queue that was never linked
Empty == NoThread        \* a slot outside of first .. end - 1: nothing reads it

Result(limit, t) == [limit |-> limit, thread |-> t]
NoResult == Result(0, NoThread)
Results == [limit: 0 .. NUM_QUEUES, thread: Threads \cup {NoThread}]

(* The queues with an array of c slots.                                    *)
Queue(c) == [next: Priorities \cup {INVALID, NULL},
             first: Int, end: Int, capacity: {c},
             data: [0 .. c - 1 -> Threads \cup {Empty}]]

ZeroQueue == [next |-> NULL, first |-> 0, end |-> 0, capacity |-> 0, data |-> [i \in {} |-> Empty]]

Init ==
    /\ first = INVALID
    /\ queues = [p \in Priorities |-> ZeroQueue]
    /\ popped = NoResult

----------------------------------------------------------------------------
Size(q) == q.end - q.first
Linked(p) == queues[p].next # NULL

(* The slots of q when its entries move by `shift` slots into an array of  *)
(* the given capacity.                                                     *)
Moved(q, shift, capacity) ==
    [i \in 0 .. capacity - 1 |->
        IF q.first <= i - shift /\ i - shift < q.end THEN q.data[i - shift] ELSE Empty]

(* q with its entries in the middle of an array of the given capacity.     *)
Centred(q, capacity) ==
    LET newFirst == (capacity - Size(q)) \div 2 IN
    [next |-> q.next,
     first |-> newFirst, end |-> newFirst + Size(q),
     capacity |-> capacity,
     data |-> Moved(q, newFirst - q.first, capacity)]

(* Mutant: the array only counts as nearly full when no slot is free.      *)
OnlyWhenFull(q) == Size(q) >= q.capacity

NearlyFull(q) == Size(q) >= q.capacity - 2

(* The queues rebalance(p) can leave for q.                                *)
Rebalanced(q) ==
    {Centred(q, IF NearlyFull(q) /\ grown THEN 2 * q.capacity ELSE q.capacity) : grown \in AllocOutcomes}

Changed(q, newFirst, newEnd, data) ==
    [q EXCEPT !.first = newFirst, !.end = newEnd, !.data = data]

(* Writes t into slot i, which only keeps it if the array has this slot.   *)
Store(q, i, t) == [q.data EXCEPT ![i] = t]

AddedInFront(q, t) == Changed(q, q.first - 1, q.end, Store(q, q.first - 1, t))
AddedBehind(q, t) == Changed(q, q.first, q.end + 1, Store(q, q.end, t))
FirstTaken(q) == Changed(q, q.first + 1, q.end, Store(q, q.first, Empty))

(* memmove closes the gap the entry in slot i leaves.                      *)
GapClosed(q, i) ==
    [j \in DOMAIN q.data |->
        IF j = q.end - 1 THEN Empty
        ELSE IF i <= j /\ j < q.end THEN q.data[j + 1] ELSE q.data[j]]
SlotTaken(q, i) == Changed(q, q.first, q.end - 1, GapClosed(q, i))

Entries(q, t) == {i \in q.first .. q.end - 1 : q.data[i] = t}
FirstEntry(q, t) == {i \in Entries(q, t) : \A j \in Entries(q, t) : i <= j}

----------------------------------------------------------------------------
(* The chain of queues.  Reaches(p, q): following next from p leads to q.  *)
Closed(S) == \A p \in S : queues[p].next \in Priorities => queues[p].next \in S
Reaches(p, q) == \A S \in SUBSET Priorities : p \in S /\ Closed(S) => q \in S
OnChain(q) == first # INVALID /\ Reaches(first, q)
VisitedBefore(p, q) == p # q /\ OnChain(p) /\ Reaches(p, q)

(* link(p): the new queue follows the nearest better one that is linked.   *)
Better(p) == {i \in 0 .. p - 1 : Linked(i)}
NewQueue(next) ==
    [next |-> next,
     first |-> INITIAL_CAPACITY \div 2, end |-> INITIAL_CAPACITY \div 2,
     capacity |-> INITIAL_CAPACITY,
     data |-> [i \in 0 .. INITIAL_CAPACITY - 1 |-> Empty]]

Link(p) ==
    \/ /\ Better(p) = {}
       /\ queues' = [queues EXCEPT ![p] = NewQueue(first)]
       /\ first' = p
    \/ /\ \E i \in Better(p) :
            /\ \A j \in Better(p) : j <= i
            /\ queues' = [queues EXCEPT ![p] = NewQueue(queues[i].next), ![i].next = p]
       /\ UNCHANGED first

Prepare(p) ==
    /\ ~Linked(p)
    /\ Link(p)
    /\ popped' = NoResult

----------------------------------------------------------------------------
RoomInModel ==
    Cardinality(UNION {{p} \X (queues[p].first .. queues[p].end - 1) : p \in Priorities}) < MaxEntries

(* A queue is only used once it was prepared: a thread's priority is, when *)
(* the thread is created and whenever its priority changes.                *)
PushFront(p, t) ==
    /\ Linked(p) /\ RoomInModel
    /\ LET q == AddedInFront(queues[p], t) IN
       \E q2 \in IF q.first = 0 THEN Rebalanced(q) ELSE {q} :
            queues' = [queues EXCEPT ![p] = q2]
    /\ popped' = NoResult
    /\ UNCHANGED first

PushBack(p, t) ==
    /\ Linked(p) /\ RoomInModel
    /\ LET q == AddedBehind(queues[p], t) IN
       \E q2 \in IF q.end = q.capacity THEN Rebalanced(q) ELSE {q} :
            queues' = [queues EXCEPT ![p] = q2]
    /\ popped' = NoResult
    /\ UNCHANGED first

(* The walk along the chain stops at the first queue that is not empty.    *)
FoundAt(p) ==
    /\ OnChain(p) /\ Size(queues[p]) > 0
    /\ \A q \in Priorities : VisitedBefore(q, p) => Size(queues[q]) = 0

Take(p, limit) ==
    /\ popped' = Result(limit, queues[p].data[queues[p].first])
    /\ queues' = [queues EXCEPT ![p] = FirstTaken(queues[p])]
    /\ UNCHANGED first

TakeNothing(limit) == popped' = Result(limit, NoThread) /\ UNCHANGED <<first, queues>>

PopFirst ==
    \/ \E p \in Priorities : FoundAt(p) /\ Take(p, NUM_QUEUES)
    \/ ~(\E p \in Priorities : FoundAt(p)) /\ TakeNothing(NUM_QUEUES)

(* Mutant: a queue of the same priority counts as better.                  *)
FoundAsGoodAt(p, limit) == FoundAt(p) /\ p <= limit

(* The walk also stops at the first queue that is not better than `limit`. *)
FoundBetterAt(p, limit) ==
    /\ FoundAt(p) /\ p < limit
    /\ \A q \in Priorities : VisitedBefore(q, p) => q < limit

PopFirstBetter(limit) ==
    \/ \E p \in Priorities : FoundBetterAt(p, limit) /\ Take(p, limit)
    \/ ~(\E p \in Priorities : FoundBetterAt(p, limit)) /\ TakeNothing(limit)

Remove(p, t) ==
    /\ Linked(p)
    /\ \/ \E i \in FirstEntry(queues[p], t) :
            queues' = [queues EXCEPT ![p] = SlotTaken(queues[p], i)]
       \/ Entries(queues[p], t) = {} /\ UNCHANGED queues
    /\ popped' = NoResult
    /\ UNCHANGED first

(* The first entry is copied behind the last.                              *)
Rotate(p) ==
    /\ Linked(p)
    /\ \/ /\ Size(queues[p]) > 1
          /\ LET q == FirstTaken(AddedBehind(queues[p], queues[p].data[queues[p].first])) IN
             \E q2 \in IF q.end = q.capacity THEN Rebalanced(q) ELSE {q} :
                queues' = [queues EXCEPT ![p] = q2]
       \/ Size(queues[p]) <= 1 /\ UNCHANGED queues
    /\ popped' = NoResult
    /\ UNCHANGED first

Clear ==
    /\ first' = INVALID
    /\ queues' = [p \in Priorities |-> ZeroQueue]
    /\ popped' = NoResult

(* Saving the state and loading it again: every queue that has an array is *)
(* linked anew, with the capacity it had (already INITIAL_CAPACITY doubled *)
(* some number of times, so link does not round it up), and its entries    *)
(* are read back into the middle.                                          *)
Saved == {p \in Priorities : queues[p].capacity # 0}
NextSaved(p) ==
    IF \E i \in Saved : i > p
    THEN CHOOSE i \in Saved : i > p /\ \A j \in Saved : j > p => i <= j
    ELSE INVALID

SaveAndLoad ==
    /\ first' = NextSaved(-1)
    /\ queues' = [p \in Priorities |->
                    IF p \in Saved
                    THEN [Centred(queues[p], queues[p].capacity) EXCEPT !.next = NextSaved(p)]
                    ELSE ZeroQueue]
    /\ popped' = NoResult

Next ==
    \/ \E p \in Priorities, t \in Threads :
        PushFront(p, t) \/ PushBack(p, t) \/ Remove(p, t)
    \/ \E p \in Priorities : Prepare(p) \/ PopFirstBetter(p) \/ Rotate(p)
    \/ PopFirst
    \/ Clear
    \/ SaveAndLoad

Spec == Init /\ [][Next]_vars

----------------------------------------------------------------------------
(* Every queue is well formed: a queue has an array once it was linked and *)
(* is empty before, and its slots hold threads exactly between first and   *)
(* end.                                                                    *)
WellFormed(q) ==
    /\ q.capacity \in Nat /\ q \in Queue(q.capacity)
    /\ q.next # NULL <=> q.capacity # 0
    /\ q.next = NULL => q.first = q.end
    /\ \A i \in 0 .. q.capacity - 1 : q.data[i] \in Threads <=> q.first <= i /\ i < q.end

TypeOK ==
    /\ first \in Priorities \cup {INVALID}
    /\ popped \in Results
    /\ queues = [p \in Priorities |-> queues[p]]
    /\ \A p \in Priorities : WellFormed(queues[p])

(* "A too-large array with room on the front and end": between operations  *)
(* a linked queue has a free slot on either side, so that neither          *)
(* push_front nor push_back, which write before they check, can write      *)
(* outside of the array.                                                   *)
HasRoom(q) == 0 < q.first /\ q.first <= q.end /\ q.end < q.capacity
RoomAtBothEnds == \A p \in Priorities : Linked(p) => HasRoom(queues[p])

(* The arrays and the chain together implement the ready queues the        *)
(* scheduler relies on.                                                    *)
Contents(q) == [i \in 1 .. Size(q) |-> q.data[q.first + i - 1]]
RQ == INSTANCE ReadyQueues WITH ready <- [p \in Priorities |-> Contents(queues[p])]
ImplementsReadyQueues == RQ!Spec

=============================================================================
