----------------------- MODULE ThreadQueueList_proofs -----------------------
(***************************************************************************)
(* For any number of priorities and threads and any initial capacity of at *)
(* least two slots, and as long as realloc does not fail, ThreadQueueList  *)
(* never writes outside of its arrays: RoomAtBothEnds is inductive with    *)
(* TypeOK.  Each operation is a change to one queue, described by a lemma, *)
(* that touches neither the other queues nor the chain.                    *)
(***************************************************************************)
EXTENDS ThreadQueueList, WellFoundedInduction, TLAPS

(* A queue in use.                                                         *)
InUse(q) == WellFormed(q) /\ q.next # NULL

(* A queue one of whose ends may have been reached.                        *)
AtMostFull(q) ==
    /\ InUse(q)
    /\ 0 <= q.first /\ q.first <= q.end /\ q.end <= q.capacity
    /\ Size(q) < q.capacity /\ q.capacity >= 2

(* An array with at least two more slots than entries has room on both     *)
(* sides of the entries that were moved to its middle.                     *)
LEMMA CentredHasRoom ==
    ASSUME NEW q, NEW c \in Nat, AtMostFull(q), Size(q) <= c - 2
    PROVE  InUse(Centred(q, c)) /\ HasRoom(Centred(q, c))
<1> DEFINE newFirst == (c - Size(q)) \div 2
           d == Centred(q, c)
           slot(i) == i - (newFirst - q.first)
<1>1. /\ q.first \in Int /\ q.end \in Int /\ q.capacity \in Nat
      /\ q.next \in Priorities \cup {INVALID, NULL} /\ q.next # NULL
      /\ q \in Queue(q.capacity)
  BY DEF AtMostFull, InUse, WellFormed, Queue
<1>2. newFirst \in Int /\ 0 < newFirst /\ newFirst + Size(q) < c
  BY <1>1 DEF AtMostFull, Size
<1>3. /\ d.first = newFirst /\ d.end = newFirst + Size(q) /\ d.capacity = c /\ d.next = q.next
      /\ d.data = Moved(q, newFirst - q.first, c)
  BY DEF Centred
<1>4. \A i \in 0 .. c - 1 :
        /\ d.data[i] \in Threads \cup {Empty}
        /\ d.data[i] \in Threads <=> d.first <= i /\ i < d.end
  <2> SUFFICES ASSUME NEW i \in 0 .. c - 1
               PROVE  /\ d.data[i] \in Threads \cup {Empty}
                      /\ d.data[i] \in Threads <=> d.first <= i /\ i < d.end
    OBVIOUS
  <2>1. q.first <= slot(i) /\ slot(i) < q.end <=> d.first <= i /\ i < d.end
    BY <1>1, <1>2, <1>3 DEF Size
  <2>2. d.data[i] = IF q.first <= slot(i) /\ slot(i) < q.end THEN q.data[slot(i)] ELSE Empty
    BY <1>3 DEF Moved
  <2>3. ASSUME q.first <= slot(i), slot(i) < q.end
        PROVE  q.data[slot(i)] \in Threads
    BY <2>3, <1>1, <1>2 DEF AtMostFull, InUse, WellFormed
  <2> QED
    BY <2>1, <2>2, <2>3, ConstantsAssumption DEF Empty
<1>5. d.data \in [0 .. c - 1 -> Threads \cup {Empty}]
  BY <1>3, <1>4 DEF Moved
<1>6. HasRoom(d)
  BY <1>1, <1>2, <1>3 DEF HasRoom, Size, AtMostFull
<1>7. d \in Queue(c)
  <2>1. newFirst \in Int /\ newFirst + Size(q) \in Int
    BY <1>1, <1>2 DEF Size
  <2>2. Moved(q, newFirst - q.first, c) \in [0 .. c - 1 -> Threads \cup {Empty}]
    BY <1>3, <1>5
  <2> HIDE DEF newFirst
  <2> QED
    BY <1>1, <2>1, <2>2 DEF Queue, Centred, newFirst
<1> QED
  BY <1>1, <1>2, <1>3, <1>4, <1>6, <1>7 DEF InUse, WellFormed, AtMostFull, Size

LEMMA RebalancedHasRoom ==
    ASSUME AllocOutcomes \subseteq {TRUE}, NEW q, AtMostFull(q), NEW r \in Rebalanced(q)
    PROVE  InUse(r) /\ HasRoom(r)
<1>1. q.first \in Int /\ q.end \in Int /\ q.capacity \in Nat
  BY DEF AtMostFull, InUse, WellFormed, Queue
<1>2. r = Centred(q, IF NearlyFull(q) THEN 2 * q.capacity ELSE q.capacity)
  BY DEF Rebalanced
<1>3. CASE NearlyFull(q)
  <2>1. 2 * q.capacity \in Nat /\ Size(q) <= 2 * q.capacity - 2
    BY <1>1 DEF AtMostFull, Size
  <2> QED
    BY <1>2, <1>3, <2>1, CentredHasRoom
<1>4. CASE ~NearlyFull(q)
  <2>1. Size(q) <= q.capacity - 2
    BY <1>1, <1>4 DEF NearlyFull, Size
  <2> QED
    BY <1>1, <1>2, <1>4, <2>1, CentredHasRoom
<1> QED
  BY <1>3, <1>4

----------------------------------------------------------------------------
(* The changes of a single queue.  Those that add an entry may use up the  *)
(* free slot on one side, and leave a queue that is at most full.          *)
LEMMA QueueFields ==
    ASSUME NEW q, WellFormed(q)
    PROVE  /\ q.first \in Int /\ q.end \in Int /\ q.capacity \in Nat
           /\ q.next \in Priorities \cup {INVALID, NULL}
           /\ q.data \in [0 .. q.capacity - 1 -> Threads \cup {Empty}]
BY DEF WellFormed, Queue

(* The slots d of an array of c hold threads exactly from f to e - 1.      *)
Fits(d, c, f, e) ==
    /\ d \in [0 .. c - 1 -> Threads \cup {Empty}]
    /\ \A i \in 0 .. c - 1 : d[i] \in Threads <=> f <= i /\ i < e

LEMMA ChangedIsQueue ==
    ASSUME NEW q, InUse(q), NEW f \in Int, NEW e \in Int, NEW d, Fits(d, q.capacity, f, e)
    PROVE  /\ InUse(Changed(q, f, e, d))
           /\ Changed(q, f, e, d).first = f
           /\ Changed(q, f, e, d).end = e
           /\ Changed(q, f, e, d).capacity = q.capacity
<1> DEFINE r == Changed(q, f, e, d)
<1>1. q \in Queue(q.capacity) /\ q.capacity \in Nat
  BY DEF InUse, WellFormed
<1>4. d \in [0 .. q.capacity - 1 -> Threads \cup {Empty}]
  BY DEF Fits
<1>2. r \in Queue(q.capacity)
  BY <1>1, <1>4 DEF Changed, Queue
<1>3. r.first = f /\ r.end = e /\ r.capacity = q.capacity /\ r.data = d /\ r.next = q.next
  BY <1>1 DEF Changed, Queue
<1> QED
  BY <1>1, <1>2, <1>3 DEF InUse, WellFormed, Fits

LEMMA AddedInFrontIsQueue ==
    ASSUME NEW q, NEW t \in Threads, InUse(q), HasRoom(q)
    PROVE  LET r == AddedInFront(q, t) IN
           AtMostFull(r) /\ (r.first # 0 => HasRoom(r))
<1> DEFINE d == Store(q, q.first - 1, t)
<1>1. /\ q.first \in Int /\ q.end \in Int /\ q.capacity \in Nat
      /\ q.data \in [0 .. q.capacity - 1 -> Threads \cup {Empty}]
      /\ \A i \in 0 .. q.capacity - 1 : q.data[i] \in Threads <=> q.first <= i /\ i < q.end
      /\ 0 < q.first /\ q.first <= q.end /\ q.end < q.capacity
  BY QueueFields DEF InUse, WellFormed, HasRoom
<1>2. d \in [0 .. q.capacity - 1 -> Threads \cup {Empty}]
  BY <1>1 DEF Store
<1>3. \A i \in 0 .. q.capacity - 1 : d[i] \in Threads <=> q.first - 1 <= i /\ i < q.end
  BY <1>1 DEF Store
<1> HIDE DEF d
<1>4. InUse(q) /\ q.first - 1 \in Int /\ q.end \in Int
  BY <1>1 DEF AtMostFull
<1>6. Fits(d, q.capacity, q.first - 1, q.end)
  BY <1>2, <1>3 DEF Fits
<1>5. LET r == Changed(q, q.first - 1, q.end, d) IN
      InUse(r) /\ r.first = q.first - 1 /\ r.end = q.end /\ r.capacity = q.capacity
  BY <1>4, <1>6, ChangedIsQueue
<1> QED
  BY <1>1, <1>5 DEF AtMostFull, HasRoom, Size, AddedInFront, d

LEMMA AddedBehindIsQueue ==
    ASSUME NEW q, NEW t \in Threads, InUse(q), HasRoom(q)
    PROVE  LET r == AddedBehind(q, t) IN
           AtMostFull(r) /\ 0 < r.first /\ r.first < r.end /\ (r.end # r.capacity => HasRoom(r))
<1> DEFINE d == Store(q, q.end, t)
<1>1. /\ q.first \in Int /\ q.end \in Int /\ q.capacity \in Nat
      /\ q.data \in [0 .. q.capacity - 1 -> Threads \cup {Empty}]
      /\ \A i \in 0 .. q.capacity - 1 : q.data[i] \in Threads <=> q.first <= i /\ i < q.end
      /\ 0 < q.first /\ q.first <= q.end /\ q.end < q.capacity
  BY QueueFields DEF InUse, WellFormed, HasRoom
<1>2. d \in [0 .. q.capacity - 1 -> Threads \cup {Empty}]
  BY <1>1 DEF Store
<1>3. \A i \in 0 .. q.capacity - 1 : d[i] \in Threads <=> q.first <= i /\ i < q.end + 1
  BY <1>1 DEF Store
<1> HIDE DEF d
<1>4. InUse(q) /\ q.first \in Int /\ q.end + 1 \in Int
  BY <1>1 DEF AtMostFull
<1>6. Fits(d, q.capacity, q.first, q.end + 1)
  BY <1>2, <1>3 DEF Fits
<1>5. LET r == Changed(q, q.first, q.end + 1, d) IN
      InUse(r) /\ r.first = q.first /\ r.end = q.end + 1 /\ r.capacity = q.capacity
  BY <1>4, <1>6, ChangedIsQueue
<1> QED
  BY <1>1, <1>5 DEF AtMostFull, HasRoom, Size, AddedBehind, d

LEMMA FirstTakenIsQueue ==
    ASSUME NEW q, AtMostFull(q), 0 < q.first, q.first < q.end
    PROVE  LET r == FirstTaken(q) IN
           /\ AtMostFull(r) /\ 0 < r.first /\ r.end = q.end /\ r.capacity = q.capacity
           /\ q.data[q.first] \in Threads
<1> DEFINE d == Store(q, q.first, Empty)
<1>1. /\ q.first \in Int /\ q.end \in Int /\ q.capacity \in Nat
      /\ q.data \in [0 .. q.capacity - 1 -> Threads \cup {Empty}]
      /\ \A i \in 0 .. q.capacity - 1 : q.data[i] \in Threads <=> q.first <= i /\ i < q.end
      /\ q.end <= q.capacity /\ Size(q) < q.capacity /\ q.capacity >= 2
  BY QueueFields DEF AtMostFull, InUse, WellFormed
<1>2. d \in [0 .. q.capacity - 1 -> Threads \cup {Empty}]
  BY <1>1 DEF Store
<1>3. \A i \in 0 .. q.capacity - 1 : d[i] \in Threads <=> q.first + 1 <= i /\ i < q.end
  BY <1>1, ConstantsAssumption DEF Store, Empty
<1> HIDE DEF d
<1>4. InUse(q) /\ q.first + 1 \in Int /\ q.end \in Int
  BY <1>1 DEF AtMostFull
<1>6. Fits(d, q.capacity, q.first + 1, q.end)
  BY <1>2, <1>3 DEF Fits
<1>5. LET r == Changed(q, q.first + 1, q.end, d) IN
      InUse(r) /\ r.first = q.first + 1 /\ r.end = q.end /\ r.capacity = q.capacity
  BY <1>4, <1>6, ChangedIsQueue
<1>7. q.data[q.first] \in Threads
  BY <1>1
<1> QED
  BY <1>1, <1>5, <1>7 DEF AtMostFull, Size, FirstTaken, d

LEMMA SlotTakenIsQueue ==
    ASSUME NEW q, InUse(q), HasRoom(q), NEW i \in q.first .. q.end - 1
    PROVE  InUse(SlotTaken(q, i)) /\ HasRoom(SlotTaken(q, i))
<1> DEFINE d == GapClosed(q, i)
<1> HIDE DEF d
<1>1. /\ q.first \in Int /\ q.end \in Int /\ q.capacity \in Nat
      /\ q.data \in [0 .. q.capacity - 1 -> Threads \cup {Empty}]
      /\ \A j \in 0 .. q.capacity - 1 : q.data[j] \in Threads <=> q.first <= j /\ j < q.end
      /\ 0 < q.first /\ q.first <= q.end /\ q.end < q.capacity
      /\ i \in Int /\ q.first <= i /\ i < q.end
  BY QueueFields DEF InUse, WellFormed, HasRoom
<1>2. ASSUME NEW j \in 0 .. q.capacity - 1
      PROVE  /\ d[j] \in Threads \cup {Empty}
             /\ d[j] \in Threads <=> q.first <= j /\ j < q.end - 1
  <2>1. CASE j = q.end - 1
    BY <2>1, <1>1, ConstantsAssumption DEF Empty, GapClosed, d
  <2>2. CASE i <= j /\ j < q.end - 1
    <3>1. d[j] = q.data[j + 1] /\ j + 1 \in 0 .. q.capacity - 1
      BY <2>2, <1>1 DEF GapClosed, d
    <3> QED
      BY <2>2, <3>1, <1>1
  <2>3. CASE ~(i <= j /\ j < q.end)
    <3>1. d[j] = q.data[j]
      BY <2>3, <1>1 DEF GapClosed, d
    <3> QED
      BY <2>3, <3>1, <1>1
  <2> QED
    BY <2>1, <2>2, <2>3, <1>1
<1>3. d \in [0 .. q.capacity - 1 -> Threads \cup {Empty}]
  BY <1>1, <1>2 DEF GapClosed, d
<1>4. InUse(q) /\ q.first \in Int /\ q.end - 1 \in Int
  BY <1>1 DEF AtMostFull
<1>6. Fits(d, q.capacity, q.first, q.end - 1)
  BY <1>2, <1>3 DEF Fits
<1>5. LET r == Changed(q, q.first, q.end - 1, d) IN
      InUse(r) /\ r.first = q.first /\ r.end = q.end - 1 /\ r.capacity = q.capacity
  BY <1>4, <1>6, ChangedIsQueue
<1> QED
  BY <1>1, <1>5 DEF HasRoom, SlotTaken, d

----------------------------------------------------------------------------
(* Every non-empty set of naturals has a smallest element.                 *)
LEMMA Smallest ==
    ASSUME NEW S \in SUBSET Nat, S # {}
    PROVE  \E i \in S : \A j \in S : i <= j
<1>1. PICK i \in S : \A j \in S : ~(<<j, i>> \in OpToRel(<, Nat))
  BY NatLessThanWellFounded, WFMin
<1>2. \A j \in S : ~(j < i)
  BY <1>1 DEF OpToRel
<1> QED
  BY <1>2

LEMMA NextSavedType ==
    ASSUME NEW p \in Priorities \cup {-1}
    PROVE  NextSaved(p) \in Priorities \cup {INVALID}
<1>1. CASE \E i \in Saved : i > p
  <2> DEFINE S == {i \in Saved : i > p}
  <2>1. S \in SUBSET Nat /\ S # {}
    BY <1>1, ConstantsAssumption DEF Saved, Priorities
  <2>2. \E i \in S : \A j \in S : i <= j
    BY <2>1, Smallest
  <2>3. \E i \in Saved : i > p /\ \A j \in Saved : j > p => i <= j
    BY <2>2
  <2> QED
    BY <1>1, <2>3 DEF NextSaved, Saved
<1> QED
  BY <1>1 DEF NextSaved

----------------------------------------------------------------------------
(* The inductive invariant.                                                *)
IInv == TypeOK /\ RoomAtBothEnds

(* What the operations return.                                             *)
LEMMA ResultTypes ==
    /\ NoResult \in Results
    /\ \A limit \in 0 .. NUM_QUEUES, t \in Threads \cup {NoThread} : Result(limit, t) \in Results
BY ConstantsAssumption DEF NoResult, Result, Results

LEMMA LinkedInUse ==
    ASSUME IInv, NEW p \in Priorities, Linked(p)
    PROVE  InUse(queues[p]) /\ HasRoom(queues[p])
BY DEF IInv, TypeOK, RoomAtBothEnds, InUse, Linked

(* An operation that leaves one queue in use and with room, and the others *)
(* and the chain as they were, keeps the invariant.                        *)
LEMMA OneQueueChanges ==
    ASSUME IInv, NEW p \in Priorities, NEW r, InUse(r), HasRoom(r),
           queues' = [queues EXCEPT ![p] = r], first' = first,
           popped' \in Results
    PROVE  IInv'
<1>1. queues' = [q \in Priorities |-> IF q = p THEN r ELSE queues[q]]
  BY DEF IInv, TypeOK
<1>2. TypeOK'
  BY <1>1 DEF IInv, TypeOK, InUse
<1>3. RoomAtBothEnds'
  BY <1>1 DEF IInv, RoomAtBothEnds, Linked
<1> QED
  BY <1>2, <1>3 DEF IInv

LEMMA NoQueueChanges ==
    ASSUME IInv, UNCHANGED <<first, queues>>, popped' \in Results
    PROVE  IInv'
BY DEF IInv, TypeOK, RoomAtBothEnds, Linked

LEMMA PushFrontStep ==
    ASSUME AllocOutcomes \subseteq {TRUE}, IInv,
           NEW p \in Priorities, NEW t \in Threads, PushFront(p, t)
    PROVE  IInv'
<1> DEFINE q == AddedInFront(queues[p], t)
<1>1. InUse(queues[p]) /\ HasRoom(queues[p])
  BY LinkedInUse DEF PushFront
<1>2. AtMostFull(q) /\ (q.first # 0 => HasRoom(q))
  BY <1>1, AddedInFrontIsQueue
<1>3. PICK r \in IF q.first = 0 THEN Rebalanced(q) ELSE {q} : queues' = [queues EXCEPT ![p] = r]
  BY DEF PushFront
<1> HIDE DEF q
<1>4. InUse(r) /\ HasRoom(r)
  BY <1>2, <1>3, RebalancedHasRoom DEF AtMostFull
<1> QED
  BY <1>3, <1>4, OneQueueChanges, ResultTypes DEF PushFront

LEMMA PushBackStep ==
    ASSUME AllocOutcomes \subseteq {TRUE}, IInv,
           NEW p \in Priorities, NEW t \in Threads, PushBack(p, t)
    PROVE  IInv'
<1> DEFINE q == AddedBehind(queues[p], t)
<1>1. InUse(queues[p]) /\ HasRoom(queues[p])
  BY LinkedInUse DEF PushBack
<1>2. AtMostFull(q) /\ (q.end # q.capacity => HasRoom(q))
  BY <1>1, AddedBehindIsQueue
<1>3. PICK r \in IF q.end = q.capacity THEN Rebalanced(q) ELSE {q} : queues' = [queues EXCEPT ![p] = r]
  BY DEF PushBack
<1> HIDE DEF q
<1>4. InUse(r) /\ HasRoom(r)
  BY <1>2, <1>3, RebalancedHasRoom DEF AtMostFull
<1> QED
  BY <1>3, <1>4, OneQueueChanges, ResultTypes DEF PushBack

(* The first entry of a queue that is not empty can be taken.              *)
LEMMA TakeStep ==
    ASSUME IInv, NEW p \in Priorities, Size(queues[p]) > 0, Linked(p),
           NEW limit \in 0 .. NUM_QUEUES, Take(p, limit)
    PROVE  IInv'
<1> DEFINE q == queues[p]
<1>1. InUse(q) /\ HasRoom(q)
  BY LinkedInUse
<1>2. /\ q.first \in Int /\ q.end \in Int /\ q.capacity \in Nat
  BY <1>1, QueueFields DEF InUse
<1>3. AtMostFull(q) /\ 0 < q.first /\ q.first < q.end
  BY <1>1, <1>2 DEF AtMostFull, HasRoom, Size
<1> HIDE DEF q
<1>4. /\ AtMostFull(FirstTaken(q)) /\ 0 < FirstTaken(q).first
      /\ FirstTaken(q).end = q.end /\ FirstTaken(q).capacity = q.capacity
      /\ q.data[q.first] \in Threads
  BY <1>3, FirstTakenIsQueue
<1>5. InUse(FirstTaken(q)) /\ HasRoom(FirstTaken(q))
  BY <1>1, <1>4 DEF AtMostFull, HasRoom
<1> QED
  BY <1>4, <1>5, OneQueueChanges, ResultTypes DEF Take, q

LEMMA RemoveStep ==
    ASSUME IInv, NEW p \in Priorities, NEW t \in Threads, Remove(p, t)
    PROVE  IInv'
<1>1. InUse(queues[p]) /\ HasRoom(queues[p])
  BY LinkedInUse DEF Remove
<1>2. CASE UNCHANGED queues
  BY <1>2, NoQueueChanges, ResultTypes DEF Remove
<1>3. CASE ~UNCHANGED queues
  <2>1. PICK i \in FirstEntry(queues[p], t) : queues' = [queues EXCEPT ![p] = SlotTaken(queues[p], i)]
    BY <1>3 DEF Remove
  <2>2. InUse(SlotTaken(queues[p], i)) /\ HasRoom(SlotTaken(queues[p], i))
    BY <1>1, SlotTakenIsQueue DEF FirstEntry, Entries
  <2> QED
    BY <2>1, <2>2, OneQueueChanges, ResultTypes DEF Remove
<1> QED
  BY <1>2, <1>3

(* Rotating first fills the slot behind the last entry, which is free, and *)
(* then gives up the one of the first.                                     *)
LEMMA RotateStep ==
    ASSUME AllocOutcomes \subseteq {TRUE}, IInv, NEW p \in Priorities, Rotate(p)
    PROVE  IInv'
<1> DEFINE a == AddedBehind(queues[p], queues[p].data[queues[p].first])
           q == FirstTaken(a)
<1>1. InUse(queues[p]) /\ HasRoom(queues[p])
  BY LinkedInUse DEF Rotate
<1>2. CASE UNCHANGED queues
  BY <1>2, NoQueueChanges, ResultTypes DEF Rotate
<1>3. CASE ~UNCHANGED queues
  <2>1. PICK r \in IF q.end = q.capacity THEN Rebalanced(q) ELSE {q} : queues' = [queues EXCEPT ![p] = r]
    BY <1>3 DEF Rotate
  <2>2. Size(queues[p]) > 1
    BY <1>3 DEF Rotate
  <2>3. queues[p].data[queues[p].first] \in Threads
    <3>1. /\ queues[p].first \in Int /\ queues[p].end \in Int /\ queues[p].capacity \in Nat
      BY <1>1, QueueFields DEF InUse
    <3> QED
      BY <1>1, <2>2, <3>1 DEF InUse, WellFormed, HasRoom, Size
  <2>4. AtMostFull(a) /\ 0 < a.first /\ a.first < a.end
    BY <1>1, <2>3, AddedBehindIsQueue
  <2> HIDE DEF a
  <2>5. AtMostFull(q) /\ 0 < q.first
    BY <2>4, FirstTakenIsQueue
  <2> HIDE DEF q
  <2>6. q.first \in Int /\ q.end \in Int /\ q.capacity \in Nat
    BY <2>5, QueueFields DEF AtMostFull, InUse
  <2>7. InUse(r) /\ HasRoom(r)
    <3>1. CASE q.end = q.capacity
      BY <3>1, <2>1, <2>5, RebalancedHasRoom
    <3>2. CASE q.end # q.capacity
      BY <3>2, <2>1, <2>5, <2>6 DEF AtMostFull, HasRoom
    <3> QED
      BY <3>1, <3>2
  <2> QED
    BY <2>1, <2>7, OneQueueChanges, ResultTypes DEF Rotate
<1> QED
  BY <1>2, <1>3

LEMMA PopStep ==
    ASSUME IInv, NEW p \in Priorities, FoundAt(p),
           NEW limit \in 0 .. NUM_QUEUES, Take(p, limit)
    PROVE  IInv'
<1>1. Linked(p)
  <2> SUFFICES ASSUME queues[p].next = NULL PROVE FALSE
    BY DEF Linked
  <2>1. queues[p].first = queues[p].end /\ queues[p].first \in Int
    BY QueueFields DEF IInv, TypeOK, WellFormed
  <2> QED
    BY <2>1 DEF FoundAt, Size
<1> QED
  BY <1>1, TakeStep DEF FoundAt

LEMMA NothingTakenStep ==
    ASSUME IInv, NEW limit \in 0 .. NUM_QUEUES, TakeNothing(limit)
    PROVE  IInv'
BY NoQueueChanges, ResultTypes DEF TakeNothing

(* A queue is linked with room on both sides because it starts with at     *)
(* least two slots; its neighbour only gets another next.                  *)
LEMMA PrepareStep ==
    ASSUME IInv, NEW p \in Priorities, Prepare(p)
    PROVE  IInv'
<1>1. ASSUME NEW n \in Priorities \cup {INVALID}
      PROVE  InUse(NewQueue(n)) /\ HasRoom(NewQueue(n))
  <2> DEFINE q == NewQueue(n)
             slots == [i \in 0 .. INITIAL_CAPACITY - 1 |-> Empty]
  <2>1. /\ INITIAL_CAPACITY \div 2 \in Int /\ 0 < INITIAL_CAPACITY \div 2
        /\ INITIAL_CAPACITY \div 2 < INITIAL_CAPACITY /\ INITIAL_CAPACITY \in Nat
    BY ConstantsAssumption
  <2>2. slots \in [0 .. INITIAL_CAPACITY - 1 -> Threads \cup {Empty}]
    OBVIOUS
  <2>3. \A i \in 0 .. INITIAL_CAPACITY - 1 : slots[i] \notin Threads
    BY ConstantsAssumption DEF Empty
  <2> HIDE DEF slots
  <2>4. n # NULL
    BY ConstantsAssumption DEF Priorities, INVALID, NULL
  <2>5. q = [next |-> n, first |-> INITIAL_CAPACITY \div 2, end |-> INITIAL_CAPACITY \div 2,
             capacity |-> INITIAL_CAPACITY, data |-> slots]
    BY DEF NewQueue, slots
  <2>6. q \in Queue(INITIAL_CAPACITY)
    BY <2>1, <2>2, <2>5 DEF Queue
  <2> QED
    BY <2>1, <2>3, <2>4, <2>5, <2>6 DEF InUse, WellFormed, HasRoom
<1>2. ASSUME NEW i \in Priorities, Linked(i), NEW n \in Priorities \cup {INVALID}
      PROVE  InUse([queues[i] EXCEPT !.next = n]) /\ HasRoom([queues[i] EXCEPT !.next = n])
  <2> DEFINE q == queues[i]
             r == [q EXCEPT !.next = n]
  <2>1. InUse(q) /\ HasRoom(q)
    BY <1>2, LinkedInUse
  <2>2. q.capacity \in Nat /\ q \in Queue(q.capacity) /\ n # NULL
    BY <2>1, ConstantsAssumption DEF InUse, WellFormed, Priorities, INVALID, NULL
  <2> HIDE DEF q
  <2>3. /\ r.next = n /\ r.first = q.first /\ r.end = q.end /\ r.capacity = q.capacity
        /\ r.data = q.data /\ r \in Queue(q.capacity)
    BY <2>2 DEF Queue
  <2> QED
    BY <2>1, <2>2, <2>3 DEF InUse, WellFormed, HasRoom, q
<1>3. p \in Priorities \cup {INVALID} /\ popped' \in Results
  BY ResultTypes DEF Prepare
<1>4. CASE Better(p) = {} /\ queues' = [queues EXCEPT ![p] = NewQueue(first)] /\ first' = p
  <2>1. first \in Priorities \cup {INVALID}
    BY DEF IInv, TypeOK
  <2>2. queues' = [q \in Priorities |-> IF q = p THEN NewQueue(first) ELSE queues[q]]
    BY <1>4 DEF IInv, TypeOK
  <2>3. InUse(NewQueue(first)) /\ HasRoom(NewQueue(first))
    BY <2>1, <1>1
  <2> QED
    BY <1>3, <1>4, <2>2, <2>3 DEF IInv, TypeOK, RoomAtBothEnds, Linked, InUse
<1>5. ASSUME NEW i \in Better(p), UNCHANGED first,
             queues' = [queues EXCEPT ![p] = NewQueue(queues[i].next), ![i].next = p]
      PROVE  IInv'
  <2>1. i \in Priorities /\ i # p /\ Linked(i)
    BY ConstantsAssumption DEF Better, Priorities
  <2>2. queues[i].next \in Priorities \cup {INVALID}
    BY <2>1, LinkedInUse, QueueFields DEF InUse
  <2>3. queues' = [q \in Priorities |-> IF q = p THEN NewQueue(queues[i].next)
                                        ELSE IF q = i THEN [queues[i] EXCEPT !.next = p]
                                        ELSE queues[q]]
    BY <1>5, <2>1 DEF IInv, TypeOK
  <2>4. InUse(NewQueue(queues[i].next)) /\ HasRoom(NewQueue(queues[i].next))
    BY <2>2, <1>1
  <2>5. InUse([queues[i] EXCEPT !.next = p]) /\ HasRoom([queues[i] EXCEPT !.next = p])
    BY <2>1, <1>2
  <2> QED
    BY <1>3, <1>5, <2>3, <2>4, <2>5 DEF IInv, TypeOK, RoomAtBothEnds, Linked, InUse
<1> QED
  BY <1>4, <1>5 DEF Prepare, Link

LEMMA SaveAndLoadStep ==
    ASSUME IInv, SaveAndLoad
    PROVE  IInv'
<1>1. ASSUME NEW p \in Saved
      PROVE  LET r == [Centred(queues[p], queues[p].capacity) EXCEPT !.next = NextSaved(p)] IN
             InUse(r) /\ HasRoom(r)
  <2> DEFINE q == queues[p]
             c == Centred(q, q.capacity)
             n == NextSaved(p)
             r == [c EXCEPT !.next = n]
  <2>1. p \in Priorities /\ InUse(q) /\ HasRoom(q)
    BY LinkedInUse DEF Saved, Linked, IInv, TypeOK, WellFormed
  <2>2. n \in Priorities \cup {INVALID} /\ n # NULL
    BY <2>1, NextSavedType, ConstantsAssumption DEF Priorities, INVALID, NULL
  <2> HIDE DEF q, n
  <2>3. q.first \in Int /\ q.end \in Int /\ q.capacity \in Nat
    BY <2>1, QueueFields DEF InUse
  <2>4. AtMostFull(q) /\ Size(q) <= q.capacity - 2
    BY <2>1, <2>3 DEF AtMostFull, HasRoom, Size
  <2>5. InUse(c) /\ HasRoom(c)
    BY <2>3, <2>4, CentredHasRoom
  <2> HIDE DEF c
  <2>6. c.capacity \in Nat /\ c \in Queue(c.capacity)
    BY <2>5 DEF InUse, WellFormed
  <2>7. /\ r.next = n /\ r.first = c.first /\ r.end = c.end /\ r.capacity = c.capacity
        /\ r.data = c.data /\ r \in Queue(c.capacity)
    BY <2>2, <2>6 DEF Queue
  <2> QED
    BY <2>2, <2>5, <2>7 DEF InUse, WellFormed, HasRoom, c, q, n
<1>2. first' \in Priorities \cup {INVALID} /\ popped' \in Results
  BY NextSavedType, ResultTypes DEF SaveAndLoad
<1>3. WellFormed(ZeroQueue) /\ ZeroQueue.next = NULL
  BY DEF WellFormed, ZeroQueue, Queue, NULL
<1> QED
  BY <1>1, <1>2, <1>3 DEF SaveAndLoad, IInv, TypeOK, RoomAtBothEnds, Linked, InUse

LEMMA EmptyList ==
    ASSUME first = INVALID, queues = [p \in Priorities |-> ZeroQueue], popped = NoResult
    PROVE  IInv
<1>1. WellFormed(ZeroQueue) /\ ZeroQueue.next = NULL
  BY DEF WellFormed, ZeroQueue, Queue, NULL
<1> QED
  BY <1>1, ResultTypes DEF IInv, TypeOK, RoomAtBothEnds, Linked

(* Whatever the constants, if realloc does not fail no operation writes    *)
(* outside of an array: between operations there is room at both ends.     *)
THEOREM RoomTheorem ==
    ASSUME AllocOutcomes \subseteq {TRUE}
    PROVE  Spec => [](TypeOK /\ RoomAtBothEnds)
<1>1. Init => IInv
  BY EmptyList DEF Init
<1>2. IInv /\ [Next]_vars => IInv'
  <2> SUFFICES ASSUME IInv, [Next]_vars PROVE IInv'
    OBVIOUS
  <2>1. ASSUME NEW p \in Priorities, NEW t \in Threads,
               PushFront(p, t) \/ PushBack(p, t) \/ Remove(p, t)
        PROVE  IInv'
    BY <2>1, PushFrontStep, PushBackStep, RemoveStep
  <2>2. ASSUME NEW p \in Priorities, Prepare(p) \/ PopFirstBetter(p) \/ Rotate(p)
        PROVE  IInv'
    <3>1. p \in 0 .. NUM_QUEUES
      BY ConstantsAssumption DEF Priorities
    <3> QED
      BY <2>2, <3>1, PrepareStep, PopStep, RotateStep, NothingTakenStep
         DEF PopFirstBetter, FoundBetterAt
  <2>3. CASE PopFirst
    <3>1. NUM_QUEUES \in 0 .. NUM_QUEUES
      BY ConstantsAssumption
    <3> QED
      BY <2>3, <3>1, PopStep, NothingTakenStep DEF PopFirst
  <2>4. CASE Clear
    <3>1. WellFormed(ZeroQueue) /\ ZeroQueue.next = NULL
      BY DEF WellFormed, ZeroQueue, Queue, NULL
    <3> QED
      BY <2>4, <3>1, ResultTypes DEF Clear, IInv, TypeOK, RoomAtBothEnds, Linked
  <2>5. CASE SaveAndLoad
    BY <2>5, SaveAndLoadStep
  <2>6. CASE UNCHANGED vars
    BY <2>6 DEF vars, IInv, TypeOK, RoomAtBothEnds, Linked
  <2> QED
    BY <2>1, <2>2, <2>3, <2>4, <2>5, <2>6 DEF Next
<1> QED
  BY <1>1, <1>2, PTL DEF Spec, IInv

=============================================================================
