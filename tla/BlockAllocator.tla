--------------------------- MODULE BlockAllocator ---------------------------
(***************************************************************************)
(* class BlockAllocator (Core/Util/BlockAllocator.cpp), which divides a    *)
(* range of addresses into blocks: a doubly linked list in the order of    *)
(* addresses, taken and free blocks alike.  The null pointer is a node of  *)
(* its own, that counts as taken: the block after it is bottom_, the one   *)
(* before it top_.                                                         *)
(***************************************************************************)
EXTENDS Integers, FiniteSetsExt, Functions

CONSTANTS
    RangeStart, RangeEnd,
    Grain,          \* grain_, the smallest unit
    WordSize        \* u32, as far as these addresses need it

VARIABLES
    list,     \* the blocks: start, size, taken, prev, next
    result    \* what the last call returned

NULL == 0
REFUSED == -1
RangeSize == RangeEnd - RangeStart

(* After Shutdown, or before Init.                                         *)
NoBlocks ==
    [b \in {NULL} |-> [start |-> 0, size |-> 0, taken |-> TRUE, prev |-> NULL, next |-> NULL]]

FreeBlocks(l) == {b \in DOMAIN l : ~l[b].taken}
NewBlock(l) == Min(1..Cardinality(DOMAIN l) \ DOMAIN l)

(* A new free block between p and n.                                       *)
Inserted(l, p, n, start, size) ==
    LET new == NewBlock(l)
        linked == [l EXCEPT ![p].next = new, ![n].prev = new]
    IN  [b \in DOMAIN l \cup {new} |->
            IF b # new THEN linked[b]
            ELSE [start |-> start, size |-> size, taken |-> FALSE, prev |-> p, next |-> n]]

InsertFreeBefore(l, b, start, size) == Inserted(l, l[b].prev, b, start, size)
InsertFreeAfter(l, b, start, size) == Inserted(l, b, l[b].next, start, size)

(* Block b takes the one after it in.                                      *)
Absorbed(l, b) ==
    LET next == l[b].next
    IN  Restrict([l EXCEPT ![b].size = @ + l[next].size, ![b].next = l[next].next,
                           ![l[next].next].prev = b],
                 DOMAIN l \ {next})

(* Mutant: a free block before the freed one is not looked for.            *)
MergedOnlyForward(l, b) == IF l[l[b].next].taken THEN l ELSE Absorbed(l, b)

RECURSIVE MergeFreeBlocks(_, _)
MergeFreeBlocks(l, b) ==
    IF ~l[l[b].prev].taken THEN MergeFreeBlocks(Absorbed(l, l[b].prev), l[b].prev)
    ELSE IF ~l[l[b].next].taken THEN MergeFreeBlocks(Absorbed(l, b), b)
    ELSE l

(* The first block of a set, from b on.                                    *)
RECURSIVE FirstFrom(_, _, _, _)
FirstFrom(l, b, fromTop, blocks) ==
    IF b = NULL \/ b \in blocks THEN b
    ELSE FirstFrom(l, IF fromTop THEN l[b].prev ELSE l[b].next, fromTop, blocks)

GetBlockFromAddress(l, addr) ==
    FirstFrom(l, l[NULL].next, FALSE,
        {b \in DOMAIN l : l[b].start <= addr /\ addr < l[b].start + l[b].size})

-----------------------------------------------------------------------------
AllocatorInit ==
    /\ list = Inserted(NoBlocks, NULL, NULL, RangeStart, RangeSize)
    /\ result = REFUSED

UpAligned(size, grain) == (((size + grain - 1) % WordSize) \div grain) * grain

AllocatorRefuses == result' = REFUSED /\ UNCHANGED list

(* AllocAligned; Alloc is AllocAligned with the grain of the allocator.    *)
AllocAligned(r) ==
    LET fromTop == r.type = "high"
        size == UpAligned(r.size, Max({r.unit, Grain}))
        grain == Max({r.grain, Grain})
        Offset(b) == IF fromTop THEN (list[b].start + list[b].size - size) % grain
                     ELSE (-list[b].start) % grain
        Size(b) == Offset(b) + size
        b == FirstFrom(list, IF fromTop THEN list[NULL].prev ELSE list[NULL].next, fromTop,
                       {c \in FreeBlocks(list) : list[c].size >= Size(c)})
        rest == list[b].size - Size(b)
        start == list[b].start + IF fromTop THEN rest ELSE 0
        split == IF rest = 0 THEN list
                 ELSE IF fromTop THEN InsertFreeBefore(list, b, list[b].start, rest)
                 ELSE InsertFreeAfter(list, b, list[b].start + Size(b), rest)
    IN  IF r.size = 0 \/ r.size > RangeSize \/ b = NULL THEN AllocatorRefuses
        ELSE /\ list' = [split EXCEPT ![b].taken = TRUE, ![b].start = start,
                                      ![b].size = Size(b)]
             /\ result' = start + IF fromTop THEN 0 ELSE Offset(b)

(* AllocAt: the position is aligned downwards, and the size is to make up  *)
(* for it.  A block that is filled from its start leaves a free one behind *)
(* it, of whatever size is left.                                           *)
AllocAt(r) ==
    LET position == (r.place \div Grain) * Grain
        size == UpAligned((r.size + position - r.place) % WordSize, Grain)
        b == GetBlockFromAddress(list, position)
        before == position - list[b].start
        after == list[b].size - (size + before)
        front == IF before = 0 THEN list ELSE InsertFreeBefore(list, b, list[b].start, before)
        split == IF before = 0 \/ after > 0
                 THEN InsertFreeAfter(front, b, position + size, after) ELSE front
    IN  IF r.size > RangeSize \/ b = NULL \/ list[b].taken \/ after < 0
        THEN AllocatorRefuses
        ELSE /\ list' = [split EXCEPT ![b].taken = TRUE, ![b].start = position,
                                      ![b].size = size]
             /\ result' = r.place

(* Free and FreeExact.                                                     *)
FreeBlock(r) ==
    LET b == GetBlockFromAddress(list, r.place)
    IN  IF b = NULL \/ list[b].taken = FALSE \/ (r.exact /\ list[b].start # r.place)
        THEN AllocatorRefuses
        ELSE /\ list' = MergeFreeBlocks([list EXCEPT ![b].taken = FALSE], b)
             /\ result' = r.place

GetLargestFreeBlockSize ==
    /\ result' = Max({list[b].size : b \in FreeBlocks(list)} \cup {0})
    /\ UNCHANGED list

GetTotalFreeBytes ==
    /\ result' = MapThenSumSet(LAMBDA b : list[b].size, FreeBlocks(list))
    /\ UNCHANGED list

(* Saving writes the blocks in the order of the list, loading links new    *)
(* ones in that order.                                                     *)
RECURSIVE Loaded(_, _)
Loaded(l, b) ==
    IF b = NULL THEN NoBlocks
    ELSE LET before == Loaded(l, l[b].prev)
             new == NewBlock(before)
         IN  [Inserted(before, before[NULL].prev, NULL, l[b].start, l[b].size)
                 EXCEPT ![new].taken = l[b].taken]
AllocatorDoState == list' = Loaded(list, list[NULL].prev) /\ UNCHANGED result

-----------------------------------------------------------------------------
TakenBlocks ==
    {[start |-> list[b].start, end |-> list[b].start + list[b].size] :
        b \in {c \in DOMAIN list \ {NULL} : list[c].taken}}

(* The blocks tile the range in the order of the list, which is the same   *)
(* in both directions, and no two free ones are neighbours.                *)
ListIsWhole ==
    \A b \in DOMAIN list :
        LET next == list[b].next
        IN  /\ next \in DOMAIN list /\ list[next].prev = b
            /\ b # NULL /\ next # NULL =>
                 /\ list[next].start = list[b].start + list[b].size
                 /\ list[b].taken \/ list[next].taken
            /\ b = NULL => list[next].start = RangeStart
            /\ next = NULL => list[b].start + list[b].size = RangeEnd

=============================================================================
