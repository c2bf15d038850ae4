----------------------------- MODULE VplHeader ------------------------------
(***************************************************************************)
(* struct SceKernelVplHeader (sceKernelMemory.cpp), the accounting of a    *)
(* variable length pool, inside of the memory it hands out: every block    *)
(* begins with a cell of 8 bytes, the next free block and its own size in  *)
(* blocks of 8 bytes.  The free blocks are a ring in the order of          *)
(* addresses, with the empty last block between its ends; the next field   *)
(* of a taken block holds a magic value instead.  Cells inside of blocks   *)
(* keep what was written to them last.                                     *)
(***************************************************************************)
EXTENDS Integers, FiniteSetsExt

CONSTANTS RangeStart, RangeEnd      \* FirstBlockPtr(), LastBlockPtr()

VARIABLES
    header,    \* next and size of all cells, nextFreeBlock_ and allocatedInBlocks_
    result     \* what the last call returned

NoHeader == [next |-> <<>>]     \* the header of a pool that has none
SENTINEL == -2                  \* SentinelPtr(), the magic value
FAILED == -1
Cells == {c \in RangeStart..RangeEnd : c % 8 = 0}

After(h, b) == b + 8 * h.size[b]
PoolBlocks == (RangeEnd - RangeStart) \div 8

HeaderInit ==
    /\ header =
         [next |-> [c \in Cells |-> IF c = RangeStart THEN RangeEnd ELSE RangeStart],
          size |-> [c \in Cells |-> IF c = RangeStart THEN PoolBlocks ELSE 0],
          nextFree |-> RangeStart, allocated |-> 0]
    /\ result = FAILED

(* The end of a block becomes a block of its own, the next one of it.      *)
SplitBlock(h, b, blocks) ==
    LET rest == h.size[b] - blocks
        new == b + 8 * rest
    IN  [h EXCEPT !.size[b] = rest, !.next[b] = new,
                  !.size[new] = blocks, !.next[new] = h.next[b]]

UnlinkFreeBlock(h, b, prev) ==
    [h EXCEPT !.allocated = @ + h.size[b], !.next[prev] = h.next[b], !.next[b] = SENTINEL,
              !.nextFree = IF @ = b THEN prev ELSE @]

MergeBlocks(h, first, second) ==
    [h EXCEPT !.size[first] = @ + h.size[second], !.next[first] = h.next[second]]

(* Mutant: the next search begins at the freed block itself.               *)
LinkedAndNextFree(h, b, prev, next) ==
    LET freed == [h EXCEPT !.allocated = @ - h.size[b], !.nextFree = b, !.next[b] = next]
        merged == IF After(freed, b) = next /\ freed.size[next] # 0
                  THEN MergeBlocks(freed, b, next) ELSE freed
    IN  IF After(merged, prev) = b THEN MergeBlocks(merged, prev, b)
        ELSE [merged EXCEPT !.next[prev] = b]

LinkFreeBlock(h, b, prev, next) ==
    LET freed == [h EXCEPT !.allocated = @ - h.size[b], !.nextFree = prev, !.next[b] = next]
        merged == IF After(freed, b) = next /\ freed.size[next] # 0
                  THEN MergeBlocks(freed, b, next) ELSE freed
    IN  IF After(merged, prev) = b THEN MergeBlocks(merged, prev, b)
        ELSE [merged EXCEPT !.next[prev] = b]

(* The free block before the first one, from prev on, that is big enough;  *)
(* the search ends where it began.                                         *)
RECURSIVE BeforeFitting(_, _, _)
BeforeFitting(h, prev, blocks) ==
    LET b == h.next[prev]
    IN  IF h.size[b] >= blocks THEN prev
        ELSE IF b = h.nextFree THEN FAILED
        ELSE BeforeFitting(h, b, blocks)

Allocate(r) ==
    LET blocks == (r.size + 7) \div 8 + 1
        prev == BeforeFitting(header, header.nextFree, blocks)
        b == header.next[prev]
        kept == [header EXCEPT !.nextFree = IF @ = b THEN prev ELSE @]
    IN  IF prev = FAILED
        THEN result' = FAILED /\ UNCHANGED header
        ELSE IF header.size[b] > blocks
        THEN LET new == After(header, b) - 8 * blocks
             IN  /\ header' = UnlinkFreeBlock(SplitBlock(kept, b, blocks), new, b)
                 /\ result' = new + 8
        ELSE /\ header' = UnlinkFreeBlock(header, b, prev)
             /\ result' = b + 8

(* The free block after which one at address b is put.                     *)
RECURSIVE BeforeFreed(_, _, _)
BeforeFreed(h, prev, b) ==
    IF h.next[prev] >= b THEN prev
    ELSE IF h.next[prev] = RangeEnd THEN FAILED
    ELSE BeforeFreed(h, h.next[prev], b)

Free(r) ==
    LET b == r.place - 8
        prev == BeforeFreed(header, RangeEnd, b)
    IN  IF \/ r.place < RangeStart \/ r.place >= RangeEnd \/ b \notin Cells
           \/ header.next[b] # SENTINEL \/ header.size[b] > header.allocated
           \/ prev = FAILED \/ header.next[prev] = b
        THEN result' = FAILED /\ UNCHANGED header
        ELSE /\ header' = LinkFreeBlock(header, b, prev, header.next[prev])
             /\ result' = r.place

FreeSize ==
    /\ result' = 8 * (PoolBlocks - header.allocated)
    /\ UNCHANGED header

-----------------------------------------------------------------------------
(* The blocks in the order of addresses, as Validate walks them.           *)
RECURSIVE BlocksFrom(_)
BlocksFrom(b) ==
    IF b \notin Cells \ {RangeEnd} THEN {b}
    ELSE {b} \cup IF header.size[b] > 0 THEN BlocksFrom(After(header, b)) ELSE {}

Blocks == BlocksFrom(RangeStart)
TakenCells ==
    {[start |-> b, end |-> After(header, b)] :
        b \in {c \in Blocks \ {RangeEnd} : header.next[c] = SENTINEL}}

(* What Validate asserts: the blocks fill the pool, free blocks point to   *)
(* each other in order and are never neighbours, and the search begins at  *)
(* a free one.                                                             *)
HeaderIsWhole ==
    LET free == {b \in Blocks : header.next[b] # SENTINEL}
    IN  /\ RangeEnd \in free /\ Blocks \subseteq Cells /\ header.size[RangeEnd] = 0
        /\ header.nextFree \in free
        /\ \A b \in free \ {RangeEnd} :
              /\ header.next[b] = Min({c \in free : c > b})
              /\ After(header, b) < header.next[b] \/ header.next[b] = RangeEnd
        /\ header.next[RangeEnd] = Min(free)

=============================================================================
