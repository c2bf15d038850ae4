---------------------------- MODULE MemoryPools -----------------------------
(***************************************************************************)
(* The two ways memory is handed out: a range that is kept by a            *)
(* BlockAllocator (partitions, heaps, pools of old saved states), and a    *)
(* variable length pool that is kept by its own header.                    *)
(***************************************************************************)
EXTENDS Integers, FiniteSetsExt

CONSTANTS
    RangeStart, RangeEnd, Grain, WordSize,
    Requests      \* what is asked of the pool

VARIABLES
    list, header,
    request, result    \* the last call and what it returned

Allocator == INSTANCE BlockAllocator
Vpl == INSTANCE VplHeader

HasHeader == header # Vpl!NoHeader      \* vpl->header.IsValid()

Init ==
    /\ request = [type |-> "none"]
    /\ \/ Allocator!AllocatorInit /\ header = Vpl!NoHeader
       \/ Vpl!HeaderInit /\ list = Allocator!NoBlocks

AskedOfAllocator(r) ==
    /\ UNCHANGED header
    /\ \/ r.type \in {"low", "high"} /\ Allocator!AllocAligned(r)
       \/ r.type = "at" /\ Allocator!AllocAt(r)
       \/ r.type = "free" /\ Allocator!FreeBlock(r)
       \/ r.type = "largest" /\ Allocator!GetLargestFreeBlockSize
       \/ r.type = "total" /\ Allocator!GetTotalFreeBytes

AskedOfVpl(r) ==
    /\ UNCHANGED list
    /\ \/ r.type = "any" /\ Vpl!Allocate(r)
       \/ r.type = "free" /\ Vpl!Free(r)
       \/ r.type = "total" /\ Vpl!FreeSize

Next ==
    \/ \E r \in Requests :
          /\ request' = r
          /\ \/ ~HasHeader /\ r.header = 0 /\ AskedOfAllocator(r)
             \/ HasHeader /\ r.header > 0 /\ AskedOfVpl(r)
    \/ ~HasHeader /\ Allocator!AllocatorDoState /\ UNCHANGED <<header, request>>

Spec == Init /\ [][Next]_<<list, header, request, result>>

-----------------------------------------------------------------------------
(* However often memory was taken, split, merged and given back, the       *)
(* blocks still tile the pool, free neighbours were merged, and the links  *)
(* agree with the addresses in both directions: what Validate and          *)
(* CheckBlocks look for.                                                   *)
PoolIsWhole == IF HasHeader THEN Vpl!HeaderIsWhole ELSE Allocator!ListIsWhole

(* No memory is handed out twice or lost: every request gets the place it  *)
(* asked for, and is refused only if there is none; what was given back    *)
(* once, or never handed out, cannot be given back.                        *)
Promise == INSTANCE MemoryBlocks WITH
    taken <- IF HasHeader THEN Vpl!TakenCells ELSE Allocator!TakenBlocks
ImplementsMemoryBlocks == Promise!Spec

=============================================================================
