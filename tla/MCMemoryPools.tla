--------------------------- MODULE MCMemoryPools ----------------------------
(***************************************************************************)
(* Small instances of MemoryPools for TLC.                                 *)
(***************************************************************************)
EXTENDS MemoryPools

CONSTANTS
    Sizes, Grains,    \* of requests to the allocator
    Positions,        \* places that are asked for
    VplSizes          \* of requests to the variable length pool

Aligned(type) ==
    [type : {type}, size : Sizes, unit : Grains, grain : Grains, header : {0}]

SmallRequests ==
    Aligned("low") \cup Aligned("high")
    \cup [type : {"at"}, size : Sizes \ {0}, unit : {Grain}, grain : {1}, header : {0},
          place : Positions]
    \cup [type : {"free"}, exact : BOOLEAN, place : {p \in RangeStart..RangeEnd : p % 4 = 0},
        header : {0}]
    \cup [type : {"largest", "total"}, header : {0}]
    \cup [type : {"any"}, size : VplSizes, unit : {8}, grain : {8}, header : {8}]
    \cup [type : {"free"}, exact : {TRUE},
          place : {p \in RangeStart..RangeEnd : p % 8 = 0}, header : {8}]
    \cup [type : {"total"}, header : {8}]

(* What the pool does next depends on nothing else, as long as the list is *)
(* whole.                                                                  *)
Memory ==
    <<{[start |-> list[b].start, size |-> list[b].size, taken |-> list[b].taken] :
          b \in DOMAIN list \ {0}},
      header>>

=============================================================================
