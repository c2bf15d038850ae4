---------------------------- MODULE MemoryBlocks ----------------------------
(***************************************************************************)
(* What a memory pool promises: blocks are taken from a range, no two of   *)
(* them overlap, a request is refused only if there is no place for it,    *)
(* and what was taken is given back once.  How free memory is found, split *)
(* and put together again is left to BlockAllocator and VplHeader.         *)
(***************************************************************************)
EXTENDS Integers, FiniteSetsExt

CONSTANTS
    RangeStart, RangeEnd,   \* the addresses of the pool: RangeStart..(RangeEnd - 1)
    Requests                \* what may be asked of it

VARIABLES
    taken,    \* the blocks that are taken: [start, end]
    request,  \* the last request
    result    \* what came of it: a place, or REFUSED

REFUSED == -1

IsFree(start, end) ==
    /\ RangeStart <= start /\ end <= RangeEnd
    /\ \A b \in taken : end <= b.start \/ b.end <= start

(* How much a request takes: whole units, and room for a header.           *)
Needed(r) == r.header + ((r.size + r.unit - 1) \div r.unit) * r.unit

(* Where a block of that size can begin.                                   *)
Places(r) ==
    {p \in RangeStart..RangeEnd : p % r.grain = 0 /\ IsFree(p, p + Needed(r))}

LargestFree ==
    LET Gaps == {<<start, end>> \in ({RangeStart} \cup {b.end : b \in taken})
                                    \X ({RangeEnd} \cup {b.start : b \in taken}) :
                     start <= end /\ IsFree(start, end)}
    IN  Max({gap[2] - gap[1] : gap \in Gaps} \cup {0})
TotalFree ==
    RangeEnd - RangeStart - MapThenSumSet(LAMBDA b : b.end - b.start, taken)

Refuse == result' = REFUSED /\ UNCHANGED taken

(* The block that is handed out begins at p; less than a grain beside it   *)
(* may be taken with it.                                                   *)
Granted(r, p) ==
    /\ result' = p + r.header
    /\ \E start \in (p - r.grain + 1)..p,
          end \in (p + Needed(r))..(p + Needed(r) + r.grain - 1) :
           /\ r.type # "low" => start = p
           /\ r.type # "high" => end = p + Needed(r)
           /\ IsFree(start, end)
           /\ taken' = taken \cup {[start |-> start, end |-> end]}

(* The lowest place from below, the highest from above, the place that was *)
(* asked for, or any.                                                      *)
Chosen(r) ==
    LET places == Places(r)
    IN  CASE r.type = "at" -> places \cap {r.place}
          [] r.type = "low" /\ places # {} -> {Min(places)}
          [] r.type = "high" /\ places # {} -> {Max(places)}
          [] OTHER -> places

Allocate(r) ==
    IF r.size = 0 \/ Chosen(r) = {} THEN Refuse ELSE \E p \in Chosen(r) : Granted(r, p)

(* An exact address is that of the beginning of a block, any other may be  *)
(* one inside of it.                                                       *)
Free(r) ==
    LET held == {b \in taken : /\ b.start <= r.place - r.header
                               /\ IF r.exact THEN b.start = r.place - r.header
                                  ELSE r.place < b.end}
    IN  IF held = {} THEN Refuse
        ELSE \E b \in held : result' = r.place /\ taken' = taken \ {b}

Query(r) ==
    /\ result' = IF r.type = "largest" THEN LargestFree ELSE TotalFree
    /\ UNCHANGED taken

Init == taken = {} /\ request = [type |-> "none"] /\ result = REFUSED

Next ==
    \E r \in Requests :
        /\ request' = r
        /\ \/ r.type \in {"low", "high", "at", "any"} /\ Allocate(r)
           \/ r.type = "free" /\ Free(r)
           \/ r.type \in {"largest", "total"} /\ Query(r)

Spec == Init /\ [][Next]_<<taken, request, result>>

=============================================================================
