----------------------------- MODULE TimedEvents -----------------------------
(***************************************************************************)
(* What CoreTiming promises: events are scheduled for a time, or handed    *)
(* over by other threads of the host and collected later.  Each is fired   *)
(* once, never before its time, the earliest first, unless it is           *)
(* cancelled; and time never goes back.                                    *)
(***************************************************************************)
EXTENDS Integers, Bags

CONSTANT Kinds    \* what an event is for

VARIABLES
    now,        \* the time
    scheduled,  \* a bag of events
    posted      \* a bag of events that are yet to be collected

vars == <<now, scheduled, posted>>

Event == [time : Int, kind : Kinds]

(* Some events are scheduled from the beginning.                           *)
Init == now = 0 /\ IsABag(scheduled) /\ posted = EmptyBag

Except(bag, kind) == [e \in {e \in BagToSet(bag) : e.kind # kind} |-> bag[e]]

TimePasses == now' >= now

Schedule(e) == scheduled' = scheduled (+) SetToBag({e}) /\ UNCHANGED <<now, posted>>

Post(e) == posted' = posted (+) SetToBag({e}) /\ UNCHANGED <<now, scheduled>>

Collect ==
    /\ scheduled' = scheduled (+) posted
    /\ posted' = EmptyBag
    /\ UNCHANGED now

(* Firing an event may schedule the same kind again.                       *)
Fire(e) ==
    /\ BagIn(e, scheduled) /\ e.time <= now
    /\ \A other \in BagToSet(scheduled) : e.time <= other.time
    /\ LET rest == scheduled (-) SetToBag({e}) IN
       \/ scheduled' = rest
       \/ \E again \in {f \in BagToSet(scheduled') : f.kind = e.kind /\ f.time > e.time} :
            scheduled' = rest (+) SetToBag({again})
    /\ UNCHANGED <<now, posted>>

Cancel(kind) ==
    /\ scheduled' \in {scheduled, Except(scheduled, kind)}
    /\ posted' \in {posted, Except(posted, kind)}
    /\ UNCHANGED now

Next ==
    \/ TimePasses /\ UNCHANGED <<scheduled, posted>>
    \/ Collect
    \/ \E kind \in Kinds : Cancel(kind)
    \/ \E e \in BagToSet(scheduled') \cup BagToSet(posted') : Schedule(e) \/ Post(e)
    \/ \E e \in BagToSet(scheduled) : Fire(e)

Spec == Init /\ [][Next]_vars

=============================================================================
