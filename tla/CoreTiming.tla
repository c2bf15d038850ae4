------------------------------ MODULE CoreTiming ------------------------------
(***************************************************************************)
(* The clock of the emulated CPU (Core/CoreTiming.cpp).  Guest code runs   *)
(* in slices; what is left of one is counted down in downcount, and the    *)
(* time is globalTimer + slicelength - downcount.  Advance, called at the  *)
(* end of a slice and by every reschedule, fires the events that are due   *)
(* and sets the slice to end at the next one.  A callback may schedule     *)
(* events and reschedule, so that Advance is entered again from inside     *)
(* itself.                                                                 *)
(*                                                                         *)
(* Another thread of the host, that of the GPU, posts events to a list of  *)
(* its own, under a lock; the flag hasTsEvents, read without the lock,     *)
(* tells Advance to collect them.                                          *)
(***************************************************************************)
EXTENDS Integers, Sequences, FiniteSets, Queues

LOCAL Seqs == INSTANCE SequencesExt

CONSTANTS
    Kinds,           \* event_type and userdata of the events
    Vblank,          \* the kind that schedules itself again, for ever
    Period,          \* cycles from one vertical blank to the next
    Delays,          \* cyclesIntoFuture of the other events
    Blocks,          \* cycles a block of guest code can take
    InitialSlice,    \* INITIAL_SLICE_LENGTH
    MaxSlice,        \* MAX_SLICE_LENGTH
    EmptySlice,      \* the slice Advance adds when there is no event
    IntRange,        \* an int holds -IntRange .. IntRange - 1
    IdlesLate,       \* TRUE: a block may take the idle thread beyond the slice
    SavesPosted,     \* TRUE: a state may be saved while posted events wait
    MaxTime,         \* bound: the guest runs until then
    MaxEvents,       \* bound: events pending
    MaxDepth         \* bound: nested calls of Advance and callbacks

ASSUME CoreTimingAssumption ==
    /\ Vblank \in Kinds
    /\ {Period, InitialSlice, MaxSlice, EmptySlice, IntRange} \subseteq Nat \ {0}
    /\ Delays \subseteq Int /\ Blocks \subseteq Nat \ {0}
    /\ IdlesLate \in BOOLEAN /\ SavesPosted \in BOOLEAN
    /\ {MaxTime, MaxEvents, MaxDepth} \subseteq Nat

VARIABLES
    globalTimer, slicelength, downcount,
    first,          \* the events, a list sorted by time
    tsFirst,        \* the posted events, in the order they were posted
    hasTsEvents,
    stack,          \* the calls of Advance and of callbacks under way
    posting         \* what the host thread that holds the lock read of the clock

clock == <<globalTimer, slicelength, downcount>>
vars == <<clock, first, tsFirst, hasTsEvents, stack, posting>>

NotPosting == << >>
LockIsFree == posting = NotPosting

GetTicks == globalTimer + slicelength - downcount
CyclesExecuted == slicelength - downcount

(* A conversion to int.                                                    *)
Int32(x) == ((x + IntRange) % (2 * IntRange)) - IntRange

(* Where the CPU's thread is: in guest code or a callback, which can make  *)
(* calls, or at one of the steps of Advance.                               *)
At == IF stack = << >> THEN "guest" ELSE Seqs!Last(stack)
Goto(step) == stack' = Append(Seqs!Front(stack), step)
Return == stack' = Seqs!Front(stack)
MayCall == At \in {"guest", "callback"}

EventsPending == Len(first) + Len(tsFirst)

(* Mutant: the list is not kept sorted.                                    *)
AddedLast(list, e) == Append(list, e)

(* AddEventToQueue: behind the events of the same time.                    *)
Added(list, e) ==
    LET later == Seqs!SelectInSeq(list, LAMBDA other : e.time < other.time) IN
    Seqs!InsertAt(list, IF later = 0 THEN Len(list) + 1 ELSE later, e)

(* The posted events are added one after the other.                        *)
AddedAll(list, more) ==
    LET upTo[n \in 0 .. Len(more)] == IF n = 0 THEN list ELSE Added(upTo[n - 1], more[n])
    IN  upTo[Len(more)]

Without(list, kind) == Selected(list, {e \in Seqs!ToSet(list) : e.kind # kind})

(* The first vertical blank is scheduled when the display is initialised.  *)
Init ==
    /\ globalTimer = 0 /\ slicelength = InitialSlice /\ downcount = InitialSlice
    /\ first = <<[time |-> Period, kind |-> Vblank]>>
    /\ tsFirst = << >> /\ hasTsEvents = 0
    /\ stack = << >> /\ posting = NotPosting

----------------------------------------------------------------------------
(* Guest code, which is executed in blocks while downcount is not negative *)
RunBlock(cycles) ==
    /\ At = "guest" /\ downcount >= 0 /\ GetTicks + cycles <= MaxTime
    /\ downcount' = downcount - cycles
    /\ UNCHANGED <<globalTimer, slicelength, first, tsFirst, hasTsEvents, stack, posting>>

(* hleEatCycles, in a system call or a callback                            *)
EatCycles(cycles) ==
    /\ MayCall /\ GetTicks + cycles <= MaxTime
    /\ downcount' = downcount - cycles
    /\ UNCHANGED <<globalTimer, slicelength, first, tsFirst, hasTsEvents, stack, posting>>

ScheduleEvent(delay, kind) ==
    /\ MayCall /\ EventsPending < MaxEvents
    /\ first' = Added(first, [time |-> GetTicks + delay, kind |-> kind])
    /\ UNCHANGED <<clock, tsFirst, hasTsEvents, stack, posting>>

(* UnscheduleEvent and, of an event type, RemoveEvent                      *)
UnscheduleEvent(kind) ==
    /\ MayCall
    /\ first' = Without(first, kind)
    /\ UNCHANGED <<clock, tsFirst, hasTsEvents, stack, posting>>

RemoveAllEvents(kind) ==
    /\ MayCall /\ LockIsFree
    /\ first' = Without(first, kind)
    /\ tsFirst' = Without(tsFirst, kind)
    /\ UNCHANGED <<clock, hasTsEvents, stack, posting>>

ForceCheck ==
    /\ MayCall
    /\ globalTimer' = globalTimer + CyclesExecuted
    /\ downcount' = 0 /\ slicelength' = 0
    /\ UNCHANGED <<first, tsFirst, hasTsEvents, stack, posting>>

(* Idle: the idle thread skips the rest of the slice, or what there is of  *)
(* it until the next event.                                                *)
CyclesDown ==
    IF first = << >> \/ downcount <= 0 THEN downcount
    ELSE LET untilNext == Int32(first[1].time - globalTimer) - CyclesExecuted IN
         IF untilNext >= downcount THEN downcount ELSE IF untilNext < 0 THEN 0 ELSE untilNext

Idle ==
    /\ At = "guest" /\ (downcount >= 0 \/ IdlesLate)
    /\ GetTicks + CyclesDown < MaxTime
    /\ downcount' = IF downcount = CyclesDown THEN -1 ELSE downcount - CyclesDown
    /\ UNCHANGED <<globalTimer, slicelength, first, tsFirst, hasTsEvents, stack, posting>>

----------------------------------------------------------------------------
(* Advance, step by step: the timer is set, then downcount; host threads   *)
(* that read the clock see what is in between.                             *)
Advance ==
    /\ MayCall /\ Len(stack) < MaxDepth
    /\ globalTimer' = globalTimer + CyclesExecuted
    /\ stack' = Append(stack, "counted")
    /\ UNCHANGED <<slicelength, downcount, first, tsFirst, hasTsEvents, posting>>

(* MoveEvents clears the flag before it takes the lock.                    *)
ResetDowncount ==
    /\ At = "counted"
    /\ downcount' = slicelength
    /\ Goto(IF hasTsEvents = 1 THEN "move" ELSE "process")
    /\ hasTsEvents' = 0
    /\ UNCHANGED <<globalTimer, slicelength, first, tsFirst, posting>>

(* Mutant: only the first of the posted events is moved.                   *)
MoveOne ==
    /\ At = "move" /\ LockIsFree
    /\ first' = IF tsFirst = << >> THEN first ELSE Added(first, tsFirst[1])
    /\ tsFirst' = IF tsFirst = << >> THEN << >> ELSE Tail(tsFirst)
    /\ Goto("process")
    /\ UNCHANGED <<clock, hasTsEvents, posting>>

MoveEvents ==
    /\ At = "move" /\ LockIsFree
    /\ first' = AddedAll(first, tsFirst)
    /\ tsFirst' = << >>
    /\ Goto("process")
    /\ UNCHANGED <<clock, hasTsEvents, posting>>

(* ProcessFifoWaitEvents takes the first event off the list, then calls    *)
(* its callback; that of the vertical blank begins with scheduling the     *)
(* next one, without the cycles it is late.                                *)
FireEvent ==
    /\ At = "process" /\ Len(stack) < MaxDepth
    /\ first # << >> /\ first[1].time <= GetTicks
    /\ first' = IF first[1].kind = Vblank
                THEN Added(Tail(first), [first[1] EXCEPT !.time = @ + Period])
                ELSE Tail(first)
    /\ stack' = Append(stack, "callback")
    /\ UNCHANGED <<clock, tsFirst, hasTsEvents, posting>>

CallbackReturns ==
    /\ At = "callback"
    /\ Return
    /\ UNCHANGED <<clock, first, tsFirst, hasTsEvents, posting>>

(* Mutant: the slice is at least MaxSlice long.                            *)
LongSlice ==
    IF first = << >> THEN slicelength
    ELSE LET target == Int32(first[1].time - globalTimer) IN
         IF target < MaxSlice THEN MaxSlice ELSE target

(* The slice ends at the next event.                                       *)
NextSlice ==
    IF first = << >> THEN IF slicelength < EmptySlice THEN slicelength + EmptySlice ELSE slicelength
    ELSE LET target == Int32(first[1].time - globalTimer) IN
         IF target > MaxSlice THEN MaxSlice ELSE target

(* The end of Advance, when nothing is due any more.  Without any event,   *)
(* downcount grows by the whole slice and not by what the slice grew.      *)
StartSlice ==
    /\ At = "process" /\ (first = << >> \/ first[1].time > GetTicks)
    /\ slicelength' = NextSlice
    /\ downcount' = IF first = << >> /\ slicelength < EmptySlice THEN downcount + slicelength'
                    ELSE downcount + slicelength' - slicelength
    /\ Return
    /\ UNCHANGED <<globalTimer, first, tsFirst, hasTsEvents, posting>>

----------------------------------------------------------------------------
(* ScheduleEvent_Threadsafe: the host thread takes the lock and reads the  *)
(* clock, which the CPU's thread goes on changing: each variable may be    *)
(* read before or after.                                                   *)
BeginPost ==
    /\ LockIsFree /\ EventsPending < MaxEvents
    /\ posting' = <<globalTimer, slicelength, downcount>>
    /\ UNCHANGED <<clock, first, tsFirst, hasTsEvents, stack>>

ScheduleEvent_Threadsafe(delay, kind) ==
    /\ ~LockIsFree
    /\ \E timer \in {posting[1], globalTimer}, slice \in {posting[2], slicelength},
          down \in {posting[3], downcount} :
            tsFirst' = Append(tsFirst, [time |-> timer + slice - down + delay, kind |-> kind])
    /\ hasTsEvents' = 1
    /\ posting' = NotPosting
    /\ UNCHANGED <<clock, first, stack>>

UnscheduleThreadsafeEvent(kind) ==
    /\ LockIsFree
    /\ tsFirst' = Without(tsFirst, kind)
    /\ UNCHANGED <<clock, first, hasTsEvents, stack, posting>>

(* DoState: a state is saved between two slices, and loaded by a program   *)
(* that was just started, whose hasTsEvents is 0.                          *)
SaveAndLoad ==
    /\ At = "guest" /\ LockIsFree
    /\ SavesPosted \/ tsFirst = << >>
    /\ hasTsEvents' = 0
    /\ UNCHANGED <<clock, first, tsFirst, stack, posting>>

Call(kind) ==
    \/ UnscheduleEvent(kind) \/ RemoveAllEvents(kind) \/ UnscheduleThreadsafeEvent(kind)
    \/ \E delay \in Delays : ScheduleEvent(delay, kind) \/ ScheduleEvent_Threadsafe(delay, kind)

Next ==
    \/ \E cycles \in Blocks : RunBlock(cycles) \/ EatCycles(cycles)
    \/ \E kind \in Kinds \ {Vblank} : Call(kind)
    \/ ForceCheck \/ Idle
    \/ Advance \/ ResetDowncount \/ MoveEvents \/ FireEvent \/ CallbackReturns \/ StartSlice
    \/ BeginPost \/ SaveAndLoad

Spec == Init /\ [][Next]_vars

----------------------------------------------------------------------------
Event == [time : Int, kind : Kinds]

TypeOK ==
    /\ globalTimer \in Int /\ slicelength \in Int /\ downcount \in Int
    /\ first \in Seq(Event) /\ tsFirst \in Seq(Event)
    /\ hasTsEvents \in {0, 1}
    /\ stack \in Seq({"counted", "move", "process", "callback"})
    /\ posting = NotPosting \/ posting \in Int \X Int \X Int

(* A posted event is never forgotten: the flag is set, or Advance is on    *)
(* its way to collect it, whenever it was posted.                          *)
NoPostedEventStranded ==
    tsFirst # << >> => hasTsEvents = 1 \/ At = "move" \/ ~LockIsFree

(* When the guest goes on, nothing is overdue and the slice ends no later  *)
(* than the next event is due, however many cycles callbacks took and      *)
(* whatever they scheduled: events are late by a block at most.            *)
SliceEndsInTime ==
    [][StartSlice => first = << >> \/
        /\ first[1].time > GetTicks'
        /\ globalTimer + slicelength' <= first[1].time]_vars

(* Time never goes back: "Now, now... no time machines, please."           *)
TimeNeverGoesBack == [][At # "counted" => GetTicks' >= GetTicks]_vars

(* The time Advance works with, from the moment it has set the timer.      *)
Now == IF At = "counted" THEN globalTimer ELSE GetTicks

BagOf(list) ==
    [e \in Seqs!ToSet(list) |-> Cardinality({i \in DOMAIN list : list[i] = e})]

(* The two lists keep the promise of TimedEvents: every event is fired     *)
(* once, in the order of their times and never early, in nested calls too; *)
(* none is lost or fired again, and time never goes back.                  *)
Promise == INSTANCE TimedEvents WITH
    now <- Now, scheduled <- BagOf(first), posted <- BagOf(tsFirst)

KeepsPromise == Promise!Spec

=============================================================================
