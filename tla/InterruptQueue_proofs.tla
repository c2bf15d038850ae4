----------------------- MODULE InterruptQueue_proofs -----------------------
(***************************************************************************)
(* Proofs about the queue of interrupts.  The inductive invariant relates  *)
(* it to the queues of alarms and virtual timers and to the timers         *)
(* themselves; from it follows that a handler's return finds its own entry *)
(* at the front, and that no timer is forgotten.                           *)
(***************************************************************************)
EXTENDS InterruptQueue, Queues_proofs

LOCAL Seqs == INSTANCE SequencesExt

TimerEntries == {SYSTIMER0, SYSTIMER1}

(* Whose handler the entry e stands for.                                   *)
Handler(e, went) == IF e \in TimerEntries THEN Head(went[e]) ELSE e

Went(went) == Entries(went[SYSTIMER0]) \cup Entries(went[SYSTIMER1])

(* The parts of the inductive invariant, of given values of the variables: *)
(* the queue of interrupts has as many entries of alarms as alarms went    *)
(* off, each of which exists and went off once; the same of virtual        *)
(* timers; and the sub-interrupts in it have handlers.                     *)
QueueTypes(q, went) ==
    /\ q \in Seq(Subs \cup TimerEntries)
    /\ went \in [TimerEntries -> Seq(Timers)]
    /\ went[SYSTIMER0] \in Seq(Alarms) /\ went[SYSTIMER1] \in Seq(VTimers)

QueuesInStep(q, went, existing, reg) ==
    /\ QueueTypes(q, went)
    /\ \A e \in TimerEntries : NoDup(went[e]) /\ Cardinality(Positions(q, e)) = Len(went[e])
    /\ Went(went) \subseteq existing
    /\ Subs \cap Entries(q) \subseteq reg

(* The handler that runs is that of the first entry.                       *)
FrontRuns(q, went, run) == run # NoHandler => q # << >> /\ run = Handler(Head(q), went)

(* A timer that went off has no event pending; only virtual timers with a  *)
(* handler have one, or went off.                                          *)
TimersOwned(went, sched, existing, hnd) ==
    /\ sched \cap Alarms \subseteq existing /\ sched \cap Went(went) = {}
    /\ sched \cap existing \cap VTimers \subseteq hnd
    /\ Entries(went[SYSTIMER1]) \subseteq hnd

TimersRemembered(went, sched, existing, act, hnd) ==
    existing \cap (Alarms \cup (act \cap hnd)) \subseteq sched \cup Went(went)

SetTypes ==
    /\ interruptsEnabled \in BOOLEAN /\ runInterrupts \in BOOLEAN
    /\ known \subseteq Subs /\ registered \subseteq known /\ enabled \subseteq known
    /\ objects \subseteq Timers /\ scheduled \subseteq Timers
    /\ active \subseteq VTimers /\ handled \subseteq VTimers

IInv ==
    /\ SetTypes
    /\ QueuesInStep(pendingInterrupts, triggered, objects, registered)
    /\ FrontRuns(pendingInterrupts, triggered, running)
    /\ TimersOwned(triggered, scheduled, objects, handled)
    /\ TimersRemembered(triggered, scheduled, objects, active, handled)

----------------------------------------------------------------------------
LEMMA Distinct ==
    /\ SYSTIMER0 # SYSTIMER1 /\ TimerEntries \cap Subs = {}
    /\ NoHandler \notin Subs \cup Timers /\ Subs \cap Timers = {} /\ Alarms \cap VTimers = {}
    /\ \A e \in TimerEntries : e = SYSTIMER0 \/ e = SYSTIMER1
BY InterruptQueueAssumption DEF TimerEntries, Subs, Timers

LEMMA WentOffIs ==
    ASSUME QueueTypes(pendingInterrupts, triggered)
    PROVE  /\ DOMAIN triggered = TimerEntries /\ WentOff = Went(triggered)
           /\ \A e : Entries(triggered[e]) = Seqs!ToSet(triggered[e])
<1>1. DOMAIN triggered = TimerEntries
  BY DEF QueueTypes
<1>2. \A e : Entries(triggered[e]) = Seqs!ToSet(triggered[e])
  BY DEF Entries, Seqs!ToSet
<1>3. WentOff = UNION {Entries(triggered[e]) : e \in TimerEntries}
  BY <1>1, <1>2 DEF WentOff
<1> QED
  BY <1>1, <1>2, <1>3 DEF Went, TimerEntries

(* No interrupt in the queue is refused.                                   *)
LEMMA AllAccepted ==
    ASSUME NEW q, NEW went, NEW existing, QueuesInStep(q, went, existing, registered),
           registered \subseteq known, NEW i \in DOMAIN q
    PROVE  /\ Entered(q[i], went, existing) = Handler(q[i], went)
           /\ Handler(q[i], went) \in Subs \cup Timers
           /\ q[i] \in TimerEntries => went[q[i]] # << >> /\ Head(went[q[i]]) \in Entries(went[q[i]])
<1>1. q[i] \in Subs \cup TimerEntries /\ q \in Seq(Subs \cup TimerEntries) /\ DOMAIN went = TimerEntries
  BY DEF QueuesInStep, QueueTypes
<1>2. CASE q[i] \in TimerEntries
  <2> DEFINE e == q[i]
  <2>1. went[e] \in Seq(Timers) /\ NoDup(went[e]) /\ Cardinality(Positions(q, e)) = Len(went[e])
    BY <1>2 DEF QueuesInStep, QueueTypes
  <2>2. e \in Entries(q)
    BY DEF Entries
  <2> HIDE DEF e
  <2>3. Len(went[e]) # 0
    BY <1>1, <2>1, <2>2, PositionsFinite
  <2>4. went[e] # << >>
    BY <2>1, <2>3
  <2>5. Head(went[e]) \in Entries(went[e])
    BY <2>1, <2>4, TailEntries
  <2>6. e \in TimerEntries
    BY <1>2 DEF e
  <2>7. Entries(went[e]) \subseteq existing
    BY <2>6, Distinct DEF QueuesInStep, Went
  <2>8. Head(went[e]) \in Timers
    BY <2>1, <2>4
  <2> QED
    BY <1>1, <2>4, <2>5, <2>6, <2>7, <2>8 DEF Entered, Handler, e
<1>3. CASE q[i] \in Subs
  <2>1. q[i] \in Entries(q)
    BY DEF Entries
  <2>2. q[i] \in known /\ q[i] \notin TimerEntries
    BY <1>3, <2>1, Distinct DEF QueuesInStep
  <2> QED
    BY <1>1, <1>3, <2>2 DEF Entered, Handler
<1> QED
  BY <1>1, <1>2, <1>3

(* So running the interrupts of a queue removes none, and enters the       *)
(* handler of the first.                                                   *)
LEMMA RunOnePendingEnters ==
    ASSUME NEW q, NEW went, NEW existing, QueuesInStep(q, went, existing, registered),
           registered \subseteq known, NEW free \in BOOLEAN, RunOnePending(free, q, went, existing)
    PROVE  /\ pendingInterrupts' = q
           /\ free => FrontRuns(q, went, running')
<1> DEFINE accepted == {i \in DOMAIN q : Entered(q[i], went, existing) # NoHandler}
<1>0. q \in Seq(Subs \cup TimerEntries) /\ DOMAIN q = 1 .. Len(q) /\ Len(q) \in Nat
  BY DEF QueuesInStep, QueueTypes
<1>1. accepted = DOMAIN q
  <2>1. ASSUME NEW i \in DOMAIN q PROVE Entered(q[i], went, existing) \in Subs \cup Timers
    BY AllAccepted
  <2> QED
    BY <2>1, Distinct
<1> HIDE DEF accepted
<1>2. CASE ~free /\ pendingInterrupts' = q
  BY <1>2
<1>3. ASSUME free,
             NEW i \in accepted, \A j \in accepted : i <= j,
             pendingInterrupts' = SubSeq(q, i, Len(q)),
             running' = Entered(q[i], went, existing)
      PROVE  pendingInterrupts' = q /\ FrontRuns(q, went, running')
  <2>1. i = 1 /\ q # << >> /\ q[1] = Head(q)
    BY <1>0, <1>1, <1>3
  <2>2. pendingInterrupts' = q
    BY <1>0, <1>3, <2>1, SubSeqFull
  <2>3. running' = Handler(Head(q), went)
    BY <1>1, <1>3, <2>1, AllAccepted
  <2> QED
    BY <2>1, <2>2, <2>3 DEF FrontRuns
<1>4. ASSUME free, accepted = {}, pendingInterrupts' = << >>, running' = NoHandler
      PROVE  pendingInterrupts' = q /\ FrontRuns(q, went, running')
  <2>1. q = << >>
    BY <1>0, <1>1, <1>4
  <2> QED
    BY <1>4, <2>1 DEF FrontRuns
<1> QED
  BY <1>2, <1>3, <1>4 DEF RunOnePending, accepted

LEMMA QueueEnters ==
    ASSUME IInv, NEW q, NEW went, QueuesInStep(q, went, objects, registered), Queue(q, went),
           FrontRuns(pendingInterrupts, triggered, running) => FrontRuns(q, went, running)
    PROVE  /\ pendingInterrupts' = q /\ triggered' = went
           /\ FrontRuns(q, went, running')
<1> DEFINE free == interruptsEnabled /\ ~inInterrupt
<1>1. registered \subseteq known /\ free \in BOOLEAN
  BY DEF IInv, SetTypes
<1>2. RunOnePending(free, q, went, objects) /\ (~free => running' = running) /\ triggered' = went
  BY DEF Queue
<1> HIDE DEF free
<1>3. pendingInterrupts' = q /\ (free => FrontRuns(q, went, running'))
  BY <1>1, <1>2, RunOnePendingEnters
<1>4. FrontRuns(q, went, running)
  BY DEF IInv
<1> QED
  BY <1>2, <1>3, <1>4

----------------------------------------------------------------------------
LEMMA InitInv ==
    ASSUME Init
    PROVE  IInv
<1>1. /\ QueueTypes(pendingInterrupts, triggered)
      /\ pendingInterrupts = << >> /\ \A e \in TimerEntries : triggered[e] = << >>
  BY DEF Init, QueueTypes, TimerEntries
<1>2. \A e : Cardinality(Positions(<< >>, e)) = 0
  <2>1. << >> \in Seq(Subs)
    OBVIOUS
  <2> QED
    BY <2>1, NoEntry, PositionsFinite
<1>3. triggered[SYSTIMER0] = << >> /\ triggered[SYSTIMER1] = << >>
  BY <1>1 DEF TimerEntries
<1>4. QueuesInStep(pendingInterrupts, triggered, objects, registered)
  BY <1>1, <1>2, <1>3, NoEntry DEF QueuesInStep, Went
<1> QED
  BY <1>3, <1>4, NoEntry DEF Init, IInv, SetTypes, FrontRuns, TimersOwned, TimersRemembered

(* The steps that leave the queues alone, and the handlers that run.       *)
LEMMA QueuesKept ==
    ASSUME IInv, UNCHANGED queues, registered \subseteq registered', Went(triggered) \subseteq objects'
    PROVE  /\ QueuesInStep(pendingInterrupts, triggered, objects, registered)'
           /\ FrontRuns(pendingInterrupts, triggered, running)'
BY DEF IInv, queues, QueuesInStep, FrontRuns

LEMMA CallsOnHandlers ==
    ASSUME IInv, UNCHANGED <<queues, clock>>, registered \subseteq registered', SetTypes'
    PROVE  IInv'
<1>1. Went(triggered) \subseteq objects'
  BY DEF IInv, QueuesInStep, clock
<1>2. /\ QueuesInStep(pendingInterrupts, triggered, objects, registered)'
      /\ FrontRuns(pendingInterrupts, triggered, running)'
  BY <1>1, QueuesKept
<1> QED
  BY <1>2 DEF IInv, TimersOwned, TimersRemembered, clock, vtimers, queues

LEMMA RegisterSubIntrHandlerInv ==
    ASSUME IInv, NEW h \in Subs, RegisterSubIntrHandler(h)
    PROVE  IInv'
BY CallsOnHandlers DEF RegisterSubIntrHandler, IInv, SetTypes, clock, vtimers

LEMMA EnableSubIntrInv ==
    ASSUME IInv, NEW h \in Subs, EnableSubIntr(h) \/ DisableSubIntr(h)
    PROVE  IInv'
BY CallsOnHandlers DEF EnableSubIntr, DisableSubIntr, IInv, SetTypes, clock, vtimers

LEMMA CpuSuspendIntrInv ==
    ASSUME IInv, CpuSuspendIntr \/ CpuResumeIntr
    PROVE  IInv'
BY CallsOnHandlers DEF CpuSuspendIntr, CpuResumeIntr, IInv, SetTypes, clock, vtimers, handlers

(* A handler that is released does not run, so that the first entry stays. *)
LEMMA ReleaseSubIntrHandlerInv ==
    ASSUME IInv, ~ReleasesItself, NEW h \in Subs, ReleaseSubIntrHandler(h)
    PROVE  IInv'
<1> DEFINE S == (Subs \cup TimerEntries) \ {h}
           r == Selected(pendingInterrupts, S)
<1>1. /\ pendingInterrupts \in Seq(Subs \cup TimerEntries) /\ DOMAIN triggered = TimerEntries
      /\ running # h
  BY DEF ReleaseSubIntrHandler, IInv, QueuesInStep, QueueTypes
<1>2. pendingInterrupts' = r /\ UNCHANGED <<triggered, running, clock>> /\ registered' = registered \ {h}
  BY <1>1 DEF ReleaseSubIntrHandler
<1>3. r \in Seq(Subs \cup TimerEntries) /\ Entries(r) = Entries(pendingInterrupts) \cap S
  BY <1>1, SelectedEntries
<1>4. \A e \in TimerEntries : Cardinality(Positions(r, e)) = Cardinality(Positions(pendingInterrupts, e))
  <2>1. \A e \in TimerEntries : e \in S
    BY Distinct
  <2> HIDE DEF S
  <2> QED
    BY <1>1, <2>1, SelectedCount
<1>5. FrontRuns(pendingInterrupts, triggered, running)'
  <2> SUFFICES ASSUME running # NoHandler
               PROVE  r # << >> /\ running = Handler(Head(r), triggered)
    BY <1>2 DEF FrontRuns
  <2>1. pendingInterrupts # << >> /\ running = Handler(Head(pendingInterrupts), triggered)
    BY DEF IInv, FrontRuns
  <2>2. Head(pendingInterrupts) \in Subs \cup TimerEntries
    BY <1>1, <2>1
  <2>3. Head(pendingInterrupts) \in S
    BY <1>1, <2>1, <2>2, Distinct DEF Handler
  <2> HIDE DEF S
  <2> QED
    BY <1>1, <2>1, <2>3, SelectedHead
<1> HIDE DEF r
<1>6. QueuesInStep(pendingInterrupts, triggered, objects, registered)'
  <2>1. UNCHANGED objects
    BY <1>2 DEF clock
  <2> QED
    BY <1>2, <1>3, <1>4, <2>1 DEF IInv, QueuesInStep, QueueTypes
<1>7. SetTypes'
  BY DEF ReleaseSubIntrHandler, IInv, SetTypes, clock, vtimers
<1> QED
  BY <1>2, <1>5, <1>6, <1>7 DEF IInv, TimersOwned, TimersRemembered, clock, vtimers

----------------------------------------------------------------------------
(* Calls on timers that did not go off.                                    *)
LEMMA SetAlarmInv ==
    ASSUME IInv, NEW a \in Alarms, SetAlarm(a)
    PROVE  IInv'
<1>1. a \notin objects \cup Went(triggered) /\ a \notin VTimers /\ a \in Timers
  BY WentOffIs, Distinct DEF SetAlarm, IInv, QueuesInStep, Timers
<1>2. UNCHANGED queues /\ UNCHANGED registered /\ Went(triggered) \subseteq objects'
  BY DEF SetAlarm, IInv, QueuesInStep, handlers
<1>3. /\ QueuesInStep(pendingInterrupts, triggered, objects, registered)'
      /\ FrontRuns(pendingInterrupts, triggered, running)'
  BY <1>2, QueuesKept
<1> QED
  BY <1>1, <1>3 DEF SetAlarm, IInv, SetTypes, TimersOwned, TimersRemembered, handlers, vtimers, queues

LEMMA CancelAlarmInv ==
    ASSUME IInv, ~CancelsLate, NEW a \in Alarms, CancelAlarm(a)
    PROVE  IInv'
<1>1. a \notin Went(triggered)
  BY WentOffIs DEF CancelAlarm, IInv, QueuesInStep
<1>2. UNCHANGED queues /\ UNCHANGED registered /\ Went(triggered) \subseteq objects'
  BY <1>1 DEF CancelAlarm, IInv, QueuesInStep, handlers
<1>3. /\ QueuesInStep(pendingInterrupts, triggered, objects, registered)'
      /\ FrontRuns(pendingInterrupts, triggered, running)'
  BY <1>2, QueuesKept
<1> QED
  BY <1>1, <1>3 DEF CancelAlarm, IInv, SetTypes, TimersOwned, TimersRemembered, handlers, vtimers, queues

LEMMA CreateVTimerInv ==
    ASSUME IInv, NEW v \in VTimers, CreateVTimer(v)
    PROVE  IInv'
<1>1. v \notin objects \cup scheduled \cup Went(triggered) /\ v \notin Alarms /\ v \in Timers
  BY WentOffIs, Distinct DEF CreateVTimer, IInv, QueuesInStep, Timers
<1>2. UNCHANGED queues /\ UNCHANGED registered /\ Went(triggered) \subseteq objects'
  BY DEF CreateVTimer, IInv, QueuesInStep, handlers
<1>3. /\ QueuesInStep(pendingInterrupts, triggered, objects, registered)'
      /\ FrontRuns(pendingInterrupts, triggered, running)'
  BY <1>2, QueuesKept
<1>4. v \notin Entries(triggered[SYSTIMER1])
  BY <1>1 DEF Went
<1> QED
  BY <1>1, <1>3, <1>4 DEF CreateVTimer, IInv, SetTypes, TimersOwned, TimersRemembered, handlers, vtimers, queues

(* One that did not go off is not in the queue of virtual timers.          *)
LEMMA DeleteVTimerInv ==
    ASSUME IInv, ~CancelsLate, NEW v \in VTimers, DeleteVTimer(v)
    PROVE  IInv'
<1>1. QueueTypes(pendingInterrupts, triggered) /\ v \notin Went(triggered)
  BY WentOffIs DEF DeleteVTimer, OnVTimer, IInv, QueuesInStep
<1>2. Seqs!RemoveFirst(triggered[SYSTIMER1], v) = triggered[SYSTIMER1]
  <2>1. v \notin Entries(triggered[SYSTIMER1])
    BY <1>1 DEF Went
  <2>2. DOMAIN triggered[SYSTIMER1] = 1 .. Len(triggered[SYSTIMER1])
    BY <1>1 DEF QueueTypes
  <2> QED
    BY <2>1, <2>2 DEF Seqs!RemoveFirst, Entries
<1>3. triggered' = triggered
  BY <1>1, <1>2 DEF DeleteVTimer, QueueTypes
<1>4. UNCHANGED queues /\ UNCHANGED registered /\ Went(triggered) \subseteq objects'
  BY <1>1, <1>3 DEF DeleteVTimer, OnVTimer, IInv, QueuesInStep, handlers, queues
<1>5. /\ QueuesInStep(pendingInterrupts, triggered, objects, registered)'
      /\ FrontRuns(pendingInterrupts, triggered, running)'
  BY <1>4, QueuesKept
<1>6. v \notin Alarms
  BY Distinct
<1>7. SetTypes'
  BY DEF DeleteVTimer, OnVTimer, IInv, SetTypes, handlers, vtimers
<1>8. objects' = objects \ {v} /\ UNCHANGED <<scheduled, active, handled>>
  BY DEF DeleteVTimer, vtimers
<1>9. TimersOwned(triggered, scheduled, objects, handled)'
  BY <1>3, <1>6, <1>8 DEF IInv, TimersOwned
<1>10. TimersRemembered(triggered, scheduled, objects, active, handled)'
  BY <1>3, <1>8 DEF IInv, TimersRemembered
<1> QED
  BY <1>5, <1>7, <1>9, <1>10 DEF IInv

(* The other calls on virtual timers: they schedule an event if the timer  *)
(* runs and has a handler, and at most then.                               *)
LEMMA OnVTimerInv ==
    ASSUME IInv, ~CancelsLate, NEW v \in VTimers, OnVTimer(v), UNCHANGED <<objects, triggered>>,
           \/ scheduled' = Rescheduled(v, active', handled')
           \/ scheduled' = scheduled /\ handled' = handled /\ v \notin handled,
           active' \in {active, active \cup {v}}, handled' \in {handled, handled \cup {v}, handled \ {v}}
    PROVE  IInv'
<1>1. v \notin Went(triggered) /\ v \in objects
  BY WentOffIs DEF OnVTimer, IInv, QueuesInStep
<1>2. UNCHANGED queues /\ UNCHANGED registered /\ Went(triggered) \subseteq objects'
  BY DEF OnVTimer, IInv, QueuesInStep, handlers, queues
<1>3. /\ QueuesInStep(pendingInterrupts, triggered, objects, registered)'
      /\ FrontRuns(pendingInterrupts, triggered, running)'
  BY <1>2, QueuesKept
<1>4. SetTypes'
  BY DEF IInv, SetTypes, OnVTimer, handlers, Rescheduled, Timers
<1>5. v \notin Entries(triggered[SYSTIMER1]) /\ v \notin Alarms
  BY <1>1, Distinct DEF Went
<1>6. TimersOwned(triggered, scheduled, objects, handled)'
  BY <1>1, <1>5 DEF IInv, TimersOwned, Rescheduled
<1>7. TimersRemembered(triggered, scheduled, objects, active, handled)'
  BY <1>1, <1>5 DEF IInv, TimersRemembered, Rescheduled
<1> QED
  BY <1>3, <1>4, <1>6, <1>7 DEF IInv

LEMMA StartVTimerInv ==
    ASSUME IInv, ~CancelsLate, NEW v \in VTimers, StartVTimer(v)
    PROVE  IInv'
BY OnVTimerInv DEF StartVTimer

LEMMA SetVTimerHandlerInv ==
    ASSUME IInv, ~CancelsLate, NEW v \in VTimers, NEW set \in BOOLEAN, SetVTimerHandler(v, set)
    PROVE  IInv'
BY OnVTimerInv DEF SetVTimerHandler

LEMMA SetVTimerTimeInv ==
    ASSUME IInv, ~CancelsLate, NEW v \in VTimers, SetVTimerTime(v)
    PROVE  IInv'
BY OnVTimerInv DEF SetVTimerTime, vtimers

LEMMA CancelVTimerHandlerInv ==
    ASSUME IInv, ~CancelsLate, NEW v \in VTimers, CancelVTimerHandler(v)
    PROVE  IInv'
BY OnVTimerInv DEF CancelVTimerHandler, Rescheduled

LEMMA StopVTimerInv ==
    ASSUME IInv, NEW v \in VTimers, StopVTimer(v)
    PROVE  IInv'
<1>1. UNCHANGED queues /\ UNCHANGED registered /\ Went(triggered) \subseteq objects'
  BY DEF StopVTimer, IInv, QueuesInStep, handlers, queues
<1>2. /\ QueuesInStep(pendingInterrupts, triggered, objects, registered)'
      /\ FrontRuns(pendingInterrupts, triggered, running)'
  BY <1>1, QueuesKept
<1> QED
  BY <1>2 DEF StopVTimer, IInv, SetTypes, TimersOwned, TimersRemembered, handlers, queues

----------------------------------------------------------------------------
LEMMA FinishSyscallInv ==
    ASSUME IInv, FinishSyscall
    PROVE  IInv'
<1>1. QueuesInStep(pendingInterrupts, triggered, objects, registered)
  BY DEF IInv
<1>2. /\ UNCHANGED <<pendingInterrupts, triggered>>
      /\ FrontRuns(pendingInterrupts, triggered, running')
  BY <1>1, QueueEnters DEF FinishSyscall
<1> QED
  BY <1>2 DEF FinishSyscall, IInv, SetTypes, QueuesInStep, TimersOwned, TimersRemembered, clock, vtimers, handlers

(* Entries that join at the end of a queue leave the first where it is.    *)
LEMMA HeadKept ==
    ASSUME NEW T, NEW q \in Seq(T), q # << >>, NEW r \in Seq(T)
    PROVE  q \o r # << >> /\ Head(q \o r) = Head(q)
OBVIOUS

LEMMA AppendHead ==
    ASSUME NEW T, NEW q \in Seq(T), q # << >>, NEW t \in T
    PROVE  Append(q, t) # << >> /\ Head(Append(q, t)) = Head(q)
OBVIOUS

LEMMA TriggerVblankInv ==
    ASSUME IInv, TriggerVblank
    PROVE  IInv'
<1> DEFINE r == Selected(SubIntrs, registered \cap enabled)
           q == pendingInterrupts \o r
<1>1. r \in Seq(Subs) /\ Entries(r) \subseteq registered /\ Subs \subseteq Subs \cup TimerEntries
  <2>1. SubIntrs \in Seq(Subs)
    BY InterruptQueueAssumption DEF Subs
  <2> QED
    BY <2>1, SelectedEntries
<1> HIDE DEF r
<1>2. /\ pendingInterrupts \in Seq(Subs \cup TimerEntries) /\ r \in Seq(Subs \cup TimerEntries)
      /\ \A e \in TimerEntries : e \notin Entries(r)
  <2>1. Entries(r) \subseteq Subs
    BY <1>1 DEF Entries
  <2>2. r \in Seq(Subs \cup TimerEntries)
    BY <1>1
  <2>3. pendingInterrupts \in Seq(Subs \cup TimerEntries)
    BY DEF IInv, QueuesInStep, QueueTypes
  <2> QED
    BY <2>1, <2>2, <2>3, Distinct
<1>3. q \in Seq(Subs \cup TimerEntries)
  BY <1>2
<1>4. Subs \cap Entries(q) \subseteq registered
  <2>1. ASSUME NEW x, x \in Subs, x \in Entries(q), x \notin Entries(r) PROVE x \in Entries(pendingInterrupts)
    <3>1. Positions(q, x) = Positions(pendingInterrupts, x)
      BY <1>2, <2>1, ConcatCount
    <3> QED
      BY <2>1, <3>1 DEF Positions, Entries
  <2> QED
    BY <1>1, <2>1 DEF IInv, QueuesInStep
<1>5. \A e \in TimerEntries : Positions(q, e) = Positions(pendingInterrupts, e)
  BY <1>2, ConcatCount
<1>6. FrontRuns(pendingInterrupts, triggered, running) => FrontRuns(q, triggered, running)
  BY <1>2, HeadKept DEF FrontRuns
<1>7. Queue(q, triggered)
  BY DEF TriggerVblank, r
<1> HIDE DEF q
<1>8. QueuesInStep(q, triggered, objects, registered)
  BY <1>3, <1>4, <1>5 DEF IInv, QueuesInStep, QueueTypes
<1>9. pendingInterrupts' = q /\ triggered' = triggered /\ FrontRuns(q, triggered, running')
  BY <1>6, <1>7, <1>8, QueueEnters
<1>10. UNCHANGED <<interruptsEnabled, handlers, clock, runInterrupts>>
  BY DEF TriggerVblank
<1>11. QueuesInStep(pendingInterrupts, triggered, objects, registered)'
  BY <1>8, <1>9, <1>10 DEF clock, handlers
<1> QED
  BY <1>9, <1>10, <1>11 DEF IInv, SetTypes, TimersOwned, TimersRemembered, clock, vtimers, handlers

(* A timer whose event is due joins its own queue and that of interrupts.  *)
LEMMA TriggerTimerInv ==
    ASSUME IInv, NEW a \in Timers, TriggerTimer(a)
    PROVE  IInv'
<1> DEFINE e == IF a \in Alarms THEN SYSTIMER0 ELSE SYSTIMER1
           q == Append(pendingInterrupts, e)
           went == [triggered EXCEPT ![e] = Append(@, a)]
<1>0. /\ scheduled' = scheduled \ {a} /\ a \in scheduled
      /\ UNCHANGED <<interruptsEnabled, handlers, objects, vtimers, runInterrupts>>
      /\ a \in objects => Queue(q, went)
      /\ a \notin objects => UNCHANGED queues
  BY DEF TriggerTimer
<1>1. /\ QueueTypes(pendingInterrupts, triggered) /\ e \in TimerEntries
      /\ a \notin Went(triggered) /\ Went(triggered) \subseteq objects
      /\ e = SYSTIMER0 => a \in Alarms
      /\ e = SYSTIMER1 => a \in VTimers /\ a \notin Alarms
  BY <1>0, Distinct DEF IInv, QueuesInStep, TimersOwned, TimerEntries, Timers
<1>2. CASE a \notin objects
  <2>1. UNCHANGED queues /\ UNCHANGED registered /\ Went(triggered) \subseteq objects'
    BY <1>0, <1>1, <1>2 DEF handlers
  <2>2. /\ QueuesInStep(pendingInterrupts, triggered, objects, registered)'
        /\ FrontRuns(pendingInterrupts, triggered, running)'
    BY <2>1, QueuesKept
  <2> QED
    BY <1>0, <1>2, <2>1, <2>2 DEF IInv, SetTypes, TimersOwned, TimersRemembered, handlers, vtimers, queues
<1>3. CASE a \in objects
  <2> HIDE DEF e
  <2>1. /\ went \in [TimerEntries -> Seq(Timers)] /\ went[e] = Append(triggered[e], a)
        /\ \A o \in TimerEntries : o # e => went[o] = triggered[o]
        /\ triggered[e] \in Seq(Timers)
    BY <1>1 DEF QueueTypes
  <2> HIDE DEF went
  <2>2. NoDup(triggered[e]) /\ a \notin Entries(triggered[e])
    BY <1>1, Distinct DEF IInv, QueuesInStep, Went
  <2>3. NoDup(went[e]) /\ Entries(went[e]) = Entries(triggered[e]) \cup {a}
    BY <2>1, <2>2, AppendEntries
  <2>4. went[SYSTIMER0] \in Seq(Alarms) /\ went[SYSTIMER1] \in Seq(VTimers)
    <3>0. triggered[SYSTIMER0] \in Seq(Alarms) /\ triggered[SYSTIMER1] \in Seq(VTimers)
      BY <1>1 DEF QueueTypes
    <3>1. CASE e = SYSTIMER0
      <4>1. went[SYSTIMER1] = triggered[SYSTIMER1]
        BY <2>1, <3>1, Distinct DEF TimerEntries
      <4>2. a \in Alarms /\ went[SYSTIMER0] = Append(triggered[SYSTIMER0], a)
        BY <1>1, <2>1, <3>1
      <4> QED
        BY <3>0, <4>1, <4>2
    <3>2. CASE e = SYSTIMER1
      <4>1. went[SYSTIMER0] = triggered[SYSTIMER0]
        BY <2>1, <3>2, Distinct DEF TimerEntries
      <4>2. a \in VTimers /\ went[SYSTIMER1] = Append(triggered[SYSTIMER1], a)
        BY <1>1, <2>1, <3>2
      <4> QED
        BY <3>0, <4>1, <4>2
    <3> QED
      BY <1>1, <3>1, <3>2, Distinct
  <2>5. Went(went) = Went(triggered) \cup {a}
    BY <1>1, <2>1, <2>3, Distinct DEF Went, TimerEntries
  <2>6. /\ pendingInterrupts \in Seq(Subs \cup TimerEntries) /\ e \in Subs \cup TimerEntries
        /\ q \in Seq(Subs \cup TimerEntries)
    BY <1>1 DEF QueueTypes
  <2>7. ASSUME NEW x
        PROVE  Cardinality(Positions(q, x)) =
                 IF e = x THEN Cardinality(Positions(pendingInterrupts, x)) + 1
                 ELSE Cardinality(Positions(pendingInterrupts, x))
    BY <2>6, AppendCount
  <2>8. Len(went[e]) = Len(triggered[e]) + 1
    BY <2>1
  <2>9. \A x \in TimerEntries : NoDup(went[x]) /\ Cardinality(Positions(q, x)) = Len(went[x])
    BY <2>1, <2>3, <2>7, <2>8 DEF IInv, QueuesInStep
  <2>10. Subs \cap Entries(q) \subseteq registered
    <3>1. ASSUME NEW x, x \in Subs, x \in Entries(q) PROVE x \in Entries(pendingInterrupts)
      BY <1>1, <2>6, <2>7, <3>1, PositionsFinite, Distinct
    <3> QED
      BY <3>1 DEF IInv, QueuesInStep
  <2>11. FrontRuns(pendingInterrupts, triggered, running) => FrontRuns(q, went, running)
    <3> SUFFICES ASSUME running # NoHandler, pendingInterrupts # << >>,
                        running = Handler(Head(pendingInterrupts), triggered)
                 PROVE  q # << >> /\ running = Handler(Head(q), went)
      BY DEF FrontRuns
    <3>1. q # << >> /\ Head(q) = Head(pendingInterrupts)
      BY <2>6, AppendHead
    <3> DEFINE h == Head(pendingInterrupts)
    <3>2. h = pendingInterrupts[1] /\ 1 \in DOMAIN pendingInterrupts
      BY <2>6
    <3>3. h \in TimerEntries => triggered[h] # << >>
      BY <3>2, AllAccepted DEF IInv, SetTypes
    <3>4. h \in TimerEntries => Head(went[h]) = Head(triggered[h])
      BY <1>1, <2>1, <3>3, AppendHead
    <3> HIDE DEF h
    <3>5. Handler(h, went) = Handler(h, triggered)
      BY <3>4 DEF Handler
    <3> QED
      BY <3>1, <3>5 DEF h
  <2> HIDE DEF q
  <2>12. QueuesInStep(q, went, objects, registered)
    BY <1>1, <1>3, <2>1, <2>4, <2>5, <2>6, <2>9, <2>10 DEF QueuesInStep, QueueTypes
  <2>13. pendingInterrupts' = q /\ triggered' = went /\ FrontRuns(q, went, running')
    BY <1>0, <1>3, <2>11, <2>12, QueueEnters DEF q, went, e
  <2>14. QueuesInStep(pendingInterrupts, triggered, objects, registered)'
    BY <1>0, <2>12, <2>13 DEF handlers
  <2>15. SetTypes'
    BY <1>0 DEF IInv, SetTypes, handlers, vtimers
  <2>16. TimersOwned(triggered, scheduled, objects, handled)'
    <3>1. a \in VTimers => a \in handled
      BY <1>0, <1>3 DEF IInv, TimersOwned
    <3>2. Entries(went[SYSTIMER1]) \subseteq Entries(triggered[SYSTIMER1]) \cup ({a} \cap VTimers)
      BY <1>1, <2>1, <2>3, Distinct DEF TimerEntries
    <3> QED
      BY <1>0, <2>5, <2>13, <3>1, <3>2 DEF IInv, TimersOwned, vtimers
  <2>17. TimersRemembered(triggered, scheduled, objects, active, handled)'
    BY <1>0, <2>5, <2>13 DEF IInv, TimersRemembered, vtimers
  <2> QED
    BY <2>13, <2>14, <2>15, <2>16, <2>17 DEF IInv
<1> QED
  BY <1>2, <1>3

----------------------------------------------------------------------------
(* The handler that ran was that of the first entry, which leaves the      *)
(* queue together with the timer it belongs to.                            *)
LEMMA SubIntrReturned ==
    ASSUME IInv, NEW q, pendingInterrupts # << >>, q = Tail(pendingInterrupts),
           Head(pendingInterrupts) \in Subs
    PROVE  QueuesInStep(q, triggered, objects, registered)
<1>1. QueueTypes(pendingInterrupts, triggered) /\ pendingInterrupts \in Seq(Subs \cup TimerEntries)
  BY DEF IInv, QueuesInStep, QueueTypes
<1>2. QueueTypes(q, triggered)
  BY <1>1 DEF QueueTypes
<1>3. \A e \in TimerEntries : Cardinality(Positions(q, e)) = Cardinality(Positions(pendingInterrupts, e))
  BY <1>1, TailCount, Distinct
<1>4. Entries(q) \subseteq Entries(pendingInterrupts)
  BY <1>1 DEF Entries
<1> QED
  BY <1>2, <1>3, <1>4 DEF IInv, QueuesInStep

LEMMA TimerReturned ==
    ASSUME IInv, NEW q, pendingInterrupts # << >>, q = Tail(pendingInterrupts),
           NEW e \in TimerEntries, Head(pendingInterrupts) = e,
           NEW went, went = [triggered EXCEPT ![e] = Tail(@)],
           NEW existing, objects \ {Head(triggered[e])} \subseteq existing
    PROVE  /\ QueuesInStep(q, went, existing, registered)
           /\ Went(went) = Went(triggered) \ {Head(triggered[e])}
           /\ Entries(went[SYSTIMER1]) = Entries(triggered[SYSTIMER1]) \ {Head(triggered[e])}
           /\ triggered[e] # << >> /\ Head(triggered[e]) \in Went(triggered)
           /\ Head(triggered[e]) \in Entries(triggered[e])
<1> DEFINE a == Head(triggered[e])
<1>1. /\ QueueTypes(pendingInterrupts, triggered) /\ pendingInterrupts \in Seq(Subs \cup TimerEntries)
      /\ triggered[e] \in Seq(Timers) /\ NoDup(triggered[e])
  BY DEF IInv, QueuesInStep, QueueTypes
<1>2. triggered[e] # << >>
  <2>1. Head(pendingInterrupts) = pendingInterrupts[1] /\ 1 \in DOMAIN pendingInterrupts
    BY <1>1
  <2> QED
    BY <2>1, AllAccepted DEF IInv, SetTypes
<1>3. /\ a \in Entries(triggered[e]) /\ Tail(triggered[e]) \in Seq(Timers) /\ NoDup(Tail(triggered[e]))
      /\ Entries(Tail(triggered[e])) = Entries(triggered[e]) \ {a}
      /\ Len(triggered[e]) = Len(Tail(triggered[e])) + 1
  BY <1>1, <1>2, TailEntries
<1>4. /\ went[e] = Tail(triggered[e]) /\ went \in [TimerEntries -> Seq(Timers)]
      /\ \A o \in TimerEntries : o # e => went[o] = triggered[o]
  BY <1>1, <1>3 DEF QueueTypes
<1> HIDE DEF a
<1>5. /\ triggered[SYSTIMER0] \in Seq(Alarms) /\ triggered[SYSTIMER1] \in Seq(VTimers)
      /\ went[SYSTIMER0] \in {triggered[SYSTIMER0], Tail(triggered[e])}
      /\ went[SYSTIMER1] \in {triggered[SYSTIMER1], Tail(triggered[e])}
      /\ e = SYSTIMER0 => went[SYSTIMER1] = triggered[SYSTIMER1]
      /\ e = SYSTIMER1 => went[SYSTIMER0] = triggered[SYSTIMER0]
  BY <1>1, <1>4, Distinct DEF QueueTypes, TimerEntries
<1>6. went[SYSTIMER0] \in Seq(Alarms) /\ went[SYSTIMER1] \in Seq(VTimers)
  <2>1. CASE e = SYSTIMER0
    BY <1>2, <1>5, <2>1
  <2>2. CASE e = SYSTIMER1
    BY <1>2, <1>5, <2>2
  <2> QED
    BY <2>1, <2>2, Distinct
<1>7. Entries(triggered[SYSTIMER0]) \subseteq Alarms /\ Entries(triggered[SYSTIMER1]) \subseteq VTimers
  <2>1. \A i \in DOMAIN triggered[SYSTIMER0] : triggered[SYSTIMER0][i] \in Alarms
    BY <1>5
  <2>2. \A i \in DOMAIN triggered[SYSTIMER1] : triggered[SYSTIMER1][i] \in VTimers
    BY <1>5
  <2> QED
    BY <2>1, <2>2 DEF Entries
<1>8. /\ Entries(went[SYSTIMER0]) = Entries(triggered[SYSTIMER0]) \ {a}
      /\ Entries(went[SYSTIMER1]) = Entries(triggered[SYSTIMER1]) \ {a}
  <2>1. CASE e = SYSTIMER0
    <3>1. a \in Alarms /\ a \notin VTimers
      BY <1>3, <1>7, <2>1, Distinct
    <3> QED
      BY <1>3, <1>4, <1>5, <1>7, <2>1, <3>1
  <2>2. CASE e = SYSTIMER1
    <3>1. a \in VTimers /\ a \notin Alarms
      BY <1>3, <1>7, <2>2, Distinct
    <3> QED
      BY <1>3, <1>4, <1>5, <1>7, <2>2, <3>1
  <2> QED
    BY <2>1, <2>2, Distinct
<1>9. Went(went) = Went(triggered) \ {a} /\ a \in Went(triggered)
  BY <1>3, <1>8, Distinct DEF Went
<1>10. /\ q \in Seq(Subs \cup TimerEntries) /\ Entries(q) \subseteq Entries(pendingInterrupts)
  BY <1>1 DEF Entries
<1>11. \A o \in TimerEntries : Cardinality(Positions(q, o)) = Len(went[o])
  <2> SUFFICES ASSUME NEW o \in TimerEntries
               PROVE  Cardinality(Positions(q, o)) = Len(went[o])
    OBVIOUS
  <2>1. Cardinality(Positions(pendingInterrupts, o)) = Len(triggered[o])
    BY DEF IInv, QueuesInStep
  <2>2. /\ Cardinality(Positions(pendingInterrupts, o)) =
             IF e = o THEN Cardinality(Positions(q, o)) + 1 ELSE Cardinality(Positions(q, o))
        /\ Cardinality(Positions(q, o)) \in Nat
    BY <1>1, <1>10, TailCount, PositionsFinite
  <2>3. CASE o = e
    <3>1. Len(triggered[o]) = Len(went[o]) + 1 /\ Len(went[o]) \in Nat
      BY <1>3, <1>4, <2>3
    <3>2. Cardinality(Positions(pendingInterrupts, o)) = Cardinality(Positions(q, o)) + 1
      BY <2>2, <2>3
    <3>3. Cardinality(Positions(q, o)) \in Nat
      BY <2>2
    <3> QED
      BY <2>1, <3>1, <3>2, <3>3
  <2>4. CASE o # e
    BY <1>4, <2>1, <2>2, <2>4
  <2> QED
    BY <2>3, <2>4
<1>12. \A o \in TimerEntries : NoDup(went[o])
  BY <1>3, <1>4 DEF IInv, QueuesInStep
<1>13. QueuesInStep(q, went, existing, registered)
  BY <1>4, <1>6, <1>9, <1>10, <1>11, <1>12 DEF IInv, QueuesInStep, QueueTypes, a
<1> QED
  BY <1>2, <1>3, <1>8, <1>9, <1>13 DEF a

LEMMA ReturnFromInterruptInv ==
    ASSUME IInv, NEW again \in BOOLEAN, ReturnFromInterrupt(again)
    PROVE  IInv'
<1> DEFINE e == Head(pendingInterrupts)
           q == Tail(pendingInterrupts)
           a == Head(triggered[e])
<1>1. /\ pendingInterrupts # << >> /\ interruptsEnabled \in BOOLEAN /\ registered \subseteq known
      /\ UNCHANGED <<interruptsEnabled, handlers, runInterrupts>>
      /\ RunOnePending(interruptsEnabled, q, triggered', objects')
      /\ ~interruptsEnabled => running' = NoHandler
      /\ DOMAIN triggered = TimerEntries
  BY DEF ReturnFromInterrupt, IInv, SetTypes, QueuesInStep, QueueTypes
<1>2. ASSUME QueuesInStep(q, triggered', objects', registered),
             TimersOwned(triggered, scheduled, objects, handled)',
             TimersRemembered(triggered, scheduled, objects, active, handled)',
             objects' \subseteq Timers, scheduled' \subseteq Timers, handled' \subseteq VTimers, active' = active
      PROVE  IInv'
  <2>1. pendingInterrupts' = q /\ (interruptsEnabled => FrontRuns(q, triggered', running'))
    BY <1>1, <1>2, RunOnePendingEnters
  <2>2. FrontRuns(q, triggered', running')
    BY <1>1, <2>1 DEF FrontRuns
  <2> HIDE DEF q
  <2>3. QueuesInStep(pendingInterrupts, triggered, objects, registered)'
    BY <1>1, <1>2, <2>1 DEF handlers
  <2>4. SetTypes'
    BY <1>1, <1>2 DEF IInv, SetTypes, handlers
  <2> QED
    BY <1>2, <2>1, <2>2, <2>3, <2>4 DEF IInv
<1>3. CASE e \in Subs /\ UNCHANGED <<triggered, clock>>
  <2>1. QueuesInStep(q, triggered, objects, registered)
    BY <1>1, <1>3, SubIntrReturned
  <2> HIDE DEF q
  <2> QED
    BY <1>2, <1>3, <2>1 DEF clock, vtimers, IInv, SetTypes, TimersOwned, TimersRemembered
<1>4. ASSUME e \in TimerEntries, triggered' = [triggered EXCEPT ![e] = Tail(@)], objects \ {a} \subseteq objects'
      PROVE  /\ QueuesInStep(q, triggered', objects', registered)
             /\ Went(triggered') = Went(triggered) \ {a} /\ a \in Went(triggered) /\ a \in objects
             /\ Entries(triggered'[SYSTIMER1]) = Entries(triggered[SYSTIMER1]) \ {a}
             /\ a \in Entries(triggered[e])
  <2>1. /\ QueuesInStep(q, triggered', objects', registered)
        /\ Went(triggered') = Went(triggered) \ {a} /\ a \in Went(triggered)
        /\ Entries(triggered'[SYSTIMER1]) = Entries(triggered[SYSTIMER1]) \ {a}
        /\ a \in Entries(triggered[e])
    BY <1>1, <1>4, TimerReturned
  <2> HIDE DEF a, q
  <2> QED
    BY <2>1 DEF IInv, QueuesInStep
<1>5. Entries(triggered[SYSTIMER0]) \subseteq Alarms /\ Entries(triggered[SYSTIMER1]) \subseteq VTimers
  <2>1. \A i \in DOMAIN triggered[SYSTIMER0] : triggered[SYSTIMER0][i] \in Alarms
    BY DEF IInv, QueuesInStep, QueueTypes
  <2>2. \A i \in DOMAIN triggered[SYSTIMER1] : triggered[SYSTIMER1][i] \in VTimers
    BY DEF IInv, QueuesInStep, QueueTypes
  <2> QED
    BY <2>1, <2>2 DEF Entries
<1>6. ASSUME e = SYSTIMER0, triggered' = [triggered EXCEPT ![e] = Tail(@)], AlarmReturned(a, again)
      PROVE  IInv'
  <2>1. objects \ {a} \subseteq objects' /\ objects' \subseteq objects /\ active' = active /\ handled' = handled
    BY <1>6 DEF AlarmReturned, vtimers
  <2>2. /\ QueuesInStep(q, triggered', objects', registered)
        /\ Went(triggered') = Went(triggered) \ {a} /\ a \in Went(triggered) /\ a \in objects
        /\ Entries(triggered'[SYSTIMER1]) = Entries(triggered[SYSTIMER1]) \ {a}
        /\ a \in Entries(triggered[SYSTIMER0])
    BY <1>4, <1>6, <2>1 DEF TimerEntries
  <2>3. a \in Alarms /\ a \notin VTimers /\ a \in Timers
    BY <1>5, <2>2, Distinct DEF Timers
  <2> HIDE DEF a, q, e
  <2>4. /\ again => objects' = objects /\ scheduled' = scheduled \cup {a}
        /\ ~again => objects' = objects \ {a} /\ scheduled' = scheduled
    BY <1>6 DEF AlarmReturned
  <2>5. a \notin scheduled
    BY <2>2 DEF IInv, TimersOwned
  <2>6. TimersOwned(triggered, scheduled, objects, handled)'
    BY <2>1, <2>2, <2>3, <2>4, <2>5 DEF IInv, TimersOwned
  <2>7. TimersRemembered(triggered, scheduled, objects, active, handled)'
    BY <2>1, <2>2, <2>3, <2>4 DEF IInv, TimersRemembered
  <2> QED
    BY <1>2, <2>1, <2>2, <2>3, <2>4, <2>6, <2>7 DEF IInv, SetTypes
<1>7. ASSUME e = SYSTIMER1, triggered' = [triggered EXCEPT ![e] = Tail(@)], VTimerReturned(a, again)
      PROVE  IInv'
  <2>1. objects' = objects /\ active' = active
    BY <1>7 DEF VTimerReturned
  <2>2. /\ QueuesInStep(q, triggered', objects', registered)
        /\ Went(triggered') = Went(triggered) \ {a} /\ a \in Went(triggered) /\ a \in objects
        /\ Entries(triggered'[SYSTIMER1]) = Entries(triggered[SYSTIMER1]) \ {a}
        /\ a \in Entries(triggered[SYSTIMER1])
    BY <1>4, <1>7, <2>1 DEF TimerEntries
  <2>3. a \in VTimers /\ a \notin Alarms /\ a \in Timers
    BY <1>5, <2>2, Distinct DEF Timers
  <2> HIDE DEF a, q, e
  <2>4. /\ handled' = IF again THEN handled ELSE handled \ {a}
        /\ scheduled' = Rescheduled(a, active, handled')
    BY <1>7, <2>2 DEF VTimerReturned
  <2>5. TimersOwned(triggered, scheduled, objects, handled)'
    BY <2>1, <2>2, <2>3, <2>4 DEF IInv, TimersOwned, Rescheduled
  <2>6. TimersRemembered(triggered, scheduled, objects, active, handled)'
    BY <2>1, <2>2, <2>3, <2>4 DEF IInv, TimersRemembered, Rescheduled
  <2> QED
    BY <1>2, <2>1, <2>2, <2>3, <2>4, <2>5, <2>6 DEF IInv, SetTypes, Rescheduled
<1> QED
  BY <1>1, <1>3, <1>6, <1>7 DEF ReturnFromInterrupt

LEMMA NextInv ==
    ASSUME IInv, ~ReleasesItself, ~CancelsLate, [Next]_vars
    PROVE  IInv'
<1>1. CASE \E h \in Subs :
             \/ RegisterSubIntrHandler(h) \/ ReleaseSubIntrHandler(h)
             \/ EnableSubIntr(h) \/ DisableSubIntr(h)
  BY <1>1, RegisterSubIntrHandlerInv, ReleaseSubIntrHandlerInv, EnableSubIntrInv
<1>2. CASE \E a \in Alarms : SetAlarm(a) \/ CancelAlarm(a)
  BY <1>2, SetAlarmInv, CancelAlarmInv
<1>3. ASSUME NEW v \in VTimers,
             \/ CreateVTimer(v) \/ DeleteVTimer(v) \/ StartVTimer(v) \/ StopVTimer(v)
             \/ SetVTimerTime(v) \/ CancelVTimerHandler(v)
      PROVE  IInv'
  BY <1>3, CreateVTimerInv, DeleteVTimerInv, StartVTimerInv, StopVTimerInv, SetVTimerTimeInv,
     CancelVTimerHandlerInv
<1>4. CASE \E v \in VTimers, set \in BOOLEAN : SetVTimerHandler(v, set)
  BY <1>4, SetVTimerHandlerInv
<1>5. CASE \E a \in Timers : TriggerTimer(a)
  BY <1>5, TriggerTimerInv
<1>6. CASE CpuSuspendIntr \/ CpuResumeIntr \/ FinishSyscall \/ TriggerVblank
  BY <1>6, CpuSuspendIntrInv, FinishSyscallInv, TriggerVblankInv
<1>7. CASE \E again \in BOOLEAN : ReturnFromInterrupt(again)
  BY <1>7, ReturnFromInterruptInv
<1>8. CASE UNCHANGED vars
  BY <1>8 DEF vars, IInv, SetTypes, QueuesInStep, FrontRuns, TimersOwned, TimersRemembered
<1> QED
  BY <1>1, <1>2, <1>3, <1>4, <1>5, <1>6, <1>7, <1>8 DEF Next

(* What the inductive invariant says in the terms of the component.        *)
LEMMA InvImplies ==
    ASSUME IInv
    PROVE  TypeOK /\ FrontIsRunning /\ TimersInStep /\ NoTimerForgotten
<1>1. /\ QueueTypes(pendingInterrupts, triggered)
      /\ DOMAIN triggered = TimerEntries /\ WentOff = Went(triggered)
      /\ Entries(pendingInterrupts) = Seqs!ToSet(pendingInterrupts)
  BY WentOffIs DEF IInv, QueuesInStep, Entries, Seqs!ToSet
<1>2. running = NoHandler => FrontIsRunning
  BY DEF FrontIsRunning, inInterrupt
<1>3. ASSUME running # NoHandler
      PROVE  /\ FrontIsRunning /\ running \in Subs \cup Timers
  <2> DEFINE e == Head(pendingInterrupts)
  <2>1. pendingInterrupts # << >> /\ running = Handler(e, triggered)
    BY <1>3 DEF IInv, FrontRuns
  <2>2. e = pendingInterrupts[1] /\ 1 \in DOMAIN pendingInterrupts
    BY <1>1, <2>1 DEF QueueTypes
  <2>3. /\ running \in Subs \cup Timers
        /\ e \in TimerEntries => running \in Entries(triggered[e])
    BY <2>1, <2>2, AllAccepted DEF IInv, SetTypes, Handler
  <2>4. e \in Subs \cup TimerEntries
    BY <1>1, <2>2 DEF QueueTypes
  <2> HIDE DEF e
  <2>5. ASSUME running \in VTimers PROVE running \in objects \cap handled
    <3>1. e \in TimerEntries /\ running \in Timers
      BY <2>1, <2>4, <2>5, Distinct DEF Handler, Timers
    <3>2. e = SYSTIMER1
      <4>1. \A i \in DOMAIN triggered[SYSTIMER0] : triggered[SYSTIMER0][i] \in Alarms
        BY <1>1 DEF QueueTypes
      <4>2. running \notin Entries(triggered[SYSTIMER0])
        BY <2>5, <4>1, Distinct DEF Entries
      <4> QED
        BY <2>3, <3>1, <4>2, Distinct
    <3> QED
      BY <2>3, <3>1, <3>2 DEF IInv, QueuesInStep, TimersOwned, Went
  <2> QED
    BY <1>1, <2>1, <2>3, <2>5 DEF FrontIsRunning, Handler, e
<1>4. TimersInStep
  BY <1>1 DEF IInv, QueuesInStep, TimersInStep, PendingOf, Positions
<1>5. NoTimerForgotten
  BY <1>1 DEF IInv, TimersRemembered, NoTimerForgotten
<1>6. TypeOK
  BY <1>1, <1>2, <1>3 DEF TypeOK, IInv, SetTypes, QueuesInStep, QueueTypes, TimersOwned
<1> QED
  BY <1>2, <1>3, <1>4, <1>5, <1>6

(* While no handler releases itself, and no timer is changed between going *)
(* off and its handler's return, the four hold in every reachable state.   *)
LEMMA Reachable ==
    ASSUME ~ReleasesItself, ~CancelsLate
    PROVE  Spec => []IInv
<1>1. Init => IInv
  BY InitInv
<1>2. IInv /\ [Next]_vars => IInv'
  BY NextInv
<1> QED
  BY <1>1, <1>2, PTL DEF Spec

(* The entry at the front of the queue is that of the handler that runs,   *)
(* when it returns, which is what __RunOnePendingInterrupt and             *)
(* __KernelReturnFromInterrupt take for granted.                           *)
THEOREM FrontAlwaysRunning ==
    ASSUME ~ReleasesItself, ~CancelsLate
    PROVE  Spec => []FrontIsRunning
<1>1. IInv => FrontIsRunning
  BY InvImplies
<1> QED
  BY <1>1, Reachable, PTL

(* triggeredAlarm and vtimers have as many entries as the queue of         *)
(* interrupts has for them.                                                *)
THEOREM TimersAlwaysInStep ==
    ASSUME ~ReleasesItself, ~CancelsLate
    PROVE  Spec => []TimersInStep
<1>1. IInv => TimersInStep
  BY InvImplies
<1> QED
  BY <1>1, Reachable, PTL

(* Alarms, and virtual timers that run and have a handler, go off or did.  *)
THEOREM NoTimerEverForgotten ==
    ASSUME ~ReleasesItself, ~CancelsLate
    PROVE  Spec => []NoTimerForgotten
<1>1. IInv => NoTimerForgotten
  BY InvImplies
<1> QED
  BY <1>1, Reachable, PTL

(* The state keeps its types; only handlers that are registered have       *)
(* entries in the queue, and only alarms that exist have an event.         *)
THEOREM TypeCorrect ==
    ASSUME ~ReleasesItself, ~CancelsLate
    PROVE  Spec => []TypeOK
<1>1. IInv => TypeOK
  BY InvImplies
<1> QED
  BY <1>1, Reachable, PTL

----------------------------------------------------------------------------
(* No interrupt is stranded in the queue while interrupts are enabled,     *)
(* whatever handlers and timers do: __RunOnePendingInterrupt leaves an     *)
(* entry there only if it entered a handler.                               *)
LEMMA PendingLeadsOn ==
    ASSUME NEW q, NEW went, Queue(q, went)
    PROVE  pendingInterrupts' # << >> /\ interruptsEnabled => inInterrupt'
BY DEF Queue, RunOnePending, inInterrupt

LEMMA NoneStranded ==
    ASSUME NoInterruptStranded, [Next]_vars
    PROVE  NoInterruptStranded'
<1>1. ASSUME NEW h \in Subs, ReleaseSubIntrHandler(h)
      PROVE  NoInterruptStranded'
  <2>1. pendingInterrupts = << >> => pendingInterrupts' = << >>
    BY <1>1, NoneSelected DEF ReleaseSubIntrHandler
  <2> QED
    BY <1>1, <2>1 DEF ReleaseSubIntrHandler, NoInterruptStranded, inInterrupt
<1>2. ASSUME NEW h \in Subs, RegisterSubIntrHandler(h) \/ EnableSubIntr(h) \/ DisableSubIntr(h)
      PROVE  NoInterruptStranded'
  BY <1>2 DEF RegisterSubIntrHandler, EnableSubIntr, DisableSubIntr, queues, NoInterruptStranded, inInterrupt
<1>3. ASSUME NEW a \in Alarms, SetAlarm(a) \/ CancelAlarm(a)
      PROVE  NoInterruptStranded'
  BY <1>3 DEF SetAlarm, CancelAlarm, queues, NoInterruptStranded, inInterrupt
<1>4. ASSUME NEW v \in VTimers,
             \/ CreateVTimer(v) \/ DeleteVTimer(v) \/ StartVTimer(v) \/ StopVTimer(v)
             \/ SetVTimerTime(v) \/ CancelVTimerHandler(v) \/ \E set \in BOOLEAN : SetVTimerHandler(v, set)
      PROVE  NoInterruptStranded'
  BY <1>4 DEF CreateVTimer, DeleteVTimer, StartVTimer, StopVTimer, SetVTimerTime, CancelVTimerHandler,
              SetVTimerHandler, OnVTimer, queues, NoInterruptStranded, inInterrupt
<1>5. ASSUME NEW a \in Timers, TriggerTimer(a)
      PROVE  NoInterruptStranded'
  <2>1. CASE a \in objects
    BY <1>5, <2>1, PendingLeadsOn DEF TriggerTimer, NoInterruptStranded
  <2>2. CASE a \notin objects
    BY <1>5, <2>2 DEF TriggerTimer, queues, NoInterruptStranded, inInterrupt
  <2> QED
    BY <2>1, <2>2
<1>6. CASE CpuSuspendIntr \/ CpuResumeIntr
  BY <1>6 DEF CpuSuspendIntr, CpuResumeIntr, queues, NoInterruptStranded, inInterrupt
<1>7. CASE FinishSyscall \/ TriggerVblank
  BY <1>7, PendingLeadsOn DEF FinishSyscall, TriggerVblank, NoInterruptStranded
<1>8. ASSUME NEW again \in BOOLEAN, ReturnFromInterrupt(again)
      PROVE  NoInterruptStranded'
  BY <1>8 DEF ReturnFromInterrupt, RunOnePending, NoInterruptStranded, inInterrupt
<1>9. CASE UNCHANGED vars
  BY <1>9 DEF vars, NoInterruptStranded, inInterrupt
<1> QED
  BY <1>1, <1>2, <1>3, <1>4, <1>5, <1>6, <1>7, <1>8, <1>9 DEF Next

THEOREM NoInterruptEverStranded == Spec => []NoInterruptStranded
<1>1. Init => NoInterruptStranded
  BY DEF Init, NoInterruptStranded
<1>2. NoInterruptStranded /\ [Next]_vars => NoInterruptStranded'
  BY NoneStranded
<1> QED
  BY <1>1, <1>2, PTL DEF Spec

=============================================================================
