--------------------------- MODULE InterruptQueue ---------------------------
(***************************************************************************)
(* The queue of interrupts and the handlers behind it: the guest's         *)
(* sub-interrupt handlers, of the vertical blank say (IntrHandler in       *)
(* sceKernelInterrupt.cpp), alarms (AlarmIntrHandler in                    *)
(* sceKernelAlarm.cpp) and virtual timers (VTimerIntrHandler in            *)
(* sceKernelVTimer.cpp), which keep queues of their own, triggeredAlarm    *)
(* and vtimers, beside it.  An entry stays at the front while its handler  *)
(* runs, and is removed when that returns.  What interrupts do to threads  *)
(* is the subject of KernelInterrupt.                                      *)
(***************************************************************************)
EXTENDS Naturals, Sequences, FiniteSets, Queues

LOCAL Seqs == INSTANCE SequencesExt

CONSTANTS
    SubIntrs,          \* the sub-interrupt numbers, in the order they are queued
    Alarms,            \* the ids of alarms
    VTimers,           \* the ids of virtual timers
    SYSTIMER0,         \* the queue entry of an alarm, whichever it is
    SYSTIMER1,         \* the queue entry of a virtual timer
    NoHandler,         \* nothing runs
    MaxPending,        \* bound: interrupts that are queued
    ReleasesItself,    \* TRUE: a sub-interrupt handler releases itself while it runs
    CancelsLate        \* TRUE: timers are changed between going off and the handler's return

ASSUME InterruptQueueAssumption ==
    /\ SubIntrs \in Seq(Seqs!ToSet(SubIntrs))
    /\ SYSTIMER0 # SYSTIMER1 /\ {SYSTIMER0, SYSTIMER1} \cap Seqs!ToSet(SubIntrs) = {}
    /\ NoHandler \notin Seqs!ToSet(SubIntrs) \cup Alarms \cup VTimers
    /\ Seqs!ToSet(SubIntrs) \cap (Alarms \cup VTimers) = {} /\ Alarms \cap VTimers = {}
    /\ MaxPending \in Nat
    /\ ReleasesItself \in BOOLEAN /\ CancelsLate \in BOOLEAN

VARIABLES
    interruptsEnabled,
    pendingInterrupts,  \* the entries, the one whose handler runs first
    triggered,          \* triggeredAlarm and vtimers: who went off, in this order
    running,            \* the handler that runs (inInterrupt), or NoHandler
    known,              \* sub-interrupts that have an entry in subIntrHandlers
    registered,         \* those of them with a handler address
    enabled,            \* those of them that are enabled
    objects,            \* the alarms and virtual timers that exist
    scheduled,          \* those with a pending event
    active,             \* the virtual timers that were started
    handled,            \* the virtual timers with a handler address
    runInterrupts       \* the system call under way asked to run interrupts

vars == <<interruptsEnabled, pendingInterrupts, triggered, running, known, registered,
          enabled, objects, scheduled, active, handled, runInterrupts>>
handlers == <<known, registered, enabled>>
vtimers == <<active, handled>>
clock == <<objects, scheduled, vtimers>>
queues == <<pendingInterrupts, triggered, running>>

Subs == Seqs!ToSet(SubIntrs)
Timers == Alarms \cup VTimers
inInterrupt == running # NoHandler
WentOff == UNION {Seqs!ToSet(triggered[e]) : e \in DOMAIN triggered}

Init ==
    /\ interruptsEnabled = TRUE
    /\ pendingInterrupts = << >> /\ running = NoHandler
    /\ triggered = [e \in {SYSTIMER0, SYSTIMER1} |-> << >>]
    /\ known = {} /\ registered = {} /\ enabled = {}
    /\ objects = {} /\ scheduled = {} /\ active = {} /\ handled = {}
    /\ runInterrupts = FALSE

(* The guest runs again once a system call has run the interrupts it asked *)
(* for.                                                                    *)
Calling == ~runInterrupts

----------------------------------------------------------------------------
(* __RunOnePendingInterrupt, in an interrupt or while they are disabled    *)
(* (free being FALSE), or else.  Entries whose handler->run refuses are    *)
(* dropped: a sub-interrupt that is not known, and a timer that does not   *)
(* exist (any more), which stays in front of its own queue all the same.   *)
Entered(e, went, existing) ==
    IF e \in DOMAIN went
    THEN IF Head(went[e]) \in existing THEN Head(went[e]) ELSE NoHandler
    ELSE IF e \in known THEN e ELSE NoHandler

(* Mutant: an entry is removed when its handler is entered.                *)
PoppedWhenEntered(free, q, went, existing) ==
    LET accepted == {i \in DOMAIN q : Entered(q[i], went, existing) # NoHandler} IN
    \/ ~free /\ pendingInterrupts' = q
    \/ /\ free
       /\ \E i \in accepted :
            /\ \A j \in accepted : i <= j
            /\ pendingInterrupts' = SubSeq(q, i + 1, Len(q))
            /\ running' = Entered(q[i], went, existing)
    \/ /\ free /\ accepted = {}
       /\ pendingInterrupts' = << >> /\ running' = NoHandler

RunOnePending(free, q, went, existing) ==
    LET accepted == {i \in DOMAIN q : Entered(q[i], went, existing) # NoHandler} IN
    \/ ~free /\ pendingInterrupts' = q
    \/ /\ free
       /\ \E i \in accepted :
            /\ \A j \in accepted : i <= j
            /\ pendingInterrupts' = SubSeq(q, i, Len(q))
            /\ running' = Entered(q[i], went, existing)
    \/ /\ free /\ accepted = {}
       /\ pendingInterrupts' = << >> /\ running' = NoHandler

(* Interrupts queued while none runs.                                      *)
Queue(q, went) ==
    LET free == interruptsEnabled /\ ~inInterrupt IN
    /\ RunOnePending(free, q, went, objects)
    /\ ~free => UNCHANGED running
    /\ triggered' = went

----------------------------------------------------------------------------
(* sceKernelRegisterSubIntrHandler                                         *)
RegisterSubIntrHandler(h) ==
    /\ Calling /\ h \notin registered
    /\ enabled' = IF h \in known THEN enabled ELSE enabled \ {h}
    /\ known' = known \cup {h}
    /\ registered' = registered \cup {h}
    /\ UNCHANGED <<interruptsEnabled, queues, clock, runInterrupts>>

(* sceKernelReleaseSubIntrHandler: its entries leave the queue.            *)
ReleaseSubIntrHandler(h) ==
    /\ Calling /\ h \in registered
    /\ ReleasesItself \/ running # h
    /\ pendingInterrupts' = Selected(pendingInterrupts, (Subs \cup DOMAIN triggered) \ {h})
    /\ known' = known \ {h} /\ registered' = registered \ {h} /\ enabled' = enabled \ {h}
    /\ UNCHANGED <<interruptsEnabled, triggered, running, clock, runInterrupts>>

(* sceKernelEnableSubIntr, also before the handler is registered, and      *)
(* sceKernelDisableSubIntr.                                                *)
EnableSubIntr(h) ==
    /\ Calling
    /\ known' = known \cup {h} /\ enabled' = enabled \cup {h}
    /\ UNCHANGED <<interruptsEnabled, queues, registered, clock, runInterrupts>>

DisableSubIntr(h) ==
    /\ Calling /\ h \in known
    /\ enabled' = enabled \ {h}
    /\ UNCHANGED <<interruptsEnabled, queues, known, registered, clock, runInterrupts>>

(* sceKernelSetAlarm and sceKernelCancelAlarm                              *)
SetAlarm(a) ==
    /\ Calling /\ a \notin objects \cup WentOff
    /\ objects' = objects \cup {a} /\ scheduled' = scheduled \cup {a}
    /\ UNCHANGED <<interruptsEnabled, queues, handlers, vtimers, runInterrupts>>

CancelAlarm(a) ==
    /\ Calling /\ a \in objects
    /\ CancelsLate \/ a \notin WentOff
    /\ objects' = objects \ {a} /\ scheduled' = scheduled \ {a}
    /\ UNCHANGED <<interruptsEnabled, queues, handlers, vtimers, runInterrupts>>

----------------------------------------------------------------------------
(* __KernelScheduleVTimer, of a timer that is active or has a handler as   *)
(* given: the old event is taken away in any case.                         *)
Rescheduled(v, act, hnd) == IF v \in act \cap hnd THEN scheduled \cup {v} ELSE scheduled \ {v}

(* A call on a virtual timer, which is not late.  It touches the timers    *)
(* only.                                                                   *)
OnVTimer(v) ==
    /\ Calling /\ v \in objects
    /\ CancelsLate \/ v \notin WentOff
    /\ UNCHANGED <<interruptsEnabled, pendingInterrupts, running, handlers, runInterrupts>>

(* sceKernelCreateVTimer, not in a handler.  Ids come round again only     *)
(* after thousands of objects.                                             *)
CreateVTimer(v) ==
    /\ Calling /\ ~inInterrupt /\ v \notin objects \cup scheduled \cup WentOff
    /\ objects' = objects \cup {v}
    /\ active' = active \ {v} /\ handled' = handled \ {v}
    /\ UNCHANGED <<interruptsEnabled, queues, scheduled, handlers, runInterrupts>>

(* sceKernelDeleteVTimer, not in a handler: the first entry leaves its own *)
(* queue, but not that of the interrupts, and the event remains.           *)
DeleteVTimer(v) ==
    /\ OnVTimer(v) /\ ~inInterrupt
    /\ objects' = objects \ {v}
    /\ triggered' = [triggered EXCEPT ![SYSTIMER1] = Seqs!RemoveFirst(@, v)]
    /\ UNCHANGED <<scheduled, vtimers>>

(* sceKernelStartVTimer.  Mutant: the timer is not scheduled.              *)
StartedUnscheduled(v) ==
    /\ OnVTimer(v) /\ running # v /\ v \notin active
    /\ active' = active \cup {v}
    /\ UNCHANGED <<scheduled, objects, triggered, handled>>

StartVTimer(v) ==
    /\ OnVTimer(v) /\ running # v /\ v \notin active
    /\ active' = active \cup {v}
    /\ scheduled' = IF v \in handled THEN Rescheduled(v, active', handled) ELSE scheduled
    /\ UNCHANGED <<objects, triggered, handled>>

(* sceKernelStopVTimer, also of a timer that went off: its event remains.  *)
StopVTimer(v) ==
    /\ Calling /\ v \in active \cap objects /\ running # v
    /\ active' = active \ {v}
    /\ UNCHANGED <<interruptsEnabled, queues, handlers, objects, scheduled, handled, runInterrupts>>

(* sceKernelSetVTimerHandler, and with set FALSE of address 0.             *)
SetVTimerHandler(v, set) ==
    /\ OnVTimer(v) /\ running # v
    /\ handled' = IF set THEN handled \cup {v} ELSE handled \ {v}
    /\ scheduled' = Rescheduled(v, active, handled')
    /\ UNCHANGED <<objects, triggered, active>>

(* sceKernelSetVTimerTime: the time left changes, and with it the event.   *)
SetVTimerTime(v) ==
    /\ OnVTimer(v)
    /\ scheduled' = Rescheduled(v, active, handled)
    /\ UNCHANGED <<objects, triggered, vtimers>>

(* sceKernelCancelVTimerHandler                                            *)
CancelVTimerHandler(v) ==
    /\ OnVTimer(v) /\ running # v
    /\ handled' = handled \ {v} /\ scheduled' = scheduled \ {v}
    /\ UNCHANGED <<objects, triggered, active>>

----------------------------------------------------------------------------
(* sceKernelCpuSuspendIntr, and sceKernelCpuResumeIntr, whose interrupts   *)
(* hleFinishSyscall runs.                                                  *)
CpuSuspendIntr ==
    /\ Calling
    /\ interruptsEnabled' = FALSE
    /\ UNCHANGED <<queues, handlers, clock, runInterrupts>>

(* Mutant: interrupts are enabled, and those that are queued left alone.   *)
ResumedWithoutRunning ==
    /\ Calling
    /\ interruptsEnabled' = TRUE
    /\ UNCHANGED <<queues, handlers, clock, runInterrupts>>

CpuResumeIntr ==
    /\ Calling
    /\ interruptsEnabled' = TRUE
    /\ runInterrupts' = TRUE
    /\ UNCHANGED <<queues, handlers, clock>>

FinishSyscall ==
    /\ runInterrupts
    /\ Queue(pendingInterrupts, triggered)
    /\ runInterrupts' = FALSE
    /\ UNCHANGED <<interruptsEnabled, handlers, clock>>

----------------------------------------------------------------------------
(* __KernelTriggerAlarm and __KernelTriggerVTimer, when a timer's event is *)
(* due, which in the case of a virtual timer does not mean that it exists. *)
TriggerTimer(a) ==
    LET e == IF a \in Alarms THEN SYSTIMER0 ELSE SYSTIMER1 IN
    /\ a \in scheduled /\ Len(pendingInterrupts) < MaxPending
    /\ scheduled' = scheduled \ {a}
    /\ IF a \in objects
       THEN Queue(Append(pendingInterrupts, e), [triggered EXCEPT ![e] = Append(@, a)])
       ELSE UNCHANGED queues
    /\ UNCHANGED <<interruptsEnabled, handlers, objects, vtimers, runInterrupts>>

(* The vertical blank queues every handler that is enabled, and is missed  *)
(* while interrupts are disabled.                                          *)
TriggerVblank ==
    LET q == Selected(SubIntrs, registered \cap enabled) IN
    /\ interruptsEnabled
    /\ Len(pendingInterrupts \o q) <= MaxPending
    /\ Queue(pendingInterrupts \o q, triggered)
    /\ UNCHANGED <<interruptsEnabled, handlers, clock, runInterrupts>>

(* Mutant: a timer is not taken out of its own queue when its handler      *)
(* returns.                                                                *)
StillTriggered(again) ==
    /\ Calling /\ inInterrupt /\ pendingInterrupts # << >>
    /\ again => Head(pendingInterrupts) \in DOMAIN triggered
    /\ RunOnePending(interruptsEnabled, Tail(pendingInterrupts), triggered, objects)
    /\ ~interruptsEnabled => running' = NoHandler
    /\ UNCHANGED <<interruptsEnabled, triggered, clock, handlers, runInterrupts>>

(* The handler of a timer returned, asking to be called again or not.  An  *)
(* alarm is then scheduled again, or is no more.  (One that was cancelled  *)
(* can not be scheduled again: the code follows a null pointer.)  A        *)
(* virtual timer is scheduled again if it still runs, or loses its handler.*)
AlarmReturned(a, again) ==
    /\ again => a \in objects
    /\ objects' = IF again THEN objects ELSE objects \ {a}
    /\ scheduled' = IF again THEN scheduled \cup {a} ELSE scheduled
    /\ UNCHANGED vtimers

VTimerReturned(v, again) ==
    /\ handled' = IF again \/ v \notin objects THEN handled ELSE handled \ {v}
    /\ scheduled' = IF v \in objects THEN Rescheduled(v, active, handled') ELSE scheduled
    /\ UNCHANGED <<objects, active>>

(* __KernelReturnFromInterrupt: the entry at the front, which is taken for *)
(* the one that ran, tells what is done with the handler's result.         *)
ReturnFromInterrupt(again) ==
    /\ Calling /\ inInterrupt /\ pendingInterrupts # << >>
    /\ LET e == Head(pendingInterrupts) IN
       \/ /\ e \in Subs /\ ~again
          /\ UNCHANGED <<triggered, clock>>
       \/ /\ e \in DOMAIN triggered
          /\ triggered' = [triggered EXCEPT ![e] = Tail(@)]
          /\ \/ e = SYSTIMER0 /\ AlarmReturned(Head(triggered[e]), again)
             \/ e = SYSTIMER1 /\ VTimerReturned(Head(triggered[e]), again)
    /\ RunOnePending(interruptsEnabled, Tail(pendingInterrupts), triggered', objects')
    /\ ~interruptsEnabled => running' = NoHandler
    /\ UNCHANGED <<interruptsEnabled, handlers, runInterrupts>>

Next ==
    \/ \E h \in Subs :
        \/ RegisterSubIntrHandler(h) \/ ReleaseSubIntrHandler(h)
        \/ EnableSubIntr(h) \/ DisableSubIntr(h)
    \/ \E a \in Alarms : SetAlarm(a) \/ CancelAlarm(a)
    \/ \E v \in VTimers :
        \/ CreateVTimer(v) \/ DeleteVTimer(v) \/ StartVTimer(v) \/ StopVTimer(v)
        \/ SetVTimerTime(v) \/ CancelVTimerHandler(v)
        \/ \E set \in BOOLEAN : SetVTimerHandler(v, set)
    \/ \E a \in Timers : TriggerTimer(a)
    \/ CpuSuspendIntr \/ CpuResumeIntr \/ FinishSyscall
    \/ TriggerVblank
    \/ \E again \in BOOLEAN : ReturnFromInterrupt(again)

Spec == Init /\ [][Next]_vars

----------------------------------------------------------------------------
(* The state keeps its types, and its sets contain each other as the code  *)
(* takes for granted: only a known handler is enabled, only an alarm that  *)
(* exists has an event, and the handler of a sub-interrupt that was        *)
(* released is never entered, even if it was queued before.                *)
TypeOK ==
    /\ interruptsEnabled \in BOOLEAN /\ runInterrupts \in BOOLEAN
    /\ pendingInterrupts \in Seq(Subs \cup DOMAIN triggered)
    /\ triggered[SYSTIMER0] \in Seq(Alarms) /\ triggered[SYSTIMER1] \in Seq(VTimers)
    /\ running \in Subs \cup Timers \cup {NoHandler}
    /\ known \subseteq Subs /\ registered \subseteq known /\ enabled \subseteq known
    /\ Subs \cap Seqs!ToSet(pendingInterrupts) \subseteq registered
    /\ scheduled \cap Alarms \subseteq objects /\ objects \subseteq Timers
    /\ active \subseteq VTimers /\ handled \subseteq VTimers

(* "This is what we just ran.": while a handler runs, the entry at the     *)
(* front of the queue is its own, so that its return removes that entry    *)
(* and no other, and never one from an empty queue.  A virtual timer's     *)
(* handler is not entered without an address.                              *)
FrontIsRunning ==
    inInterrupt =>
        /\ pendingInterrupts # << >>
        /\ LET e == Head(pendingInterrupts)
           IN  running = IF e \in DOMAIN triggered THEN Head(triggered[e]) ELSE e
        /\ running \in VTimers => running \in objects \cap handled

(* The queues of alarms and virtual timers stay in step with that of the   *)
(* interrupts: there is an entry for each that went off, and none without. *)
PendingOf(e) == {i \in DOMAIN pendingInterrupts : pendingInterrupts[i] = e}
TimersInStep == \A e \in DOMAIN triggered : Cardinality(PendingOf(e)) = Len(triggered[e])

(* "Ignoring deleted alarm": only the interrupts of alarms that were       *)
(* deleted are ignored; those of the others stay queued until they run.    *)
OnlyDeletedIgnored ==
    LET went == triggered[SYSTIMER0] IN
    Cardinality({i \in DOMAIN went : went[i] \in objects}) <= Cardinality(PendingOf(SYSTIMER0))

(* An alarm that exists, and a virtual timer that runs and has a handler,  *)
(* will go off, or did and its handler is yet to return: no combination of *)
(* starting, stopping, setting and returning leaves one behind.            *)
NoTimerForgotten == objects \cap (Alarms \cup (active \cap handled)) \subseteq scheduled \cup WentOff

(* No interrupt is stranded: while they are enabled, entries are only left *)
(* in the queue by a handler that will look for more when it returns, or   *)
(* by a call that is about to.                                             *)
NoInterruptStranded ==
    pendingInterrupts # << >> /\ interruptsEnabled => inInterrupt \/ runInterrupts

=============================================================================
