-------------------------- MODULE KernelInterrupt --------------------------
(***************************************************************************)
(* Interrupts of the emulated kernel (sceKernelInterrupt.cpp) on top of    *)
(* its threads.  A handler is guest code that borrows the context of the   *)
(* idle thread: the interrupted thread is switched off, threads are not    *)
(* switched while the handler runs, and when it returns the scheduler      *)
(* chooses, or, while dispatch is suspended, the interrupted thread is     *)
(* switched back to.                                                       *)
(***************************************************************************)
EXTENDS KernelThread

LOCAL Sets == INSTANCE FiniteSetsExt

CONSTANTS
    MaxPending,        \* bound: interrupts that wait for their handler
    MaxAhead,          \* bound: these, with events of the clock and stored wakeups
    CarelessHandler    \* TRUE: a handler also stops or suspends the interrupted thread

ASSUME KernelInterruptAssumption ==
    /\ MaxPending \in Nat \ {0} /\ MaxAhead \in Nat
    /\ CarelessHandler \in BOOLEAN

VARIABLES
    pendingInterrupts,      \* how many interrupts are queued, the one being handled included
    threadBeforeInterrupt,  \* the thread the last interrupt switched off
    runInterrupts           \* the system call under way asked to run interrupts

interruptVars == <<pendingInterrupts, threadBeforeInterrupt, runInterrupts>>
allVars == <<vars, interruptVars>>
threadVars == <<wakeupCount, waitingThreads, timers>>

InterruptInit ==
    /\ Init
    /\ pendingInterrupts = 0
    /\ threadBeforeInterrupt = NoThread
    /\ runInterrupts = FALSE

(* What is still to come; a stored wakeup counts for two.                  *)
Ahead ==
    pendingInterrupts + Sets!MapThenSumSet(LAMBDA t : wakeups[t] + endTimeouts[t] + 2 * wakeupCount[t], Threads)

----------------------------------------------------------------------------
(* __KernelSwitchOffThread; the idle threads are not switched off.         *)
SwitchedToIdle(s) == IF s.current \in IdleThreads THEN s ELSE SwitchContext(s, Idle0)

(* __KernelSwitchToThread: a thread that is not ready any more is not      *)
(* switched to.  (It asks for a reschedule then, which the idle thread     *)
(* does all the time.)                                                     *)
SwitchedTo(s, t) ==
    IF s.current \in IdleThreads /\ t # s.current /\ t \in s.threads /\ s.status[t] \cap {"ready", "running"} # {}
    THEN SwitchContext(s, t) ELSE s

(* What __RunOnePendingInterrupt can leave of the state s, n pending       *)
(* interrupts and the thread interrupted before.  The first k are ignored, *)
(* their handlers having been released; then a handler is entered, or      *)
(* there is none left.                                                     *)
Outcome(s, n, before, ran) == [sched |-> s, pending |-> n, before |-> before, ran |-> ran]

RunOnePending(s, n, before) ==
    LET off == SwitchedToIdle(s)
        interrupted == IF s.current \in IdleThreads THEN before ELSE s.current
        entered == {Outcome([off EXCEPT !.inInterrupt = TRUE], n - k, interrupted, TRUE) : k \in 0 .. n - 1}
        back == IF s.current \in IdleThreads THEN s ELSE SwitchedTo(off, interrupted)
    IN  IF s.inInterrupt \/ ~s.interruptsEnabled \/ n = 0
        THEN {Outcome(s, n, before, FALSE)}
        ELSE entered \cup {Outcome(back, 0, interrupted, FALSE)}

Left(outcome) ==
    /\ sched' = outcome.sched
    /\ pendingInterrupts' = outcome.pending
    /\ threadBeforeInterrupt' = outcome.before

----------------------------------------------------------------------------
(* sceKernelCpuSuspendIntr, and sceKernelCpuResumeIntr with 0.             *)
CpuSuspendIntr ==
    /\ Calling
    /\ sched' = [sched EXCEPT !.interruptsEnabled = FALSE]
    /\ UNCHANGED <<threadVars, resched, interruptVars>>

(* sceKernelCpuResumeIntr                                                  *)
CpuResumeIntr ==
    /\ Calling
    /\ sched' = [sched EXCEPT !.interruptsEnabled = TRUE]
    /\ runInterrupts' = TRUE
    /\ Reschedule
    /\ UNCHANGED <<threadVars, pendingInterrupts, threadBeforeInterrupt>>

(* hleFinishSyscall after sceKernelCpuResumeIntr                           *)
FinishAndRunInterrupts ==
    /\ resched /\ runInterrupts
    /\ \E o \in RunOnePending(sched, pendingInterrupts, threadBeforeInterrupt) :
       \E s \in ReScheduled(o.sched) :
            Left([o EXCEPT !.sched = s])
    /\ resched' = FALSE /\ runInterrupts' = FALSE
    /\ UNCHANGED threadVars

(* __TriggerInterrupt with PSP_INTR_IMMEDIATE (alarms, the GE, VTimers),   *)
(* from an event of the clock.                                             *)
TriggerInterrupt ==
    /\ pendingInterrupts < MaxPending /\ Ahead < MaxAhead
    /\ \E o \in RunOnePending(sched, pendingInterrupts + 1, threadBeforeInterrupt) : Left(o)
    /\ UNCHANGED <<threadVars, resched, runInterrupts>>

(* The vertical blank, which is not queued while interrupts are disabled   *)
(* and has `handlers` handlers; when none runs, the current thread is      *)
(* switched off all the same.                                              *)
TriggerVblank(handlers) ==
    /\ sched.interruptsEnabled
    /\ pendingInterrupts + handlers <= MaxPending /\ Ahead + handlers <= MaxAhead
    /\ IF sched.inInterrupt
       THEN /\ pendingInterrupts' = pendingInterrupts + handlers
            /\ UNCHANGED <<sched, threadBeforeInterrupt>>
       ELSE \E o \in RunOnePending(sched, pendingInterrupts + handlers, threadBeforeInterrupt) :
                IF o.ran \/ ~IsDispatchEnabled(o.sched) \/ o.sched.current \in IdleThreads
                THEN Left(o)
                ELSE Left([o EXCEPT !.sched = SwitchedToIdle(@), !.before = o.sched.current])
    /\ UNCHANGED <<threadVars, resched, runInterrupts>>

(* Mutant: the scheduler is left to choose, which it does not do while     *)
(* dispatch is suspended.                                                  *)
NotSwitchedBack ==
    /\ ~resched /\ sched.inInterrupt
    /\ LET s == [sched EXCEPT !.inInterrupt = FALSE] IN
       \E o \in RunOnePending(s, pendingInterrupts - 1, threadBeforeInterrupt) :
            \/ o.ran /\ Left(o)
            \/ ~o.ran /\ \E s2 \in ReScheduled(o.sched) : Left([o EXCEPT !.sched = s2])
    /\ UNCHANGED <<threadVars, resched, runInterrupts>>

(* __KernelReturnFromInterrupt                                             *)
ReturnFromInterrupt ==
    /\ ~resched /\ sched.inInterrupt
    /\ LET s == [sched EXCEPT !.inInterrupt = FALSE] IN
       \E o \in RunOnePending(s, pendingInterrupts - 1, threadBeforeInterrupt) :
            \/ o.ran /\ Left(o)
            \/ /\ ~o.ran /\ IsDispatchEnabled(o.sched)
               /\ \E s2 \in ReScheduled(o.sched) : Left([o EXCEPT !.sched = s2])
            \/ /\ ~o.ran /\ ~IsDispatchEnabled(o.sched)
               /\ Left([o EXCEPT !.sched = SwitchedTo(@, o.before)])
    /\ UNCHANGED <<threadVars, resched, runInterrupts>>

----------------------------------------------------------------------------
(* A careful handler leaves the interrupted thread as it is.               *)
Spares(t) == CarelessHandler \/ ~sched.inInterrupt \/ t # threadBeforeInterrupt

ThreadSyscall ==
    /\ \/ \E t \in Threads : Spares(t) /\ ThreadCall(t)
       \/ ExitThread \/ ExitDeleteThread
       \/ DelayThread \/ SleepThread
       \/ SuspendDispatchThread
       \/ \E enabled \in BOOLEAN : ResumeDispatchThread(enabled)
       \/ \E p \in 0 .. UserPriorities - 1 : RotateThreadReadyQueue(p)
    /\ UNCHANGED interruptVars
    /\ Ahead' <= MaxAhead

ThreadStep ==
    \/ ThreadSyscall
    \/ (Event \/ Idle \/ (~runInterrupts /\ FinishSyscall)) /\ UNCHANGED interruptVars

InterruptNext ==
    \/ ThreadStep
    \/ CpuSuspendIntr \/ CpuResumeIntr \/ FinishAndRunInterrupts
    \/ TriggerInterrupt
    \/ \E handlers \in 0 .. 1 : TriggerVblank(handlers)
    \/ ReturnFromInterrupt

InterruptSpec == InterruptInit /\ [][InterruptNext]_allVars

(* Time passes whatever the guest and its handlers do, so that an event of *)
(* the clock that is pending is fired.                                     *)
Fairness == \A t \in Threads : WF_allVars(ScheduledWakeup(t) /\ UNCHANGED interruptVars)

FairInterruptSpec == InterruptSpec /\ Fairness

----------------------------------------------------------------------------
(* The state keeps its types; no return from a handler removes an          *)
(* interrupt that is not there.                                            *)
InterruptTypeOK ==
    /\ TypeOK
    /\ pendingInterrupts \in 0 .. MaxPending
    /\ threadBeforeInterrupt \in AllThreads \cup {NoThread}
    /\ runInterrupts \in BOOLEAN

(* "Threads don't get changed within interrupts": whatever a handler       *)
(* wakes, stops or prioritises, and whatever events come up, the handler's *)
(* context stays current until it returns.                                 *)
HandlerStaysCurrent == [][sched.inInterrupt /\ sched'.inInterrupt => current' = current]_allVars

(* While dispatch is suspended the thread that suspended it is the one     *)
(* that runs, outside of interrupt handlers: "Otherwise, we reschedule     *)
(* when dispatch was enabled, or switch back otherwise."                   *)
SwitchesBack == ~sched.dispatchEnabled /\ ~sched.inInterrupt => current \notin IdleThreads

=============================================================================
