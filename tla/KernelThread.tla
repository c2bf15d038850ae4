---------------------------- MODULE KernelThread ----------------------------
(***************************************************************************)
(* Threads of the emulated kernel (sceKernelThread.cpp): the system calls  *)
(* with which guest threads create, start, stop, delete, suspend, resume,  *)
(* prioritise, delay and wait for each other, and the scheduler that runs  *)
(* the best ready one.                                                     *)
(*                                                                         *)
(* A system call is two steps, as in HLE.cpp: its handler, which changes   *)
(* the state and may only ask for a reschedule (hleReSchedule), and        *)
(* FinishSyscall, which reschedules before the guest runs again.  Timer    *)
(* events are fired when the clock advances: while the guest runs, and     *)
(* between the two.                                                        *)
(***************************************************************************)
EXTENDS Scheduler, FiniteSets

LOCAL Seqs == INSTANCE SequencesExt

CONSTANTS
    Root,             \* the thread that runs first
    InitialPriority,  \* the priority the guest creates each thread with
    MaxWakeups,       \* bound: wakeups a thread has in store
    MaxTimers,        \* bound: timer events of one kind a thread has pending
    CarelessGuest     \* TRUE: the guest also gives up the CPU while it can not lose it

ASSUME KernelThreadAssumption ==
    /\ Root \in Threads
    /\ InitialPriority \in [Threads -> 0 .. UserPriorities - 1]
    /\ MaxWakeups \in Nat /\ MaxTimers \in Nat
    /\ CarelessGuest \in BOOLEAN

VARIABLES
    sched,           \* the scheduler's state, see Scheduler
    wakeupCount,     \* wakeupCount[t]: wakeups that did not find t asleep
    waitingThreads,  \* waitingThreads[t]: the threads that wait for the end of t
    wakeups,         \* wakeups[t]: pending eventScheduledWakeup events of t
    endTimeouts,     \* endTimeouts[t]: pending eventThreadEndTimeout events of t
    resched          \* the system call under way asked for a reschedule

vars == <<sched, wakeupCount, waitingThreads, wakeups, endTimeouts, resched>>
timers == <<wakeups, endTimeouts>>

InitialSched ==
    [threads |-> {Root} \cup IdleThreads, current |-> Root,
     status |-> [t \in AllThreads |->
        IF t = Root THEN {"running"} ELSE IF t \in IdleThreads THEN {"ready"} ELSE {"dormant"}],
     prio |-> [t \in AllThreads |-> IF t \in Threads THEN InitialPriority[t] ELSE IdlePriority],
     wait |-> [t \in AllThreads |-> NotWaiting],
     ready |-> [p \in Priorities |-> IF p = IdlePriority THEN <<Idle0, Idle1>> ELSE << >>],
     dispatchEnabled |-> TRUE, interruptsEnabled |-> TRUE, inInterrupt |-> FALSE]

InitialRest ==
    /\ wakeupCount = [t \in Threads |-> 0]
    /\ waitingThreads = [t \in AllThreads |-> << >>]
    /\ wakeups = [t \in Threads |-> 0]
    /\ endTimeouts = [t \in Threads |-> 0]
    /\ resched = FALSE

Init == sched = InitialSched /\ InitialRest

----------------------------------------------------------------------------
current == sched.current
Exists(t) == t \in sched.threads
Dormant(t) == Has(sched, t, "dormant")

(* A handler runs when the one before has finished: on a guest thread, or  *)
(* in an interrupt, on the idle thread the interrupt borrows.              *)
OnThread == ~resched /\ current \in Threads /\ ~sched.inInterrupt
Calling == ~resched /\ (current \in Threads \/ sched.inInterrupt)

(* HLE_NOT_DISPATCH_SUSPENDED                                              *)
MayWait == OnThread /\ IsDispatchEnabled(sched)

(* The other threads a call can name.                                      *)
Other(t) == Exists(t) /\ t # current

(* A careful guest only gives up the CPU when it can lose it: it neither   *)
(* yields twice nor exits while dispatch is suspended.                     *)
Yielding == CarelessGuest \/ Has(sched, current, "running")
Leaving == CarelessGuest \/ (IsDispatchEnabled(sched) /\ ~Dormant(current))

Reschedule == resched' = TRUE
NoReschedule == UNCHANGED resched

(* Mutant: a waiter that was suspended meanwhile is forgotten.             *)
UnsuspendedWaiters(t) ==
    SelectSeq(waitingThreads[t],
        LAMBDA w : VerifyWait(sched, w, "threadend", t) /\ ~Has(sched, w, "suspend"))

(* __KernelStopThread: the thread-end listeners drop the events of t, and  *)
(* the threads that wait for its end are resumed.                          *)
EndWaiters(t) == Selected(waitingThreads[t], {w \in Threads : VerifyWait(sched, w, "threadend", t)})

Stopped(t) ==
    LET dormant == [MadeUnready(sched, t) EXCEPT !.status[t] = {"dormant"}] IN
    [ResumedAll(dormant, EndWaiters(t)) EXCEPT !.wait[t] = NotWaiting]

(* Mutant: the timers of all listed threads are dropped, also of those     *)
(* that wait for something else by now.                                    *)
StopListedTimers(t) ==
    LET listed == {t} \cup Seqs!ToSet(waitingThreads[t])
        dropped(timer) == [w \in Threads |-> IF w \in listed THEN 0 ELSE timer[w]]
    IN  /\ wakeups' = dropped(wakeups)
        /\ endTimeouts' = dropped(endTimeouts)
        /\ waitingThreads' = [waitingThreads EXCEPT ![t] = << >>]

StopTimers(t) ==
    /\ wakeups' = [wakeups EXCEPT ![t] = 0]
    /\ endTimeouts' = [w \in Threads |->
                        IF w = t \/ w \in Seqs!ToSet(EndWaiters(t)) THEN 0 ELSE endTimeouts[w]]
    /\ waitingThreads' = [waitingThreads EXCEPT ![t] = << >>]

(* __KernelDeleteThread: the object of the deleted thread is no more.      *)
Deleted(t) ==
    [Stopped(t) EXCEPT
        !.ready[sched.prio[t]] = Seqs!RemoveFirst(@, t),
        !.threads = @ \ {t},
        !.current = IF @ = t THEN NoThread ELSE @]

----------------------------------------------------------------------------
(* sceKernelCreateThread                                                   *)
CreateThread(t) ==
    /\ OnThread /\ ~Exists(t)
    /\ sched' = [sched EXCEPT
                    !.threads = @ \cup {t},
                    !.status[t] = {"dormant"},
                    !.prio[t] = InitialPriority[t],
                    !.wait[t] = NotWaiting,
                    !.dispatchEnabled = TRUE]
    /\ wakeupCount' = [wakeupCount EXCEPT ![t] = 0]
    /\ Reschedule
    /\ UNCHANGED <<waitingThreads, timers>>

(* sceKernelStartThread: __KernelResetThread gives a thread that would be  *)
(* better than the current one its initial priority, and only a better     *)
(* thread makes the current one ready and reschedules.                     *)
StartThread(t) ==
    /\ OnThread /\ Exists(t) /\ sched.status[t] = {"dormant"}
    /\ LET reset == [sched EXCEPT
                        !.prio[t] = IF @ < sched.prio[current] THEN InitialPriority[t] ELSE @,
                        !.wait[t] = NotWaiting]
           better == reset.prio[t] < reset.prio[current]
       IN  /\ sched' = MadeReady([IF better THEN MadeReady(reset, current) ELSE reset
                                    EXCEPT !.dispatchEnabled = TRUE], t)
           /\ resched' = better
    /\ UNCHANGED <<wakeupCount, waitingThreads, timers>>

(* sceKernelExitThread, and a return from the thread's entry point.        *)
ExitThread ==
    /\ OnThread /\ Leaving
    /\ sched' = Stopped(current)
    /\ StopTimers(current)
    /\ Reschedule
    /\ UNCHANGED wakeupCount

(* sceKernelExitDeleteThread                                               *)
ExitDeleteThread ==
    /\ OnThread /\ Leaving
    /\ sched' = Deleted(current)
    /\ StopTimers(current)
    /\ Reschedule
    /\ UNCHANGED wakeupCount

(* sceKernelTerminateThread                                                *)
TerminateThread(t) ==
    /\ Calling /\ Other(t) /\ ~Dormant(t)
    /\ sched' = [Stopped(t) EXCEPT !.prio[t] = InitialPriority[t]]
    /\ StopTimers(t)
    /\ NoReschedule
    /\ UNCHANGED wakeupCount

(* sceKernelTerminateDeleteThread, and sceKernelDeleteThread, which only   *)
(* accepts a stopped thread.                                               *)
TerminateDeleteThread(t) ==
    /\ Calling /\ Other(t)
    /\ sched' = Deleted(t)
    /\ StopTimers(t)
    /\ NoReschedule
    /\ UNCHANGED wakeupCount

DeleteThread(t) == Dormant(t) /\ TerminateDeleteThread(t)

----------------------------------------------------------------------------
(* sceKernelSuspendDispatchThread and sceKernelResumeDispatchThread        *)
SuspendDispatchThread ==
    /\ OnThread /\ sched.interruptsEnabled
    /\ sched' = [sched EXCEPT !.dispatchEnabled = FALSE]
    /\ NoReschedule
    /\ UNCHANGED <<wakeupCount, waitingThreads, timers>>

ResumeDispatchThread(enabled) ==
    /\ OnThread /\ sched.interruptsEnabled
    /\ sched' = [sched EXCEPT !.dispatchEnabled = enabled]
    /\ Reschedule
    /\ UNCHANGED <<wakeupCount, waitingThreads, timers>>

(* sceKernelRotateThreadReadyQueue: the current thread yields to those of  *)
(* its own priority; of another priority, the next thread goes last.       *)
RotateThreadReadyQueue(p) ==
    /\ Calling
    /\ LET q == sched.ready[p] IN
       \/ q = << >> /\ UNCHANGED sched
       \/ /\ q # << >> /\ sched.prio[current] = p /\ Yielding
          /\ sched' = [sched EXCEPT !.ready[p] = Append(@, current),
                                    !.status[current] = (@ \ {"running"}) \cup {"ready"}]
       \/ /\ q # << >> /\ sched.prio[current] # p
          /\ sched' = [sched EXCEPT !.ready[p] = Append(Tail(@), Head(@))]
    /\ Reschedule
    /\ UNCHANGED <<wakeupCount, waitingThreads, timers>>

(* Mutant: a running thread is made ready but does not join the queue.     *)
ChangePriorityUnqueued(t, p) ==
    /\ Calling /\ Exists(t) /\ ~Dormant(t)
    /\ LET taken == [sched EXCEPT !.ready[sched.prio[t]] = Seqs!RemoveFirst(@, t),
                                  !.prio[t] = p]
       IN  sched' = IF Has(sched, t, "ready") THEN [taken EXCEPT !.ready[p] = Append(@, t)]
                    ELSE [taken EXCEPT !.status[t] =
                            IF "running" \in @ THEN (@ \ {"running"}) \cup {"ready"} ELSE @]
    /\ Reschedule
    /\ UNCHANGED <<wakeupCount, waitingThreads, timers>>

(* sceKernelChangeThreadPriority: a running thread joins the ready queue.  *)
ChangeThreadPriority(t, p) ==
    /\ Calling /\ Exists(t) /\ ~Dormant(t)
    /\ LET taken == [sched EXCEPT !.ready[sched.prio[t]] = Seqs!RemoveFirst(@, t),
                                  !.prio[t] = p]
           unrun == [taken EXCEPT !.status[t] = IF "running" \in @ THEN (@ \ {"running"}) \cup {"ready"} ELSE @]
       IN  sched' = IF Has(unrun, t, "ready") THEN [unrun EXCEPT !.ready[p] = Append(@, t)] ELSE unrun
    /\ Reschedule
    /\ UNCHANGED <<wakeupCount, waitingThreads, timers>>

----------------------------------------------------------------------------
(* sceKernelDelayThread: the event comes first, then the wait; a delay of  *)
(* no time only reschedules.                                               *)
DelayThread ==
    /\ MayWait
    /\ \/ UNCHANGED <<sched, wakeups>>
       \/ /\ wakeups[current] < MaxTimers
          /\ wakeups' = [wakeups EXCEPT ![current] = @ + 1]
          /\ sched' = WaitingCurThread(sched, WaitingFor("delay", current, TRUE))
    /\ Reschedule
    /\ UNCHANGED <<wakeupCount, waitingThreads, endTimeouts>>

(* sceKernelSleepThread                                                    *)
SleepThread ==
    /\ MayWait
    /\ \/ /\ wakeupCount[current] > 0
          /\ wakeupCount' = [wakeupCount EXCEPT ![current] = @ - 1]
          /\ NoReschedule
          /\ UNCHANGED sched
       \/ /\ wakeupCount[current] = 0
          /\ sched' = WaitingCurThread(sched, WaitingFor("sleep", NoThread, FALSE))
          /\ Reschedule
          /\ UNCHANGED wakeupCount
    /\ UNCHANGED <<waitingThreads, timers>>

(* sceKernelWakeupThread                                                   *)
WakeupThread(t) ==
    /\ Calling /\ Other(t)
    /\ \/ /\ IsWaitingFor(sched, t, "sleep", NoThread)
          /\ sched' = Resumed(sched, t)
          /\ Reschedule
          /\ UNCHANGED wakeupCount
       \/ /\ ~IsWaitingFor(sched, t, "sleep", NoThread) /\ wakeupCount[t] < MaxWakeups
          /\ wakeupCount' = [wakeupCount EXCEPT ![t] = @ + 1]
          /\ NoReschedule
          /\ UNCHANGED sched
    /\ UNCHANGED <<waitingThreads, timers>>

(* sceKernelCancelWakeupThread                                             *)
CancelWakeupThread(t) ==
    /\ Calling /\ Exists(t)
    /\ wakeupCount' = [wakeupCount EXCEPT ![t] = 0]
    /\ UNCHANGED <<sched, waitingThreads, timers, resched>>

(* sceKernelWaitThreadEnd                                                  *)
WaitThreadEnd(t, timed) ==
    /\ MayWait /\ Other(t) /\ sched.status[t] # {"dormant"}
    /\ timed => endTimeouts[current] < MaxTimers
    /\ endTimeouts' = IF timed THEN [endTimeouts EXCEPT ![current] = @ + 1] ELSE endTimeouts
    /\ waitingThreads' = [waitingThreads EXCEPT ![t] =
                            IF current \in Seqs!ToSet(@) THEN @ ELSE Append(@, current)]
    /\ sched' = WaitingCurThread(sched, WaitingFor("threadend", t, timed))
    /\ Reschedule
    /\ UNCHANGED <<wakeupCount, wakeups>>

(* sceKernelReleaseWaitThread: the thread's events stay pending.           *)
ReleaseWaitThread(t) ==
    /\ Calling /\ Other(t) /\ Has(sched, t, "wait") /\ sched.wait[t].type # "hledelay"
    /\ sched' = Resumed(sched, t)
    /\ Reschedule
    /\ UNCHANGED <<wakeupCount, waitingThreads, timers>>

(* Mutant: the thread stays in the ready queue.                            *)
SuspendInQueue(t) ==
    /\ Calling /\ Other(t) /\ ~Dormant(t) /\ ~Has(sched, t, "suspend")
    /\ sched' = [sched EXCEPT !.status[t] = (@ \ {"ready"}) \cup {"suspend"}]
    /\ NoReschedule
    /\ UNCHANGED <<wakeupCount, waitingThreads, timers>>

(* sceKernelSuspendThread and sceKernelResumeThread, neither of which      *)
(* reschedules.                                                            *)
SuspendThread(t) ==
    /\ Calling /\ Other(t) /\ ~Dormant(t) /\ ~Has(sched, t, "suspend")
    /\ sched' = [MadeUnready(sched, t) EXCEPT !.status[t] = (@ \ {"ready"}) \cup {"suspend"}]
    /\ NoReschedule
    /\ UNCHANGED <<wakeupCount, waitingThreads, timers>>

ResumeThread(t) ==
    /\ Calling /\ Other(t) /\ Has(sched, t, "suspend")
    /\ LET resumed == [sched EXCEPT !.status[t] = @ \ {"suspend"}] IN
       sched' = IF resumed.status[t] = {} THEN MadeReady(resumed, t) ELSE resumed
    /\ NoReschedule
    /\ UNCHANGED <<wakeupCount, waitingThreads, timers>>

----------------------------------------------------------------------------
(* hleFinishSyscall                                                        *)
FinishSyscall ==
    /\ resched
    /\ sched' \in ReScheduled(sched)
    /\ resched' = FALSE
    /\ UNCHANGED <<wakeupCount, waitingThreads, timers>>

(* Mutant: the event of a suspended thread comes to nothing.               *)
WakeupUnlessSuspended(t) ==
    /\ wakeups[t] > 0
    /\ wakeups' = [wakeups EXCEPT ![t] = @ - 1]
    /\ sched' \in IF sched.status[t] = {"wait"} /\ VerifyWait(sched, t, "delay", t)
                  THEN ReScheduled(Resumed(sched, t)) ELSE {sched}
    /\ UNCHANGED <<wakeupCount, waitingThreads, endTimeouts, resched>>

(* hleScheduledWakeup                                                      *)
ScheduledWakeup(t) ==
    /\ wakeups[t] > 0
    /\ wakeups' = [wakeups EXCEPT ![t] = @ - 1]
    /\ sched' \in IF VerifyWait(sched, t, "delay", t) THEN ReScheduled(Resumed(sched, t)) ELSE {sched}
    /\ UNCHANGED <<wakeupCount, waitingThreads, endTimeouts, resched>>

(* hleThreadEndTimeout, WaitExecTimeout: t stays in waitingThreads.        *)
ThreadEndTimeout(t) ==
    /\ endTimeouts[t] > 0
    /\ endTimeouts' = [endTimeouts EXCEPT ![t] = @ - 1]
    /\ sched' \in IF \E u \in sched.threads : VerifyWait(sched, t, "threadend", u)
                  THEN ReScheduled(Resumed(sched, t)) ELSE {sched}
    /\ UNCHANGED <<wakeupCount, waitingThreads, wakeups, resched>>

(* _sceKernelIdle, which the idle threads call all the time.               *)
Idle ==
    /\ ~resched /\ current \in IdleThreads /\ ~sched.inInterrupt
    /\ sched' \in ReScheduled(sched)
    /\ UNCHANGED <<wakeupCount, waitingThreads, timers, resched>>

ThreadCall(t) ==
    \/ CreateThread(t) \/ StartThread(t) \/ DeleteThread(t)
    \/ TerminateThread(t) \/ TerminateDeleteThread(t)
    \/ WakeupThread(t) \/ CancelWakeupThread(t) \/ ReleaseWaitThread(t)
    \/ SuspendThread(t) \/ ResumeThread(t)
    \/ \E timed \in BOOLEAN : WaitThreadEnd(t, timed)
    \/ \E p \in 0 .. UserPriorities - 1 : ChangeThreadPriority(t, p)

Syscall ==
    \/ \E t \in Threads : ThreadCall(t)
    \/ ExitThread \/ ExitDeleteThread
    \/ DelayThread \/ SleepThread
    \/ SuspendDispatchThread
    \/ \E enabled \in BOOLEAN : ResumeDispatchThread(enabled)
    \/ \E p \in 0 .. UserPriorities - 1 : RotateThreadReadyQueue(p)

Event == \E t \in Threads : ScheduledWakeup(t) \/ ThreadEndTimeout(t)

Next == Syscall \/ FinishSyscall \/ Event \/ Idle

Spec == Init /\ [][Next]_vars

----------------------------------------------------------------------------
(* The state keeps its types; in particular no wakeup is taken that was    *)
(* not stored, and no list names what is not a thread.                     *)
TypeOK ==
    /\ sched \in Schedulers
    /\ wakeupCount \in [Threads -> Nat]
    /\ waitingThreads \in [AllThreads -> Seq(Threads)]
    /\ wakeups \in [Threads -> Nat] /\ endTimeouts \in [Threads -> Nat]
    /\ resched \in BOOLEAN

(* "Lists only ready thread ids.": every entry of the ready queue is a     *)
(* thread that exists, is ready and nothing else, and has the priority of  *)
(* the queue; no thread is in it twice, so a thread that was taken out     *)
(* is not scheduled again.                                                 *)
ReadyListSound ==
    \A p \in Priorities :
        LET q == sched.ready[p] IN
        /\ \A i \in DOMAIN q : Exists(q[i]) /\ sched.status[q[i]] = {"ready"} /\ sched.prio[q[i]] = p
        /\ \A i, j \in DOMAIN q : q[i] = q[j] => i = j

(* A thread that is ready can be found by the scheduler: it is in the      *)
(* queue of its current priority, whatever changed its state or priority.  *)
NoReadyThreadLost ==
    \A t \in sched.threads :
        Has(sched, t, "ready") => t \in Seqs!ToSet(sched.ready[sched.prio[t]])

(* No thread but the current one runs, and once a call has finished the    *)
(* current one runs, or is ready (it yielded while dispatch is suspended): *)
(* the CPU never executes a thread that waits, is suspended or has ended.  *)
OneRunner ==
    /\ \A t \in sched.threads : Has(sched, t, "running") => t = current
    /\ ~resched => current # NoThread /\ sched.status[current] \in {{"running"}, {"ready"}}

(* A thread that waits for the end of another one waits for one that has   *)
(* yet to end, and is on its list: __KernelStopThread will find it.        *)
WaitersAreListed ==
    \A t, u \in Threads :
        IsWaitingFor(sched, t, "threadend", u) =>
            Exists(u) /\ ~Dormant(u) /\ t \in Seqs!ToSet(waitingThreads[u])

(* A wait with a time limit has an event pending that ends it: no handler  *)
(* drops the event of a thread that still waits.                           *)
TimedWaitHasTimer ==
    \A t \in Threads :
        /\ IsWaitingFor(sched, t, "delay", t) => wakeups[t] > 0
        /\ Has(sched, t, "wait") /\ sched.wait[t].type = "threadend" /\ sched.wait[t].timed
            => endTimeouts[t] > 0

(* When a call that asks for it is finished, and no handler is entered,    *)
(* the scheduler leaves the CPU to a thread that runs, and no better one   *)
(* is ready.                                                               *)
PicksBest ==
    [][resched /\ ~resched' /\ CanSwitch(sched') =>
        /\ Has(sched', current', "running")
        /\ \A t \in sched.threads : Has(sched', t, "ready") => sched'.prio[t] >= sched'.prio[current']]_vars

(* A running thread that is preempted stays the next of its priority: only *)
(* the guest (by yielding or changing priorities) moves it behind others.  *)
PreemptedGoesFirst ==
    [][\A t \in sched.threads : Has(sched, t, "running") /\ current' \notin {t, NoThread} =>
        Head(sched'.ready[sched.prio[t]]) = t]_vars

(* A suspended thread stays suspended, whatever it waits for comes about,  *)
(* until it is resumed or stopped.                                         *)
SuspendedUntilResumed ==
    [][\A t \in Threads : Has(sched, t, "suspend") =>
        Has(sched', t, "suspend") \/ Has(sched', t, "dormant") \/ ResumeThread(t)]_vars

(* Every delay ends, also that of a thread that was suspended, released,   *)
(* stopped or had its priority changed meanwhile.                          *)
Delayed(t) == IsWaitingFor(sched, t, "delay", t)
DelayEnds == \A t \in Threads : Delayed(t) ~> ~Delayed(t)

=============================================================================
