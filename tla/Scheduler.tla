----------------------------- MODULE Scheduler -----------------------------
(***************************************************************************)
(* The thread states of sceKernelThread.cpp and the steps its system calls *)
(* are composed of, as operators on a record s, the scheduler's state:     *)
(*   threads            the threads that exist                             *)
(*   current            the thread the CPU runs, or NoThread               *)
(*   status[t]          the set of THREADSTATUS flags of t                 *)
(*   prio[t]            its current priority                               *)
(*   wait[t]            what it waits for (waitType, waitID, timeoutPtr)   *)
(*   ready[p]           threadReadyQueue, as ReadyQueues specifies it      *)
(*   dispatchEnabled, interruptsEnabled, inInterrupt                       *)
(***************************************************************************)
EXTENDS Integers, Sequences, Queues

LOCAL Seqs == INSTANCE SequencesExt

CONSTANTS
    Threads,          \* the threads the guest creates
    Idle0, Idle1,     \* the two idle threads
    NoThread,         \* the id 0
    Objects,          \* ids of the other kernel objects threads wait for
    UserPriorities    \* bound: number of priorities the guest uses, 0 the best

ASSUME SchedulerAssumption ==
    /\ UserPriorities \in Nat \ {0}
    /\ Idle0 # Idle1
    /\ NoThread \notin Threads \cup {Idle0, Idle1}
    /\ Threads \cap {Idle0, Idle1} = {}
    /\ Objects \cap (Threads \cup {NoThread}) = {}

IdleThreads == {Idle0, Idle1}
AllThreads == Threads \cup IdleThreads
IdlePriority == UserPriorities     \* 0x7f: worse than every priority of the guest
Priorities == 0 .. IdlePriority
Flags == {"running", "ready", "wait", "suspend", "dormant"}
ObjectKinds == {"sema", "eventflag", "mutex", "lwmutex", "mbx", "msgpipe", "fpl", "vpl"}
WaitTypes == {"none", "sleep", "delay", "threadend", "hledelay"} \cup ObjectKinds

Waits == [type: WaitTypes, id: AllThreads \cup Objects \cup {NoThread}, timed: BOOLEAN]
WaitingFor(type, id, timed) == [type |-> type, id |-> id, timed |-> timed]
NotWaiting == WaitingFor("none", NoThread, FALSE)

Schedulers ==
    [threads: SUBSET AllThreads, current: AllThreads \cup {NoThread},
     status: [AllThreads -> SUBSET Flags],
     prio: [AllThreads -> Priorities],
     wait: [AllThreads -> Waits],
     ready: [Priorities -> Seq(AllThreads)],
     dispatchEnabled: BOOLEAN, interruptsEnabled: BOOLEAN, inInterrupt: BOOLEAN]

Has(s, t, flag) == flag \in s.status[t]
IsWaitingFor(s, t, type, id) == Has(s, t, "wait") /\ s.wait[t].type = type /\ s.wait[t].id = id

(* getWaitID, which VerifyWait compares: it looks at what the thread last  *)
(* waited for, not at whether it still does.                               *)
VerifyWait(s, t, type, id) == t \in s.threads /\ s.wait[t].type = type /\ s.wait[t].id = id

IsDispatchEnabled(s) == s.dispatchEnabled /\ s.interruptsEnabled

(* Mutant: threads are switched in interrupt handlers, too.                *)
CanAlwaysSwitch(s) == IsDispatchEnabled(s)

CanSwitch(s) == IsDispatchEnabled(s) /\ ~s.inInterrupt

----------------------------------------------------------------------------
(* Mutant: a preempted thread goes to the back of its queue.               *)
MadeReadyLast(s, t) ==
    IF Has(s, t, "ready") THEN s
    ELSE [s EXCEPT !.ready[s.prio[t]] = Append(@, t), !.status[t] = {"ready"}]

(* __KernelChangeReadyState: into and out of the ready queue.              *)
MadeReady(s, t) ==
    IF Has(s, t, "ready") THEN s
    ELSE [s EXCEPT !.ready[s.prio[t]] = IF Has(s, t, "running") THEN <<t>> \o @ ELSE Append(@, t),
                   !.status[t] = {"ready"}]

MadeUnready(s, t) ==
    IF Has(s, t, "ready") THEN [s EXCEPT !.ready[s.prio[t]] = Seqs!RemoveFirst(@, t)] ELSE s

(* Mutant: a suspended thread is made ready when its wait ends.            *)
ResumedAnyway(s, t) == MadeReady([s EXCEPT !.status[t] = @ \ {"wait"}], t)

(* Thread::resumeFromWait: a suspended thread only stops waiting.          *)
Resumed(s, t) ==
    LET woken == [s EXCEPT !.status[t] = @ \ {"wait"}] IN
    IF woken.status[t] \cap {"suspend", "dormant"} = {} THEN MadeReady(woken, t) ELSE woken

(* Resumes every thread of the sequence q, in its order; none of them is   *)
(* running, since the wait of a running thread is "none".                  *)
ResumedAll(s, q) ==
    LET in == Seqs!ToSet(q)
        free == {t \in in : s.status[t] \ {"wait"} = {}}
        joining(p) == Selected(q, {t \in free : s.prio[t] = p})
    IN  [s EXCEPT
            !.status = [t \in AllThreads |->
                            IF t \in free THEN {"ready"}
                            ELSE IF t \in in THEN s.status[t] \ {"wait"} ELSE s.status[t]],
            !.ready = [p \in Priorities |-> s.ready[p] \o joining(p)]]

(* __KernelWaitCurThread, without its request to reschedule.               *)
WaitingCurThread(s, wait) ==
    IF ~s.dispatchEnabled THEN s
    ELSE [MadeUnready(s, s.current) EXCEPT
            !.status[s.current] = {"wait"} \cup (@ \cap {"suspend"}),
            !.wait[s.current] = wait]

(* Mutant: the thread that is switched off stays running.                  *)
LeftRunning(s) == s

(* __KernelSwitchContext                                                   *)
SwitchedOff(s) ==
    IF s.current # NoThread /\ Has(s, s.current, "running") THEN MadeReady(s, s.current) ELSE s

SwitchContext(s, t) ==
    [MadeUnready(SwitchedOff(s), t) EXCEPT
        !.current = t,
        !.status[t] = (@ \cup {"running"}) \ {"ready"},
        !.wait[t] = NotWaiting]

(* Mutant: a running thread makes way for any ready one.                   *)
NoLimit(s) == IdlePriority + 1

(* __KernelNextThread: a running thread only makes way for a better one.   *)
Limit(s) ==
    IF s.current # NoThread /\ Has(s, s.current, "running") THEN s.prio[s.current] ELSE IdlePriority + 1

BestQueue(s) ==
    {p \in Priorities : /\ p < Limit(s) /\ s.ready[p] # << >>
                        /\ \A q \in Priorities : q < p => s.ready[q] = << >>}

(* What __KernelReSchedule can leave (exactly one state).  The events that *)
(* are due when it advances the clock are steps of their own before it.    *)
ReScheduled(s) ==
    IF CanSwitch(s) /\ BestQueue(s) # {}
    THEN {SwitchContext([s EXCEPT !.ready[p] = Tail(@)], Head(s.ready[p])) : p \in BestQueue(s)}
    ELSE {s}

=============================================================================
