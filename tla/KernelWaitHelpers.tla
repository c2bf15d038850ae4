-------------------------- MODULE KernelWaitHelpers --------------------------
(***************************************************************************)
(* What the kernel objects that threads wait for have in common: the pool  *)
(* they live in (kernelObjects), their lists of waiting threads and the    *)
(* helpers for them (KernelWaitHelpers.h), and the time limits of waits.   *)
(*                                                                         *)
(* A thread whose wait ended, because it got what it waited for, by its    *)
(* time limit or by a release, remembers what it waited for until it runs, *)
(* and an entry of a list only counts while the thread does (VerifyWait).  *)
(* Entries are not removed when a wait times out or is released, but by a  *)
(* later call that walks the list.                                         *)
(***************************************************************************)
EXTENDS KernelThread

LOCAL Seqs == INSTANCE SequencesExt

CONSTANTS
    Kinds,          \* the kinds of objects the guest creates
    MaxCount,       \* bound: the largest count, of semaphores and mutexes
    Guests          \* the guests, each one a set of Features that it uses

(* "stale pipe entries": waits for message pipes time out or are released; *)
(* "overtaking": blocks are taken from VPLs past threads that wait.        *)
Features == {"timeouts", "release", "release timed", "stale pipe entries", "overtaking",
             "refer", "cancel", "suspend", "rotate", "delay", "priorities", "end"}

ASSUME KernelWaitAssumption ==
    /\ Kinds \subseteq ObjectKinds
    /\ MaxCount \in Nat \ {0}
    /\ Guests \subseteq SUBSET Features

VARIABLES
    kernelObjects,  \* kernelObjects[o]: the object with the id o, a record
    waitValue,      \* waitValue[t]: the wait value of t
    waitTimers,     \* waitTimers[k][t]: pending events of t, of the timer of kind k
    outcome,        \* outcome[t]: what the wait of t returns, once it has ended
    guestUses       \* what the guest that runs uses; it never changes

waitVars == <<kernelObjects, waitValue, waitTimers, outcome>>

NoObject == [kind |-> "none"]
TimerKinds == ObjectKinds \cup {"hledelay"}     \* time limits, and delayedResultEvent
Results == {"none", "ok", "timeout", "released", "canceled", "deleted"}

(* Every thread has been started.                                          *)
WaitInit ==
    /\ sched = [InitialSched EXCEPT
                    !.threads = AllThreads,
                    !.status = [t \in AllThreads |-> IF t = Root THEN {"running"} ELSE {"ready"}],
                    !.ready = [p \in Priorities |->
                        @[p] \o Seqs!SetToSeq({t \in Threads \ {Root} : InitialPriority[t] = p})]]
    /\ InitialRest
    /\ kernelObjects = [o \in Objects |-> NoObject]
    /\ waitValue = [t \in Threads |-> 0]
    /\ waitTimers = [k \in TimerKinds |-> [t \in Threads |-> 0]]
    /\ outcome = [t \in Threads |-> "none"]
    /\ guestUses \in Guests

----------------------------------------------------------------------------
IsA(o, kind) == kernelObjects[o].kind = kind
WaitsFor(t, o) == Has(sched, t, "wait") /\ sched.wait[t].type = kernelObjects[o].kind /\ sched.wait[t].id = o

(* What the handlers change, as a record they compute step by step.        *)
Walk ==
    [sched |-> sched, objects |-> kernelObjects, timers |-> waitTimers, outcome |-> outcome,
     woke |-> FALSE]

(* What a thread waited for does not matter any more when it runs.         *)
Kept(value, s, none) == [t \in Threads |-> IF s.wait[t] = NotWaiting THEN none ELSE value[t]]

Walked(w) ==
    /\ sched' = w.sched
    /\ kernelObjects' = w.objects
    /\ waitTimers' = w.timers
    /\ outcome' = Kept(w.outcome, w.sched, "none")

(* HLEKernel::VerifyWait                                                   *)
Remembers(w, o, t) == VerifyWait(w.sched, t, w.objects[o].kind, o)

(* Mutant: the thread keeps its timer.                                     *)
WokenWithTimer(w, o, t, result) ==
    [w EXCEPT !.sched = Resumed(w.sched, t), !.outcome[t] = result, !.woke = TRUE]

(* A thread's wait ends: its event is unscheduled if it waits with a time  *)
(* limit, and it is resumed.                                               *)
Woken(w, o, t, result) ==
    [w EXCEPT
        !.sched = Resumed(w.sched, t), !.outcome[t] = result, !.woke = TRUE,
        !.timers[w.objects[o].kind][t] = IF w.sched.wait[t].timed THEN 0 ELSE @]

(* Ends the waits of all entries of q that count, as deletes and cancels do. *)
WokenAll(w, o, q, result) ==
    LET wake(v, e) == IF Remembers(v, o, e.thread) THEN Woken(v, o, e.thread, result) ELSE v
    IN  Seqs!FoldLeft(wake, w, q)

(* Mutant: the list is walked in the order of arrival.                     *)
Unsorted(q) == q

(* std::stable_sort by __KernelThreadSortPriority                          *)
SortedByPriority(q) ==
    Seqs!FlattenSeq([p \in 1 .. UserPriorities |-> SelectSeq(q, LAMBDA e : sched.prio[e.thread] = p - 1)])

(* HLEKernel::CleanupWaitingThreads: an entry that does not count is       *)
(* overwritten with the last one that does.                                *)
CleanedUp(w, o, q) ==
    LET counts(i) == Remembers(w, o, q[i].thread)
        n == Cardinality({i \in DOMAIN q : counts(i)})
        moved == Seqs!Reverse(SelectSeq(SubSeq(q, n + 1, Len(q)), LAMBDA e : Remembers(w, o, e.thread)))
    IN  [i \in 1 .. n |-> IF counts(i) THEN q[i] ELSE moved[Cardinality({j \in 1 .. i : ~counts(j)})]]

(* HLEKernel::RemoveWaitingThread                                          *)
Without(q, t) == SelectSeq(q, LAMBDA e : e.thread # t)

ThreadsIn(q) == {q[i].thread : i \in DOMAIN q}

(* "May be in a tight loop timing out [...], don't want to add duplicates." *)
AddedOnce(q, entry) == IF entry.thread \in ThreadsIn(q) THEN q ELSE Append(q, entry)

(* The entries that are tried, in turn, until one counts: those of a list, *)
(* or the best ones first.                                                 *)
Tried(w, o, q, byPriority) ==
    LET order == IF byPriority THEN SortedByPriority(q) ELSE q
        counting == {i \in DOMAIN order : Remembers(w, o, order[i].thread)}
    IN  IF counting = {} THEN order
        ELSE SubSeq(order, 1, CHOOSE i \in counting : \A j \in counting : i <= j)

----------------------------------------------------------------------------
(* kernelObjects.Create: the id is one that no thread remembers.           *)
CanCreate(o, kind) ==
    /\ Calling /\ kind \in Kinds /\ kernelObjects[o] = NoObject
    /\ \A t \in Threads : sched.wait[t].id # o

(* The current call changes the object o to this one, and nothing else.    *)
Changed(o, object) ==
    /\ kernelObjects' = [kernelObjects EXCEPT ![o] = object]
    /\ UNCHANGED <<vars, waitValue, waitTimers, outcome>>

(* A call has changed what w says, and asks for a reschedule, or not.      *)
Finished(w, reschedule) ==
    /\ Walked(w)
    /\ resched' = reschedule
    /\ UNCHANGED <<waitValue, wakeupCount, waitingThreads, timers>>

Timed == IF "timeouts" \in guestUses THEN BOOLEAN ELSE {FALSE}

(* __KernelWaitCurThread, after the object's timer has been set.           *)
WaitOn(w, o, value, timed) ==
    LET kind == kernelObjects[o].kind IN
    /\ timed => w.timers[kind][current] < MaxTimers
    /\ Walked([w EXCEPT !.timers[kind][current] = IF timed THEN @ + 1 ELSE @,
                        !.sched = WaitingCurThread(w.sched, WaitingFor(kind, o, timed))])
    /\ waitValue' = [waitValue EXCEPT ![current] = value]
    /\ Reschedule
    /\ UNCHANGED <<wakeupCount, waitingThreads, timers>>

(* Mutant: the limit of a thread that is suspended comes to nothing.       *)
TimeoutUnlessSuspended(kind, t) ==
    /\ waitTimers[kind][t] > 0
    /\ LET elapsed == [Walk EXCEPT !.timers[kind][t] = @ - 1]
           remembered == {o \in Objects : IsA(o, kind) /\ VerifyWait(sched, t, kind, o)}
       IN  \/ /\ remembered = {} \/ Has(sched, t, "suspend")
              /\ Walked(elapsed) /\ UNCHANGED waitValue
           \/ /\ remembered # {} /\ ~Has(sched, t, "suspend")
              /\ \E s \in ReScheduled(Resumed(sched, t)) :
                    /\ Walked([elapsed EXCEPT !.sched = s, !.outcome[t] = "timeout"])
                    /\ waitValue' = Kept(waitValue, s, 0)
    /\ UNCHANGED <<wakeupCount, waitingThreads, timers, resched>>

(* HLEKernel::WaitExecTimeout                                              *)
WaitExecTimeout(kind, t) ==
    /\ waitTimers[kind][t] > 0
    /\ LET elapsed == [Walk EXCEPT !.timers[kind][t] = @ - 1]
           remembered == {o \in Objects : IsA(o, kind) /\ VerifyWait(sched, t, kind, o)}
       IN  \/ remembered = {} /\ Walked(elapsed) /\ UNCHANGED waitValue
           \/ /\ remembered # {}
              /\ \E s \in ReScheduled(Resumed(sched, t)) :
                    /\ Walked([elapsed EXCEPT !.sched = s, !.outcome[t] = "timeout"])
                    /\ waitValue' = Kept(waitValue, s, 0)
    /\ UNCHANGED <<wakeupCount, waitingThreads, timers, resched>>

----------------------------------------------------------------------------
(* The calls of KernelThread that matter to a wait.                        *)
MayBeStale(t) == sched.wait[t].type = "msgpipe" => "stale pipe entries" \in guestUses

ReleaseWaiter(t) ==
    /\ ReleaseWaitThread(t)
    /\ {"release", "release timed"} \cap guestUses # {} /\ MayBeStale(t)
    /\ sched.wait[t].timed => "release timed" \in guestUses
    /\ outcome' = [outcome EXCEPT ![t] = "released"]
    /\ UNCHANGED <<kernelObjects, waitValue, waitTimers>>

(* bound: one thread is suspended at a time.                               *)
NoneSuspended == \A t \in Threads : ~Has(sched, t, "suspend")

ThreadStep ==
    /\ \/ FinishSyscall \/ Idle
       \/ "rotate" \in guestUses /\ \E p \in 0 .. UserPriorities - 1 : RotateThreadReadyQueue(p)
       \/ "delay" \in guestUses /\ (DelayThread \/ \E t \in Threads : ScheduledWakeup(t))
       \/ "priorities" \in guestUses
          /\ \E t \in Threads, p \in 0 .. UserPriorities - 1 : ChangeThreadPriority(t, p)
       \/ "suspend" \in guestUses /\ \E t \in Threads : (NoneSuspended /\ SuspendThread(t)) \/ ResumeThread(t)
       \/ "end" \in guestUses /\ \E t \in Threads : StartThread(t)
    /\ outcome' = Kept(outcome, sched', "none")
    /\ waitValue' = Kept(waitValue, sched', 0)
    /\ UNCHANGED <<kernelObjects, waitTimers>>

----------------------------------------------------------------------------
Waiting(t) == Has(sched, t, "wait") /\ sched.wait[t].type \in ObjectKinds
Senders(o) == IF IsA(o, "msgpipe") THEN kernelObjects[o].senders ELSE << >>
Receivers(o) == IF kernelObjects[o] = NoObject THEN << >> ELSE kernelObjects[o].waiters

(* A thread only waits for an object that exists, and is on its list, so   *)
(* that whatever it waits for, a cancel or a delete finds it; and no       *)
(* thread is listed twice ("don't want to add duplicates"), to be served   *)
(* twice or for a wait that is over: whatever entries were left behind,    *)
(* cleaned up, moved or reused meanwhile.                                  *)
WaitersListed ==
    \A t \in Threads : Waiting(t) =>
        LET o == sched.wait[t].id IN
        /\ IsA(o, sched.wait[t].type)
        /\ t \in ThreadsIn(Receivers(o)) \cup ThreadsIn(Senders(o))

ListedOnce ==
    \A o \in Objects :
        LET q == Receivers(o) \o Senders(o) IN
        \A i, j \in DOMAIN q : q[i].thread = q[j].thread => i = j

ListsInStep == WaitersListed /\ ListedOnce

(* A thread that waits with a time limit has an event pending that ends    *)
(* the wait, whoever else's wait ended, was released or cleaned up.        *)
TimedWaitsEnd ==
    \A t \in Threads :
        Waiting(t) /\ sched.wait[t].timed => waitTimers[sched.wait[t].type][t] > 0

(* The threads that got what they waited for and are yet to run.           *)
Granted(o) ==
    {t \in Threads : /\ outcome[t] = "ok" /\ ~Has(sched, t, "wait")
                     /\ VerifyWait(sched, t, kernelObjects[o].kind, o)}

(* What a thread was granted is not lost: nothing that happens before it   *)
(* runs turns its success into an error.                                   *)
GrantsAreKept ==
    [][\A o \in Objects : \A t \in Granted(o) :
        t \in Granted(o)' \/ current' = t \/ kernelObjects'[o] = NoObject
        \/ Dormant(t)']_<<vars, waitVars>>

=============================================================================
