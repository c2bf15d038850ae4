----------------------------- MODULE KernelMutex -----------------------------
(***************************************************************************)
(* Mutexes and lightweight mutexes of the emulated kernel                  *)
(* (sceKernelMutex.cpp).  A mutex is released when its owner ends: the     *)
(* locks threads hold are also kept in mutexHeldLocks, an unordered        *)
(* multimap from threads to mutexes, for the thread-end listener.  The     *)
(* state of a lightweight mutex is in guest memory, and nobody releases it *)
(* for its owner.                                                          *)
(***************************************************************************)
EXTENDS KernelWaitHelpers

LOCAL Seqs == INSTANCE SequencesExt

CONSTANTS
    MutexAttributes   \* the attributes the guest creates mutexes with, subsets of KnownAttributes

VARIABLES
    mutexHeldLocks    \* the elements of mutexHeldLocks, in the order in which they are iterated

PSP_MUTEX_ATTR_PRIORITY == "priority"
PSP_MUTEX_ATTR_ALLOW_RECURSIVE == "recursive"
KnownAttributes == {PSP_MUTEX_ATTR_PRIORITY, PSP_MUTEX_ATTR_ALLOW_RECURSIVE}

ASSUME KernelMutexAssumption == MutexAttributes \subseteq SUBSET KnownAttributes

MutexKinds == {"mutex", "lwmutex"}
IsMutex(m) == kernelObjects[m].kind \in MutexKinds

(* What a handler changes, as in KernelWaitHelpers, with the held locks.   *)
MutexWalk ==
    [sched |-> sched, objects |-> kernelObjects, timers |-> waitTimers, outcome |-> outcome,
     woke |-> FALSE, held |-> mutexHeldLocks]

MutexFinished(w, reschedule) == Finished(w, reschedule) /\ mutexHeldLocks' = w.held

----------------------------------------------------------------------------
(* unordered_multimap::insert: a thread's locks are next to each other; a  *)
(* thread's first lock comes in front of those of another thread, of any.  *)
Inserted(q, t, m) ==
    LET first(u) == CHOOSE i \in DOMAIN q : q[i].thread = u /\ \A j \in 1 .. i - 1 : q[j].thread # u
        before == IF t \in ThreadsIn(q) THEN {t} ELSE ThreadsIn(q)
        lock == [thread |-> t, mutex |-> m]
    IN  IF q = << >> THEN {<<lock>>} ELSE {Seqs!InsertAt(q, first(u), lock) : u \in before}

(* Mutant: the lock goes to the thread that gives it away.                 *)
AcquiredByCurrent(w, m, t, count) ==
    LET locked == [w EXCEPT !.objects[m].level = count, !.objects[m].holder = current] IN
    IF w.objects[m].kind = "lwmutex" THEN {locked}
    ELSE {[locked EXCEPT !.held = q] : q \in Inserted(w.held, current, m)}

(* __KernelMutexAcquireLock, and what takes its place for a lightweight    *)
(* mutex.                                                                  *)
Acquired(w, m, t, count) ==
    LET locked == [w EXCEPT !.objects[m].level = count, !.objects[m].holder = t] IN
    IF w.objects[m].kind = "lwmutex" THEN {locked}
    ELSE {[locked EXCEPT !.held = q] : q \in Inserted(w.held, t, m)}

(* __KernelMutexEraseLock                                                  *)
Erased(w, m) ==
    [w EXCEPT
        !.held = SelectSeq(@, LAMBDA e : e # [thread |-> w.objects[m].holder, mutex |-> m]),
        !.objects[m].holder = NoThread]

(* __KernelUnlockMutex, __KernelUnlockLwMutex: the lock goes to the first  *)
(* thread that still waits, or the best one; entries that do not count are *)
(* removed on the way.                                                     *)
HandedOver(w, m) ==
    LET unlocked == Erased(w, m)
        q == w.objects[m].waiters
        tried == Tried(w, m, q, w.objects[m].byPriority)
        rest == [unlocked EXCEPT !.objects[m].waiters =
                    SelectSeq(q, LAMBDA e : e \notin Seqs!ToSet(tried))]
        t == tried[Len(tried)].thread
    IN  IF tried # << >> /\ Remembers(w, m, t)
        THEN Acquired(Woken(rest, m, t, "ok"), m, t, waitValue[t])
        ELSE {rest}

----------------------------------------------------------------------------
CountValid(m, count) == count >= 1 /\ (count > 1 => kernelObjects[m].recursive)

(* sceKernelCreateMutex, sceKernelCreateLwMutex                            *)
CreateMutex(m, kind, attributes, count) ==
    /\ CanCreate(m, kind) /\ OnThread
    /\ count > 1 => PSP_MUTEX_ATTR_ALLOW_RECURSIVE \in attributes
    /\ LET mutex == [kind |-> kind, byPriority |-> PSP_MUTEX_ATTR_PRIORITY \in attributes,
                     recursive |-> PSP_MUTEX_ATTR_ALLOW_RECURSIVE \in attributes,
                     level |-> 0, holder |-> NoThread, waiters |-> << >>]
           created == [MutexWalk EXCEPT !.objects[m] = mutex]
       IN  \E w \in IF count = 0 THEN {created} ELSE Acquired(created, m, current, count) :
            MutexFinished(w, FALSE)

(* sceKernelDeleteMutex, sceKernelDeleteLwMutex                            *)
DeleteMutex(m) ==
    /\ Calling /\ IsMutex(m)
    /\ LET w == Erased(WokenAll(MutexWalk, m, kernelObjects[m].waiters, "deleted"), m) IN
       MutexFinished([w EXCEPT !.objects[m] = NoObject], w.woke)

(* sceKernelCancelMutex: with a count, the caller gets the lock.           *)
CancelMutex(m, count) ==
    /\ OnThread /\ IsA(m, "mutex")
    /\ count <= 0 \/ CountValid(m, count)
    /\ LET woken == WokenAll(MutexWalk, m, kernelObjects[m].waiters, "canceled")
           free == [Erased(woken, m) EXCEPT !.objects[m].waiters = << >>, !.objects[m].level = 0]
       IN  \E w \in IF count <= 0 THEN {free} ELSE Acquired(free, m, current, count) :
            MutexFinished(w, w.woke)

(* sceKernelLockMutex, sceKernelTryLockMutex and their likes when they get *)
(* the lock.                                                               *)
GetMutex(m, count) ==
    /\ OnThread /\ IsMutex(m) /\ CountValid(m, count)
    /\ \/ /\ kernelObjects[m].level = 0
          /\ \E w \in Acquired(MutexWalk, m, current, count) : MutexFinished(w, FALSE)
       \/ /\ kernelObjects[m].holder = current /\ kernelObjects[m].recursive
          /\ kernelObjects[m].level + count <= MaxCount
          /\ MutexFinished([MutexWalk EXCEPT !.objects[m].level = @ + count], FALSE)

(* sceKernelLockMutex, sceKernelLockLwMutex, when they have to wait.       *)
WaitMutex(m, count, timed) ==
    /\ MayWait /\ IsMutex(m) /\ CountValid(m, count)
    /\ kernelObjects[m].level > 0 /\ kernelObjects[m].holder # current
    /\ WaitOn([Walk EXCEPT !.objects[m].waiters = AddedOnce(@, [thread |-> current])],
              m, count, timed)
    /\ UNCHANGED mutexHeldLocks

(* sceKernelUnlockMutex, sceKernelUnlockLwMutex                            *)
UnlockMutex(m, count) ==
    /\ OnThread /\ IsMutex(m) /\ CountValid(m, count)
    /\ kernelObjects[m].holder = current /\ kernelObjects[m].level >= count
    /\ LET lowered == [MutexWalk EXCEPT !.objects[m].level = @ - count] IN
       \E w \in IF kernelObjects[m].level = count THEN HandedOver(lowered, m) ELSE {lowered} :
            MutexFinished(w, w.woke)

(* sceKernelReferMutexStatus, sceKernelReferLwMutexStatus                  *)
ReferMutexStatus(m) ==
    /\ Calling /\ IsMutex(m)
    /\ Changed(m, [kernelObjects[m] EXCEPT !.waiters = CleanedUp(Walk, m, @)])
    /\ UNCHANGED mutexHeldLocks

----------------------------------------------------------------------------
(* The iterator's end, and the element that follows e.                     *)
Past == [thread |-> NoThread]
Following(q, e) ==
    LET i == CHOOSE j \in DOMAIN q : q[j] = e IN IF i = Len(q) THEN Past ELSE q[i + 1]

(* The loop of __KernelMutexThreadEnd from e on: the end of the range was  *)
(* determined before, and the locks of other threads are inserted while it *)
(* is iterated.                                                            *)
RECURSIVE UnlockedRange(_, _, _)
UnlockedRange(w, e, end) ==
    IF e = end THEN {w}
    ELSE LET next == Following(w.held, e) IN
         UNION {UnlockedRange(v, next, end) :
                    v \in HandedOver([w EXCEPT !.objects[e.mutex].level = 0], e.mutex)}

(* Mutant: the locks of the thread are forgotten.                          *)
HeldByTheDead(w, t) == {w}

UnlockedAll(w, t) ==
    LET held == {i \in DOMAIN w.held : w.held[i].thread = t}
        first == CHOOSE i \in held : \A j \in held : i <= j
        last == CHOOSE i \in held : \A j \in held : j <= i
    IN  IF held = {} THEN {w}
        ELSE UnlockedRange(w, w.held[first], Following(w.held, w.held[last]))

(* __KernelStopThread with __KernelMutexThreadEnd as its listener: t stops *)
(* waiting, and all mutexes it had locked are unlocked.  No thread waits   *)
(* for the end of t here.                                                  *)
StoppedWithLocks(t) ==
    LET dormant == [MadeUnready(sched, t) EXCEPT !.status[t] = {"dormant"}]
        unlisted(o) == IF IsA(o, "mutex") /\ VerifyWait(sched, t, "mutex", o)
                       THEN [kernelObjects[o] EXCEPT !.waiters = Without(@, t)] ELSE kernelObjects[o]
        start == [MutexWalk EXCEPT !.sched = dormant, !.objects = [o \in Objects |-> unlisted(o)]]
    IN  {[w EXCEPT !.sched.wait[t] = NotWaiting] : w \in UnlockedAll(start, t)}

Ended(t, w) ==
    /\ Walked(w)
    /\ mutexHeldLocks' = w.held
    /\ waitValue' = Kept(waitValue, w.sched, 0)
    /\ StopTimers(t)
    /\ UNCHANGED wakeupCount

(* sceKernelExitThread                                                     *)
ExitWithLocks ==
    /\ "end" \in guestUses /\ OnThread /\ Leaving
    /\ \E w \in StoppedWithLocks(current) : Ended(current, w)
    /\ Reschedule

(* sceKernelTerminateThread                                                *)
TerminateWithLocks(t) ==
    /\ "end" \in guestUses /\ Calling /\ Other(t) /\ ~Dormant(t) /\ MayBeStale(t)
    /\ \E w \in StoppedWithLocks(t) : Ended(t, [w EXCEPT !.sched.prio[t] = InitialPriority[t]])
    /\ NoReschedule

----------------------------------------------------------------------------
MutexCall(m) ==
    \/ \E kind \in MutexKinds, attributes \in MutexAttributes, count \in 0 .. MaxCount :
            CreateMutex(m, kind, attributes, count)
    \/ DeleteMutex(m)
    \/ "cancel" \in guestUses /\ \E count \in 0 .. MaxCount : CancelMutex(m, count)
    \/ "refer" \in guestUses /\ ReferMutexStatus(m)
    \/ \E count \in 1 .. MaxCount :
        \/ GetMutex(m, count) \/ UnlockMutex(m, count)
        \/ \E timed \in Timed : WaitMutex(m, count, timed)

Mutexes ==
    [kind: MutexKinds, byPriority: BOOLEAN, recursive: BOOLEAN, level: 0 .. MaxCount,
     holder: Threads \cup {NoThread}, waiters: Seq([thread: Threads])]

(* No thread waits for a mutex that is free, whoever unlocked it, ended,   *)
(* cancelled it or gave up waiting in between.                             *)
NoFreeMutexAwaited ==
    \A m \in Objects, t \in Threads : IsMutex(m) /\ WaitsFor(t, m) => kernelObjects[m].level > 0

(* mutexHeldLocks is in step with the mutexes, so that the end of a thread *)
(* finds what to unlock: it lists each lock once, and no thread that has   *)
(* ended holds any.                                                        *)
HeldLocksInStep ==
    /\ Seqs!IsInjective(mutexHeldLocks)
    /\ Seqs!ToSet(mutexHeldLocks) =
            {[thread |-> kernelObjects[m].holder, mutex |-> m] :
                m \in {n \in Objects : IsA(n, "mutex") /\ kernelObjects[n].holder # NoThread}}
    /\ \A i \in DOMAIN mutexHeldLocks : ~Dormant(mutexHeldLocks[i].thread)
    /\ \A m \in Objects : IsMutex(m) => (kernelObjects[m].level > 0 <=> kernelObjects[m].holder # NoThread)

(* "Unlock all mutexes the thread had locked": a thread whose call to lock *)
(* a mutex has succeeded is the one that has it locked, unless the mutex   *)
(* was cancelled: nobody else's end or time limit takes it away.           *)
GrantedOwns ==
    \A m \in Objects : IsMutex(m) => \A t \in Granted(m) : kernelObjects[m].holder = t

(* The same as long as no thread ends, which is when it goes wrong:        *)
(* whatever times out, is released, polled for or unlocked meanwhile.      *)
GrantedOwnsUnlessEnds == "end" \notin guestUses => GrantedOwns

=============================================================================
