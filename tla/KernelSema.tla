----------------------------- MODULE KernelSema -----------------------------
(***************************************************************************)
(* Semaphores of the emulated kernel (sceKernelSemaphore.cpp).             *)
(***************************************************************************)
EXTENDS KernelWaitHelpers

LOCAL Seqs == INSTANCE SequencesExt

CONSTANTS
    InitCount,      \* initCount
    SemaAttributes  \* the attributes the guest creates semaphores with

PSP_SEMA_ATTR_FIFO == "fifo"
PSP_SEMA_ATTR_PRIORITY == "priority"

ASSUME KernelSemaAssumption ==
    /\ InitCount \in 0 .. MaxCount
    /\ SemaAttributes \subseteq {PSP_SEMA_ATTR_FIFO, PSP_SEMA_ATTR_PRIORITY}

Semaphore(attribute) ==
    [kind |-> "sema", byPriority |-> attribute = PSP_SEMA_ATTR_PRIORITY,
     count |-> InitCount, waiters |-> << >>]

----------------------------------------------------------------------------
HasEnough(w, s, t) == waitValue[t] <= w.objects[s].count

(* __KernelUnlockSemaForThread with result 0: whether the entry is removed *)
(* from the list, and what is done for a thread that gets its count.       *)
Unlocks(w, s, t) == Remembers(w, s, t) => HasEnough(w, s, t)

Unlocked(w, s, e) ==
    IF ~Unlocks(w, s, e.thread) THEN [w EXCEPT !.objects[s].waiters = Append(@, e)]
    ELSE IF ~Remembers(w, s, e.thread) THEN w
    ELSE [Woken(w, s, e.thread, "ok") EXCEPT !.objects[s].count = @ - waitValue[e.thread]]

(* Serves the entries of q, in its order, and leaves the others listed.    *)
(* The code starts over after each entry it removes; one walk is the same, *)
(* since the count only decreases on the way.                              *)
Served(w, s, q) ==
    Seqs!FoldLeft(LAMBDA v, e : Unlocked(v, s, e), [w EXCEPT !.objects[s].waiters = << >>], q)

----------------------------------------------------------------------------
(* sceKernelCreateSema                                                     *)
CreateSema(s, attribute) ==
    /\ CanCreate(s, "sema")
    /\ Changed(s, Semaphore(attribute))

(* sceKernelDeleteSema                                                     *)
DeleteSema(s) ==
    /\ Calling /\ IsA(s, "sema")
    /\ LET w == WokenAll(Walk, s, kernelObjects[s].waiters, "deleted") IN
       Finished([w EXCEPT !.objects[s] = NoObject], w.woke)

(* sceKernelCancelSema; a negative count stands for the initial one.       *)
CancelSema(s, newCount) ==
    /\ Calling /\ IsA(s, "sema")
    /\ LET w == WokenAll(Walk, s, kernelObjects[s].waiters, "canceled") IN
       Finished([w EXCEPT !.objects[s].waiters = << >>,
                          !.objects[s].count = IF newCount < 0 THEN InitCount ELSE newCount], w.woke)

(* sceKernelSignalSema                                                     *)
SignalSema(s, signal) ==
    /\ Calling /\ IsA(s, "sema")
    /\ LET q == kernelObjects[s].waiters
           order == IF kernelObjects[s].byPriority THEN SortedByPriority(q) ELSE q
           w == Served([Walk EXCEPT !.objects[s].count = @ + signal], s, order)
       IN  /\ kernelObjects[s].count + signal - Len(q) <= MaxCount
           /\ Finished(w, w.woke)

(* sceKernelReferSemaStatus                                                *)
ReferSemaStatus(s) ==
    /\ Calling /\ IsA(s, "sema")
    /\ Changed(s, [kernelObjects[s] EXCEPT !.waiters = CleanedUp(Walk, s, @)])

(* sceKernelPollSema, and sceKernelWaitSema when it need not wait.         *)
Available(s, wanted) == kernelObjects[s].count >= wanted /\ kernelObjects[s].waiters = << >>

PollSema(s, wanted) ==
    /\ Calling /\ IsA(s, "sema") /\ Available(s, wanted)
    /\ Changed(s, [kernelObjects[s] EXCEPT !.count = @ - wanted])

(* Mutant: the thread is listed even if it has an old entry.               *)
WaitsAgain(s, wanted, timed) ==
    /\ MayWait /\ IsA(s, "sema") /\ ~Available(s, wanted)
    /\ WaitOn([Walk EXCEPT !.objects[s].waiters = Append(@, [thread |-> current])],
             s, wanted, timed)

(* sceKernelWaitSema, when it has to wait.                                 *)
WaitSema(s, wanted, timed) ==
    /\ MayWait /\ IsA(s, "sema") /\ ~Available(s, wanted)
    /\ WaitOn([Walk EXCEPT !.objects[s].waiters = AddedOnce(@, [thread |-> current])],
             s, wanted, timed)

(* __KernelSemaTimeout: the wait of t ends (WaitExecTimeout) and threads   *)
(* are rescheduled; then, in FIFO order, the first entries are served as   *)
(* long as none of them must still wait.                                   *)
SemaTimeout(t) ==
    /\ waitTimers["sema"][t] > 0
    /\ LET elapsed == [Walk EXCEPT !.timers["sema"][t] = @ - 1]
           remembered == {s \in Objects : IsA(s, "sema") /\ VerifyWait(sched, t, "sema", s)}
       IN  \/ remembered = {} /\ Walked(elapsed)
           \/ \E s \in remembered : \E rescheduled \in ReScheduled(Resumed(sched, t)) :
                LET start == [elapsed EXCEPT !.sched = rescheduled, !.outcome[t] = "timeout"]
                    serve(v, e) == IF v.objects[s].waiters = << >> THEN Unlocked(v, s, e)
                                   ELSE [v EXCEPT !.objects[s].waiters = Append(@, e)]
                    emptied == [start EXCEPT !.objects[s].waiters = << >>]
                IN  Walked(IF kernelObjects[s].byPriority THEN start
                           ELSE Seqs!FoldLeft(serve, emptied, kernelObjects[s].waiters))
    /\ waitValue' = Kept(waitValue, sched', 0)
    /\ UNCHANGED <<wakeupCount, waitingThreads, timers, resched>>

SemaCall(s) ==
    \/ \E attribute \in SemaAttributes : CreateSema(s, attribute)
    \/ DeleteSema(s)
    \/ \E newCount \in -1 .. MaxCount : CancelSema(s, newCount)
    \/ "refer" \in guestUses /\ ReferSemaStatus(s)
    \/ \E n \in 1 .. MaxCount :
        \/ SignalSema(s, n) \/ PollSema(s, n)
        \/ \E timed \in Timed : WaitSema(s, n, timed)

----------------------------------------------------------------------------
Semaphores ==
    [kind: {"sema"}, byPriority: BOOLEAN, count: Nat, waiters: Seq([thread: Threads])]

=============================================================================
