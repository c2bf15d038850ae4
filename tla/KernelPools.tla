----------------------------- MODULE KernelPools -----------------------------
(***************************************************************************)
(* Memory pools of the emulated kernel that threads wait for               *)
(* (sceKernelMemory.cpp): of blocks of one size (FPL), and of blocks of    *)
(* any size (VPL).  Where the blocks of a VPL lie is the subject of        *)
(* VplHeader; here it counts what is taken.                                *)
(***************************************************************************)
EXTENDS KernelWaitHelpers

LOCAL Seqs == INSTANCE SequencesExt
LOCAL Sets == INSTANCE FiniteSetsExt

CONSTANT VplAttributes    \* the attributes the guest creates VPLs with

PSP_VPL_ATTR_FIFO == "fifo"
PSP_VPL_ATTR_PRIORITY == "priority"
PSP_VPL_ATTR_SMALLEST == "smallest"     \* neither of them, for the code

(* Room for two units is never in pieces, so that counting it will do.     *)
ASSUME KernelPoolsAssumption ==
    /\ MaxCount \in {1, 2}
    /\ VplAttributes \subseteq {PSP_VPL_ATTR_FIFO, PSP_VPL_ATTR_PRIORITY, PSP_VPL_ATTR_SMALLEST}

Blocks == 0 .. MaxCount - 1     \* the blocks of an FPL, numBlocks of them
Sizes == 1 .. MaxCount          \* the sizes of the blocks of a VPL of MaxCount units

(* taken says which blocks are, or how many of each size.                  *)
FPL(byPriority) ==
    [kind |-> "fpl", byPriority |-> byPriority, fifo |-> FALSE,
     taken |-> [b \in Blocks |-> FALSE], nextBlock |-> 0, waiters |-> << >>]

VPL(attribute) ==
    [kind |-> "vpl", byPriority |-> attribute = PSP_VPL_ATTR_PRIORITY,
     fifo |-> attribute = PSP_VPL_ATTR_FIFO,
     taken |-> [n \in Sizes |-> 0], waiters |-> << >>]

FreeSize(pool) == MaxCount - Sets!MapThenSumSet(LAMBDA n : n * pool.taken[n], Sizes)

HasBlock(pool, n) == IF pool.kind = "fpl" THEN \E b \in Blocks : ~pool.taken[b] ELSE FreeSize(pool) >= n

(* FPL::allocateBlock looks for a free block behind the last one it took.  *)
Behind(pool, i) == (pool.nextBlock + i) % MaxCount
AllocatedBlock(pool) ==
    LET found == CHOOSE i \in Blocks : /\ ~pool.taken[Behind(pool, i)]
                                       /\ \A j \in 0 .. i - 1 : pool.taken[Behind(pool, j)]
    IN  [pool EXCEPT !.taken[Behind(pool, found)] = TRUE, !.nextBlock = Behind(pool, found + 1)]

Allocated(pool, n) == IF pool.kind = "fpl" THEN AllocatedBlock(pool) ELSE [pool EXCEPT !.taken[n] = @ + 1]

----------------------------------------------------------------------------
(* __KernelUnlockFplForThread and __KernelUnlockVplForThread with result 0: *)
(* an entry that no longer counts is removed, and one that does if there   *)
(* is a block for it.                                                      *)
UnlockedPool(w, o, e) ==
    LET n == waitValue[e.thread] IN
    IF ~Remembers(w, o, e.thread) THEN w
    ELSE IF ~HasBlock(w.objects[o], n) THEN [w EXCEPT !.objects[o].waiters = Append(@, e)]
    ELSE [Woken(w, o, e.thread, "ok") EXCEPT !.objects[o] = Allocated(@, n)]

(* Serves the entries of q, or with inOrder only until the first one that  *)
(* must still wait, and leaves the others listed.  The code starts over    *)
(* after each entry it removes; one walk is the same, since there is only  *)
(* less room on the way.                                                   *)
ServedPool(w, o, q, inOrder) ==
    LET serve(v, e) == IF inOrder /\ v.objects[o].waiters # << >>
                       THEN [v EXCEPT !.objects[o].waiters = Append(@, e)]
                       ELSE UnlockedPool(v, o, e)
    IN  Seqs!FoldLeft(serve, [w EXCEPT !.objects[o].waiters = << >>], q)

(* __KernelSortFplThreads and __KernelSortVplThreads                       *)
SortedPool(o) ==
    LET q == CleanedUp(Walk, o, kernelObjects[o].waiters)
    IN  IF kernelObjects[o].byPriority THEN SortedByPriority(q) ELSE q

----------------------------------------------------------------------------
IsPool(o) == IsA(o, "fpl") \/ IsA(o, "vpl")

(* sceKernelCreateFpl and sceKernelCreateVpl, which take their memory from *)
(* the user's, and if there is none change nothing.                        *)
CreateFpl(o, byPriority) == CanCreate(o, "fpl") /\ Changed(o, FPL(byPriority))
CreateVpl(o, attribute) == CanCreate(o, "vpl") /\ Changed(o, VPL(attribute))

(* sceKernelDeleteFpl and sceKernelDeleteVpl                               *)
DeletePool(o) ==
    /\ Calling /\ IsPool(o)
    /\ LET w == WokenAll(Walk, o, kernelObjects[o].waiters, "deleted") IN
       Finished([w EXCEPT !.objects[o] = NoObject], w.woke)

(* sceKernelCancelFpl and sceKernelCancelVpl                               *)
CancelPool(o) ==
    /\ Calling /\ IsPool(o)
    /\ LET w == WokenAll(Walk, o, kernelObjects[o].waiters, "canceled") IN
       Finished([w EXCEPT !.objects[o].waiters = << >>], w.woke)

(* sceKernelReferFplStatus and sceKernelReferVplStatus                     *)
ReferPoolStatus(o) ==
    /\ Calling /\ IsPool(o)
    /\ Changed(o, [kernelObjects[o] EXCEPT !.waiters = SortedPool(o)])

(* sceKernelTryAllocateFpl and sceKernelTryAllocateVpl: "For some reason,  *)
(* try doesn't follow the same rules..."                                   *)
TryAllocate(o, n) ==
    /\ Calling /\ IsPool(o) /\ HasBlock(kernelObjects[o], n)
    /\ Changed(o, Allocated(kernelObjects[o], n))

(* sceKernelFreeFpl and sceKernelFreeVpl, given a block that was taken: b  *)
(* is its number, or its size.                                             *)
FreedPool(o, freed) ==
    LET w == ServedPool([Walk EXCEPT !.objects[o] = freed], o, SortedPool(o), freed.fifo) IN
    Finished(w, w.woke)

FreeFpl(o, b) ==
    /\ Calling /\ IsA(o, "fpl") /\ kernelObjects[o].taken[b]
    /\ FreedPool(o, [kernelObjects[o] EXCEPT !.taken[b] = FALSE])

FreeVpl(o, n) ==
    /\ Calling /\ IsA(o, "vpl") /\ kernelObjects[o].taken[n] > 0
    /\ FreedPool(o, [kernelObjects[o] EXCEPT !.taken[n] = @ - 1])

(* The current thread is listed behind the others of q and waits.          *)
WaitForBlock(o, q, n, timed) ==
    WaitOn([Walk EXCEPT !.objects[o].waiters = Append(Without(q, current), [thread |-> current])],
           o, n, timed)

(* sceKernelAllocateFpl, which takes a free block whoever waits.           *)
AllocateFpl(o, timed) ==
    /\ MayWait /\ IsA(o, "fpl")
    /\ IF HasBlock(kernelObjects[o], 1)
       THEN ~timed /\ Changed(o, Allocated(kernelObjects[o], 1))
       ELSE WaitForBlock(o, kernelObjects[o].waiters, 0, timed)

(* hleDelayResult, after the object o has become pool.                     *)
DelayedResult(o, pool) ==
    /\ waitTimers["hledelay"][current] < MaxTimers
    /\ Walked([Walk EXCEPT
                !.objects[o] = pool,
                !.timers["hledelay"][current] = @ + 1,
                !.sched = WaitingCurThread(sched, WaitingFor("hledelay", NoThread, FALSE))])
    /\ Reschedule
    /\ UNCHANGED <<waitValue, wakeupCount, waitingThreads, timers>>

(* sceKernelAllocateVpl: nobody overtakes with the attribute for FIFO.  If *)
(* anyone else is listed, even an allocation takes its time; a limit of no *)
(* time is over at once.                                                   *)
AllocateVpl(o, n, timed) ==
    /\ MayWait /\ IsA(o, "vpl")
    /\ LET pool == kernelObjects[o]
           q == IF pool.fifo THEN SortedPool(o) ELSE pool.waiters
           blocked == (pool.fifo /\ q # << >>) \/ ~HasBlock(pool, n)
       IN  \/ /\ ~blocked /\ ~timed
              /\ LET done == [Allocated(pool, n) EXCEPT !.waiters = q]
                 IN  IF q = << >> THEN Changed(o, done) ELSE "overtaking" \in guestUses /\ DelayedResult(o, done)
           \/ blocked /\ WaitForBlock(o, q, n, timed)
           \/ blocked /\ timed /\ Changed(o, [pool EXCEPT !.waiters = q])

(* __KernelVplTimeout: the wait of t ends (WaitExecTimeout) and threads    *)
(* are rescheduled; then, in FIFO order, the first entries are served as   *)
(* long as none of them must still wait.                                   *)
VplTimeout(t) ==
    /\ waitTimers["vpl"][t] > 0
    /\ LET elapsed == [Walk EXCEPT !.timers["vpl"][t] = @ - 1]
           remembered == {o \in Objects : IsA(o, "vpl") /\ VerifyWait(sched, t, "vpl", o)}
       IN  \/ remembered = {} /\ Walked(elapsed)
           \/ \E o \in remembered : \E rescheduled \in ReScheduled(Resumed(sched, t)) :
                LET start == [elapsed EXCEPT !.sched = rescheduled, !.outcome[t] = "timeout"]
                IN  Walked(IF kernelObjects[o].fifo
                           THEN ServedPool(start, o, kernelObjects[o].waiters, TRUE) ELSE start)
    /\ waitValue' = Kept(waitValue, sched', 0)
    /\ UNCHANGED <<wakeupCount, waitingThreads, timers, resched>>

(* hleDelayResultFinish                                                    *)
DelayResultFinish(t) ==
    /\ waitTimers["hledelay"][t] > 0
    /\ LET elapsed == [Walk EXCEPT !.timers["hledelay"][t] = @ - 1]
           woken == IF VerifyWait(sched, t, "hledelay", NoThread)
                    THEN ReScheduled(Resumed(sched, t)) ELSE {sched}
       IN  \E s \in woken : Walked([elapsed EXCEPT !.sched = s])
    /\ waitValue' = Kept(waitValue, sched', 0)
    /\ UNCHANGED <<wakeupCount, waitingThreads, timers, resched>>

PoolCall(o) ==
    \/ \E byPriority \in BOOLEAN : CreateFpl(o, byPriority)
    \/ \E attribute \in VplAttributes : CreateVpl(o, attribute)
    \/ DeletePool(o)
    \/ "cancel" \in guestUses /\ CancelPool(o)
    \/ "refer" \in guestUses /\ ReferPoolStatus(o)
    \/ \E n \in IF IsA(o, "fpl") THEN {1} ELSE Sizes : TryAllocate(o, n)
    \/ \E b \in Blocks : FreeFpl(o, b)
    \/ \E n \in Sizes : FreeVpl(o, n)
    \/ \E timed \in Timed : AllocateFpl(o, timed) \/ \E n \in Sizes : AllocateVpl(o, n, timed)

PoolTimeLimit(t) == VplTimeout(t) \/ DelayResultFinish(t) \/ WaitExecTimeout("fpl", t)

----------------------------------------------------------------------------
Pools ==
    [kind: {"fpl"}, byPriority: BOOLEAN, fifo: {FALSE}, taken: [Blocks -> BOOLEAN],
     nextBlock: Blocks, waiters: Seq([thread: Threads])]
    \cup [kind: {"vpl"}, byPriority: BOOLEAN, fifo: BOOLEAN, taken: [Sizes -> Nat],
          waiters: Seq([thread: Threads])]

(* Nobody waits for a block that is there, except behind a thread that     *)
(* came first where that is promised.                                      *)
NoBlockAwaited ==
    \A o \in Objects, t \in Threads :
        IsPool(o) /\ WaitsFor(t, o) /\ ~kernelObjects[o].fifo
            => ~HasBlock(kernelObjects[o], waitValue[t])

=============================================================================
