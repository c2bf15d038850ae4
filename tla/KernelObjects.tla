---------------------------- MODULE KernelObjects ----------------------------
(***************************************************************************)
(* The objects of the emulated kernel that threads wait for, together:     *)
(* semaphores, event flags, mutexes, lightweight mutexes, mailboxes,       *)
(* message pipes and memory pools, in one pool of ids, with the threads    *)
(* that use them, the scheduler, and the time limits of their waits.       *)
(***************************************************************************)
EXTENDS KernelSema, KernelEventFlag, KernelMutex, KernelMbx, KernelMsgPipe, KernelPools

objectVars == <<vars, waitVars, mutexHeldLocks, guestUses>>

ObjectsInit == WaitInit /\ mutexHeldLocks = << >>

(* An id that is given to a call is free, or that of such an object.       *)
Names(o, kinds) == kernelObjects[o].kind \in kinds \cup {"none"}

Call(o) ==
    \/ Names(o, MutexKinds) /\ MutexCall(o) /\ UNCHANGED guestUses
    \/ /\ \/ Names(o, {"sema"}) /\ SemaCall(o)
          \/ Names(o, {"eventflag"}) /\ FlagCall(o)
          \/ Names(o, {"mbx"}) /\ MbxCall(o)
          \/ Names(o, {"msgpipe"}) /\ PipeCall(o)
          \/ Names(o, {"fpl", "vpl"}) /\ PoolCall(o)
       /\ UNCHANGED <<mutexHeldLocks, guestUses>>

TimeLimit(t) ==
    /\ \/ SemaTimeout(t) \/ EventFlagTimeout(t) \/ PoolTimeLimit(t)
       \/ \E kind \in MutexKinds \cup {"mbx", "msgpipe"} : WaitExecTimeout(kind, t)
    /\ UNCHANGED <<mutexHeldLocks, guestUses>>

OfThreads ==
    \/ (ExitWithLocks \/ \E t \in Threads : TerminateWithLocks(t)) /\ UNCHANGED guestUses
    \/ (ThreadStep \/ \E t \in Threads : ReleaseWaiter(t)) /\ UNCHANGED <<mutexHeldLocks, guestUses>>

ObjectsNext ==
    \/ \E o \in Objects : Call(o)
    \/ \E t \in Threads : TimeLimit(t)
    \/ OfThreads

ObjectsSpec == ObjectsInit /\ [][ObjectsNext]_objectVars

----------------------------------------------------------------------------
(* The state keeps its types; in particular no count, level or number of   *)
(* packets gets negative, and every object in the pool is whole.           *)
ObjectsTypeOK ==
    /\ TypeOK
    /\ \A o \in Objects : \/ kernelObjects[o] = NoObject
                          \/ kernelObjects[o] \in Semaphores \/ kernelObjects[o] \in EventFlags
                          \/ kernelObjects[o] \in Mutexes \/ kernelObjects[o] \in Mailboxes
                          \/ kernelObjects[o] \in MsgPipes \/ kernelObjects[o] \in Pools
    /\ waitValue \in [Threads -> Nat]
    /\ waitTimers \in [TimerKinds -> [Threads -> Nat]]
    /\ outcome \in [Threads -> Results]
    /\ mutexHeldLocks \in Seq([thread: Threads, mutex: Objects])

(* Nobody waits for what is there: bits that are set, a mutex that is      *)
(* free, a packet, bytes and room in a pipe, or a block of memory,         *)
(* whatever order threads waited, ran into their time limits, were         *)
(* released, ended and were served in, and however much of a message went  *)
(* at a time.  Left out are semaphores and pools in FIFO order, where a    *)
(* thread waits behind others, and for pipes the limits and releases       *)
(* ("stale pipe entries").                                                 *)
NothingServableWaits ==
    NoFlagMissed /\ NoFreeMutexAwaited /\ NoPacketAwaited /\ PipeFlows /\ NoBlockAwaited

(* Of the threads that wait for an object with the priority attribute, the *)
(* best one is served first: a better one is only left behind by a         *)
(* semaphore or a pool that has too little for it.                         *)
BestIsServed ==
    [][\A o \in Objects :
        kernelObjects[o].kind \in {"sema", "mutex", "lwmutex", "mbx", "fpl", "vpl"} /\ kernelObjects[o].byPriority =>
        \A t \in Granted(o)' \ Granted(o) : \A u \in Threads : WaitsFor(u, o) /\ WaitsFor(u, o)'
            => \/ sched.prio[t] <= sched.prio[u]
               \/ (IsA(o, "sema") \/ IsA(o, "vpl")) /\ waitValue[t] < waitValue[u]]_<<vars, waitVars>>

=============================================================================
