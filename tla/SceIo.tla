-------------------------------- MODULE SceIo --------------------------------
(***************************************************************************)
(* Files of the emulated kernel (sceIo.cpp): calls that read, write, seek, *)
(* open and close a file, at once or asynchronously, and the timer events  *)
(* that notify of the end of an operation.  Operations are handed to the   *)
(* worker of AsyncIOManager; a call for a file with an operation under way *)
(* waits for the worker and then does its own on the emulator's thread.    *)
(*                                                                         *)
(* The emulator's thread is in guest code, where a thread that does not    *)
(* wait can call and events can fire, or it waits for the worker inside of *)
(* a handler: cpu says where, for whom, and what is left to do.            *)
(***************************************************************************)
EXTENDS AsyncIOManager

LOCAL Seqs == INSTANCE SequencesExt

CONSTANTS
    Threads,       \* threads of the guest
    NoThread,
    Timings,       \* g_Config.iIOTimingMethod: some of "fast" and "host"
    Careless,      \* what a careful guest and user do not do
    MaxOps,        \* bound: operations on a file that is open
    MaxEvents      \* bound: events queued when a call begins

ASSUME SceIoAssumption ==
    /\ NoThread \notin Threads
    /\ Timings \subseteq {"fast", "host"}
    /\ Careless \subseteq {"mix", "close", "close async", "wait", "release"}
    /\ MaxOps \in Nat /\ MaxEvents \in Nat

VARIABLES
    timing,
    file,          \* file[f]: the FileNode
    issued,        \* issued[f]: the number of the last operation on f a call asked for
    thread,        \* thread[t]: what t waits for, what should come of it, and what did
    asyncNotify,   \* the files with an asyncNotifyEvent pending
    syncNotify,    \* syncNotify[f]: the threads with a syncNotifyEvent for f pending
    cpu,
    lost           \* not of the code: a state was saved without what was queued

kernelVars == <<timing, file, issued, thread, asyncNotify, syncNotify, lost>>
vars == <<managerVars, kernelVars, cpu>>

Failure == 0    \* the result of what came to nothing, or has none

(* asyncOp is not of the code: the operation asyncResult should be of.     *)
Closed ==
    [open |-> FALSE, asyncResult |-> Failure, asyncOp |-> Failure, hasAsyncResult |-> FALSE,
     pendingAsyncResult |-> FALSE, closePending |-> FALSE, waitingThreads |-> << >>]

Opened == [Closed EXCEPT !.open = TRUE]

Awake(op, result) == [waits |-> "none", file |-> "none", op |-> op, result |-> result]
WaitsIn(type, f, op) == [waits |-> type, file |-> f, op |-> op, result |-> Failure]
WaitsFor(t, type, f) == thread[t].waits = type /\ thread[t].file = f

InGuest == [at |-> "guest", file |-> "none", thread |-> NoThread]
In(handler, f, t) == [at |-> handler, file |-> f, thread |-> t]

Init ==
    /\ ManagerInit
    /\ timing \in Timings
    /\ file = [f \in Files |-> Closed]
    /\ issued = [f \in Files |-> 0]
    /\ thread = [t \in Threads |-> Awake(Failure, Failure)]
    /\ asyncNotify = {} /\ syncNotify = [f \in Files |-> {}]
    /\ cpu = InGuest
    /\ lost = FALSE

----------------------------------------------------------------------------
asyncBusy(f) == file[f].pendingAsyncResult \/ file[f].hasAsyncResult
waitingSyncThreads(f) == {t \in Threads : WaitsFor(t, "io", f)}

InGuestCode == cpu.at = "guest" /\ ~lost /\ Len(events) < MaxEvents
Calls(t, f) == InGuestCode /\ thread[t].waits = "none" /\ file[f].open

(* A careful guest leaves a file alone while another thread waits in       *)
(* sceIoRead for it, waits for an asynchronous call in one thread, and     *)
(* does not call sceIoCloseAsync before the call under way has ended.      *)
MayMix(f) == "mix" \in Careless \/ syncNotify[f] = {}
MayClose(f) == "close" \in Careless \/ waitingSyncThreads(f) = {}
MayCloseAsync(f) == "close async" \in Careless \/ ~file[f].pendingAsyncResult
MayWait(f) == "wait" \in Careless \/ \A t \in Threads : ~WaitsFor(t, "async", f)

SchedAsync(node, op) ==
    [node EXCEPT !.pendingAsyncResult = TRUE, !.hasAsyncResult = FALSE, !.asyncOp = op]

(* An operation of the emulator's thread itself, without the worker.       *)
DoneHere(f) ==
    /\ issued' = [issued EXCEPT ![f] = @ + 1]
    /\ applied' = [applied EXCEPT ![f] = issued'[f]]

(* __IoOpen and __IoAllocFd: a file gets a new handle.                     *)
OpenedAs(f, node) ==
    /\ InGuestCode /\ ~file[f].open
    /\ file' = [file EXCEPT ![f] = node]
    /\ issued' = [issued EXCEPT ![f] = 0]
    /\ applied' = [applied EXCEPT ![f] = 0]

Open(f) ==
    /\ OpenedAs(f, Opened)
    /\ UNCHANGED <<queueVars, resultsPending, results, worker, timing, lost, thread, asyncNotify, syncNotify, cpu>>

(* A file that is not found is opened to be closed.                        *)
OpenAsync(f, found) ==
    /\ OpenedAs(f, [SchedAsync(Opened, Failure) EXCEPT !.closePending = ~found])
    /\ asyncNotify' = asyncNotify \cup {f}
    /\ UNCHANGED <<queueVars, resultsPending, results, worker, timing, lost, thread, syncNotify, cpu>>

----------------------------------------------------------------------------
(* __IoRead and __IoWrite: an operation goes to the worker, unless there   *)
(* is one already; without a worker, nothing is waited for.                *)
Defer(f) ==
    /\ issued[f] < MaxOps /\ ioManagerThreadEnabled /\ ~HasOperation(f)
    /\ issued' = [issued EXCEPT ![f] = @ + 1]
    /\ ScheduleOperation(f, issued'[f])
    /\ UNCHANGED <<coreState, ioManagerThreadEnabled, eventsRunning, eventsHaveRun, drain,
                   results, worker, applied, timing, lost, cpu>>

SyncFirst(f, handler, t) ==
    /\ issued[f] < MaxOps /\ HasOperation(f)
    /\ IF ioManagerThreadEnabled THEN SyncThread ELSE UNCHANGED <<events, drain>>
    /\ cpu' = In(handler, f, t)
    /\ UNCHANGED <<coreState, ioManagerThreadEnabled, eventsRunning, eventsHaveRun,
                   resultsPending, results, worker, applied, kernelVars>>

Read(t, f) ==
    /\ Calls(t, f) /\ ~asyncBusy(f)
    /\ \/ /\ Defer(f)
          /\ thread' = [thread EXCEPT ![t] = WaitsIn("io", f, issued'[f])]
          /\ syncNotify' = [syncNotify EXCEPT ![f] = @ \cup {t}]
          /\ UNCHANGED <<file, asyncNotify>>
       \/ SyncFirst(f, "read", t)

ReadAsync(t, f) ==
    /\ Calls(t, f) /\ ~asyncBusy(f) /\ MayMix(f)
    /\ \/ /\ Defer(f)
          /\ file' = [file EXCEPT ![f] = SchedAsync(@, issued'[f])]
          /\ asyncNotify' = asyncNotify \cup {f}
          /\ UNCHANGED <<thread, syncNotify>>
       \/ SyncFirst(f, "read async", t)

(* __IoLseek: the position is that of the operations before.               *)
Lseek(t, f) ==
    /\ Calls(t, f) /\ ~asyncBusy(f) /\ issued[f] < MaxOps
    /\ \/ /\ ~HasOperation(f) /\ DoneHere(f)
          /\ UNCHANGED <<queueVars, resultsPending, results, worker,
                         timing, lost, file, thread, asyncNotify, syncNotify, cpu>>
       \/ SyncFirst(f, "read", t)

LseekAsync(t, f) ==
    /\ Calls(t, f) /\ ~asyncBusy(f) /\ issued[f] < MaxOps /\ MayMix(f)
    /\ \/ /\ ~HasOperation(f) /\ DoneHere(f)
          /\ file' = [file EXCEPT ![f] = [SchedAsync(@, issued'[f]) EXCEPT !.asyncResult = issued'[f]]]
          /\ asyncNotify' = asyncNotify \cup {f}
          /\ UNCHANGED <<queueVars, resultsPending, results, worker, timing, lost, thread, syncNotify, cpu>>
       \/ SyncFirst(f, "read async", t)

(* The worker is done: the emulator's thread reads.                        *)
ReadHere ==
    /\ cpu.at \in {"read", "read async"} /\ drain = "nobody"
    /\ DoneHere(cpu.file)
    /\ LET n == issued'[cpu.file] IN
       IF cpu.at = "read"
       THEN /\ thread' = [thread EXCEPT ![cpu.thread] = Awake(n, n)]
            /\ UNCHANGED <<file, asyncNotify>>
       ELSE /\ file' = [file EXCEPT ![cpu.file] = [SchedAsync(@, n) EXCEPT !.asyncResult = n]]
            /\ asyncNotify' = asyncNotify \cup {cpu.file}
            /\ UNCHANGED thread
    /\ cpu' = InGuest
    /\ UNCHANGED <<queueVars, resultsPending, results, worker, timing, lost, syncNotify>>

(* sceIoCloseAsync                                                         *)
CloseAsync(t, f) ==
    /\ Calls(t, f) /\ MayMix(f) /\ MayCloseAsync(f)
    /\ file' = [file EXCEPT ![f] =
                    [SchedAsync(@, Failure) EXCEPT !.closePending = TRUE, !.asyncResult = Failure]]
    /\ asyncNotify' = asyncNotify \cup {f}
    /\ UNCHANGED <<managerVars, timing, lost, issued, thread, syncNotify, cpu>>

----------------------------------------------------------------------------
(* WaitResult: its Sync goes behind the operation.                         *)
WaitResult(handler, f, t) ==
    /\ events' = Append(events, Sync)
    /\ cpu' = In(handler, f, t)
    /\ UNCHANGED <<coreState, ioManagerThreadEnabled, eventsRunning, eventsHaveRun, drain,
                   resultsPending, results, worker, applied>>

(* __IoFreeFd, up to where it waits for the result it throws away          *)
FreeFd(f, threads) ==
    /\ thread' = [t \in Threads |->
                    IF t \in Seqs!ToSet(file[f].waitingThreads) /\ threads[t].waits = "async" /\ threads[t].file = f
                    THEN Awake(Failure, Failure) ELSE threads[t]]
    /\ asyncNotify' = asyncNotify \ {f}
    /\ syncNotify' = [syncNotify EXCEPT ![f] = {}]
    /\ WaitResult("free", f, NoThread)

Close(t, f) ==
    /\ Calls(t, f) /\ MayClose(f)
    /\ FreeFd(f, thread)
    /\ UNCHANGED <<timing, lost, file, issued>>

(* kernelObjects.Destroy                                                   *)
Freed ==
    /\ cpu.at = "free" /\ WaitIsOver(cpu.file)
    /\ PopResult(cpu.file)
    /\ file' = [file EXCEPT ![cpu.file] = Closed]
    /\ cpu' = InGuest
    /\ UNCHANGED <<queueVars, worker, applied, timing, lost, issued, thread, asyncNotify, syncNotify>>

(* sceIoPollAsync and, for a finished operation, sceIoWaitAsync and        *)
(* sceIoGetAsyncStat                                                       *)
TakeAsyncResult(t, f) ==
    /\ Calls(t, f) /\ ~file[f].pendingAsyncResult /\ file[f].hasAsyncResult
    /\ file' = [file EXCEPT ![f].hasAsyncResult = FALSE]
    /\ LET taken == [thread EXCEPT ![t] = Awake(file[f].asyncOp, file[f].asyncResult)] IN
       IF file[f].closePending THEN FreeFd(f, taken)
       ELSE thread' = taken /\ UNCHANGED <<managerVars, asyncNotify, syncNotify, cpu>>
    /\ UNCHANGED <<timing, lost, issued>>

WaitAsync(t, f) ==
    /\ Calls(t, f) /\ file[f].pendingAsyncResult /\ MayWait(f)
    /\ file' = [file EXCEPT ![f].waitingThreads = Append(@, t)]
    /\ thread' = [thread EXCEPT ![t] = WaitsIn("async", f, file[f].asyncOp)]
    /\ UNCHANGED <<managerVars, timing, lost, issued, asyncNotify, syncNotify, cpu>>

(* sceKernelReleaseWaitThread                                              *)
ReleaseWaitThread(t) ==
    /\ cpu.at = "guest"
    /\ thread[t].waits \in {"io"} \cup {use \in {"async"} : "release" \in Careless}
    /\ thread' = [thread EXCEPT ![t] = Awake(Failure, Failure)]
    /\ UNCHANGED <<managerVars, timing, lost, file, issued, asyncNotify, syncNotify, cpu>>

----------------------------------------------------------------------------
(* __IoSyncNotify: when operations take as long as on the host, the event  *)
(* is put off until there is a result.                                     *)
SyncNotify(t, f) ==
    /\ cpu.at = "guest" /\ t \in syncNotify[f]
    /\ timing = "host" => HasResult(f)
    /\ syncNotify' = [syncNotify EXCEPT ![f] = @ \ {t}]
    /\ file' = [file EXCEPT ![f].pendingAsyncResult = FALSE, ![f].hasAsyncResult = FALSE]
    /\ WaitResult("sync notify", f, t)
    /\ UNCHANGED <<timing, lost, issued, thread, asyncNotify>>

SyncNotified ==
    /\ cpu.at = "sync notify" /\ WaitIsOver(cpu.file)
    /\ PopResult(cpu.file)
    /\ file' = [file EXCEPT ![cpu.file].pendingAsyncResult = FALSE, ![cpu.file].hasAsyncResult = FALSE]
    /\ thread' = [thread EXCEPT ![cpu.thread] =
                    IF WaitsFor(cpu.thread, "io", cpu.file) THEN Awake(@.op, results[cpu.file]) ELSE @]
    /\ cpu' = InGuest
    /\ UNCHANGED <<queueVars, worker, applied, timing, lost, issued, asyncNotify, syncNotify>>

(* __IoAsyncNotify                                                         *)
AsyncNotify(f) ==
    /\ cpu.at = "guest" /\ f \in asyncNotify
    /\ timing = "host" => HasResult(f) \/ ~HasOperation(f)
    /\ asyncNotify' = asyncNotify \ {f}
    /\ WaitResult("async notify", f, NoThread)
    /\ UNCHANGED <<timing, lost, file, issued, thread, syncNotify>>

(* __IoCompleteAsyncIO, and the thread in front of the list is woken, if   *)
(* it still waits.                                                         *)
AsyncNotified ==
    LET f == cpu.file
        node == file[f]
        result == IF HasResult(f) THEN results[f] ELSE node.asyncResult
        behind == IF node.waitingThreads = << >> THEN << >> ELSE Tail(node.waitingThreads)
        woken == {t \in Threads : node.waitingThreads # << >> /\ t = Head(node.waitingThreads)
                                    /\ WaitsFor(t, "async", f)}
    IN  /\ cpu.at = "async notify" /\ WaitIsOver(f)
        /\ PopResult(f)
        /\ file' = [file EXCEPT ![f] =
                        [node EXCEPT !.asyncResult = result,
                                     !.pendingAsyncResult = FALSE, !.hasAsyncResult = woken = {},
                                     !.waitingThreads = behind]]
        /\ thread' = [t \in Threads |->
                        IF t \in woken THEN Awake(thread[t].op, result) ELSE thread[t]]
        /\ cpu' = IF woken # {} /\ node.closePending THEN In("close", f, NoThread) ELSE InGuest
        /\ UNCHANGED <<queueVars, worker, applied, timing, lost, issued, asyncNotify, syncNotify>>

(* A sceIoCloseAsync that a thread waited for closes the file.             *)
CloseNotified ==
    /\ cpu.at = "close"
    /\ FreeFd(cpu.file, thread)
    /\ UNCHANGED <<timing, lost, file, issued>>

----------------------------------------------------------------------------
(* The operations that are still to be done                                *)
AtWorker == IF worker.at \in {"processing", "answering"} THEN {worker.event} ELSE {}
Undone(f) == \E e \in Seqs!ToSet(events) \cup AtWorker : e.type = "operation" /\ e.file = f

(* AsyncIOManager::DoState: a state is saved after the worker was waited   *)
(* for, and loaded by another program: neither the queue is part of it nor *)
(* what the worker is at.  While the debugger steps through the guest, the *)
(* worker is not waited for.                                               *)
SaveState ==
    /\ InGuestCode /\ coreState = "running"
    /\ \/ SyncThread
       \/ events' = Append(events, Sync) /\ UNCHANGED drain
    /\ cpu' = In("save", "none", NoThread)
    /\ UNCHANGED <<coreState, ioManagerThreadEnabled, eventsRunning, eventsHaveRun,
                   resultsPending, results, worker, applied, kernelVars>>

SavedAndLoaded ==
    /\ cpu.at = "save" /\ drain = "nobody"
    /\ \/ coreState # "running" /\ UNCHANGED <<events, worker, lost>>
       \/ /\ coreState = "running"
          /\ events' = << >>
          /\ worker' = IF AtWorker = {} THEN worker ELSE [worker EXCEPT !.at = "processed", !.event = Sync]
          /\ lost' = (lost \/ \E f \in Files : Undone(f))
    /\ cpu' = InGuest
    /\ UNCHANGED <<coreState, ioManagerThreadEnabled, eventsRunning, eventsHaveRun, drain,
                   resultsPending, results, applied, timing, file, issued, thread, asyncNotify, syncNotify>>

(* __IoShutdown, when the emulation has stopped                            *)
Shutdown ==
    /\ cpu.at = "guest" /\ coreState = "powerdown" /\ ~ioManagerThreadEnabled
    /\ SyncThread
    /\ cpu' = In("shutdown", "none", NoThread)
    /\ UNCHANGED <<coreState, ioManagerThreadEnabled, eventsRunning, eventsHaveRun,
                   resultsPending, results, worker, applied, kernelVars>>

ShutDown ==
    /\ cpu.at = "shutdown" /\ drain = "nobody"
    /\ events' = Finished(events)
    /\ resultsPending' = {}
    /\ results' = [f \in Files |-> NoResult]
    /\ cpu' = In("ended", "none", NoThread)
    /\ UNCHANGED <<coreState, ioManagerThreadEnabled, eventsRunning, eventsHaveRun, drain,
                   worker, applied, kernelVars>>

----------------------------------------------------------------------------
Call(t, f) ==
    \/ Read(t, f) \/ ReadAsync(t, f) \/ Lseek(t, f) \/ LseekAsync(t, f)
    \/ Close(t, f) \/ CloseAsync(t, f) \/ TakeAsyncResult(t, f) \/ WaitAsync(t, f)

ManagerStep == (Drained \/ WorkerStep \/ PowerDown \/ WakeManager) /\ UNCHANGED <<kernelVars, cpu>>

(* What the emulator's thread does once it no longer has to wait           *)
Continue ==
    \/ ReadHere \/ Freed \/ SyncNotified \/ AsyncNotified \/ CloseNotified
    \/ SavedAndLoaded \/ ShutDown

Notify == \E f \in Files : AsyncNotify(f) \/ \E t \in Threads : SyncNotify(t, f)

Next ==
    \/ \E t \in Threads, f \in Files : Call(t, f)
    \/ \E f \in Files : Open(f) \/ \E found \in BOOLEAN : OpenAsync(f, found)
    \/ \E t \in Threads : ReleaseWaitThread(t)
    \/ Notify \/ Continue
    \/ SaveState \/ Shutdown
    \/ ManagerStep

Fairness ==
    /\ WF_vars(WorkerStep /\ UNCHANGED <<kernelVars, cpu>>)
    /\ WF_vars(WakeManager /\ UNCHANGED <<kernelVars, cpu>>)
    /\ WF_vars(Drained /\ UNCHANGED <<kernelVars, cpu>>) /\ WF_vars(Continue) /\ SF_vars(Shutdown)
    /\ \A f \in Files : SF_vars(AsyncNotify(f)) /\ \A t \in Threads : SF_vars(SyncNotify(t, f))

Spec == Init /\ [][Next]_vars /\ Fairness

----------------------------------------------------------------------------
(* Every call gets the result of its own operation: none is lost, answered *)
(* twice, or mistaken for that of another call for the same file.          *)
OwnResult ==
  ~lost =>
    /\ \A t \in Threads : thread[t].waits = "none" => thread[t].result = thread[t].op
    /\ \A f \in Files : file[f].hasAsyncResult => file[f].asyncResult = file[f].asyncOp

(* The worker never has anything to do for a file that was closed.         *)
ClosedFilesAreDone == ~lost => \A f \in Files : Undone(f) \/ HasOperation(f) => file[f].open

(* "wait for it to finish and don't overwrite it": the operations on a     *)
(* file are done one at a time, in the order of the calls.                 *)
OperationsInOrder ==
    [][coreState = "running" /\ ~lost =>
        \A f \in Files : applied'[f] \in {applied[f], applied[f] + 1, 0}]_vars

(* A thread that waits for an operation is woken.                          *)
WaitsEnd ==
    \A t \in Threads :
        thread[t].waits # "none" ~> thread[t].waits = "none" \/ coreState = "powerdown" \/ lost

(* "Ping the thread so that it knows to check coreState": whenever the     *)
(* emulation is stopped, the worker ends.                                  *)
WorkerEnds == coreState = "powerdown" ~> worker.at = "ended"

=============================================================================
