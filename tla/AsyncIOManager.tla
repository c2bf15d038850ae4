--------------------------- MODULE AsyncIOManager ---------------------------
(***************************************************************************)
(* The host thread that reads and writes files for the emulated kernel:    *)
(* ThreadEventQueue.h, AsyncIOManager.cpp and __IoManagerThread of         *)
(* sceIo.cpp.  The emulator's thread queues an operation, goes on with     *)
(* emulating and asks for the result later; SyncThread waits until all     *)
(* that was queued has been done.                                          *)
(*                                                                         *)
(* What a thread does while it holds eventsLock_ or resultsLock_ is one    *)
(* step.  A waiting worker was notified when there is an event, since it   *)
(* is told of every one.                                                   *)
(***************************************************************************)
EXTENDS Integers, Sequences

CONSTANT Files     \* handles of files

VARIABLES
    coreState,              \* "running" or "powerdown"
    ioManagerThreadEnabled,
    events,                 \* operations on files, Sync and Finish
    eventsRunning, eventsHaveRun,
    drain,                  \* who waits for eventsDrain_: "nobody", "waiting" or "notified"
    resultsPending, results,
    worker,                 \* at: where it is; event: what it is at; stop: it saw Finish
    applied                 \* applied[f]: the number of the last operation done on f

queueVars == <<coreState, ioManagerThreadEnabled, events, eventsRunning, eventsHaveRun, drain>>
managerVars == <<queueVars, resultsPending, results, worker, applied>>

Sync == [type |-> "sync"]
Finish == [type |-> "finish"]

(* The n-th operation on f; its result is told from others by n.           *)
Operation(f, n) == [type |-> "operation", file |-> f, number |-> n]
NoResult == 0

ManagerInit ==
    /\ coreState = "running" /\ ioManagerThreadEnabled = TRUE
    /\ events = << >> /\ eventsRunning = FALSE /\ eventsHaveRun = FALSE
    /\ drain = "nobody"
    /\ resultsPending = {} /\ results = [f \in Files |-> NoResult]
    /\ worker = [at |-> "outside", event |-> Sync, stop |-> FALSE]
    /\ applied = [f \in Files |-> 0]

----------------------------------------------------------------------------
(* The emulator's thread.  HasOperation takes no lock: resultsPending_ is  *)
(* changed by the thread that asks only, and all of results_ is pending.   *)
HasResult(f) == results[f] # NoResult

(* Mutant: an operation that has its result is over.                       *)
HasUnfinishedOperation(f) == f \in resultsPending /\ ~HasResult(f)

HasOperation(f) == f \in resultsPending \/ HasResult(f)

ScheduleOperation(f, n) ==
    /\ resultsPending' = resultsPending \cup {f}
    /\ events' = Append(events, Operation(f, n))

PopResult(f) ==
    /\ results' = [results EXCEPT ![f] = NoResult]
    /\ resultsPending' = IF HasResult(f) THEN resultsPending \ {f} ELSE resultsPending

(* Mutant: without the Sync that was queued behind the operation.          *)
WaitIsOverEarly(f) == HasResult(f) \/ Len(events) < 2 \/ f \notin resultsPending

(* WaitResult waits until there is a result, or none can come.             *)
WaitIsOver(f) == HasResult(f) \/ events = << >> \/ f \notin resultsPending

(* ShouldSyncThread, without force: a worker that is about to start is     *)
(* waited for, one that has left its loop is not.                          *)
ShouldSyncThread(queued) ==
    /\ queued # << >> /\ coreState = "running"
    /\ eventsRunning \/ ~eventsHaveRun

SyncThread ==
    /\ events' = Append(events, Sync)
    /\ drain' = IF ShouldSyncThread(events') THEN "waiting" ELSE "nobody"

(* The thread that waits in SyncThread looks again.                        *)
Drained ==
    /\ drain = "notified"
    /\ drain' = IF ShouldSyncThread(events) THEN "waiting" ELSE "nobody"
    /\ UNCHANGED <<coreState, ioManagerThreadEnabled, events, eventsRunning, eventsHaveRun,
                   resultsPending, results, worker, applied>>

NotifyDrain == drain' = IF drain = "waiting" THEN "notified" ELSE drain

----------------------------------------------------------------------------
(* The worker                                                              *)

(* Mutant: only a Finish ends its loop.                                    *)
ExitsOnFinish == FALSE

ShouldExitEventLoop == coreState = "powerdown"

Goto(place) == worker' = [at |-> place, event |-> Sync, stop |-> FALSE]

(* __IoManagerThread                                                       *)
EnterLoop ==
    /\ worker.at = "outside"
    /\ Goto(IF ioManagerThreadEnabled /\ coreState # "powerdown" THEN "entering" ELSE "ended")
    /\ UNCHANGED <<queueVars, resultsPending, results, applied>>

TakeEvent(stop) ==
    /\ events # << >>
    /\ worker' = [at |-> "processing", event |-> Head(events), stop |-> stop]
    /\ events' = Tail(events)
    /\ UNCHANGED drain

LeaveLoop ==
    /\ NotifyDrain
    /\ Goto("outside")
    /\ eventsRunning' = FALSE
    /\ UNCHANGED events

(* RunEventsUntil, to its first event, or the first after it was woken     *)
StartEvents ==
    /\ worker.at \in IF events = << >> THEN {"entering"} ELSE {"entering", "waiting"}
    /\ eventsHaveRun' = TRUE
    /\ \/ TakeEvent(FALSE) /\ eventsRunning' = TRUE
       \/ /\ events = << >> /\ ~ShouldExitEventLoop
          /\ Goto("waiting") /\ eventsRunning' = TRUE
          /\ UNCHANGED <<events, drain>>
       \/ events = << >> /\ ShouldExitEventLoop /\ LeaveLoop
    /\ UNCHANGED <<coreState, ioManagerThreadEnabled, resultsPending, results, applied>>

(* Read and Write; the lock is not held.                                   *)
ProcessEvent ==
    /\ worker.at = "processing" /\ worker.event.type = "operation"
    /\ applied' = [applied EXCEPT ![worker.event.file] = worker.event.number]
    /\ worker' = [worker EXCEPT !.at = "answering"]
    /\ UNCHANGED <<queueVars, resultsPending, results>>

EventResult ==
    /\ worker.at = "answering"
    /\ results' = [results EXCEPT ![worker.event.file] = worker.event.number]
    /\ worker' = [worker EXCEPT !.at = "processed"]
    /\ UNCHANGED <<queueVars, resultsPending, applied>>

(* Mutant: the drain is not announced by a worker that waits for more.     *)
NextEventSilently ==
    /\ \/ worker.at = "processed"
       \/ worker.at = "processing" /\ worker.event.type # "operation"
    /\ LET stop == worker.stop \/ worker.event.type = "finish" IN
       \/ TakeEvent(stop) /\ UNCHANGED eventsRunning
       \/ /\ events = << >> /\ ~stop /\ ~ShouldExitEventLoop
          /\ Goto("waiting")
          /\ UNCHANGED <<events, eventsRunning, drain>>
       \/ events = << >> /\ LeaveLoop
    /\ UNCHANGED <<coreState, ioManagerThreadEnabled, eventsHaveRun, resultsPending, results, applied>>

(* To the next event; when there is none, to wait for one, or out of the   *)
(* loop: after a Finish in any case, and when the time of RunEventsUntil   *)
(* is up.  __IoManagerThread comes back for another round of 1000 ms.      *)
NextEvent ==
    /\ \/ worker.at = "processed"
       \/ worker.at = "processing" /\ worker.event.type # "operation"
    /\ LET stop == worker.stop \/ worker.event.type = "finish" IN
       \/ TakeEvent(stop) /\ UNCHANGED eventsRunning
       \/ /\ events = << >> /\ ~stop /\ ~ShouldExitEventLoop
          /\ NotifyDrain /\ Goto("waiting")
          /\ UNCHANGED <<events, eventsRunning>>
       \/ events = << >> /\ LeaveLoop
    /\ UNCHANGED <<coreState, ioManagerThreadEnabled, eventsHaveRun, resultsPending, results, applied>>

WorkerStep == EnterLoop \/ StartEvents \/ ProcessEvent \/ EventResult \/ NextEvent

----------------------------------------------------------------------------
(* The user interface's thread: Core_Stop, and then its listener           *)
PowerDown ==
    /\ coreState = "running"
    /\ coreState' = "powerdown"
    /\ UNCHANGED <<ioManagerThreadEnabled, events, eventsRunning, eventsHaveRun, drain,
                   resultsPending, results, worker, applied>>

(* FinishEventLoop                                                         *)
Finished(queued) == IF eventsRunning THEN Append(queued, Finish) ELSE queued

(* __IoWakeManager                                                         *)
WakeManager ==
    /\ coreState = "powerdown" /\ ioManagerThreadEnabled
    /\ ioManagerThreadEnabled' = FALSE
    /\ events' = Finished(events)
    /\ UNCHANGED <<coreState, eventsRunning, eventsHaveRun, drain, resultsPending, results, worker, applied>>

=============================================================================
