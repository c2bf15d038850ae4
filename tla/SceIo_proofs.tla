---------------------------- MODULE SceIo_proofs ----------------------------
(***************************************************************************)
(* Proof that the worker has nothing to do for a file that was closed, and *)
(* that every call gets the result of its own operation: whatever the      *)
(* threads, the files and the bounds, as long as no state was saved        *)
(* without what was queued.                                                *)
(***************************************************************************)
EXTENDS SceIo, TLAPS

LOCAL Seqs == INSTANCE SequencesExt

(* What the values are.                                                    *)
Operations == [type : {"operation"}, file : Files, number : Nat \ {0}]
Events == {Sync, Finish} \cup Operations
Places == {"outside", "entering", "waiting", "processing", "answering", "processed", "ended"}

ManagerTypes ==
    /\ coreState \in {"running", "powerdown"}
    /\ ioManagerThreadEnabled \in BOOLEAN /\ eventsRunning \in BOOLEAN /\ eventsHaveRun \in BOOLEAN
    /\ events \in Seq(Events)
    /\ drain \in {"nobody", "waiting", "notified"}
    /\ resultsPending \subseteq Files /\ results \in [Files -> Nat]
    /\ worker \in [at : Places, event : Events, stop : BOOLEAN]
    /\ worker.at = "answering" => worker.event.type = "operation"
    /\ applied \in [Files -> Nat] /\ issued \in [Files -> Nat]

Waiting == {"free", "sync notify", "async notify"}
Draining == {"read", "read async", "save", "shutdown"}
HandlerTypes ==
    /\ cpu.at \in {"guest", "close", "ended"} \cup Waiting \cup Draining
    /\ cpu.at \in Waiting \cup {"read", "read async", "close"} => cpu.file \in Files
    /\ cpu.at \in {"shutdown", "ended"} => coreState = "powerdown"

FileRecords ==
    [open : BOOLEAN, asyncResult : Nat, asyncOp : Nat, hasAsyncResult : BOOLEAN,
     pendingAsyncResult : BOOLEAN, closePending : BOOLEAN, waitingThreads : Seq(Threads)]
ThreadRecords ==
    [waits : {"none", "io", "async"}, file : Files \cup {"none"}, op : Nat, result : Nat]

CallTypes ==
    /\ file \in [Files -> FileRecords] /\ thread \in [Threads -> ThreadRecords]
    /\ asyncNotify \subseteq Files /\ syncNotify \in [Files -> SUBSET Threads]
    /\ cpu.at \in {"read", "sync notify"} => cpu.thread \in Threads

(* What there is to do on a file: in the queue, or at the worker           *)
IsOperation(e, f) == e.type = "operation" /\ e.file = f
InQueue(f) == \E i \in DOMAIN events : IsOperation(events[i], f)
Doing(f) == worker.at \in {"processing", "answering"} /\ IsOperation(worker.event, f)

OnePerFile ==
    /\ \A f \in Files, i, j \in DOMAIN events :
          IsOperation(events[i], f) /\ IsOperation(events[j], f) => i = j
    /\ \A f \in Files : Doing(f) => ~InQueue(f)

(* It is what is pending and has no result.                                *)
PendingInStep ==
    cpu.at # "ended" =>
        \A f \in Files :
            /\ (InQueue(f) \/ Doing(f)) <=> (f \in resultsPending /\ ~HasResult(f))
            /\ HasResult(f) => f \in resultsPending

(* The Sync of WaitResult is behind the operations.                        *)
WaitsBehind ==
    cpu.at \in Waiting =>
        /\ events = << >> \/ events[Len(events)].type # "operation"
        /\ worker.at \in {"processing", "answering"} /\ worker.event.type = "operation" => events # << >>

FileOpen == \A f \in Files : InQueue(f) \/ Doing(f) \/ HasOperation(f) => file[f].open

QueueInv ==
    /\ ManagerTypes /\ HandlerTypes /\ OnePerFile /\ PendingInStep /\ WaitsBehind /\ FileOpen

----------------------------------------------------------------------------
(* What is in the queue when an event has been queued or taken             *)
LEMMA QueueAppended ==
    ASSUME NEW q \in Seq(Events), NEW e
    PROVE  /\ DOMAIN q = 1 .. Len(q) /\ DOMAIN Append(q, e) = 1 .. Len(q) + 1 /\ Len(q) \in Nat
           /\ \A i \in DOMAIN q : Append(q, e)[i] = q[i]
           /\ Append(q, e)[Len(q) + 1] = e
           /\ Append(q, e) # << >> /\ Len(Append(q, e)) = Len(q) + 1
OBVIOUS

LEMMA QueueTaken ==
    ASSUME NEW q \in Seq(Events), q # << >>
    PROVE  /\ DOMAIN q = 1 .. Len(q) /\ DOMAIN Tail(q) = 1 .. Len(q) - 1 /\ Len(q) \in Nat \ {0}
           /\ \A i \in DOMAIN Tail(q) : i + 1 \in DOMAIN q /\ Tail(q)[i] = q[i + 1]
           /\ 1 \in DOMAIN q /\ Head(q) = q[1]
           /\ Len(Tail(q)) = Len(q) - 1 /\ Tail(q) \in Seq(Events)
           /\ Tail(q) # << >> <=> Len(q) > 1
           /\ \A i \in DOMAIN q : q[i] \in Events
OBVIOUS

LEMMA AppendInQueue ==
    ASSUME ManagerTypes, NEW e, events' = Append(events, e), NEW f \in Files
    PROVE  InQueue(f)' <=> InQueue(f) \/ IsOperation(e, f)
<1>1. events \in Seq(Events)
  BY DEF ManagerTypes
<1>2. ASSUME InQueue(f) PROVE InQueue(f)'
  BY <1>1, <1>2, QueueAppended DEF InQueue
<1>3. ASSUME IsOperation(e, f) PROVE InQueue(f)'
  BY <1>1, <1>3, QueueAppended DEF InQueue
<1>4. ASSUME InQueue(f)', ~IsOperation(e, f) PROVE InQueue(f)
  <2>1. PICK i \in DOMAIN events' : IsOperation(events'[i], f)
    BY <1>4 DEF InQueue
  <2>2. i \in DOMAIN events
    BY <1>1, <2>1, <1>4, QueueAppended
  <2> QED
    BY <1>1, <2>1, <2>2, QueueAppended DEF InQueue
<1> QED
  BY <1>2, <1>3, <1>4

LEMMA TakenInQueue ==
    ASSUME ManagerTypes, events # << >>, events' = Tail(events), NEW f \in Files
    PROVE  InQueue(f) <=> InQueue(f)' \/ IsOperation(Head(events), f)
<1>1. events \in Seq(Events)
  BY DEF ManagerTypes
<1>2. ASSUME InQueue(f)' PROVE InQueue(f)
  BY <1>1, <1>2, QueueTaken DEF InQueue
<1>3. ASSUME IsOperation(Head(events), f) PROVE InQueue(f)
  BY <1>1, <1>3, QueueTaken DEF InQueue
<1>4. ASSUME InQueue(f), ~IsOperation(Head(events), f) PROVE InQueue(f)'
  <2>1. PICK i \in DOMAIN events : IsOperation(events[i], f)
    BY <1>4 DEF InQueue
  <2>2. i \in 1 .. Len(events) /\ i # 1
    BY <1>1, <2>1, <1>4, QueueTaken
  <2>3. i - 1 \in DOMAIN Tail(events) /\ Tail(events)[i - 1] = events[i]
    BY <1>1, <2>2, QueueTaken
  <2> QED
    BY <2>1, <2>3 DEF InQueue
<1> QED
  BY <1>2, <1>3, <1>4

LEMMA NoOperation ==
    /\ \A f \in Files : ~IsOperation(Sync, f) /\ ~IsOperation(Finish, f)
    /\ Sync \in Events /\ Finish \in Events /\ Sync # Finish
    /\ Sync.type = "sync" /\ Finish.type = "finish"
    /\ \A e \in Events : e.type = "operation" => e \in Operations /\ e # Finish
    /\ \A e \in Events : e.type = "finish" => e = Finish
    /\ \A f \in Files, n \in Nat \ {0} :
          Operation(f, n) \in Events /\ IsOperation(Operation(f, n), f) /\ Operation(f, n).number = n
          /\ Operation(f, n).type = "operation" /\ Operation(f, n).file = f
BY DEF IsOperation, Sync, Finish, Events, Operations, Operation

LEMMA EmptyQueue == events = << >> => \A f \in Files : ~InQueue(f)
<1> SUFFICES ASSUME events = << >> PROVE \A f \in Files : ~InQueue(f)
  OBVIOUS
<1>1. DOMAIN events = {}
  OBVIOUS
<1> QED
  BY <1>1 DEF InQueue

LEMMA InitialQueue == Init => QueueInv
<1> SUFFICES ASSUME Init PROVE QueueInv
  OBVIOUS
<1>1. /\ coreState = "running" /\ ioManagerThreadEnabled = TRUE
      /\ events = << >> /\ eventsRunning = FALSE /\ eventsHaveRun = FALSE /\ drain = "nobody"
      /\ resultsPending = {} /\ results = [f \in Files |-> 0]
      /\ worker = [at |-> "outside", event |-> Sync, stop |-> FALSE]
      /\ applied = [f \in Files |-> 0] /\ issued = [f \in Files |-> 0]
      /\ cpu.at = "guest"
  BY DEF Init, ManagerInit, InGuest, NoResult
<1>2. worker.at = "outside" /\ worker.event = Sync /\ ~worker.stop
  BY <1>1
<1>3. \A f \in Files : ~InQueue(f) /\ ~Doing(f)
  BY <1>1, <1>2, EmptyQueue DEF Doing
<1>4. \A f \in Files : ~HasOperation(f) /\ ~HasResult(f)
  BY <1>1 DEF HasOperation, HasResult, NoResult
<1>5. ManagerTypes
  <2>1. worker \in [at : Places, event : Events, stop : BOOLEAN]
    BY <1>1, NoOperation DEF Places
  <2>2. events \in Seq(Events)
    BY <1>1
  <2>3. resultsPending \subseteq Files /\ results \in [Files -> Nat] /\ applied \in [Files -> Nat] /\ issued \in [Files -> Nat]
    BY <1>1
  <2> QED
    BY <1>1, <1>2, <2>1, <2>2, <2>3 DEF ManagerTypes
<1>6. HandlerTypes /\ WaitsBehind
  BY <1>1 DEF HandlerTypes, WaitsBehind, Waiting, Draining
<1>7. OnePerFile /\ PendingInStep /\ FileOpen
  BY <1>1, <1>2, <1>3, <1>4 DEF OnePerFile, PendingInStep, FileOpen
<1> QED
  BY <1>5, <1>6, <1>7 DEF QueueInv

----------------------------------------------------------------------------
(* An event that is no operation is queued.                                *)
LEMMA OtherQueued ==
    ASSUME ManagerTypes, OnePerFile, NEW e \in {Sync, Finish}, events' = Append(events, e), worker' = worker
    PROVE  /\ \A f \in Files : (InQueue(f)' <=> InQueue(f)) /\ (Doing(f)' <=> Doing(f))
           /\ events' \in Seq(Events) /\ events' # << >> /\ events'[Len(events')].type # "operation"
           /\ \A f \in Files, i \in DOMAIN events' :
                 IsOperation(events'[i], f) => i \in DOMAIN events /\ events'[i] = events[i]
           /\ \A i \in DOMAIN events' : events'[i] = e \/ (i \in DOMAIN events /\ events'[i] = events[i])
           /\ OnePerFile'
<1>1. events \in Seq(Events) /\ e \in Events /\ \A f \in Files : ~IsOperation(e, f)
  BY NoOperation DEF ManagerTypes
<1>2. \A f \in Files : (InQueue(f)' <=> InQueue(f)) /\ (Doing(f)' <=> Doing(f))
  BY <1>1, AppendInQueue DEF Doing
<1>3. events' \in Seq(Events) /\ events' # << >> /\ events'[Len(events')].type # "operation"
  <2>1. events' \in Seq(Events)
    BY <1>1
  <2>2. events' # << >> /\ events'[Len(events')] = e
    BY <1>1, QueueAppended
  <2>3. e.type # "operation"
    BY NoOperation
  <2> QED
    BY <2>1, <2>2, <2>3
<1>4. \A i \in DOMAIN events' : events'[i] = e \/ (i \in DOMAIN events /\ events'[i] = events[i])
  BY <1>1, QueueAppended
<1>5. \A f \in Files, i \in DOMAIN events' :
          IsOperation(events'[i], f) => i \in DOMAIN events /\ events'[i] = events[i]
  BY <1>1, <1>4
<1>6. OnePerFile'
  <2>1. ASSUME NEW f \in Files, NEW i \in DOMAIN events', NEW j \in DOMAIN events',
               IsOperation(events'[i], f), IsOperation(events'[j], f)
        PROVE  i = j
    BY <1>5, <2>1 DEF OnePerFile
  <2>2. \A f \in Files : Doing(f)' => ~InQueue(f)'
    BY <1>2 DEF OnePerFile
  <2> QED
    BY <2>1, <2>2 DEF OnePerFile
<1> QED
  BY <1>2, <1>3, <1>4, <1>5, <1>6

(* Nothing changes but who the emulator's thread is busy with.             *)
LEMMA KeptStep ==
    ASSUME QueueInv, UNCHANGED <<managerVars, issued>>, cpu.at # "ended",
           HandlerTypes', WaitsBehind', \A f \in Files : file'[f].open = file[f].open
    PROVE  QueueInv'
<1> USE DEF QueueInv, managerVars, queueVars
<1>1. \A f \in Files : (InQueue(f)' <=> InQueue(f)) /\ (Doing(f)' <=> Doing(f))
                       /\ (HasResult(f)' <=> HasResult(f)) /\ (HasOperation(f)' <=> HasOperation(f))
  BY DEF InQueue, Doing, HasResult, HasOperation
<1>2. ManagerTypes'
  BY DEF ManagerTypes
<1>3. OnePerFile' /\ FileOpen'
  BY <1>1 DEF OnePerFile, FileOpen
<1>4. PendingInStep'
  BY <1>1 DEF PendingInStep
<1> QED
  BY <1>2, <1>3, <1>4

(* The emulator's thread queues a Sync, to wait for what is before it.     *)
LEMMA SyncStep ==
    ASSUME QueueInv, cpu.at # "ended", events' = Append(events, Sync),
           UNCHANGED <<coreState, ioManagerThreadEnabled, eventsRunning, eventsHaveRun,
                       resultsPending, results, worker, applied, issued>>,
           drain' \in {"nobody", "waiting", "notified"},
           HandlerTypes', \A f \in Files : file'[f].open = file[f].open
    PROVE  QueueInv'
<1>0. ManagerTypes /\ OnePerFile /\ PendingInStep /\ FileOpen
  BY DEF QueueInv
<1>1. /\ \A f \in Files : (InQueue(f)' <=> InQueue(f)) /\ (Doing(f)' <=> Doing(f))
      /\ events' \in Seq(Events) /\ events' # << >> /\ events'[Len(events')].type # "operation"
      /\ \A f \in Files, i \in DOMAIN events' :
                 IsOperation(events'[i], f) => i \in DOMAIN events /\ events'[i] = events[i]
      /\ \A i \in DOMAIN events' : events'[i] = Sync \/ (i \in DOMAIN events /\ events'[i] = events[i])
      /\ OnePerFile'
  BY <1>0, OtherQueued
<1>2. \A f \in Files : (HasResult(f)' <=> HasResult(f)) /\ (HasOperation(f)' <=> HasOperation(f))
  BY DEF HasResult, HasOperation
<1>3. ManagerTypes'
  BY <1>0, <1>1 DEF ManagerTypes
<1>4. FileOpen'
  BY <1>0, <1>1, <1>2 DEF FileOpen
<1>5. PendingInStep'
  BY <1>0, <1>1, <1>2 DEF PendingInStep
<1>6. WaitsBehind'
  BY <1>1 DEF WaitsBehind
<1> QED
  BY <1>1, <1>3, <1>4, <1>5, <1>6 DEF QueueInv

(* What waits for a file that has nothing left to do: it ends.             *)
LEMMA WaitOver ==
    ASSUME QueueInv, cpu.at \in Waiting, NEW f \in Files, WaitIsOver(f)
    PROVE  ~InQueue(f) /\ ~Doing(f) /\ (HasOperation(f) => HasResult(f))
<1>0. ManagerTypes /\ OnePerFile /\ PendingInStep /\ WaitsBehind /\ cpu.at # "ended"
  BY DEF QueueInv, Waiting
<1>1. CASE events = << >>
  BY <1>0, <1>1, EmptyQueue DEF WaitsBehind, Doing, PendingInStep, IsOperation, HasOperation
<1>2. CASE HasResult(f) \/ f \notin resultsPending
  BY <1>0, <1>2 DEF PendingInStep, HasOperation
<1> QED
  BY <1>1, <1>2 DEF WaitIsOver

LEMMA PoppedResult ==
    ASSUME QueueInv, cpu.at \in Waiting, NEW f \in Files, WaitIsOver(f), PopResult(f)
    PROVE  /\ ~HasOperation(f)' /\ resultsPending' \subseteq Files /\ results' \in [Files -> Nat]
           /\ \A g \in Files \ {f} : /\ (HasResult(g)' <=> HasResult(g)) /\ (HasOperation(g)' <=> HasOperation(g))
                                     /\ g \in resultsPending' <=> g \in resultsPending
                                     /\ results'[g] = results[g]
<1>1. results \in [Files -> Nat] /\ resultsPending \subseteq Files
  BY DEF QueueInv, ManagerTypes
<1>2. results' = [results EXCEPT ![f] = 0]
  BY DEF PopResult, NoResult
<1>3. HasOperation(f) => HasResult(f)
  BY WaitOver
<1>4. f \notin resultsPending'
  BY <1>3 DEF PopResult, HasOperation
<1>5. ~HasResult(f)'
  BY <1>1, <1>2 DEF HasResult, NoResult
<1>6. \A g \in Files \ {f} : results'[g] = results[g] /\ (g \in resultsPending' <=> g \in resultsPending)
  BY <1>1, <1>2 DEF PopResult
<1>7. resultsPending' \subseteq Files /\ results' \in [Files -> Nat]
  BY <1>1, <1>2 DEF PopResult
<1> QED
  BY <1>4, <1>5, <1>6, <1>7 DEF HasOperation, HasResult

LEMMA PoppedStep ==
    ASSUME QueueInv, cpu.at \in Waiting, NEW f \in Files, WaitIsOver(f), PopResult(f),
           UNCHANGED <<queueVars, worker, applied, issued>>,
           cpu'.at \in {"guest", "close"}, HandlerTypes',
           \A g \in Files \ {f} : file'[g].open = file[g].open
    PROVE  QueueInv'
<1>0. ManagerTypes /\ OnePerFile /\ PendingInStep /\ FileOpen /\ cpu.at # "ended"
  BY DEF QueueInv, Waiting
<1>1. \A g \in Files : (InQueue(g)' <=> InQueue(g)) /\ (Doing(g)' <=> Doing(g))
  BY DEF InQueue, Doing, queueVars
<1>2. ~InQueue(f)' /\ ~Doing(f)'
  BY <1>1, WaitOver
<1>3. /\ ~HasOperation(f)' /\ resultsPending' \subseteq Files /\ results' \in [Files -> Nat]
      /\ \A g \in Files \ {f} : /\ (HasResult(g)' <=> HasResult(g)) /\ (HasOperation(g)' <=> HasOperation(g))
                                /\ g \in resultsPending' <=> g \in resultsPending
  BY PoppedResult
<1>4. ManagerTypes'
  BY <1>0, <1>3 DEF ManagerTypes, queueVars
<1>5. OnePerFile'
  BY <1>0, <1>1 DEF OnePerFile, queueVars
<1>6. FileOpen'
  BY <1>0, <1>1, <1>2, <1>3 DEF FileOpen
<1>7. PendingInStep'
  BY <1>0, <1>1, <1>2, <1>3 DEF PendingInStep, HasOperation
<1>8. WaitsBehind'
  BY DEF WaitsBehind, Waiting, Draining
<1> QED
  BY <1>4, <1>5, <1>6, <1>7, <1>8 DEF QueueInv

(* An operation goes to the worker.                                        *)
LEMMA DeferStep ==
    ASSUME QueueInv, cpu.at = "guest", NEW f \in Files, ~HasOperation(f), file[f].open,
           issued' = [issued EXCEPT ![f] = @ + 1], ScheduleOperation(f, issued'[f]),
           UNCHANGED <<coreState, ioManagerThreadEnabled, eventsRunning, eventsHaveRun, drain,
                       results, worker, applied, cpu>>,
           \A g \in Files : file'[g].open = file[g].open
    PROVE  QueueInv'
<1>0. ManagerTypes /\ HandlerTypes /\ OnePerFile /\ PendingInStep /\ FileOpen
  BY DEF QueueInv
<1> DEFINE n == issued[f] + 1
           e == Operation(f, n)
<1>1. n \in Nat \ {0} /\ issued'[f] = n /\ issued' \in [Files -> Nat] /\ \A g \in Files \ {f} : issued'[g] = issued[g]
  BY <1>0 DEF ManagerTypes
<1>2. events' = Append(events, e) /\ resultsPending' = resultsPending \cup {f}
  BY <1>1 DEF ScheduleOperation
<1>3. e \in Events /\ IsOperation(e, f) /\ e.number = n /\ e.type = "operation" /\ e.file = f /\ e # Finish
  BY <1>1, NoOperation
<1> HIDE DEF n, e
<1>4. \A g \in Files : IsOperation(e, g) => g = f
  BY <1>3 DEF IsOperation
<1>5. events \in Seq(Events) /\ events' \in Seq(Events)
  BY <1>0, <1>2, <1>3 DEF ManagerTypes
<1>6. ~InQueue(f) /\ ~Doing(f) /\ ~HasResult(f) /\ f \notin resultsPending
  BY <1>0 DEF PendingInStep, HasOperation
<1>7. \A g \in Files : (InQueue(g)' <=> InQueue(g) \/ g = f) /\ (Doing(g)' <=> Doing(g))
                       /\ (HasResult(g)' <=> HasResult(g))
  BY <1>0, <1>2, <1>3, <1>4, AppendInQueue DEF Doing, HasResult
<1>8. /\ \A i \in DOMAIN events' : (i \in DOMAIN events /\ events'[i] = events[i])
                                   \/ (i = Len(events) + 1 /\ events'[i] = e)
      /\ Len(events) + 1 \notin DOMAIN events
  BY <1>2, <1>5, QueueAppended
<1>9. ManagerTypes'
  BY <1>0, <1>1, <1>2, <1>5 DEF ManagerTypes
<1>10. HandlerTypes' /\ WaitsBehind'
  BY <1>0 DEF HandlerTypes, WaitsBehind, Waiting, Draining
<1>11. OnePerFile'
  <2>1. ASSUME NEW g \in Files, NEW i \in DOMAIN events', NEW j \in DOMAIN events',
               IsOperation(events'[i], g), IsOperation(events'[j], g)
        PROVE  i = j
    <3>1. CASE g = f
      BY <1>6, <1>8, <2>1, <3>1 DEF InQueue
    <3>2. CASE g # f
      BY <1>0, <1>4, <1>8, <2>1, <3>2 DEF OnePerFile
    <3> QED
      BY <3>1, <3>2
  <2>2. \A g \in Files : Doing(g)' => ~InQueue(g)'
    BY <1>0, <1>6, <1>7 DEF OnePerFile
  <2> QED
    BY <2>1, <2>2 DEF OnePerFile
<1>12. PendingInStep'
  BY <1>0, <1>2, <1>6, <1>7 DEF PendingInStep
<1>13. FileOpen'
  BY <1>0, <1>2, <1>6, <1>7 DEF FileOpen, HasOperation
<1> QED
  BY <1>9, <1>10, <1>11, <1>12, <1>13 DEF QueueInv

(* An operation that does not need the worker                              *)
LEMMA NumbersChange ==
    ASSUME QueueInv, cpu.at # "ended", NEW f \in Files, UNCHANGED <<queueVars, resultsPending, results, worker>>,
           HandlerTypes', cpu'.at = "guest",
           \A g \in Files \ {f} : file'[g].open = file[g].open,
           file[f].open => file'[f].open,
           issued' \in [Files -> Nat], applied' \in [Files -> Nat],
           \A g \in Files \ {f} : issued'[g] = issued[g] /\ applied'[g] = applied[g]
    PROVE  QueueInv'
<1>0. ManagerTypes /\ OnePerFile /\ PendingInStep /\ FileOpen
  BY DEF QueueInv
<1>1. \A g \in Files : (InQueue(g)' <=> InQueue(g)) /\ (Doing(g)' <=> Doing(g))
                       /\ (HasResult(g)' <=> HasResult(g)) /\ (HasOperation(g)' <=> HasOperation(g))
  BY DEF InQueue, Doing, HasResult, HasOperation, queueVars
<1>2. ManagerTypes'
  BY <1>0 DEF ManagerTypes, queueVars
<1>3. OnePerFile' /\ FileOpen' /\ PendingInStep'
  <2>1. OnePerFile'
    BY <1>0, <1>1 DEF OnePerFile, queueVars
  <2>2. FileOpen'
    BY <1>0, <1>1 DEF FileOpen
  <2>3. PendingInStep'
    BY <1>0, <1>1 DEF PendingInStep
  <2> QED
    BY <2>1, <2>2, <2>3
<1>4. WaitsBehind'
  BY DEF WaitsBehind, Waiting, Draining
<1> QED
  BY <1>2, <1>3, <1>4 DEF QueueInv

LEMMA DoneHereStep ==
    ASSUME QueueInv, cpu.at # "ended", NEW f \in Files, DoneHere(f),
           UNCHANGED <<queueVars, resultsPending, results, worker>>,
           HandlerTypes', cpu'.at = "guest", \A g \in Files : file'[g].open = file[g].open
    PROVE  QueueInv'
<1>0. ManagerTypes
  BY DEF QueueInv
<1>1. /\ issued' \in [Files -> Nat] /\ issued'[f] = issued[f] + 1
      /\ \A g \in Files \ {f} : issued'[g] = issued[g]
  BY <1>0 DEF ManagerTypes, DoneHere
<1>2. /\ applied' \in [Files -> Nat] /\ applied'[f] = issued'[f]
      /\ \A g \in Files \ {f} : applied'[g] = applied[g]
  BY <1>0, <1>1 DEF ManagerTypes, DoneHere
<1> QED
  BY <1>1, <1>2, NumbersChange

----------------------------------------------------------------------------
(* The worker takes the event in front, ...                                *)
LEMMA TakeStep ==
    ASSUME QueueInv, NEW stop \in BOOLEAN, TakeEvent(stop), \A f \in Files : ~Doing(f),
           UNCHANGED <<coreState, ioManagerThreadEnabled, resultsPending, results, applied, issued, file, cpu>>,
           eventsRunning' \in BOOLEAN, eventsHaveRun' \in BOOLEAN
    PROVE  QueueInv'
<1>0. ManagerTypes /\ HandlerTypes /\ OnePerFile /\ PendingInStep /\ WaitsBehind /\ FileOpen
  BY DEF QueueInv
<1>1. events # << >> /\ events \in Seq(Events) /\ events' = Tail(events) /\ drain' = drain
  BY <1>0 DEF TakeEvent, ManagerTypes
<1>2. worker' = [at |-> "processing", event |-> Head(events), stop |-> stop]
  BY DEF TakeEvent
<1>3. worker'.at = "processing" /\ worker'.event = Head(events) /\ worker'.stop = stop
  BY <1>2
<1>4. /\ DOMAIN events = 1 .. Len(events) /\ DOMAIN events' = 1 .. Len(events) - 1 /\ Len(events) \in Nat \ {0}
      /\ \A i \in DOMAIN events' : i + 1 \in DOMAIN events /\ events'[i] = events[i + 1]
      /\ 1 \in DOMAIN events /\ Head(events) = events[1]
      /\ Len(events') = Len(events) - 1 /\ events' \in Seq(Events)
      /\ events' # << >> <=> Len(events) > 1
      /\ Head(events) \in Events
  BY <1>1, QueueTaken
<1>5. \A f \in Files : /\ Doing(f)' <=> IsOperation(Head(events), f)
                       /\ InQueue(f) <=> InQueue(f)' \/ Doing(f)'
                       /\ (HasResult(f)' <=> HasResult(f)) /\ (HasOperation(f)' <=> HasOperation(f))
  <2>1. \A f \in Files : Doing(f)' <=> IsOperation(Head(events), f)
    BY <1>3 DEF Doing
  <2>2. \A f \in Files : InQueue(f) <=> InQueue(f)' \/ IsOperation(Head(events), f)
    BY <1>0, <1>1, TakenInQueue
  <2>3. \A f \in Files : (HasResult(f)' <=> HasResult(f)) /\ (HasOperation(f)' <=> HasOperation(f))
    BY DEF HasResult, HasOperation
  <2> QED
    BY <2>1, <2>2, <2>3
<1>7. ManagerTypes'
  <2>1. worker' \in [at : Places, event : Events, stop : BOOLEAN]
    BY <1>2, <1>4 DEF Places
  <2> QED
    BY <1>0, <1>1, <1>3, <1>4, <2>1 DEF ManagerTypes
<1>8. HandlerTypes'
  BY <1>0 DEF HandlerTypes
<1>9. OnePerFile'
  <2>1. ASSUME NEW f \in Files, NEW i \in DOMAIN events', NEW j \in DOMAIN events',
               IsOperation(events'[i], f), IsOperation(events'[j], f)
        PROVE  i = j
    <3>1. i + 1 = j + 1
      BY <1>0, <1>4, <2>1 DEF OnePerFile
    <3> QED
      BY <1>4, <2>1, <3>1
  <2>2. ASSUME NEW f \in Files, Doing(f)', InQueue(f)'
        PROVE  FALSE
    <3>1. PICK i \in DOMAIN events' : IsOperation(events'[i], f)
      BY <2>2 DEF InQueue
    <3>2. i + 1 \in DOMAIN events /\ IsOperation(events[i + 1], f) /\ IsOperation(events[1], f)
      BY <1>4, <1>5, <2>2, <3>1
    <3>3. i + 1 = 1
      BY <1>0, <1>4, <3>2 DEF OnePerFile
    <3> QED
      BY <1>4, <3>1, <3>3
  <2> QED
    BY <2>1, <2>2 DEF OnePerFile
<1>10. PendingInStep' /\ FileOpen'
  BY <1>0, <1>5 DEF PendingInStep, FileOpen
<1>11. WaitsBehind'
  <2> SUFFICES ASSUME cpu.at \in Waiting
               PROVE  /\ events' = << >> \/ events'[Len(events')].type # "operation"
                      /\ worker'.event.type = "operation" => events' # << >>
    BY <1>3 DEF WaitsBehind
  <2>1. events[Len(events)].type # "operation"
    BY <1>0, <1>1 DEF WaitsBehind
  <2>2. CASE Len(events) = 1
    BY <1>3, <1>4, <2>1, <2>2
  <2>3. CASE Len(events) > 1
    <3>1. Len(events') \in DOMAIN events' /\ events'[Len(events')] = events[Len(events)]
      BY <1>4, <2>3
    <3> QED
      BY <1>4, <2>1, <2>3, <3>1
  <2> QED
    BY <1>4, <2>2, <2>3
<1> QED
  BY <1>7, <1>8, <1>9, <1>10, <1>11 DEF QueueInv

(* ... or goes elsewhere, when it has no operation.                        *)
LEMMA GotoStep ==
    ASSUME QueueInv, NEW place \in Places \ {"processing", "answering"}, Goto(place), \A f \in Files : ~Doing(f),
           UNCHANGED <<coreState, ioManagerThreadEnabled, events, resultsPending, results, applied, issued, file, cpu>>,
           eventsRunning' \in BOOLEAN, eventsHaveRun' \in BOOLEAN, drain' \in {"nobody", "waiting", "notified"}
    PROVE  QueueInv'
<1>0. ManagerTypes /\ HandlerTypes /\ OnePerFile /\ PendingInStep /\ WaitsBehind /\ FileOpen
  BY DEF QueueInv
<1>1. worker' = [at |-> place, event |-> Sync, stop |-> FALSE]
  BY DEF Goto
<1>2. worker'.at = place /\ worker'.event = Sync /\ worker'.stop = FALSE
  BY <1>1
<1>3. \A f \in Files : ~Doing(f)' /\ (InQueue(f)' <=> InQueue(f))
                       /\ (HasResult(f)' <=> HasResult(f)) /\ (HasOperation(f)' <=> HasOperation(f))
  BY <1>2 DEF Doing, InQueue, HasResult, HasOperation
<1>4. ManagerTypes'
  <2>1. worker' \in [at : Places, event : Events, stop : BOOLEAN]
    BY <1>1, NoOperation
  <2> QED
    BY <1>0, <1>2, <2>1 DEF ManagerTypes
<1>5. HandlerTypes' /\ WaitsBehind'
  BY <1>0, <1>2 DEF HandlerTypes, WaitsBehind
<1>6. OnePerFile' /\ PendingInStep' /\ FileOpen'
  BY <1>0, <1>3 DEF OnePerFile, PendingInStep, FileOpen
<1> QED
  BY <1>4, <1>5, <1>6 DEF QueueInv

LEMMA IdleDoesNothing ==
    ASSUME worker.at \notin {"processing", "answering"} \/ worker.event.type # "operation"
    PROVE  \A f \in Files : ~Doing(f)
BY DEF Doing, IsOperation

LEMMA EnterStep ==
    ASSUME QueueInv, EnterLoop, UNCHANGED <<kernelVars, cpu>>
    PROVE  QueueInv'
<1> USE DEF EnterLoop, kernelVars, queueVars
<1>1. \A f \in Files : ~Doing(f)
  BY IdleDoesNothing
<1>2. eventsRunning' \in BOOLEAN /\ eventsHaveRun' \in BOOLEAN /\ drain' \in {"nobody", "waiting", "notified"}
  BY DEF QueueInv, ManagerTypes
<1>3. PICK place \in {"entering", "ended"} : Goto(place)
  OBVIOUS
<1>4. place \in Places \ {"processing", "answering"}
  BY DEF Places
<1> HIDE DEF EnterLoop
<1>5. UNCHANGED <<coreState, ioManagerThreadEnabled, events, resultsPending, results, applied, issued, file, cpu>>
  BY DEF EnterLoop
<1> QED
  BY <1>1, <1>2, <1>3, <1>4, <1>5, GotoStep

LEMMA StartStep ==
    ASSUME QueueInv, StartEvents, UNCHANGED <<kernelVars, cpu>>
    PROVE  QueueInv'
<1>0. ManagerTypes
  BY DEF QueueInv
<1>1. \A f \in Files : ~Doing(f)
  BY IdleDoesNothing DEF StartEvents
<1>2. UNCHANGED <<coreState, ioManagerThreadEnabled, resultsPending, results, applied, issued, file, cpu>> /\ eventsHaveRun' = TRUE
  BY DEF StartEvents, kernelVars
<1>3. CASE TakeEvent(FALSE) /\ eventsRunning' = TRUE
  BY <1>1, <1>2, <1>3, TakeStep
<1>4. CASE events = << >> /\ Goto("waiting") /\ eventsRunning' = TRUE /\ UNCHANGED <<events, drain>>
  BY <1>0, <1>1, <1>2, <1>4, GotoStep DEF Places, ManagerTypes
<1>5. CASE events = << >> /\ ShouldExitEventLoop /\ LeaveLoop
  <2>1. drain' \in {"nobody", "waiting", "notified"} /\ Goto("outside") /\ eventsRunning' = FALSE /\ UNCHANGED events
    BY <1>0, <1>5 DEF LeaveLoop, NotifyDrain, ManagerTypes
  <2> QED
    BY <1>1, <1>2, <2>1, GotoStep DEF Places
<1> QED
  BY <1>3, <1>4, <1>5 DEF StartEvents

LEMMA NextEventStep ==
    ASSUME QueueInv, NextEvent, UNCHANGED <<kernelVars, cpu>>
    PROVE  QueueInv'
<1>0. ManagerTypes
  BY DEF QueueInv
<1>1. \A f \in Files : ~Doing(f)
  BY IdleDoesNothing DEF NextEvent
<1>2. UNCHANGED <<coreState, ioManagerThreadEnabled, eventsHaveRun, resultsPending, results, applied, issued, file, cpu>>
  BY DEF NextEvent, kernelVars
<1> DEFINE stop == worker.stop \/ worker.event.type = "finish"
<1>3. stop \in BOOLEAN /\ eventsRunning \in BOOLEAN /\ eventsHaveRun \in BOOLEAN /\ worker.event \in Events
  BY <1>0 DEF ManagerTypes
<1>5. \/ TakeEvent(stop) /\ UNCHANGED eventsRunning
      \/ events = << >> /\ NotifyDrain /\ Goto("waiting") /\ UNCHANGED <<events, eventsRunning>>
      \/ events = << >> /\ LeaveLoop
  BY DEF NextEvent
<1>6. NotifyDrain => drain' \in {"nobody", "waiting", "notified"}
  BY <1>0 DEF NotifyDrain, ManagerTypes
<1> HIDE DEF stop
<1>7. CASE TakeEvent(stop) /\ UNCHANGED eventsRunning
  <2>1. eventsRunning' \in BOOLEAN /\ eventsHaveRun' \in BOOLEAN 
    BY <1>2, <1>3, <1>7
  <2> QED
    BY <1>1, <1>2, <1>3, <1>7, <2>1, TakeStep
<1>8. CASE events = << >> /\ NotifyDrain /\ Goto("waiting") /\ UNCHANGED <<events, eventsRunning>>
  BY <1>1, <1>2, <1>3, <1>6, <1>8, GotoStep DEF Places
<1>9. CASE events = << >> /\ LeaveLoop
  <2>1. drain' \in {"nobody", "waiting", "notified"} /\ Goto("outside") /\ eventsRunning' = FALSE /\ UNCHANGED events
    BY <1>6, <1>9 DEF LeaveLoop
  <2> QED
    BY <1>1, <1>2, <1>3, <2>1, GotoStep DEF Places
<1> QED
  BY <1>5, <1>7, <1>8, <1>9

LEMMA AtOperation ==
    ASSUME ManagerTypes, worker.at = "answering" \/ (worker.at = "processing" /\ worker.event.type = "operation")
    PROVE  /\ worker.event.file \in Files /\ worker.event.number \in Nat \ {0} /\ worker.event.type = "operation"
           /\ \A f \in Files : IsOperation(worker.event, f) <=> f = worker.event.file
           /\ \A f \in Files : Doing(f) <=> f = worker.event.file
<1>1. worker.event \in Operations /\ worker.event.type = "operation"
  BY NoOperation DEF ManagerTypes
<1>2. worker.event.file \in Files /\ worker.event.number \in Nat \ {0}
  BY <1>1 DEF Operations
<1> QED
  BY <1>1, <1>2 DEF IsOperation, Doing

LEMMA ProcessStep ==
    ASSUME QueueInv, ProcessEvent, UNCHANGED <<kernelVars, cpu>>
    PROVE  QueueInv'
<1> DEFINE g == worker.event.file
<1>0. ManagerTypes /\ HandlerTypes /\ OnePerFile /\ PendingInStep /\ WaitsBehind /\ FileOpen
  BY DEF QueueInv
<1>1. /\ g \in Files /\ worker.event.number \in Nat \ {0} /\ worker.event.type = "operation"
      /\ \A f \in Files : IsOperation(worker.event, f) <=> f = g
      /\ \A f \in Files : Doing(f) <=> f = g
      /\ worker.at = "processing"
  BY <1>0, AtOperation DEF ProcessEvent
<1> HIDE DEF g
<1>2. applied' = [applied EXCEPT ![g] = worker.event.number] /\ worker' = [worker EXCEPT !.at = "answering"]
      /\ UNCHANGED <<queueVars, resultsPending, results, issued, file, cpu>>
  BY DEF ProcessEvent, kernelVars, g
<1>3. worker' \in [at : Places, event : Events, stop : BOOLEAN]
      /\ worker'.at = "answering" /\ worker'.event = worker.event /\ worker'.stop = worker.stop
  BY <1>0, <1>2 DEF ManagerTypes, Places
<1>4. \A f \in Files : (InQueue(f)' <=> InQueue(f)) /\ (Doing(f)' <=> Doing(f))
                       /\ (HasResult(f)' <=> HasResult(f)) /\ (HasOperation(f)' <=> HasOperation(f))
  BY <1>1, <1>2, <1>3 DEF InQueue, Doing, HasResult, HasOperation, queueVars
<1>5. ManagerTypes'
  <2>1. applied' \in [Files -> Nat]
    BY <1>0, <1>1, <1>2 DEF ManagerTypes
  <2> QED
    BY <1>0, <1>1, <1>2, <1>3, <2>1 DEF ManagerTypes, queueVars
<1>6. HandlerTypes' /\ WaitsBehind'
  BY <1>0, <1>1, <1>2, <1>3 DEF HandlerTypes, WaitsBehind, queueVars
<1>7. OnePerFile' /\ PendingInStep' /\ FileOpen'
  BY <1>0, <1>2, <1>4 DEF OnePerFile, PendingInStep, FileOpen, queueVars
<1> QED
  BY <1>5, <1>6, <1>7 DEF QueueInv

LEMMA ResultStep ==
    ASSUME QueueInv, EventResult, UNCHANGED <<kernelVars, cpu>>
    PROVE  QueueInv'
<1> DEFINE g == worker.event.file
<1>0. ManagerTypes /\ HandlerTypes /\ OnePerFile /\ PendingInStep /\ WaitsBehind /\ FileOpen
  BY DEF QueueInv
<1>1. /\ g \in Files /\ worker.event.number \in Nat \ {0}
      /\ \A f \in Files : Doing(f) <=> f = g
      /\ worker.at = "answering"
  BY <1>0, AtOperation DEF EventResult
<1> HIDE DEF g
<1>2. results' = [results EXCEPT ![g] = worker.event.number] /\ worker' = [worker EXCEPT !.at = "processed"]
      /\ UNCHANGED <<queueVars, resultsPending, applied, issued, file, cpu>>
  BY DEF EventResult, kernelVars, g
<1>3. worker' \in [at : Places, event : Events, stop : BOOLEAN]
      /\ worker'.at = "processed" /\ worker'.event = worker.event /\ worker'.stop = worker.stop
  BY <1>0, <1>2 DEF ManagerTypes, Places
<1>4. results' \in [Files -> Nat] /\ results'[g] # 0 /\ \A f \in Files \ {g} : results'[f] = results[f]
  BY <1>0, <1>1, <1>2 DEF ManagerTypes
<1>5. \A f \in Files : /\ (InQueue(f)' <=> InQueue(f)) /\ ~Doing(f)'
                       /\ (HasResult(f)' <=> HasResult(f) \/ f = g) /\ (HasOperation(f)' <=> HasOperation(f) \/ f = g)
  BY <1>1, <1>2, <1>3, <1>4 DEF InQueue, Doing, HasResult, HasOperation, queueVars, NoResult
<1>6. ~InQueue(g)
  BY <1>0, <1>1 DEF OnePerFile
<1>7. ManagerTypes'
  BY <1>0, <1>2, <1>3, <1>4 DEF ManagerTypes, queueVars
<1>8. HandlerTypes' /\ WaitsBehind'
  BY <1>0, <1>2, <1>3 DEF HandlerTypes, WaitsBehind, queueVars
<1>9. OnePerFile' /\ FileOpen'
  BY <1>0, <1>1, <1>2, <1>5 DEF OnePerFile, FileOpen, queueVars
<1>10. PendingInStep'
  BY <1>0, <1>1, <1>2, <1>5, <1>6 DEF PendingInStep
<1> QED
  BY <1>7, <1>8, <1>9, <1>10 DEF QueueInv

LEMMA DrainedStep ==
    ASSUME QueueInv, Drained, UNCHANGED <<kernelVars, cpu>>
    PROVE  QueueInv'
<1>0. ManagerTypes /\ HandlerTypes /\ OnePerFile /\ PendingInStep /\ WaitsBehind /\ FileOpen
  BY DEF QueueInv
<1>1. UNCHANGED <<coreState, ioManagerThreadEnabled, events, eventsRunning, eventsHaveRun,
                   resultsPending, results, worker, applied, issued, file, cpu>>
  BY DEF Drained, kernelVars
<1>2. drain = "notified" /\ drain' \in {"nobody", "waiting", "notified"}
  BY DEF Drained
<1>3. \A f \in Files : (InQueue(f)' <=> InQueue(f)) /\ (Doing(f)' <=> Doing(f))
                       /\ (HasResult(f)' <=> HasResult(f)) /\ (HasOperation(f)' <=> HasOperation(f))
  BY <1>1 DEF InQueue, Doing, HasResult, HasOperation
<1>4. ManagerTypes'
  BY <1>0, <1>1, <1>2 DEF ManagerTypes
<1>5. HandlerTypes' /\ WaitsBehind'
  BY <1>0, <1>1, <1>2 DEF HandlerTypes, WaitsBehind
<1>6. OnePerFile' /\ FileOpen' /\ PendingInStep'
  BY <1>0, <1>1, <1>3 DEF OnePerFile, FileOpen, PendingInStep
<1> QED
  BY <1>4, <1>5, <1>6 DEF QueueInv

LEMMA PowerDownStep ==
    ASSUME QueueInv, PowerDown, UNCHANGED <<kernelVars, cpu>>
    PROVE  QueueInv'
<1>0. ManagerTypes /\ HandlerTypes /\ OnePerFile /\ PendingInStep /\ WaitsBehind /\ FileOpen
  BY DEF QueueInv
<1>1. UNCHANGED <<ioManagerThreadEnabled, events, eventsRunning, eventsHaveRun, drain,
                   resultsPending, results, worker, applied, issued, file, cpu>> /\ coreState' = "powerdown"
  BY DEF PowerDown, kernelVars
<1>2. \A f \in Files : (InQueue(f)' <=> InQueue(f)) /\ (Doing(f)' <=> Doing(f))
                       /\ (HasResult(f)' <=> HasResult(f)) /\ (HasOperation(f)' <=> HasOperation(f))
  BY <1>1 DEF InQueue, Doing, HasResult, HasOperation
<1>3. ManagerTypes' /\ HandlerTypes'
  BY <1>0, <1>1 DEF ManagerTypes, HandlerTypes
<1>4. OnePerFile' /\ FileOpen' /\ PendingInStep' /\ WaitsBehind'
  BY <1>0, <1>1, <1>2 DEF OnePerFile, FileOpen, PendingInStep, WaitsBehind
<1> QED
  BY <1>3, <1>4 DEF QueueInv

(* A Finish is queued, when the emulation has stopped.                     *)
LEMMA FinishedStep ==
    ASSUME QueueInv, coreState # "running", events' = Finished(events),
           UNCHANGED <<coreState, eventsRunning, eventsHaveRun, drain, worker, applied, issued, file>>,
           ioManagerThreadEnabled' \in BOOLEAN, HandlerTypes',
           \/ cpu' = cpu /\ UNCHANGED <<resultsPending, results>>
           \/ cpu'.at = "ended" /\ resultsPending' = {} /\ results' = [f \in Files |-> NoResult]
    PROVE  QueueInv'
<1>0. ManagerTypes /\ HandlerTypes /\ OnePerFile /\ PendingInStep /\ WaitsBehind /\ FileOpen
  BY DEF QueueInv
<1>1. /\ \A f \in Files : (InQueue(f)' <=> InQueue(f)) /\ (Doing(f)' <=> Doing(f))
      /\ events' \in Seq(Events) /\ OnePerFile'
      /\ events' = events \/ (events' # << >> /\ events'[Len(events')].type # "operation")
  <2>1. CASE events' = events
    BY <1>0, <2>1 DEF InQueue, Doing, OnePerFile, ManagerTypes
  <2>2. CASE events' = Append(events, Finish)
    BY <1>0, <2>2, OtherQueued
  <2> QED
    BY <2>1, <2>2 DEF Finished
<1>2. resultsPending' \subseteq Files /\ results' \in [Files -> Nat]
  BY <1>0 DEF ManagerTypes, NoResult
<1>3. \A f \in Files : HasOperation(f)' => HasOperation(f)
  BY DEF HasOperation, HasResult, NoResult
<1>4. ManagerTypes'
  BY <1>0, <1>1, <1>2 DEF ManagerTypes
<1>5. FileOpen'
  BY <1>0, <1>1, <1>3 DEF FileOpen
<1>6. PendingInStep'
  BY <1>0, <1>1 DEF PendingInStep, HasResult
<1>7. WaitsBehind'
  BY <1>0, <1>1 DEF WaitsBehind, Waiting
<1> QED
  BY <1>1, <1>4, <1>5, <1>6, <1>7 DEF QueueInv

LEMMA WakeStep ==
    ASSUME QueueInv, WakeManager, UNCHANGED <<kernelVars, cpu>>
    PROVE  QueueInv'
<1>1. UNCHANGED <<coreState, cpu>>
  BY DEF WakeManager
<1>2. HandlerTypes'
  BY <1>1 DEF QueueInv, HandlerTypes
<1> QED
  BY <1>2, FinishedStep DEF WakeManager, kernelVars

LEMMA ManagerQueueStep ==
    ASSUME QueueInv, ManagerStep
    PROVE  QueueInv'
BY EnterStep, StartStep, ProcessStep, ResultStep, NextEventStep, DrainedStep, PowerDownStep, WakeStep
   DEF ManagerStep, WorkerStep

----------------------------------------------------------------------------
(* The records of a file and of a thread                                   *)
LEMMA FileRecordFacts ==
    /\ Closed \in FileRecords /\ Opened \in FileRecords /\ Opened.open
    /\ \A node \in FileRecords, op \in Nat :
          LET to == SchedAsync(node, op) IN
          /\ to \in FileRecords /\ to.open = node.open
          /\ to.pendingAsyncResult /\ ~to.hasAsyncResult /\ to.asyncOp = op
          /\ to.asyncResult = node.asyncResult /\ to.closePending = node.closePending
          /\ to.waitingThreads = node.waitingThreads
<1>1. Closed \in FileRecords
  BY DEF Closed, FileRecords, Failure
<1>2. Opened \in FileRecords /\ Opened.open
  BY <1>1 DEF Opened, FileRecords, Closed
<1>3. ASSUME NEW node \in FileRecords, NEW op \in Nat, NEW to, to = SchedAsync(node, op)
      PROVE  /\ to \in FileRecords /\ to.open = node.open
             /\ to.pendingAsyncResult /\ ~to.hasAsyncResult /\ to.asyncOp = op
             /\ to.asyncResult = node.asyncResult /\ to.closePending = node.closePending
             /\ to.waitingThreads = node.waitingThreads
  BY <1>3 DEF SchedAsync, FileRecords
<1> QED
  BY <1>1, <1>2, <1>3

LEMMA ThreadRecordFacts ==
    /\ \A op \in Nat, result \in Nat : Awake(op, result) \in ThreadRecords
          /\ Awake(op, result).waits = "none" /\ Awake(op, result).op = op /\ Awake(op, result).result = result
    /\ \A type \in {"io", "async"}, f \in Files, op \in Nat : WaitsIn(type, f, op) \in ThreadRecords
          /\ WaitsIn(type, f, op).waits = type /\ WaitsIn(type, f, op).file = f /\ WaitsIn(type, f, op).op = op
    /\ InGuest.at = "guest"
    /\ Failure \in Nat
BY DEF Awake, WaitsIn, InGuest, ThreadRecords, Failure

Typed == QueueInv /\ CallTypes

LEMMA TypedFacts ==
    ASSUME Typed
    PROVE  /\ QueueInv /\ file \in [Files -> FileRecords] /\ thread \in [Threads -> ThreadRecords]
           /\ asyncNotify \subseteq Files /\ syncNotify \in [Files -> SUBSET Threads]
           /\ issued \in [Files -> Nat] /\ applied \in [Files -> Nat] /\ results \in [Files -> Nat]
           /\ \A f \in Files : /\ file[f] \in FileRecords /\ file[f].open \in BOOLEAN /\ file[f].asyncOp \in Nat
                               /\ file[f].asyncResult \in Nat /\ file[f].waitingThreads \in Seq(Threads)
           /\ \A t \in Threads : thread[t] \in ThreadRecords /\ thread[t].op \in Nat
           /\ drain \in {"nobody", "waiting", "notified"}
BY DEF Typed, QueueInv, ManagerTypes, CallTypes, FileRecords, ThreadRecords

(* Calls that leave the worker alone                                       *)
LEMMA UntouchedQueue ==
    ASSUME QueueInv, UNCHANGED <<managerVars, issued, cpu>>, cpu.at # "ended",
           \A f \in Files : file'[f].open = file[f].open
    PROVE  QueueInv'
<1>1. HandlerTypes' /\ WaitsBehind'
  BY DEF QueueInv, HandlerTypes, WaitsBehind, managerVars, queueVars
<1> QED
  BY <1>1, KeptStep

LEMMA OpenedTyped ==
    ASSUME Typed, NEW f \in Files, NEW node \in FileRecords, OpenedAs(f, node), node.open,
           UNCHANGED <<queueVars, resultsPending, results, worker, timing, thread, syncNotify, cpu>>,
           asyncNotify' \subseteq Files
    PROVE  Typed'
<1>0. QueueInv /\ file \in [Files -> FileRecords] /\ issued \in [Files -> Nat] /\ applied \in [Files -> Nat]
  BY TypedFacts
<1>1. cpu.at = "guest" /\ ~file[f].open
  BY DEF OpenedAs, InGuestCode
<1>2. ~InQueue(f) /\ ~Doing(f)
  BY <1>0, <1>1 DEF QueueInv, FileOpen
<1>3. file' \in [Files -> FileRecords] /\ file'[f] = node /\ \A g \in Files \ {f} : file'[g] = file[g]
  BY <1>0 DEF OpenedAs
<1>4. issued' \in [Files -> Nat] /\ applied' \in [Files -> Nat] /\ issued'[f] = 0 /\ applied'[f] = 0
      /\ \A g \in Files \ {f} : issued'[g] = issued[g] /\ applied'[g] = applied[g]
  BY <1>0 DEF OpenedAs
<1>5. HandlerTypes' /\ cpu'.at = "guest"
  BY <1>0, <1>1 DEF QueueInv, HandlerTypes
<1>6. QueueInv'
  BY <1>0, <1>1, <1>2, <1>3, <1>4, <1>5, NumbersChange
<1>7. CallTypes'
  BY <1>3 DEF Typed, CallTypes
<1> QED
  BY <1>6, <1>7 DEF Typed

LEMMA OpenTyped ==
    ASSUME Typed, NEW f \in Files, Open(f) \/ \E found \in BOOLEAN : OpenAsync(f, found)
    PROVE  Typed'
<1>1. CASE Open(f)
  BY <1>1, OpenedTyped, FileRecordFacts DEF Open, Typed, CallTypes
<1>2. ASSUME NEW found \in BOOLEAN, OpenAsync(f, found)
      PROVE  Typed'
  <2>1. PICK to \in FileRecords : to = SchedAsync(Opened, Failure) /\ to.open
    BY FileRecordFacts, ThreadRecordFacts
  <2>2. PICK node : node = [to EXCEPT !.closePending = ~found]
    OBVIOUS
  <2>3. node \in FileRecords /\ node.open
    BY <2>1, <2>2 DEF FileRecords
  <2>4. OpenedAs(f, node) /\ asyncNotify' = asyncNotify \cup {f}
        /\ UNCHANGED <<queueVars, resultsPending, results, worker, timing, thread, syncNotify, cpu>>
    BY <1>2, <2>1, <2>2 DEF OpenAsync
  <2> QED
    BY <2>3, <2>4, OpenedTyped DEF Typed, CallTypes
<1> QED
  BY <1>1, <1>2

(* A call that has to do what the worker is asked to do first              *)
LEMMA SyncFirstTyped ==
    ASSUME Typed, NEW f \in Files, NEW t \in Threads, NEW h \in {"read", "read async"}, InGuestCode, SyncFirst(f, h, t)
    PROVE  Typed'
<1>0. QueueInv /\ CallTypes /\ drain \in {"nobody", "waiting", "notified"}
  BY TypedFacts DEF Typed
<1>1. UNCHANGED <<coreState, ioManagerThreadEnabled, eventsRunning, eventsHaveRun, resultsPending, results, worker, applied,
                  timing, file, issued, thread, asyncNotify, syncNotify>>
  BY DEF SyncFirst, kernelVars
<1>2. cpu'.at = h /\ cpu'.file = f /\ cpu'.thread = t
  <2>1. cpu' = In(h, f, t)
    BY DEF SyncFirst
  <2> QED
    BY <2>1 DEF In
<1>3. HandlerTypes'
  BY <1>2 DEF HandlerTypes, Draining, Waiting
<1>4. CallTypes'
  BY <1>0, <1>1, <1>2 DEF CallTypes
<1>5. CASE ioManagerThreadEnabled
  <2>1. SyncThread
    BY <1>5 DEF SyncFirst
  <2>2. events' = Append(events, Sync) /\ drain' \in {"nobody", "waiting", "notified"}
    BY <2>1 DEF SyncThread
  <2> QED
    BY <1>0, <1>1, <1>3, <1>4, <2>2, SyncStep DEF InGuestCode, Typed
<1>6. CASE ~ioManagerThreadEnabled
  <2>1. UNCHANGED <<events, drain>>
    BY <1>6 DEF SyncFirst
  <2>3. WaitsBehind'
    BY <1>2 DEF WaitsBehind, Waiting
  <2>4. QueueInv'
    BY <1>0, <1>1, <1>3, <2>1, <2>3, KeptStep DEF InGuestCode, managerVars, queueVars
  <2> QED
    BY <1>4, <2>4 DEF Typed
<1> QED
  BY <1>5, <1>6

LEMMA ReadTyped ==
    ASSUME Typed, NEW t \in Threads, NEW f \in Files, Read(t, f) \/ ReadAsync(t, f)
    PROVE  Typed'
<1>0. QueueInv /\ CallTypes /\ file \in [Files -> FileRecords] /\ thread \in [Threads -> ThreadRecords]
      /\ issued \in [Files -> Nat]
  BY TypedFacts DEF Typed
<1>1. Calls(t, f) /\ InGuestCode /\ cpu.at = "guest" /\ file[f].open
  BY DEF Read, ReadAsync, Calls, InGuestCode
<1>2. CASE SyncFirst(f, "read", t) \/ SyncFirst(f, "read async", t)
  BY <1>1, <1>2, SyncFirstTyped
<1>3. ASSUME Defer(f), \A g \in Files : file'[g].open = file[g].open
      PROVE  QueueInv' /\ issued'[f] \in Nat /\ cpu' = cpu
  <2>1. QueueInv' /\ cpu' = cpu
    BY <1>0, <1>1, <1>3, DeferStep DEF Defer
  <2>2. issued'[f] \in Nat
    BY <2>1 DEF QueueInv, ManagerTypes
  <2> QED
    BY <2>1, <2>2
<1>4. CASE /\ Defer(f)
           /\ thread' = [thread EXCEPT ![t] = WaitsIn("io", f, issued'[f])]
           /\ syncNotify' = [syncNotify EXCEPT ![f] = @ \cup {t}]
           /\ UNCHANGED <<file, asyncNotify>>
  <2>1. QueueInv' /\ issued'[f] \in Nat /\ cpu' = cpu
    BY <1>3, <1>4
  <2>2. WaitsIn("io", f, issued'[f]) \in ThreadRecords
    BY <2>1, ThreadRecordFacts
  <2>3. CallTypes'
    BY <1>0, <1>4, <2>1, <2>2 DEF CallTypes
  <2> QED
    BY <2>1, <2>3 DEF Typed
<1>5. CASE /\ Defer(f)
           /\ file' = [file EXCEPT ![f] = SchedAsync(@, issued'[f])]
           /\ asyncNotify' = asyncNotify \cup {f}
           /\ UNCHANGED <<thread, syncNotify>>
  <2>1. issued'[f] \in Nat
    BY <1>0, <1>5 DEF Defer
  <2>2. PICK to : to = SchedAsync(file[f], issued'[f])
    OBVIOUS
  <2>3. to \in FileRecords /\ to.open = file[f].open
    BY <1>0, <2>1, <2>2, FileRecordFacts
  <2>4. file' = [file EXCEPT ![f] = to]
    BY <1>5, <2>2
  <2>5. file' \in [Files -> FileRecords] /\ \A g \in Files : file'[g].open = file[g].open
    BY <1>0, <2>3, <2>4
  <2>6. QueueInv' /\ cpu' = cpu
    BY <1>3, <1>5, <2>5
  <2>7. CallTypes'
    BY <1>0, <1>5, <2>5, <2>6 DEF CallTypes
  <2> QED
    BY <2>6, <2>7 DEF Typed
<1> QED
  BY <1>2, <1>4, <1>5 DEF Read, ReadAsync

LEMMA SeekTyped ==
    ASSUME Typed, NEW t \in Threads, NEW f \in Files, Lseek(t, f) \/ LseekAsync(t, f)
    PROVE  Typed'
<1>0. QueueInv /\ CallTypes /\ file \in [Files -> FileRecords] /\ issued \in [Files -> Nat]
  BY TypedFacts DEF Typed
<1>1. InGuestCode /\ cpu.at = "guest"
  BY DEF Lseek, LseekAsync, Calls, InGuestCode
<1>2. CASE SyncFirst(f, "read", t) \/ SyncFirst(f, "read async", t)
  BY <1>1, <1>2, SyncFirstTyped
<1>3. ASSUME ~HasOperation(f), DoneHere(f), UNCHANGED <<queueVars, resultsPending, results, worker, cpu>>,
             \A g \in Files : file'[g].open = file[g].open
      PROVE  QueueInv'
  <2>1. HandlerTypes' /\ cpu'.at = "guest" /\ cpu.at # "ended"
    BY <1>0, <1>1, <1>3 DEF QueueInv, HandlerTypes
  <2> QED
    BY <1>0, <1>3, <2>1, DoneHereStep
<1>4. CASE /\ ~HasOperation(f) /\ DoneHere(f)
           /\ UNCHANGED <<queueVars, resultsPending, results, worker,
                          timing, file, thread, asyncNotify, syncNotify, cpu>>
  <2>1. QueueInv'
    BY <1>3, <1>4
  <2>2. CallTypes'
    BY <1>0, <1>4 DEF CallTypes
  <2> QED
    BY <2>1, <2>2 DEF Typed
<1>5. CASE /\ ~HasOperation(f) /\ DoneHere(f)
           /\ file' = [file EXCEPT ![f] = [SchedAsync(@, issued'[f]) EXCEPT !.asyncResult = issued'[f]]]
           /\ asyncNotify' = asyncNotify \cup {f}
           /\ UNCHANGED <<queueVars, resultsPending, results, worker, timing, thread, syncNotify, cpu>>
  <2>1. issued'[f] \in Nat
    BY <1>0, <1>5 DEF DoneHere
  <2>2. PICK to : to = SchedAsync(file[f], issued'[f])
    OBVIOUS
  <2>3. to \in FileRecords /\ to.open = file[f].open
    BY <1>0, <2>1, <2>2, FileRecordFacts
  <2>4. PICK node : node = [to EXCEPT !.asyncResult = issued'[f]]
    OBVIOUS
  <2>5. node \in FileRecords /\ node.open = file[f].open
    BY <2>1, <2>3, <2>4 DEF FileRecords
  <2>6. file' = [file EXCEPT ![f] = node]
    BY <1>5, <2>2, <2>4
  <2>7. file' \in [Files -> FileRecords] /\ \A g \in Files : file'[g].open = file[g].open
    BY <1>0, <2>5, <2>6
  <2>8. QueueInv'
    BY <1>3, <1>5, <2>7
  <2>9. CallTypes'
    BY <1>0, <1>5, <2>7 DEF CallTypes
  <2> QED
    BY <2>8, <2>9 DEF Typed
<1> QED
  BY <1>2, <1>4, <1>5 DEF Lseek, LseekAsync

LEMMA ReadHereTyped ==
    ASSUME Typed, ReadHere
    PROVE  Typed'
<1>0. QueueInv /\ CallTypes /\ file \in [Files -> FileRecords] /\ thread \in [Threads -> ThreadRecords]
      /\ issued \in [Files -> Nat]
  BY TypedFacts DEF Typed
<1>1. PICK f \in Files : f = cpu.file
  BY <1>0 DEF ReadHere, QueueInv, HandlerTypes
<1>2. PICK n \in Nat : n = issued'[f]
  <2>1. issued' = [issued EXCEPT ![f] = @ + 1]
    BY <1>1 DEF ReadHere, DoneHere
  <2>2. issued'[f] \in Nat
    BY <1>0, <2>1
  <2> QED
    BY <2>2
<1>3. /\ cpu.at \in {"read", "read async"} /\ drain = "nobody" /\ DoneHere(f) /\ cpu' = InGuest
      /\ UNCHANGED <<queueVars, resultsPending, results, worker, timing, syncNotify>>
  BY <1>1 DEF ReadHere
<1>5. cpu'.at = "guest" /\ HandlerTypes' /\ cpu.at # "ended"
  BY <1>3, ThreadRecordFacts DEF HandlerTypes, Waiting
<1>6. CASE /\ thread' = [thread EXCEPT ![cpu.thread] = Awake(n, n)]
           /\ UNCHANGED <<file, asyncNotify>>
  <2>1. QueueInv'
    BY <1>0, <1>3, <1>5, <1>6, DoneHereStep
  <2>2. Awake(n, n) \in ThreadRecords
    BY ThreadRecordFacts
  <2>3. CallTypes'
    BY <1>0, <1>3, <1>5, <1>6, <2>2 DEF CallTypes
  <2> QED
    BY <2>1, <2>3 DEF Typed
<1>7. CASE /\ file' = [file EXCEPT ![f] = [SchedAsync(@, n) EXCEPT !.asyncResult = n]]
           /\ asyncNotify' = asyncNotify \cup {f}
           /\ UNCHANGED thread
  <2>1. PICK to : to = SchedAsync(file[f], n)
    OBVIOUS
  <2>2. to \in FileRecords /\ to.open = file[f].open
    BY <1>0, <2>1, FileRecordFacts
  <2>3. PICK node : node = [to EXCEPT !.asyncResult = n]
    OBVIOUS
  <2>4. node \in FileRecords /\ node.open = file[f].open
    BY <2>2, <2>3 DEF FileRecords
  <2>5. file' = [file EXCEPT ![f] = node]
    BY <1>7, <2>1, <2>3
  <2>6. file' \in [Files -> FileRecords] /\ \A g \in Files : file'[g].open = file[g].open
    BY <1>0, <2>4, <2>5
  <2>7. QueueInv'
    BY <1>0, <1>3, <1>5, <2>6, DoneHereStep
  <2>8. CallTypes'
    BY <1>0, <1>3, <1>5, <1>7, <2>6 DEF CallTypes
  <2> QED
    BY <2>7, <2>8 DEF Typed
<1> QED
  BY <1>1, <1>2, <1>6, <1>7 DEF ReadHere

LEMMA CloseAsyncTyped ==
    ASSUME Typed, NEW t \in Threads, NEW f \in Files, CloseAsync(t, f)
    PROVE  Typed'
<1>0. QueueInv /\ CallTypes /\ file \in [Files -> FileRecords] /\ Failure \in Nat
  BY TypedFacts, ThreadRecordFacts DEF Typed
<1>1. PICK to : to = SchedAsync(file[f], Failure)
  OBVIOUS
<1>2. to \in FileRecords /\ to.open = file[f].open
  BY <1>0, <1>1, FileRecordFacts
<1>3. PICK node : node = [to EXCEPT !.closePending = TRUE, !.asyncResult = Failure]
  OBVIOUS
<1>4. node \in FileRecords /\ node.open = file[f].open
  BY <1>0, <1>2, <1>3 DEF FileRecords
<1>5. file' = [file EXCEPT ![f] = node] /\ UNCHANGED <<managerVars, issued, thread, syncNotify, cpu>>
      /\ asyncNotify' = asyncNotify \cup {f} /\ cpu.at # "ended"
  BY <1>1, <1>3 DEF CloseAsync, Calls, InGuestCode
<1>6. file' \in [Files -> FileRecords] /\ \A g \in Files : file'[g].open = file[g].open
  BY <1>0, <1>4, <1>5
<1>7. QueueInv'
  BY <1>0, <1>5, <1>6, UntouchedQueue
<1>8. CallTypes'
  BY <1>0, <1>5, <1>6 DEF CallTypes
<1> QED
  BY <1>7, <1>8 DEF Typed

(* Handlers that wait for a result                                         *)
LEMMA WaitResultTyped ==
    ASSUME Typed, cpu.at \in {"guest", "close"}, NEW f \in Files, NEW h \in Waiting, NEW t, h = "sync notify" => t \in Threads,
           WaitResult(h, f, t), UNCHANGED issued,
           file' \in [Files -> FileRecords], \A g \in Files : file'[g].open = file[g].open,
           thread' \in [Threads -> ThreadRecords], asyncNotify' \subseteq Files, syncNotify' \in [Files -> SUBSET Threads]
    PROVE  Typed'
<1>1. cpu'.at = h /\ cpu'.file = f /\ cpu'.thread = t
  <2>1. cpu' = In(h, f, t)
    BY DEF WaitResult
  <2> QED
    BY <2>1 DEF In
<1>2. HandlerTypes' /\ cpu'.at \notin Draining
  BY <1>1 DEF HandlerTypes, Waiting, Draining
<1>3. CallTypes'
  BY <1>1 DEF CallTypes, Waiting
<1>4. drain' \in {"nobody", "waiting", "notified"}
  BY TypedFacts DEF WaitResult
<1>5. QueueInv'
  BY <1>2, <1>4, SyncStep DEF WaitResult, Typed
<1> QED
  BY <1>3, <1>5 DEF Typed

LEMMA FreeFdTyped ==
    ASSUME Typed, cpu.at \in {"guest", "close"}, NEW f \in Files, NEW threads \in [Threads -> ThreadRecords],
           FreeFd(f, threads), UNCHANGED issued,
           file' \in [Files -> FileRecords], \A g \in Files : file'[g].open = file[g].open
    PROVE  Typed'
<1>1. /\ asyncNotify' \subseteq Files /\ syncNotify' \in [Files -> SUBSET Threads]
  BY TypedFacts DEF FreeFd
<1>2. Awake(Failure, Failure) \in ThreadRecords
  BY ThreadRecordFacts
<1>3. thread' \in [Threads -> ThreadRecords]
  BY <1>2 DEF FreeFd
<1> QED
  BY <1>1, <1>3, WaitResultTyped DEF FreeFd, Waiting

LEMMA CloseTyped ==
    ASSUME Typed, (\E t \in Threads, f \in Files : Close(t, f)) \/ CloseNotified
    PROVE  Typed'
<1>0. QueueInv /\ file \in [Files -> FileRecords] /\ thread \in [Threads -> ThreadRecords]
  BY TypedFacts
<1>1. PICK f \in Files : FreeFd(f, thread) /\ UNCHANGED <<file, issued>> /\ cpu.at \in {"guest", "close"}
  BY <1>0 DEF Close, CloseNotified, Calls, InGuestCode, QueueInv, HandlerTypes
<1> QED
  BY <1>0, <1>1, FreeFdTyped

LEMMA TakeTyped ==
    ASSUME Typed, NEW t \in Threads, NEW f \in Files, TakeAsyncResult(t, f)
    PROVE  Typed'
<1>0. QueueInv /\ CallTypes /\ file \in [Files -> FileRecords] /\ thread \in [Threads -> ThreadRecords]
      /\ file[f].asyncOp \in Nat /\ file[f].asyncResult \in Nat
  BY TypedFacts DEF Typed
<1>1. PICK taken : taken = [thread EXCEPT ![t] = Awake(file[f].asyncOp, file[f].asyncResult)]
  OBVIOUS
<1>2. Awake(file[f].asyncOp, file[f].asyncResult) \in ThreadRecords
  BY <1>0, ThreadRecordFacts
<1>3. taken \in [Threads -> ThreadRecords]
  BY <1>0, <1>1, <1>2
<1>4. file' = [file EXCEPT ![f].hasAsyncResult = FALSE] /\ UNCHANGED issued /\ cpu.at = "guest"
  BY DEF TakeAsyncResult, Calls, InGuestCode
<1>5. file' \in [Files -> FileRecords] /\ \A g \in Files : file'[g].open = file[g].open
  <2>1. PICK node : node = [file[f] EXCEPT !.hasAsyncResult = FALSE]
    OBVIOUS
  <2>2. node \in FileRecords /\ node.open = file[f].open
    BY <1>0, <2>1 DEF FileRecords
  <2>3. file' = [file EXCEPT ![f] = node]
    BY <1>4, <2>1
  <2> QED
    BY <1>0, <2>2, <2>3
<1>6. CASE FreeFd(f, taken)
  BY <1>3, <1>4, <1>5, <1>6, FreeFdTyped
<1>7. CASE thread' = taken /\ UNCHANGED <<managerVars, asyncNotify, syncNotify, cpu>>
  <2>1. QueueInv'
    BY <1>0, <1>4, <1>5, <1>7, UntouchedQueue
  <2>2. CallTypes'
    BY <1>0, <1>3, <1>5, <1>7 DEF CallTypes
  <2> QED
    BY <2>1, <2>2 DEF Typed
<1> QED
  BY <1>1, <1>6, <1>7 DEF TakeAsyncResult

LEMMA WaitTyped ==
    ASSUME Typed, NEW t \in Threads, (\E f \in Files : WaitAsync(t, f)) \/ ReleaseWaitThread(t)
    PROVE  Typed'
<1>0. QueueInv /\ CallTypes /\ file \in [Files -> FileRecords] /\ thread \in [Threads -> ThreadRecords]
  BY TypedFacts DEF Typed
<1>1. ASSUME UNCHANGED <<managerVars, issued, asyncNotify, syncNotify, cpu>>, cpu.at = "guest",
             file' \in [Files -> FileRecords], \A g \in Files : file'[g].open = file[g].open,
             NEW record \in ThreadRecords, thread' = [thread EXCEPT ![t] = record]
      PROVE  Typed'
  <2>1. QueueInv'
    BY <1>0, <1>1, UntouchedQueue
  <2>2. CallTypes'
    BY <1>0, <1>1 DEF CallTypes
  <2> QED
    BY <2>1, <2>2 DEF Typed
<1>2. ASSUME NEW f \in Files, WaitAsync(t, f)
      PROVE  Typed'
  <2>1. PICK node : node = [file[f] EXCEPT !.waitingThreads = Append(@, t)]
    OBVIOUS
  <2>2. Append(file[f].waitingThreads, t) \in Seq(Threads)
    BY <1>0 DEF FileRecords
  <2>3. node \in FileRecords /\ node.open = file[f].open
    BY <1>0, <2>1, <2>2 DEF FileRecords
  <2>4. file' = [file EXCEPT ![f] = node]
    BY <1>2, <2>1 DEF WaitAsync
  <2>5. file' \in [Files -> FileRecords] /\ \A g \in Files : file'[g].open = file[g].open
    BY <1>0, <2>3, <2>4
  <2>6. WaitsIn("async", f, file[f].asyncOp) \in ThreadRecords
    BY <1>0, ThreadRecordFacts, TypedFacts
  <2>7. /\ UNCHANGED <<managerVars, issued, asyncNotify, syncNotify, cpu>> /\ cpu.at = "guest"
        /\ thread' = [thread EXCEPT ![t] = WaitsIn("async", f, file[f].asyncOp)]
    BY <1>2 DEF WaitAsync, Calls, InGuestCode
  <2> QED
    BY <1>1, <2>5, <2>6, <2>7
<1>3. CASE ReleaseWaitThread(t)
  BY <1>0, <1>1, <1>3, ThreadRecordFacts DEF ReleaseWaitThread
<1> QED
  BY <1>2, <1>3

LEMMA NotifyTyped ==
    ASSUME Typed, Notify
    PROVE  Typed'
<1>0. file \in [Files -> FileRecords] /\ thread \in [Threads -> ThreadRecords]
      /\ asyncNotify \subseteq Files /\ syncNotify \in [Files -> SUBSET Threads]
  BY TypedFacts
<1>1. ASSUME NEW f \in Files, AsyncNotify(f)
      PROVE  Typed'
  <2>1. asyncNotify' \subseteq Files
    BY <1>0, <1>1 DEF AsyncNotify
  <2> QED
    BY <1>0, <1>1, <2>1, WaitResultTyped DEF AsyncNotify, Waiting
<1>2. ASSUME NEW f \in Files, NEW t \in syncNotify[f], SyncNotify(t, f)
      PROVE  Typed'
  <2>1. PICK node : node = [file[f] EXCEPT !.pendingAsyncResult = FALSE, !.hasAsyncResult = FALSE]
    OBVIOUS
  <2>2. node \in FileRecords /\ node.open = file[f].open
    BY <1>0, <2>1 DEF FileRecords
  <2>3. file' = [file EXCEPT ![f] = node]
    <3>1. file' = [file EXCEPT ![f].pendingAsyncResult = FALSE, ![f].hasAsyncResult = FALSE]
      BY <1>2 DEF SyncNotify
    <3> QED
      BY <1>0, <2>1, <3>1
  <2>4. file' \in [Files -> FileRecords] /\ \A g \in Files : file'[g].open = file[g].open
    BY <1>0, <2>2, <2>3
  <2>5. t \in Threads /\ syncNotify' \in [Files -> SUBSET Threads]
    BY <1>0, <1>2 DEF SyncNotify
  <2> QED
    BY <1>0, <1>2, <2>4, <2>5, WaitResultTyped DEF SyncNotify, Waiting
<1>3. \A f \in Files : \A t : SyncNotify(t, f) => t \in syncNotify[f]
  BY DEF SyncNotify
<1> QED
  BY <1>1, <1>2, <1>3 DEF Notify

LEMMA FreedTyped ==
    ASSUME Typed, Freed
    PROVE  Typed'
<1>0. QueueInv /\ CallTypes /\ file \in [Files -> FileRecords]
  BY TypedFacts DEF Typed
<1>1. PICK f \in Files : f = cpu.file
  BY <1>0 DEF Freed, QueueInv, HandlerTypes, Waiting
<1>2. /\ cpu.at \in Waiting /\ WaitIsOver(f) /\ PopResult(f) /\ file' = [file EXCEPT ![f] = Closed] /\ cpu' = InGuest
      /\ UNCHANGED <<queueVars, worker, applied, timing, issued, thread, asyncNotify, syncNotify>>
  BY <1>1 DEF Freed, Waiting
<1>3. file' \in [Files -> FileRecords] /\ \A g \in Files \ {f} : file'[g].open = file[g].open
  BY <1>0, <1>2, FileRecordFacts
<1>4. cpu'.at = "guest" /\ HandlerTypes'
  BY <1>2, ThreadRecordFacts DEF HandlerTypes, Waiting
<1>5. QueueInv'
  BY <1>0, <1>2, <1>3, <1>4, PoppedStep
<1>6. CallTypes'
  BY <1>0, <1>2, <1>3, <1>4 DEF CallTypes
<1> QED
  BY <1>5, <1>6 DEF Typed

LEMMA SyncNotifiedEffect ==
    ASSUME Typed, SyncNotified
    PROVE  \E f \in Files, node \in FileRecords, t \in Threads, record \in ThreadRecords :
              /\ f = cpu.file /\ t = cpu.thread /\ cpu.at = "sync notify" /\ WaitIsOver(f) /\ PopResult(f)
              /\ node.open = file[f].open /\ node.asyncOp = file[f].asyncOp /\ node.asyncResult = file[f].asyncResult
              /\ ~node.pendingAsyncResult /\ ~node.hasAsyncResult
              /\ node.closePending = file[f].closePending /\ node.waitingThreads = file[f].waitingThreads
              /\ file' = [file EXCEPT ![f] = node]
              /\ record = IF WaitsFor(t, "io", f) THEN Awake(thread[t].op, results[f]) ELSE thread[t]
              /\ thread' = [thread EXCEPT ![t] = record]
              /\ cpu'.at = "guest"
              /\ UNCHANGED <<queueVars, worker, applied, timing, issued, asyncNotify, syncNotify>>
<1>0. QueueInv /\ CallTypes /\ file \in [Files -> FileRecords] /\ thread \in [Threads -> ThreadRecords]
      /\ results \in [Files -> Nat]
  BY TypedFacts DEF Typed
<1>1. PICK f \in Files, t \in Threads : f = cpu.file /\ t = cpu.thread
  BY <1>0 DEF SyncNotified, QueueInv, HandlerTypes, Waiting, CallTypes
<1>2. PICK node : node = [file[f] EXCEPT !.pendingAsyncResult = FALSE, !.hasAsyncResult = FALSE]
  OBVIOUS
<1>3. /\ node \in FileRecords
      /\ node.open = file[f].open /\ node.asyncOp = file[f].asyncOp /\ node.asyncResult = file[f].asyncResult
      /\ ~node.pendingAsyncResult /\ ~node.hasAsyncResult
      /\ node.closePending = file[f].closePending /\ node.waitingThreads = file[f].waitingThreads
  BY <1>0, <1>2 DEF FileRecords
<1>4. file' = [file EXCEPT ![f] = node]
  <2>1. file' = [file EXCEPT ![f].pendingAsyncResult = FALSE, ![f].hasAsyncResult = FALSE]
    BY <1>1 DEF SyncNotified
  <2> QED
    BY <1>0, <1>2, <2>1
<1>5. PICK record : record = IF WaitsFor(t, "io", f) THEN Awake(thread[t].op, results[f]) ELSE thread[t]
  OBVIOUS
<1>6. thread[t].op \in Nat /\ results[f] \in Nat
  BY <1>0, TypedFacts
<1>7. record \in ThreadRecords
  BY <1>0, <1>5, <1>6, ThreadRecordFacts
<1>8. thread' = [thread EXCEPT ![t] = record]
  BY <1>0, <1>1, <1>5 DEF SyncNotified
<1>9. /\ cpu.at = "sync notify" /\ WaitIsOver(f) /\ PopResult(f) /\ cpu' = InGuest
      /\ UNCHANGED <<queueVars, worker, applied, timing, issued, asyncNotify, syncNotify>>
  BY <1>1 DEF SyncNotified
<1>10. cpu'.at = "guest"
  BY <1>9, ThreadRecordFacts
<1> QED
  BY <1>1, <1>3, <1>4, <1>5, <1>7, <1>8, <1>9, <1>10

LEMMA SyncNotifiedTyped ==
    ASSUME Typed, SyncNotified
    PROVE  Typed'
<1>0. QueueInv /\ CallTypes /\ file \in [Files -> FileRecords] /\ thread \in [Threads -> ThreadRecords]
  BY TypedFacts DEF Typed
<1>1. PICK f \in Files, node \in FileRecords, t \in Threads, record \in ThreadRecords :
              /\ f = cpu.file /\ t = cpu.thread /\ cpu.at = "sync notify" /\ WaitIsOver(f) /\ PopResult(f)
              /\ node.open = file[f].open /\ node.asyncOp = file[f].asyncOp /\ node.asyncResult = file[f].asyncResult
              /\ ~node.pendingAsyncResult /\ ~node.hasAsyncResult
              /\ node.closePending = file[f].closePending /\ node.waitingThreads = file[f].waitingThreads
              /\ file' = [file EXCEPT ![f] = node]
              /\ record = IF WaitsFor(t, "io", f) THEN Awake(thread[t].op, results[f]) ELSE thread[t]
              /\ thread' = [thread EXCEPT ![t] = record]
              /\ cpu'.at = "guest"
              /\ UNCHANGED <<queueVars, worker, applied, timing, issued, asyncNotify, syncNotify>>
  BY SyncNotifiedEffect
<1>2. file' \in [Files -> FileRecords] /\ \A g \in Files \ {f} : file'[g].open = file[g].open
  BY <1>0, <1>1
<1>3. HandlerTypes' /\ cpu.at \in Waiting
  BY <1>1 DEF HandlerTypes, Waiting
<1>4. QueueInv'
  BY <1>0, <1>1, <1>2, <1>3, PoppedStep
<1>5. CallTypes'
  BY <1>0, <1>1, <1>2 DEF CallTypes
<1> QED
  BY <1>4, <1>5 DEF Typed

LEMMA AsyncNotifiedEffect ==
    ASSUME Typed, AsyncNotified
    PROVE  \E f \in Files, node \in FileRecords, woken \in SUBSET Threads :
              /\ f = cpu.file /\ cpu.at = "async notify" /\ WaitIsOver(f) /\ PopResult(f)
              /\ woken = {t \in Threads : file[f].waitingThreads # << >> /\ t = Head(file[f].waitingThreads)
                                          /\ WaitsFor(t, "async", f)}
              /\ node.open = file[f].open /\ node.asyncOp = file[f].asyncOp
              /\ node.asyncResult = (IF HasResult(f) THEN results[f] ELSE file[f].asyncResult)
              /\ ~node.pendingAsyncResult /\ node.hasAsyncResult = (woken = {})
              /\ node.waitingThreads = (IF file[f].waitingThreads = << >> THEN << >> ELSE Tail(file[f].waitingThreads))
              /\ file' = [file EXCEPT ![f] = node]
              /\ thread' = [t \in Threads |-> IF t \in woken THEN Awake(thread[t].op, node.asyncResult) ELSE thread[t]]
              /\ cpu' = (IF woken # {} /\ node.closePending THEN In("close", f, NoThread) ELSE InGuest)
              /\ UNCHANGED <<queueVars, worker, applied, timing, issued, asyncNotify, syncNotify>>
<1>0. QueueInv /\ CallTypes /\ file \in [Files -> FileRecords] /\ thread \in [Threads -> ThreadRecords]
      /\ results \in [Files -> Nat]
  BY TypedFacts DEF Typed
<1>1. PICK f \in Files : f = cpu.file
  BY <1>0 DEF AsyncNotified, QueueInv, HandlerTypes, Waiting
<1>2. PICK woken \in SUBSET Threads :
          woken = {t \in Threads : file[f].waitingThreads # << >> /\ t = Head(file[f].waitingThreads) /\ WaitsFor(t, "async", f)}
  OBVIOUS
<1>3. PICK result \in Nat : result = IF HasResult(f) THEN results[f] ELSE file[f].asyncResult
  BY <1>0, TypedFacts
<1>4. PICK behind \in Seq(Threads) :
          behind = IF file[f].waitingThreads = << >> THEN << >> ELSE Tail(file[f].waitingThreads)
  <2>1. file[f].waitingThreads \in Seq(Threads)
    BY TypedFacts
  <2>2. (IF file[f].waitingThreads = << >> THEN << >> ELSE Tail(file[f].waitingThreads)) \in Seq(Threads)
    BY <2>1
  <2> QED
    BY <2>2
<1>5. PICK node : node = [file[f] EXCEPT !.asyncResult = result,
                                     !.pendingAsyncResult = FALSE, !.hasAsyncResult = woken = {},
                                     !.waitingThreads = behind]
  OBVIOUS
<1>6. /\ node \in FileRecords
      /\ node.open = file[f].open /\ node.asyncOp = file[f].asyncOp /\ node.closePending = file[f].closePending
      /\ node.asyncResult = result /\ ~node.pendingAsyncResult
      /\ node.hasAsyncResult = (woken = {}) /\ node.waitingThreads = behind
  BY <1>0, <1>5 DEF FileRecords
<1>7. /\ cpu.at = "async notify" /\ WaitIsOver(f) /\ PopResult(f)
      /\ file' = [file EXCEPT ![f] = node]
      /\ thread' = [t \in Threads |-> IF t \in woken THEN Awake(thread[t].op, result) ELSE thread[t]]
      /\ cpu' = (IF woken # {} /\ file[f].closePending THEN In("close", f, NoThread) ELSE InGuest)
      /\ UNCHANGED <<queueVars, worker, applied, timing, issued, asyncNotify, syncNotify>>
  BY <1>1, <1>2, <1>3, <1>4, <1>5 DEF AsyncNotified
<1>8. thread' = [t \in Threads |-> IF t \in woken THEN Awake(thread[t].op, node.asyncResult) ELSE thread[t]]
       /\ cpu' = (IF woken # {} /\ node.closePending THEN In("close", f, NoThread) ELSE InGuest)
  BY <1>6, <1>7
<1> node \in FileRecords /\ woken \in SUBSET Threads
  BY <1>2, <1>6
<1> WITNESS f \in Files, node \in FileRecords, woken \in SUBSET Threads
<1> QED
  BY <1>1, <1>2, <1>3, <1>4, <1>6, <1>7, <1>8

LEMMA AsyncNotifiedTyped ==
    ASSUME Typed, AsyncNotified
    PROVE  Typed'
<1>0. QueueInv /\ CallTypes /\ file \in [Files -> FileRecords] /\ thread \in [Threads -> ThreadRecords]
  BY TypedFacts DEF Typed
<1>1. PICK f \in Files, node \in FileRecords, woken \in SUBSET Threads :
              /\ f = cpu.file /\ cpu.at = "async notify" /\ WaitIsOver(f) /\ PopResult(f)
              /\ woken = {t \in Threads : file[f].waitingThreads # << >> /\ t = Head(file[f].waitingThreads)
                                          /\ WaitsFor(t, "async", f)}
              /\ node.open = file[f].open /\ node.asyncOp = file[f].asyncOp
              /\ node.asyncResult = (IF HasResult(f) THEN results[f] ELSE file[f].asyncResult)
              /\ ~node.pendingAsyncResult /\ node.hasAsyncResult = (woken = {})
              /\ node.waitingThreads = (IF file[f].waitingThreads = << >> THEN << >> ELSE Tail(file[f].waitingThreads))
              /\ file' = [file EXCEPT ![f] = node]
              /\ thread' = [t \in Threads |-> IF t \in woken THEN Awake(thread[t].op, node.asyncResult) ELSE thread[t]]
              /\ cpu' = (IF woken # {} /\ node.closePending THEN In("close", f, NoThread) ELSE InGuest)
              /\ UNCHANGED <<queueVars, worker, applied, timing, issued, asyncNotify, syncNotify>>
  BY AsyncNotifiedEffect
<1>2. file' \in [Files -> FileRecords] /\ \A g \in Files \ {f} : file'[g].open = file[g].open
  BY <1>0, <1>1
<1>3. cpu' = InGuest \/ cpu' = In("close", f, NoThread)
  BY <1>1
<1>4. cpu'.at \in {"guest", "close"} /\ (cpu'.at = "close" => cpu'.file = f)
  BY <1>3 DEF InGuest, In
<1>5. HandlerTypes' /\ cpu.at \in Waiting
  BY <1>1, <1>4 DEF HandlerTypes, Waiting
<1>6. QueueInv'
  BY <1>0, <1>1, <1>2, <1>4, <1>5, PoppedStep
<1>7. thread' \in [Threads -> ThreadRecords]
  <2>1. node.asyncResult \in Nat
    BY DEF FileRecords
  <2>2. \A t \in Threads : Awake(thread[t].op, node.asyncResult) \in ThreadRecords
    BY <2>1, ThreadRecordFacts, TypedFacts
  <2> QED
    BY <1>0, <1>1, <2>2
<1>8. CallTypes'
  BY <1>0, <1>1, <1>2, <1>4, <1>7 DEF CallTypes
<1> QED
  BY <1>6, <1>8 DEF Typed

(* What is still to be done is in the queue or at the worker.              *)
LEMMA InQueueIsUndone == \A f \in Files : Undone(f) <=> InQueue(f) \/ Doing(f)
<1> SUFFICES ASSUME NEW f \in Files PROVE Undone(f) <=> InQueue(f) \/ Doing(f)
  OBVIOUS
<1>1. ASSUME NEW e \in Seqs!ToSet(events), IsOperation(e, f) PROVE InQueue(f)
  BY <1>1 DEF Seqs!ToSet, InQueue
<1>2. ASSUME NEW e \in AtWorker, IsOperation(e, f) PROVE Doing(f)
  BY <1>2 DEF AtWorker, Doing
<1>3. ASSUME InQueue(f) PROVE Undone(f)
  BY <1>3 DEF InQueue, Undone, IsOperation, Seqs!ToSet
<1>4. ASSUME Doing(f) PROVE Undone(f)
  BY <1>4 DEF Doing, Undone, IsOperation, AtWorker
<1> QED
  BY <1>1, <1>2, <1>3, <1>4 DEF Undone, IsOperation

(* The emulator's thread saves a state or shuts down                       *)
LEMMA PausingTyped ==
    ASSUME Typed, SaveState \/ Shutdown
    PROVE  Typed'
<1>0. QueueInv /\ CallTypes /\ drain \in {"nobody", "waiting", "notified"}
  BY TypedFacts DEF Typed
<1>1. /\ SyncThread \/ (events' = Append(events, Sync) /\ UNCHANGED drain)
      /\ cpu.at = "guest" /\ cpu'.at \in {"save", "shutdown"}
      /\ UNCHANGED <<coreState, ioManagerThreadEnabled, eventsRunning, eventsHaveRun,
                     resultsPending, results, worker, applied, file, issued, thread, asyncNotify, syncNotify>>
  BY DEF SaveState, Shutdown, In, InGuestCode, kernelVars
<1>2. events' = Append(events, Sync) /\ drain' \in {"nobody", "waiting", "notified"}
  BY <1>0, <1>1 DEF SyncThread
<1>4. HandlerTypes'
  <2>1. cpu'.at = "shutdown" => coreState = "powerdown"
    BY <1>1 DEF SaveState, Shutdown, In
  <2> QED
    BY <1>1, <2>1 DEF HandlerTypes, Waiting, Draining
<1>5. QueueInv'
  BY <1>0, <1>1, <1>2, <1>4, SyncStep
<1>6. CallTypes'
  BY <1>0, <1>1 DEF CallTypes
<1> QED
  BY <1>5, <1>6 DEF Typed

LEMMA SavedTyped ==
    ASSUME Typed, SavedAndLoaded, ~lost'
    PROVE  Typed'
<1>0. QueueInv /\ CallTypes
  BY DEF Typed
<1>1. /\ cpu.at = "save" /\ cpu'.at = "guest"
      /\ UNCHANGED <<coreState, ioManagerThreadEnabled, eventsRunning, eventsHaveRun, drain,
                     resultsPending, results, applied, file, issued, thread, asyncNotify, syncNotify>>
  BY DEF SavedAndLoaded, InGuest
<1>2. HandlerTypes' /\ WaitsBehind'
  BY <1>1 DEF HandlerTypes, WaitsBehind, Waiting, Draining
<1>3. CallTypes'
  BY <1>0, <1>1 DEF CallTypes
<1>4. CASE UNCHANGED <<events, worker>>
  <2>1. QueueInv'
    BY <1>0, <1>1, <1>2, <1>4, KeptStep DEF managerVars, queueVars
  <2> QED
    BY <1>3, <2>1 DEF Typed
<1>5. CASE /\ events' = << >>
           /\ worker' = IF AtWorker = {} THEN worker ELSE [worker EXCEPT !.at = "processed", !.event = Sync]
           /\ lost' = (lost \/ \E f \in Files : Undone(f))
  <2>1. \A f \in Files : /\ ~InQueue(f) /\ ~Doing(f) /\ ~InQueue(f)' /\ ~Doing(f)'
                         /\ (HasResult(f)' <=> HasResult(f)) /\ (HasOperation(f)' <=> HasOperation(f))
    <3>1. \A f \in Files : ~InQueue(f) /\ ~Doing(f)
      BY <1>5, InQueueIsUndone
    <3>2. \A f \in Files : ~InQueue(f)'
      <4>1. DOMAIN events' = {}
        BY <1>5
      <4> QED
        BY <4>1 DEF InQueue
    <3>3. \A f \in Files : ~Doing(f)'
      BY <1>5, <3>1 DEF Doing, AtWorker
    <3> QED
      BY <1>1, <3>1, <3>2, <3>3 DEF HasResult, HasOperation
  <2>2. ManagerTypes'
    <3>1. worker' \in [at : Places, event : Events, stop : BOOLEAN]
      BY <1>0, <1>5, NoOperation DEF QueueInv, ManagerTypes, Places
    <3>2. worker'.at = "answering" => worker'.event.type = "operation"
      BY <1>0, <1>5 DEF QueueInv, ManagerTypes, AtWorker
    <3>3. events' \in Seq(Events)
      BY <1>5
    <3> QED
      BY <1>0, <1>1, <3>1, <3>2, <3>3 DEF QueueInv, ManagerTypes
  <2>3. OnePerFile' /\ PendingInStep' /\ FileOpen'
    <3>1. OnePerFile'
      BY <2>1 DEF OnePerFile, InQueue
    <3>2. PendingInStep' /\ FileOpen'
      BY <1>0, <1>1, <2>1 DEF QueueInv, PendingInStep, FileOpen
    <3> QED
      BY <3>1, <3>2
  <2> QED
    BY <1>2, <1>3, <2>2, <2>3 DEF Typed, QueueInv
<1> QED
  BY <1>4, <1>5 DEF SavedAndLoaded

LEMMA ShutDownTyped ==
    ASSUME Typed, ShutDown
    PROVE  Typed'
<1>0. QueueInv /\ CallTypes
  BY DEF Typed
<1>1. /\ cpu'.at = "ended" /\ events' = Finished(events)
      /\ resultsPending' = {} /\ results' = [f \in Files |-> NoResult]
      /\ UNCHANGED <<coreState, ioManagerThreadEnabled, eventsRunning, eventsHaveRun, drain,
                     worker, applied, file, issued, thread, asyncNotify, syncNotify>>
  BY DEF ShutDown, In, kernelVars
<1>2. HandlerTypes' /\ ioManagerThreadEnabled' \in BOOLEAN /\ coreState # "running"
  BY <1>0, <1>1 DEF ShutDown, HandlerTypes, Waiting, Draining, QueueInv, ManagerTypes
<1>3. CallTypes'
  BY <1>0, <1>1 DEF CallTypes
<1>4. QueueInv'
  BY <1>0, <1>1, <1>2, FinishedStep
<1> QED
  BY <1>3, <1>4 DEF Typed

LEMMA TypedStep ==
    ASSUME Typed, [Next]_vars, ~lost'
    PROVE  Typed'
<1>1. CASE \E t \in Threads, f \in Files : Call(t, f)
  BY <1>1, ReadTyped, SeekTyped, CloseTyped, CloseAsyncTyped, TakeTyped, WaitTyped DEF Call
<1>2. CASE \E f \in Files : Open(f) \/ \E found \in BOOLEAN : OpenAsync(f, found)
  BY <1>2, OpenTyped
<1>3. CASE \E t \in Threads : ReleaseWaitThread(t)
  BY <1>3, WaitTyped
<1>4. CASE Continue
  BY <1>4, ReadHereTyped, FreedTyped, SyncNotifiedTyped, AsyncNotifiedTyped, CloseTyped, SavedTyped, ShutDownTyped
  DEF Continue
<1>5. CASE SaveState \/ Shutdown
  BY <1>5, PausingTyped
<1>6. CASE ManagerStep
  <2>1. QueueInv'
    BY <1>6, ManagerQueueStep DEF Typed
  <2>2. CallTypes'
    BY <1>6 DEF ManagerStep, kernelVars, Typed, CallTypes
  <2> QED
    BY <2>1, <2>2 DEF Typed
<1>7. CASE UNCHANGED vars
  <2> USE DEF vars, managerVars, queueVars, kernelVars
  <2>1. ManagerTypes' /\ HandlerTypes' /\ CallTypes'
    <3>1. ManagerTypes'
      BY <1>7 DEF Typed, QueueInv, ManagerTypes
    <3>2. HandlerTypes' /\ CallTypes'
      BY <1>7 DEF Typed, QueueInv, HandlerTypes, CallTypes
    <3> QED
      BY <3>1, <3>2
  <2>2. \A f \in Files : (InQueue(f)' <=> InQueue(f)) /\ (Doing(f)' <=> Doing(f))
                         /\ (HasResult(f)' <=> HasResult(f)) /\ (HasOperation(f)' <=> HasOperation(f))
    BY <1>7 DEF InQueue, Doing, HasResult, HasOperation
  <2>3. OnePerFile' /\ PendingInStep' /\ FileOpen'
    BY <1>7, <2>2 DEF Typed, QueueInv, OnePerFile, PendingInStep, FileOpen
  <2>4. WaitsBehind'
    BY <1>7 DEF Typed, QueueInv, WaitsBehind
  <2> QED
    BY <2>1, <2>3, <2>4 DEF Typed, QueueInv
<1> QED
  BY <1>1, <1>2, <1>3, <1>4, <1>5, <1>6, <1>7, NotifyTyped DEF Next

LEMMA InitialTypes == Init => Typed
<1> SUFFICES ASSUME Init PROVE CallTypes
  BY InitialQueue DEF Typed
<1>1. file \in [Files -> FileRecords] /\ thread \in [Threads -> ThreadRecords]
  BY FileRecordFacts, ThreadRecordFacts DEF Init
<1>2. asyncNotify \subseteq Files /\ syncNotify \in [Files -> SUBSET Threads] /\ cpu.at = "guest"
  BY DEF Init, InGuest
<1> QED
  BY <1>1, <1>2 DEF CallTypes

(* What was lost stays lost.                                               *)
LEMMA LostStays ==
    ASSUME [Next]_vars, lost
    PROVE  lost'
<1>1. CASE \E t \in Threads, f \in Files : Call(t, f)
  <2>1. PICK t \in Threads, f \in Files : Call(t, f)
    BY <1>1
  <2>2. CASE Read(t, f) \/ ReadAsync(t, f)
    BY <2>2 DEF Read, ReadAsync, Defer, SyncFirst, kernelVars
  <2>3. CASE Lseek(t, f) \/ LseekAsync(t, f)
    BY <2>3 DEF Lseek, LseekAsync, SyncFirst, kernelVars
  <2>4. CASE Close(t, f) \/ CloseAsync(t, f) \/ TakeAsyncResult(t, f) \/ WaitAsync(t, f)
    BY <2>4 DEF Close, CloseAsync, TakeAsyncResult, WaitAsync
  <2> QED
    BY <2>1, <2>2, <2>3, <2>4 DEF Call
<1>2. CASE \E f \in Files : Open(f) \/ \E found \in BOOLEAN : OpenAsync(f, found)
  BY <1>2 DEF Open, OpenAsync
<1>3. CASE (\E t \in Threads : ReleaseWaitThread(t)) \/ Notify
  BY <1>3 DEF ReleaseWaitThread, Notify, AsyncNotify, SyncNotify
<1>4. CASE Continue \/ SaveState \/ Shutdown
  BY <1>4 DEF Continue, ReadHere, Freed, SyncNotified, AsyncNotified, CloseNotified, SavedAndLoaded, ShutDown,
              SaveState, Shutdown, kernelVars
<1>5. CASE ManagerStep \/ UNCHANGED vars
  BY <1>5 DEF ManagerStep, vars, kernelVars
<1> QED
  BY <1>1, <1>2, <1>3, <1>4, <1>5 DEF Next

(* The worker never has anything to do for a file that was closed, and no  *)
(* result is left for one, since the call that closes a file (__IoFreeFd)  *)
(* waits for what is under way: whatever the guest does, in whichever of   *)
(* its rounds the worker is, until a state is saved without what was       *)
(* queued.                                                                 *)
THEOREM ClosedFilesTheorem == Spec => []ClosedFilesAreDone
<1> DEFINE Inv == lost \/ Typed
<1>1. Init => Inv
  BY InitialTypes
<1>2. Inv /\ [Next]_vars => Inv'
  BY TypedStep, LostStays
<1>3. Inv => ClosedFilesAreDone
  BY InQueueIsUndone DEF Typed, QueueInv, FileOpen, ClosedFilesAreDone
<1> QED
  BY <1>1, <1>2, <1>3, PTL DEF Spec

----------------------------------------------------------------------------
(* What the calls that are under way wait for                              *)
At(handler, f) == cpu.at = handler /\ cpu.file = f

(* The operation on f that is under way is the n-th.                       *)
Answers(f, n) ==
    /\ \A i \in DOMAIN events : IsOperation(events[i], f) => events[i].number = n
    /\ Doing(f) => worker.event.number = n
    /\ HasResult(f) => results[f] = n

SyncWaits(f) ==
    /\ \A t, u \in syncNotify[f] : t = u
    /\ syncNotify[f] # {} => HasOperation(f)
    /\ \A t \in Threads : WaitsFor(t, "io", f) =>
          /\ t \in syncNotify[f] \/ (At("sync notify", f) /\ t = cpu.thread)
          /\ HasOperation(f) /\ Answers(f, thread[t].op)
    /\ At("sync notify", f) => syncNotify[f] = {} /\ HasOperation(f)

(* Operations that are waited for and asynchronous ones are not mixed.     *)
Apart(f) ==
    /\ f \in asyncNotify \/ At("async notify", f) => file[f].pendingAsyncResult
    /\ asyncBusy(f) \/ At("close", f) => syncNotify[f] = {} /\ ~At("sync notify", f)
    /\ At("async notify", f) \/ At("free", f) => f \notin asyncNotify
    /\ At("free", f) => syncNotify[f] = {} /\ \A t \in Threads : ~WaitsFor(t, "async", f)

Owned(f) ==
    HasOperation(f) =>
        syncNotify[f] # {} \/ file[f].pendingAsyncResult \/ At("free", f) \/ At("sync notify", f)

AsyncWaits(f) ==
    /\ file[f].pendingAsyncResult =>
          IF HasOperation(f) THEN Answers(f, file[f].asyncOp) ELSE file[f].asyncResult = file[f].asyncOp
    /\ \A t \in Threads : WaitsFor(t, "async", f) =>
          /\ file[f].pendingAsyncResult /\ thread[t].op = file[f].asyncOp
          /\ file[f].waitingThreads = <<t>>
    /\ \/ At("free", f) \/ file[f].waitingThreads = << >>
       \/ \E t \in Threads : file[f].waitingThreads = <<t>> /\ WaitsFor(t, "async", f)

ClosedIsEmpty(f) == ~file[f].open => file[f] = Closed

CallsOf(f) == SyncWaits(f) /\ Apart(f) /\ Owned(f) /\ AsyncWaits(f) /\ ClosedIsEmpty(f)

CallerAwake == cpu.at # "read async" /\ (cpu.at = "read" => thread[cpu.thread].waits = "none")

(* What OwnResult says of calls when nothing was lost                      *)
OwnResults ==
    /\ \A t \in Threads : thread[t].waits = "none" => thread[t].result = thread[t].op
    /\ \A f \in Files : file[f].hasAsyncResult => file[f].asyncResult = file[f].asyncOp

ResultInv ==
    /\ Typed /\ OwnResults
    /\ cpu.at # "ended" => CallerAwake /\ \A f \in Files : CallsOf(f)

(* What a step does to a file it is not about                              *)
LEMMA SameCalls ==
    ASSUME NEW f \in Files, CallsOf(f),
           file'[f] = file[f], syncNotify'[f] = syncNotify[f], f \in asyncNotify' <=> f \in asyncNotify,
           HasOperation(f)' <=> HasOperation(f), \A n : Answers(f, n) => Answers(f, n)',
           \A h \in {"free", "close", "sync notify", "async notify"} : At(h, f)' <=> At(h, f),
           At("sync notify", f) => cpu'.thread = cpu.thread,
           \A t \in Threads : WaitsFor(t, "io", f)' => WaitsFor(t, "io", f) /\ thread'[t].op = thread[t].op,
           \A t \in Threads : WaitsFor(t, "async", f)' => WaitsFor(t, "async", f) /\ thread'[t].op = thread[t].op,
           \A t \in Threads : WaitsFor(t, "async", f) => WaitsFor(t, "async", f)'
    PROVE  CallsOf(f)'
<1>1. SyncWaits(f)'
  <2>1. ASSUME NEW t \in Threads, WaitsFor(t, "io", f)'
        PROVE  /\ t \in syncNotify'[f] \/ (At("sync notify", f)' /\ t = cpu'.thread)
               /\ HasOperation(f)' /\ Answers(f, thread[t].op)'
    <3>1. PICK m : m = thread[t].op
      OBVIOUS
    <3>2. thread'[t].op = m /\ Answers(f, m)'
      BY <2>1, <3>1 DEF CallsOf, SyncWaits
    <3>3. Answers(f, thread[t].op)'
      BY <3>2 DEF Answers
    <3> QED
      BY <2>1, <3>3 DEF CallsOf, SyncWaits
  <2>2. /\ \A t, u \in syncNotify'[f] : t = u
        /\ syncNotify'[f] # {} => HasOperation(f)'
        /\ At("sync notify", f)' => syncNotify'[f] = {} /\ HasOperation(f)'
    BY DEF CallsOf, SyncWaits
  <2> QED
    BY <2>1, <2>2 DEF SyncWaits
<1>2. Apart(f)' /\ Owned(f)' /\ ClosedIsEmpty(f)'
  BY DEF CallsOf, Apart, Owned, ClosedIsEmpty, asyncBusy
<1>3. AsyncWaits(f)'
  <2>1. file'[f].pendingAsyncResult =>
          IF HasOperation(f)' THEN Answers(f, file[f].asyncOp)' ELSE file'[f].asyncResult = file'[f].asyncOp
    <3>1. PICK m : m = file[f].asyncOp
      OBVIOUS
    <3>2. file[f].pendingAsyncResult /\ HasOperation(f) => file'[f].asyncOp = m /\ Answers(f, m)'
      BY <3>1 DEF CallsOf, AsyncWaits
    <3>3. file[f].pendingAsyncResult /\ HasOperation(f) => Answers(f, file[f].asyncOp)'
      BY <3>2 DEF Answers
    <3> QED
      BY <3>3 DEF CallsOf, AsyncWaits
  <2>2. \A t \in Threads : WaitsFor(t, "async", f)' =>
          /\ file'[f].pendingAsyncResult /\ thread'[t].op = file'[f].asyncOp
          /\ file'[f].waitingThreads = <<t>>
    BY DEF CallsOf, AsyncWaits
  <2>3. \/ At("free", f)' \/ file'[f].waitingThreads = << >>
        \/ \E t \in Threads : file'[f].waitingThreads = <<t>> /\ WaitsFor(t, "async", f)'
    BY DEF CallsOf, AsyncWaits
  <2> QED
    BY <2>1, <2>2, <2>3 DEF AsyncWaits
<1> QED
  BY <1>1, <1>2, <1>3 DEF CallsOf

(* An answer stays that of the operation, ...                              *)
LEMMA AnswersKept ==
    ASSUME UNCHANGED <<events, worker>>, NEW f \in Files, results'[f] = results[f], NEW n, Answers(f, n)
    PROVE  Answers(f, n)'
BY DEF Answers, Doing, HasResult

LEMMA AnswersBehind ==
    ASSUME Typed, NEW e \in {Sync, Finish}, events' = Append(events, e), UNCHANGED worker,
           NEW f \in Files, results'[f] = results[f], NEW n, Answers(f, n)
    PROVE  Answers(f, n)'
<1>1. \A i \in DOMAIN events' : IsOperation(events'[i], f) => i \in DOMAIN events /\ events'[i] = events[i]
  BY OtherQueued DEF Typed, QueueInv
<1> QED
  BY <1>1 DEF Answers, Doing, HasResult

LEMMA AnswersTaken ==
    ASSUME Typed, NEW stop, TakeEvent(stop), NEW f \in Files, results'[f] = results[f], NEW n, Answers(f, n)
    PROVE  Answers(f, n)'
<1>1. events # << >> /\ events' = Tail(events) /\ events \in Seq(Events)
  BY DEF TakeEvent, Typed, QueueInv, ManagerTypes
<1>2. /\ \A i \in DOMAIN events' : i + 1 \in DOMAIN events /\ events'[i] = events[i + 1]
      /\ 1 \in DOMAIN events /\ Head(events) = events[1]
  BY <1>1, QueueTaken
<1>3. worker'.event = Head(events)
  BY DEF TakeEvent
<1>4. \A i \in DOMAIN events' : IsOperation(events'[i], f) => events'[i].number = n
  BY <1>2 DEF Answers
<1>5. Doing(f)' => worker'.event.number = n
  BY <1>2, <1>3 DEF Answers, Doing
<1> QED
  BY <1>4, <1>5 DEF Answers, HasResult

LEMMA AnswersElsewhere ==
    ASSUME NEW place \in Places \ {"processing", "answering"}, Goto(place), UNCHANGED events,
           NEW f \in Files, results'[f] = results[f], NEW n, Answers(f, n)
    PROVE  Answers(f, n)'
<1>1. worker'.at = place
  BY DEF Goto
<1> QED
  BY <1>1 DEF Answers, Doing, HasResult

(* ... whatever the worker does.                                           *)
LEMMA ManagerAnswers ==
    ASSUME Typed, cpu.at # "ended", ManagerStep, NEW f \in Files
    PROVE  (HasOperation(f)' <=> HasOperation(f)) /\ \A n : Answers(f, n) => Answers(f, n)'
<1> DEFINE Goal == (HasOperation(f)' <=> HasOperation(f)) /\ \A n : Answers(f, n) => Answers(f, n)'
<1>1. ASSUME UNCHANGED <<resultsPending, results>>, \A n : Answers(f, n) => Answers(f, n)' PROVE Goal
  BY <1>1 DEF HasOperation, HasResult
<1>2. CASE Drained \/ PowerDown
  <2>1. UNCHANGED <<events, worker, resultsPending, results>>
    BY <1>2 DEF Drained, PowerDown
  <2> QED
    BY <1>1, <2>1, AnswersKept
<1>3. CASE WakeManager
  <2>1. UNCHANGED <<worker, resultsPending, results>> /\ (events' = events \/ events' = Append(events, Finish))
    BY <1>3 DEF WakeManager, Finished
  <2> QED
    BY <1>1, <2>1, AnswersKept, AnswersBehind
<1>4. ASSUME NEW place \in Places \ {"processing", "answering"}, Goto(place), UNCHANGED <<events, resultsPending, results>>
      PROVE  Goal
  BY <1>1, <1>4, AnswersElsewhere
<1>5. ASSUME NEW stop, TakeEvent(stop), UNCHANGED <<resultsPending, results>>
      PROVE  Goal
  BY <1>1, <1>5, AnswersTaken
<1>6. CASE EnterLoop
  <2>1. (Goto("entering") \/ Goto("ended")) /\ UNCHANGED <<events, resultsPending, results>>
    BY <1>6 DEF EnterLoop, queueVars
  <2> QED
    BY <1>4, <2>1 DEF Places
<1>7. CASE StartEvents \/ NextEvent
  <2>1. UNCHANGED <<resultsPending, results>>
        /\ ((\E stop : TakeEvent(stop)) \/ (UNCHANGED events /\ (Goto("waiting") \/ Goto("outside"))))
    BY <1>7 DEF StartEvents, NextEvent, LeaveLoop
  <2> QED
    BY <1>4, <1>5, <2>1 DEF Places
<1>8. CASE ProcessEvent
  <2>1. UNCHANGED <<events, resultsPending, results>> /\ worker' = [worker EXCEPT !.at = "answering"] /\ worker.at = "processing"
    BY <1>8 DEF ProcessEvent, queueVars
  <2>2. worker'.event = worker.event /\ worker'.at = "answering"
    BY <2>1 DEF Typed, QueueInv, ManagerTypes
  <2>3. \A n : Answers(f, n) => Answers(f, n)'
    BY <2>1, <2>2 DEF Answers, Doing, HasResult
  <2> QED
    BY <1>1, <2>1, <2>3
<1>9. CASE EventResult
  <2>1. PICK g \in Files : g = worker.event.file /\ Doing(g)
    BY <1>9, AtOperation DEF EventResult, Typed, QueueInv
  <2>2. /\ UNCHANGED <<events, resultsPending>> /\ worker' = [worker EXCEPT !.at = "processed"]
        /\ results' = [results EXCEPT ![g] = worker.event.number]
    BY <1>9, <2>1 DEF EventResult, queueVars
  <2>3. worker'.at = "processed" /\ results \in [Files -> Nat]
    BY <2>2 DEF Typed, QueueInv, ManagerTypes
  <2>4. g \in resultsPending
    BY <2>1 DEF Typed, QueueInv, PendingInStep
  <2>5. HasOperation(f)' <=> HasOperation(f)
    BY <2>2, <2>3, <2>4 DEF HasOperation, HasResult
  <2>6. ASSUME NEW n, Answers(f, n)
        PROVE  Answers(f, n)'
    <3>1. HasResult(f)' => results'[f] = n
      BY <2>1, <2>2, <2>3, <2>6 DEF HasResult, Answers
    <3>2. ~Doing(f)'
      BY <2>3 DEF Doing
    <3> QED
      BY <2>2, <2>6, <3>1, <3>2 DEF Answers
  <2> QED
    BY <2>5, <2>6
<1> QED
  BY <1>2, <1>3, <1>6, <1>7, <1>8, <1>9 DEF ManagerStep, WorkerStep

LEMMA OtherCalls ==
    ASSUME ResultInv, cpu.at # "ended", NEW f \in Files, NEW g \in Files \ {f},
           file'[g] = file[g], syncNotify'[g] = syncNotify[g], g \in asyncNotify' <=> g \in asyncNotify,
           HasOperation(g)' <=> HasOperation(g), \A n : Answers(g, n) => Answers(g, n)',
           cpu.at \in {"guest", "read"} \/ cpu.file = f, cpu'.at = "guest" \/ cpu'.file = f,
           \A t \in Threads : thread'[t] = thread[t]
              \/ \A type \in {"io", "async"} : ~WaitsFor(t, type, g) /\ ~WaitsFor(t, type, g)'
    PROVE  CallsOf(g)'
<1>1. CallsOf(g)
  BY DEF ResultInv
<1>2. \A h \in {"free", "close", "sync notify", "async notify"} : ~At(h, g) /\ ~At(h, g)'
  BY DEF At
<1>3. \A t \in Threads, type \in {"io", "async"} :
          /\ WaitsFor(t, type, g)' <=> WaitsFor(t, type, g)
          /\ WaitsFor(t, type, g)' => thread'[t].op = thread[t].op
  BY DEF WaitsFor
<1> QED
  BY <1>1, <1>2, <1>3, SameCalls

(* A file that is closed, or that no operation is under way for            *)
LEMMA QuietFile ==
    ASSUME ResultInv, cpu.at \in {"guest", "read"}, NEW f \in Files
    PROVE  /\ CallsOf(f)
           /\ \A h \in {"free", "close", "sync notify", "async notify"} : ~At(h, f)
           /\ ~file[f].pendingAsyncResult =>
                 /\ f \notin asyncNotify /\ \A t \in Threads : ~WaitsFor(t, "async", f)
                 /\ file[f].waitingThreads = << >>
           /\ ~HasOperation(f) => syncNotify[f] = {} /\ \A t \in Threads : ~WaitsFor(t, "io", f)
           /\ ~file[f].pendingAsyncResult /\ syncNotify[f] = {} => ~HasOperation(f)
           /\ ~file[f].open => ~file[f].pendingAsyncResult /\ ~HasOperation(f)
<1>1. CallsOf(f)
  BY DEF ResultInv
<1>2. \A h \in {"free", "close", "sync notify", "async notify"} : ~At(h, f)
  BY DEF At
<1>3. ~file[f].pendingAsyncResult =>
                 /\ f \notin asyncNotify /\ \A t \in Threads : ~WaitsFor(t, "async", f)
                 /\ file[f].waitingThreads = << >>
  BY <1>1, <1>2 DEF CallsOf, Apart, AsyncWaits
<1>4. ~HasOperation(f) => syncNotify[f] = {} /\ \A t \in Threads : ~WaitsFor(t, "io", f)
  BY <1>1 DEF CallsOf, SyncWaits
<1>5. ~file[f].pendingAsyncResult /\ syncNotify[f] = {} => ~HasOperation(f)
  BY <1>1, <1>2 DEF CallsOf, Owned
<1>6. ~file[f].open => ~file[f].pendingAsyncResult /\ ~HasOperation(f)
  BY <1>1 DEF CallsOf, ClosedIsEmpty, Closed, ResultInv, Typed, QueueInv, FileOpen
<1> QED
  BY <1>1, <1>2, <1>3, <1>4, <1>5, <1>6

(* An asynchronous operation is under way.                                 *)
LEMMA ScheduledCalls ==
    ASSUME ResultInv, cpu.at = "guest", cpu'.at = "guest", NEW f \in Files,
           ~file[f].pendingAsyncResult, syncNotify[f] = {}, syncNotify' = syncNotify, thread' = thread,
           file'[f].pendingAsyncResult, file'[f].waitingThreads = << >>, file'[f].open,
           NEW n, file'[f].asyncOp = n,
           IF HasOperation(f)' THEN Answers(f, n)' ELSE file'[f].asyncResult = n
    PROVE  CallsOf(f)'
<1>1. ~HasOperation(f) /\ \A t \in Threads, type \in {"io", "async"} : ~WaitsFor(t, type, f)
  BY QuietFile
<1>2. \A t \in Threads, type \in {"io", "async"} : ~WaitsFor(t, type, f)'
  BY <1>1 DEF WaitsFor
<1>3. \A h \in {"free", "close", "sync notify", "async notify"} : ~At(h, f)'
  BY DEF At
<1>4. SyncWaits(f)'
  BY <1>2, <1>3 DEF SyncWaits
<1>5. Apart(f)' /\ Owned(f)' /\ ClosedIsEmpty(f)'
  BY <1>3 DEF Apart, Owned, ClosedIsEmpty
<1>6. AsyncWaits(f)'
  <2>1. IF HasOperation(f)' THEN Answers(f, file[f].asyncOp)' ELSE file'[f].asyncResult = file'[f].asyncOp
    BY DEF Answers
  <2> QED
    BY <1>2, <2>1 DEF AsyncWaits
<1> QED
  BY <1>4, <1>5, <1>6 DEF CallsOf

(* Nothing is under way for a file.                                        *)
LEMMA IdleCalls ==
    ASSUME NEW f \in Files, cpu'.at \in {"guest", "close"}, ~HasOperation(f)', syncNotify'[f] = {}, f \notin asyncNotify',
           ~file'[f].pendingAsyncResult, file'[f].waitingThreads = << >>, file'[f].open \/ file'[f] = Closed,
           \A t \in Threads, type \in {"io", "async"} : ~WaitsFor(t, type, f)'
    PROVE  CallsOf(f)'
<1>1. \A h \in {"free", "sync notify", "async notify"} : ~At(h, f)'
  BY DEF At
<1> QED
  BY <1>1 DEF CallsOf, SyncWaits, Apart, Owned, AsyncWaits, ClosedIsEmpty

LEMMA ClosedFields ==
    /\ Closed.asyncResult = Failure /\ Closed.asyncOp = Failure /\ ~Closed.hasAsyncResult
    /\ ~Closed.pendingAsyncResult /\ Closed.waitingThreads = << >>
    /\ Opened.asyncResult = Failure /\ Opened.asyncOp = Failure /\ ~Opened.hasAsyncResult
    /\ ~Opened.pendingAsyncResult /\ Opened.waitingThreads = << >>
    /\ Opened.open /\ ~Closed.open
BY DEF Closed, Opened

LEMMA OpenResult ==
    ASSUME ResultInv, NEW f \in Files, Typed', Open(f) \/ \E found \in BOOLEAN : OpenAsync(f, found)
    PROVE  ResultInv'
<1>0. Typed /\ OwnResults /\ file \in [Files -> FileRecords]
  BY TypedFacts DEF ResultInv
<1>1. PICK node : OpenedAs(f, node) /\ cpu.at = "guest"
                  /\ UNCHANGED <<queueVars, resultsPending, results, worker, timing, thread, syncNotify, cpu>>
                  /\ \/ node = Opened /\ asyncNotify' = asyncNotify
                     \/ \E found \in BOOLEAN : node = [SchedAsync(Opened, Failure) EXCEPT !.closePending = ~found]
                                               /\ asyncNotify' = asyncNotify \cup {f}
  BY DEF Open, OpenAsync, OpenedAs, InGuestCode
<1>2. /\ node.open /\ ~node.hasAsyncResult /\ node.waitingThreads = << >> /\ node.asyncOp = Failure /\ node.asyncResult = Failure
      /\ (~node.pendingAsyncResult /\ asyncNotify' = asyncNotify) \/ (node.pendingAsyncResult /\ asyncNotify' = asyncNotify \cup {f})
  <2>1. CASE node = Opened /\ asyncNotify' = asyncNotify
    BY <2>1, ClosedFields
  <2>2. ASSUME NEW found \in BOOLEAN, node = [SchedAsync(Opened, Failure) EXCEPT !.closePending = ~found], asyncNotify' = asyncNotify \cup {f}
        PROVE  /\ node.open /\ ~node.hasAsyncResult /\ node.waitingThreads = << >> /\ node.asyncOp = Failure /\ node.asyncResult = Failure
               /\ node.pendingAsyncResult
    <3>1. PICK to \in FileRecords : to = SchedAsync(Opened, Failure) /\ to.open /\ to.pendingAsyncResult /\ ~to.hasAsyncResult
             /\ to.asyncOp = Failure /\ to.asyncResult = Failure /\ to.waitingThreads = << >>
      BY FileRecordFacts, ThreadRecordFacts, ClosedFields
    <3>2. node = [to EXCEPT !.closePending = ~found]
      BY <2>2, <3>1
    <3> QED
      BY <3>1, <3>2 DEF FileRecords
  <2> QED
    BY <1>1, <2>1, <2>2
<1>3. file' = [file EXCEPT ![f] = node] /\ ~file[f].open
  BY <1>1 DEF OpenedAs
<1>4. file'[f] = node /\ \A g \in Files \ {f} : file'[g] = file[g]
  BY <1>0, <1>3
<1>5. /\ ~HasOperation(f) /\ ~file[f].pendingAsyncResult /\ syncNotify[f] = {} /\ f \notin asyncNotify
      /\ \A t \in Threads, type \in {"io", "async"} : ~WaitsFor(t, type, f)
  <2>1. cpu.at \in {"guest", "read"} /\ ~file[f].open
    BY <1>1, <1>3
  <2>2. ~HasOperation(f) /\ ~file[f].pendingAsyncResult
    BY <2>1, QuietFile
  <2> QED
    BY <2>1, <2>2, QuietFile
<1>6. \A g \in Files : (HasOperation(g)' <=> HasOperation(g)) /\ \A n : Answers(g, n) => Answers(g, n)'
  BY <1>1, AnswersKept DEF HasOperation, HasResult, queueVars
<1>7. \A g \in Files \ {f} : CallsOf(g)'
  BY <1>1, <1>2, <1>4, <1>6, OtherCalls
<1>8. CallsOf(f)'
  <2>1. CASE ~node.pendingAsyncResult /\ asyncNotify' = asyncNotify
    BY <1>1, <1>2, <1>4, <1>5, <1>6, <2>1, IdleCalls DEF WaitsFor
  <2>2. CASE node.pendingAsyncResult
    BY <1>1, <1>2, <1>4, <1>5, <1>6, <2>2, ScheduledCalls
  <2> QED
    BY <1>2, <2>1, <2>2
<1>9. OwnResults'
  BY <1>0, <1>1, <1>2, <1>4 DEF OwnResults
<1>10. CallerAwake'
  BY <1>1 DEF CallerAwake
<1> QED
  BY <1>7, <1>8, <1>9, <1>10 DEF ResultInv

(* Calls that read, write and seek                                         *)
LEMMA QueuedAnswers ==
    ASSUME Typed, NEW f \in Files, NEW n \in Nat \ {0}, events' = Append(events, Operation(f, n)),
           UNCHANGED <<worker, results>>
    PROVE  /\ ~HasOperation(f) /\ cpu.at # "ended" => Answers(f, n)'
           /\ \A g \in Files \ {f} : \A m : Answers(g, m) => Answers(g, m)'
<1>1. events \in Seq(Events)
  BY DEF Typed, QueueInv, ManagerTypes
<1> DEFINE e == Operation(f, n)
<1>2. e \in Events /\ IsOperation(e, f) /\ e.number = n /\ \A g \in Files \ {f} : ~IsOperation(e, g)
  BY NoOperation DEF IsOperation
<1>3. events' = Append(events, e)
  OBVIOUS
<1> HIDE DEF e
<1>4. \A i \in DOMAIN events' : (i \in DOMAIN events /\ events'[i] = events[i]) \/ events'[i] = e
  BY <1>1, <1>3, QueueAppended
<1>5. ASSUME ~HasOperation(f), cpu.at # "ended"
      PROVE  Answers(f, n)'
  <2>1. ~InQueue(f) /\ ~Doing(f) /\ ~HasResult(f)
    BY <1>5 DEF Typed, QueueInv, PendingInStep, HasOperation
  <2>2. \A i \in DOMAIN events' : IsOperation(events'[i], f) => events'[i].number = n
    BY <1>2, <1>4, <2>1 DEF InQueue
  <2> QED
    BY <2>1, <2>2 DEF Answers, Doing, HasResult
<1>6. ASSUME NEW g \in Files \ {f}, NEW m, Answers(g, m)
      PROVE  Answers(g, m)'
  <2>1. \A i \in DOMAIN events' : IsOperation(events'[i], g) => events'[i].number = m
    BY <1>2, <1>4, <1>6 DEF Answers
  <2> QED
    BY <1>6, <2>1 DEF Answers, Doing, HasResult
<1> QED
  BY <1>5, <1>6

LEMMA DeferAnswers ==
    ASSUME Typed, NEW f \in Files, cpu.at # "ended", Defer(f)
    PROVE  /\ issued'[f] \in Nat /\ ~HasOperation(f) /\ HasOperation(f)' /\ Answers(f, issued[f])' /\ cpu' = cpu
           /\ \A n : n = issued'[f] => Answers(f, n)'
           /\ \A g \in Files \ {f} : (HasOperation(g)' <=> HasOperation(g)) /\ \A n : Answers(g, n) => Answers(g, n)'
<1>1. PICK n \in Nat \ {0} : n = issued[f] + 1
  BY TypedFacts
<1>2. issued'[f] = n /\ events' = Append(events, Operation(f, n)) /\ resultsPending' = resultsPending \cup {f}
      /\ UNCHANGED <<worker, results, cpu>> /\ ~HasOperation(f)
  <2>1. issued' = [issued EXCEPT ![f] = @ + 1]
    BY DEF Defer
  <2>2. issued'[f] = n
    BY <1>1, <2>1, TypedFacts
  <2> QED
    BY <2>2 DEF Defer, ScheduleOperation
<1>3. Answers(f, n)' /\ \A g \in Files \ {f} : \A m : Answers(g, m) => Answers(g, m)'
  BY <1>2, QueuedAnswers
<1>4. HasOperation(f)' /\ \A g \in Files \ {f} : HasOperation(g)' <=> HasOperation(g)
  BY <1>2 DEF HasOperation, HasResult
<1>5. Answers(f, issued[f])'
  BY <1>2, <1>3 DEF Answers
<1> QED
  BY <1>2, <1>3, <1>4, <1>5

LEMMA SyncFirstResult ==
    ASSUME ResultInv, Typed', NEW f \in Files, NEW t \in Threads, InGuestCode, thread[t].waits = "none",
           SyncFirst(f, "read", t)
    PROVE  ResultInv'
<1>1. /\ UNCHANGED <<file, thread, asyncNotify, syncNotify, resultsPending, results, worker>> /\ cpu.at = "guest"
      /\ events' = events \/ events' = Append(events, Sync)
      /\ cpu' = In("read", f, t)
  BY DEF SyncFirst, kernelVars, SyncThread, InGuestCode
<1>2. cpu'.at = "read" /\ cpu'.file = f /\ cpu'.thread = t
  BY <1>1 DEF In
<1>3. \A g \in Files : (HasOperation(g)' <=> HasOperation(g)) /\ \A n : Answers(g, n) => Answers(g, n)'
  BY <1>1, AnswersKept, AnswersBehind DEF HasOperation, HasResult, ResultInv
<1>4. ASSUME NEW g \in Files
      PROVE  CallsOf(g)'
  <2>1. CallsOf(g)
    BY <1>1 DEF ResultInv
  <2>2. \A h \in {"free", "close", "sync notify", "async notify"} : ~At(h, g)' /\ ~At(h, g)
    BY <1>1, <1>2 DEF At
  <2>3. \A u \in Threads, type \in {"io", "async"} : WaitsFor(u, type, g)' <=> WaitsFor(u, type, g)
    BY <1>1 DEF WaitsFor
  <2> QED
    BY <1>1, <1>3, <2>1, <2>2, <2>3, SameCalls
<1>5. OwnResults' /\ CallerAwake'
  BY <1>1, <1>2 DEF ResultInv, OwnResults, CallerAwake
<1> QED
  BY <1>4, <1>5 DEF ResultInv

LEMMA CarefulGuest ==
    ASSUME Careless = {}, ResultInv, NEW t \in Threads, NEW f \in Files, Calls(t, f), ~file[f].pendingAsyncResult, MayMix(f)
    PROVE  syncNotify[f] = {} /\ ~HasOperation(f) /\ ~file[f].pendingAsyncResult
<1>1. syncNotify[f] = {} /\ ~file[f].pendingAsyncResult /\ cpu.at = "guest"
  BY DEF MayMix, Calls, InGuestCode
<1> QED
  BY <1>1, QuietFile

LEMMA ReadResult ==
    ASSUME ResultInv, Typed', NEW t \in Threads, NEW f \in Files, Read(t, f)
    PROVE  ResultInv'
<1>0. Typed /\ OwnResults /\ thread \in [Threads -> ThreadRecords] /\ syncNotify \in [Files -> SUBSET Threads]
  BY TypedFacts DEF ResultInv
<1>1. InGuestCode /\ cpu.at = "guest" /\ thread[t].waits = "none" /\ file[f].open /\ ~file[f].pendingAsyncResult /\ ~asyncBusy(f)
  BY DEF Read, Calls, InGuestCode, asyncBusy
<1>2. CASE SyncFirst(f, "read", t)
  BY <1>1, <1>2, SyncFirstResult
<1>3. CASE /\ Defer(f)
           /\ thread' = [thread EXCEPT ![t] = WaitsIn("io", f, issued'[f])]
           /\ syncNotify' = [syncNotify EXCEPT ![f] = @ \cup {t}]
           /\ UNCHANGED <<file, asyncNotify>>
  <2>1. PICK n \in Nat : n = issued'[f] /\ Answers(f, n)'
    BY <1>0, <1>1, <1>3, DeferAnswers
  <2>2. /\ ~HasOperation(f) /\ HasOperation(f)' /\ cpu' = cpu
        /\ \A g \in Files \ {f} : (HasOperation(g)' <=> HasOperation(g)) /\ \A m : Answers(g, m) => Answers(g, m)'
    BY <1>0, <1>1, <1>3, DeferAnswers
  <2>3. PICK record : record = WaitsIn("io", f, n)
    OBVIOUS
  <2>4. record.waits = "io" /\ record.file = f /\ record.op = n
    BY <2>3, ThreadRecordFacts
  <2>5. thread' = [thread EXCEPT ![t] = record]
    BY <1>3, <2>1, <2>3
  <2>6. thread'[t] = record /\ \A u \in Threads \ {t} : thread'[u] = thread[u]
    BY <1>0, <2>5
  <2>7. /\ syncNotify[f] = {} /\ f \notin asyncNotify /\ file[f].waitingThreads = << >>
        /\ \A u \in Threads, type \in {"io", "async"} : ~WaitsFor(u, type, f)
    BY <1>1, <2>2, QuietFile
  <2>8. syncNotify'[f] = {t} /\ \A g \in Files \ {f} : syncNotify'[g] = syncNotify[g]
    BY <1>0, <1>3, <2>7
  <2>9. \A g \in Files \ {f}, type \in {"io", "async"} : ~WaitsFor(t, type, g) /\ ~WaitsFor(t, type, g)'
    BY <1>1, <2>4, <2>6 DEF WaitsFor
  <2>10. \A g \in Files \ {f} : CallsOf(g)'
    BY <1>1, <1>3, <2>2, <2>6, <2>8, <2>9, OtherCalls
  <2>11. CallsOf(f)'
    <3>1. \A h \in {"free", "close", "sync notify", "async notify"} : ~At(h, f)'
      BY <1>1, <2>2 DEF At
    <3>2. \A u \in Threads : ~WaitsFor(u, "async", f)' /\ (WaitsFor(u, "io", f)' => u = t)
      BY <2>4, <2>6, <2>7 DEF WaitsFor
    <3>3. Answers(f, thread[t].op)'
      BY <2>1, <2>4, <2>6 DEF Answers
    <3>4. SyncWaits(f)'
      BY <2>2, <2>8, <3>1, <3>2, <3>3 DEF SyncWaits
    <3>5. Apart(f)' /\ Owned(f)' /\ ClosedIsEmpty(f)'
      BY <1>1, <1>3, <2>7, <2>8, <3>1 DEF Apart, Owned, ClosedIsEmpty, asyncBusy
    <3>6. AsyncWaits(f)'
      BY <1>1, <1>3, <2>7, <3>2 DEF AsyncWaits
    <3> QED
      BY <3>4, <3>5, <3>6 DEF CallsOf
  <2>12. OwnResults'
    BY <1>0, <1>3, <2>4, <2>6 DEF OwnResults
  <2>13. CallerAwake'
    BY <1>1, <2>2 DEF CallerAwake
  <2> QED
    BY <2>10, <2>11, <2>12, <2>13 DEF ResultInv
<1> QED
  BY <1>2, <1>3 DEF Read

LEMMA ScheduledResult ==
    ASSUME ResultInv, Typed', cpu.at = "guest", cpu'.at = "guest", NEW f \in Files,
           ~file[f].pendingAsyncResult, syncNotify[f] = {}, UNCHANGED <<thread, syncNotify>>, asyncNotify' = asyncNotify \cup {f},
           NEW node \in FileRecords, file' = [file EXCEPT ![f] = node],
           node.pendingAsyncResult, ~node.hasAsyncResult, node.waitingThreads = file[f].waitingThreads, node.open,
           IF HasOperation(f)' THEN \A n : n = node.asyncOp => Answers(f, n)' ELSE node.asyncResult = node.asyncOp,
           \A g \in Files \ {f} : (HasOperation(g)' <=> HasOperation(g)) /\ \A n : Answers(g, n) => Answers(g, n)'
    PROVE  ResultInv'
<1>0. Typed /\ OwnResults /\ file \in [Files -> FileRecords]
  BY TypedFacts DEF ResultInv
<1>1. file'[f] = node /\ \A g \in Files \ {f} : file'[g] = file[g]
  BY <1>0
<1>2. file[f].waitingThreads = << >>
  BY QuietFile
<1>3. \A g \in Files \ {f} : CallsOf(g)'
  BY <1>1, OtherCalls
<1>4. PICK n : n = node.asyncOp
  OBVIOUS
<1>5. CallsOf(f)'
  BY <1>1, <1>2, <1>4, ScheduledCalls
<1>6. OwnResults'
  BY <1>0, <1>1 DEF OwnResults
<1>7. CallerAwake'
  BY DEF CallerAwake
<1> QED
  BY <1>3, <1>5, <1>6, <1>7 DEF ResultInv

LEMMA ReadAsyncResult ==
    ASSUME Careless = {}, ResultInv, Typed', NEW t \in Threads, NEW f \in Files, ReadAsync(t, f)
    PROVE  ResultInv'
<1>0. Typed /\ file \in [Files -> FileRecords]
  BY TypedFacts DEF ResultInv
<1>1. /\ syncNotify[f] = {} /\ ~HasOperation(f) /\ ~file[f].pendingAsyncResult /\ cpu.at = "guest" /\ file[f].open
  BY CarefulGuest DEF ReadAsync, asyncBusy, Calls, InGuestCode
<1>2. /\ Defer(f)
      /\ file' = [file EXCEPT ![f] = SchedAsync(@, issued'[f])]
      /\ asyncNotify' = asyncNotify \cup {f}
      /\ UNCHANGED <<thread, syncNotify>>
  BY <1>1 DEF ReadAsync, SyncFirst
<1>3. PICK n \in Nat : n = issued'[f]
  BY <1>0, <1>1, <1>2, DeferAnswers
<1>4. /\ HasOperation(f)' /\ cpu' = cpu /\ \A m : m = n => Answers(f, m)'
      /\ \A g \in Files \ {f} : (HasOperation(g)' <=> HasOperation(g)) /\ \A m : Answers(g, m) => Answers(g, m)'
  BY <1>0, <1>1, <1>2, <1>3, DeferAnswers
<1>5. PICK node : node = SchedAsync(file[f], n)
  OBVIOUS
<1>6. /\ node \in FileRecords /\ node.open /\ node.pendingAsyncResult /\ ~node.hasAsyncResult
      /\ node.waitingThreads = file[f].waitingThreads /\ node.asyncOp = n
  BY <1>0, <1>1, <1>5, FileRecordFacts
<1>7. file' = [file EXCEPT ![f] = node]
  BY <1>2, <1>3, <1>5
<1> QED
  BY <1>1, <1>2, <1>4, <1>6, <1>7, ScheduledResult

LEMMA SameAnswers ==
    ASSUME UNCHANGED <<events, worker, resultsPending, results>>
    PROVE  \A g \in Files : (HasOperation(g)' <=> HasOperation(g)) /\ \A n : Answers(g, n) => Answers(g, n)'
BY AnswersKept DEF HasOperation, HasResult

LEMMA QuietStep ==
    ASSUME ResultInv, Typed', cpu.at # "ended", UNCHANGED <<file, thread, asyncNotify, syncNotify>>,
           \A g \in Files : (HasOperation(g)' <=> HasOperation(g)) /\ \A n : Answers(g, n) => Answers(g, n)',
           cpu' = cpu \/ (cpu.at \in {"guest", "save", "shutdown"} /\ cpu'.at \in {"guest", "save", "shutdown"})
    PROVE  ResultInv'
<1>1. ASSUME NEW g \in Files
      PROVE  CallsOf(g)'
  <2>1. CallsOf(g)
    BY DEF ResultInv
  <2>2. \A h \in {"free", "close", "sync notify", "async notify"} : At(h, g)' <=> At(h, g)
    BY DEF At
  <2>3. At("sync notify", g) => cpu'.thread = cpu.thread
    BY DEF At
  <2>4. \A u \in Threads, type \in {"io", "async"} : WaitsFor(u, type, g)' <=> WaitsFor(u, type, g)
    BY DEF WaitsFor
  <2> QED
    BY <2>1, <2>2, <2>3, <2>4, SameCalls
<1>2. OwnResults' /\ CallerAwake'
  BY DEF ResultInv, OwnResults, CallerAwake
<1> QED
  BY <1>1, <1>2 DEF ResultInv

LEMMA SeekResult ==
    ASSUME Careless = {}, ResultInv, Typed', NEW t \in Threads, NEW f \in Files, Lseek(t, f) \/ LseekAsync(t, f)
    PROVE  ResultInv'
<1>0. Typed /\ file \in [Files -> FileRecords]
  BY TypedFacts DEF ResultInv
<1>1. InGuestCode /\ cpu.at = "guest" /\ thread[t].waits = "none" /\ ~file[f].pendingAsyncResult /\ file[f].open
  BY DEF Lseek, LseekAsync, Calls, InGuestCode, asyncBusy
<1>2. CASE SyncFirst(f, "read", t)
  BY <1>1, <1>2, SyncFirstResult
<1>3. CASE /\ ~HasOperation(f) /\ DoneHere(f)
           /\ UNCHANGED <<queueVars, resultsPending, results, worker,
                          timing, file, thread, asyncNotify, syncNotify, cpu>>
  BY <1>1, <1>3, SameAnswers, QuietStep DEF queueVars
<1>4. CASE LseekAsync(t, f)
  <2>1. syncNotify[f] = {} /\ ~HasOperation(f)
    BY <1>4, CarefulGuest DEF LseekAsync, asyncBusy
  <2>2. /\ DoneHere(f)
        /\ file' = [file EXCEPT ![f] = [SchedAsync(@, issued'[f]) EXCEPT !.asyncResult = issued'[f]]]
        /\ asyncNotify' = asyncNotify \cup {f}
        /\ UNCHANGED <<queueVars, resultsPending, results, worker, timing, thread, syncNotify, cpu>>
    BY <1>4, <2>1 DEF LseekAsync, SyncFirst
  <2>3. PICK n \in Nat : n = issued'[f]
    <3>1. issued' = [issued EXCEPT ![f] = @ + 1]
      BY <2>2 DEF DoneHere
    <3>2. issued'[f] \in Nat
      BY <1>0, <3>1, TypedFacts
    <3> QED
      BY <3>2
  <2>4. PICK to : to = SchedAsync(file[f], n)
    OBVIOUS
  <2>5. /\ to \in FileRecords /\ to.open /\ to.pendingAsyncResult /\ ~to.hasAsyncResult
        /\ to.waitingThreads = file[f].waitingThreads /\ to.asyncOp = n
    BY <1>0, <1>1, <2>4, FileRecordFacts
  <2>6. PICK node : node = [to EXCEPT !.asyncResult = n]
    OBVIOUS
  <2>7. /\ node \in FileRecords /\ node.open /\ node.pendingAsyncResult /\ ~node.hasAsyncResult
        /\ node.waitingThreads = file[f].waitingThreads /\ node.asyncOp = n /\ node.asyncResult = n
    BY <2>5, <2>6 DEF FileRecords
  <2>8. file' = [file EXCEPT ![f] = node]
    BY <2>2, <2>3, <2>4, <2>6
  <2>9. \A g \in Files : (HasOperation(g)' <=> HasOperation(g)) /\ \A m : Answers(g, m) => Answers(g, m)'
    BY <2>2, SameAnswers DEF queueVars
  <2> QED
    BY <1>1, <2>1, <2>2, <2>7, <2>8, <2>9, ScheduledResult
<1> QED
  BY <1>2, <1>3, <1>4 DEF Lseek

LEMMA CloseAsyncResult ==
    ASSUME Careless = {}, ResultInv, Typed', NEW t \in Threads, NEW f \in Files, CloseAsync(t, f)
    PROVE  ResultInv'
<1>0. Typed /\ file \in [Files -> FileRecords] /\ Failure \in Nat
  BY TypedFacts, ThreadRecordFacts DEF ResultInv
<1>1. ~file[f].pendingAsyncResult /\ file[f].open /\ cpu.at = "guest"
  BY DEF CloseAsync, MayCloseAsync, Calls, InGuestCode
<1>2. syncNotify[f] = {} /\ ~HasOperation(f) /\ ~file[f].pendingAsyncResult
  BY <1>1, CarefulGuest DEF CloseAsync
<1>3. PICK to : to = SchedAsync(file[f], Failure)
  OBVIOUS
<1>4. /\ to \in FileRecords /\ to.open /\ to.pendingAsyncResult /\ ~to.hasAsyncResult
      /\ to.waitingThreads = file[f].waitingThreads /\ to.asyncOp = Failure
  BY <1>0, <1>1, <1>3, FileRecordFacts
<1>5. PICK node : node = [to EXCEPT !.closePending = TRUE, !.asyncResult = Failure]
  OBVIOUS
<1>6. /\ node \in FileRecords /\ node.open /\ node.pendingAsyncResult /\ ~node.hasAsyncResult
      /\ node.waitingThreads = file[f].waitingThreads /\ node.asyncOp = Failure /\ node.asyncResult = Failure
  BY <1>0, <1>4, <1>5 DEF FileRecords
<1>7. file' = [file EXCEPT ![f] = node] /\ UNCHANGED <<managerVars, thread, syncNotify, cpu>> /\ asyncNotify' = asyncNotify \cup {f}
  BY <1>3, <1>5 DEF CloseAsync
<1>8. \A g \in Files : (HasOperation(g)' <=> HasOperation(g)) /\ \A m : Answers(g, m) => Answers(g, m)'
  BY <1>7, SameAnswers DEF managerVars, queueVars
<1> QED
  BY <1>1, <1>2, <1>6, <1>7, <1>8, ScheduledResult

LEMMA WokenResult ==
    ASSUME ResultInv, Typed', cpu.at \in {"guest", "read"}, cpu'.at = "guest",
           UNCHANGED <<file, asyncNotify, syncNotify, events, worker, resultsPending, results>>,
           NEW t \in Threads, thread[t].waits # "async", NEW n \in Nat, thread' = [thread EXCEPT ![t] = Awake(n, n)]
    PROVE  ResultInv'
<1>0. thread \in [Threads -> ThreadRecords] /\ OwnResults
  BY TypedFacts DEF ResultInv
<1>1. PICK record : record = Awake(n, n)
  OBVIOUS
<1>2. record.waits = "none" /\ record.op = n /\ record.result = n
  BY <1>1, ThreadRecordFacts
<1>3. thread'[t] = record /\ \A u \in Threads \ {t} : thread'[u] = thread[u]
  BY <1>0, <1>1
<1>4. ASSUME NEW g \in Files
      PROVE  CallsOf(g)'
  <2>1. CallsOf(g)
    BY DEF ResultInv
  <2>2. \A h \in {"free", "close", "sync notify", "async notify"} : ~At(h, g)' /\ ~At(h, g)
    BY DEF At
  <2>3. \A u \in Threads : WaitsFor(u, "io", g)' => WaitsFor(u, "io", g) /\ thread'[u].op = thread[u].op
    BY <1>2, <1>3 DEF WaitsFor
  <2>4. \A u \in Threads : /\ WaitsFor(u, "async", g)' <=> WaitsFor(u, "async", g)
                           /\ WaitsFor(u, "async", g)' => thread'[u].op = thread[u].op
    BY <1>2, <1>3 DEF WaitsFor
  <2> QED
    BY <2>1, <2>2, <2>3, <2>4, SameAnswers, SameCalls
<1>5. OwnResults'
  BY <1>0, <1>2, <1>3 DEF OwnResults
<1>6. CallerAwake'
  BY DEF CallerAwake
<1> QED
  BY <1>4, <1>5, <1>6 DEF ResultInv

LEMMA ReadHereResult ==
    ASSUME ResultInv, Typed', ReadHere
    PROVE  ResultInv'
<1>0. Typed /\ CallerAwake
  BY DEF ResultInv, ReadHere
<1>1. cpu.at = "read" /\ thread[cpu.thread].waits = "none" /\ cpu.thread \in Threads
  BY <1>0 DEF CallerAwake, ReadHere, Typed, CallTypes
<1>2. cpu.file \in Files
  BY <1>0, <1>1 DEF Typed, QueueInv, HandlerTypes
<1>3. PICK n \in Nat : n = issued'[cpu.file]
  <2>1. issued' = [issued EXCEPT ![cpu.file] = @ + 1]
    BY DEF ReadHere, DoneHere
  <2>2. issued'[cpu.file] \in Nat
    BY <1>0, <1>2, <2>1, TypedFacts
  <2> QED
    BY <2>2
<1>4. thread' = [thread EXCEPT ![cpu.thread] = Awake(n, n)] /\ UNCHANGED <<file, asyncNotify, syncNotify>>
  BY <1>1, <1>3 DEF ReadHere
<1>5. UNCHANGED <<events, worker, resultsPending, results>> /\ cpu'.at = "guest"
  BY ThreadRecordFacts DEF ReadHere, queueVars
<1> QED
  BY <1>1, <1>3, <1>4, <1>5, WokenResult

LEMMA ReleasedResult ==
    ASSUME Careless = {}, ResultInv, Typed', NEW t \in Threads, ReleaseWaitThread(t)
    PROVE  ResultInv'
<1>1. thread[t].waits = "io" /\ cpu.at = "guest" /\ cpu' = cpu /\ thread' = [thread EXCEPT ![t] = Awake(Failure, Failure)]
      /\ UNCHANGED <<file, asyncNotify, syncNotify, events, worker, resultsPending, results>>
  BY DEF ReleaseWaitThread, managerVars, queueVars
<1> QED
  BY <1>1, WokenResult, ThreadRecordFacts

(* Calls and handlers that close a file                                    *)
LEMMA FreeFdResult ==
    ASSUME ResultInv, Typed', NEW f \in Files, cpu.at = "guest" \/ At("close", f),
           NEW threads, FreeFd(f, threads),
           \A t \in Threads : threads[t] = thread[t]
              \/ (thread[t].waits = "none" /\ threads[t].waits = "none" /\ threads[t].result = threads[t].op),
           \A t \in Threads : ~WaitsFor(t, "io", f),
           \A g \in Files \ {f} : file'[g] = file[g],
           /\ file'[f].asyncOp = file[f].asyncOp /\ file'[f].asyncResult = file[f].asyncResult
           /\ file'[f].pendingAsyncResult = file[f].pendingAsyncResult,
           file'[f] = file[f] \/ (file'[f].open /\ ~file'[f].hasAsyncResult)
    PROVE  ResultInv'
<1>0. Typed /\ OwnResults /\ CallsOf(f) /\ cpu.at # "ended" /\ syncNotify \in [Files -> SUBSET Threads]
  BY TypedFacts DEF ResultInv, At
<1>1. /\ events' = Append(events, Sync) /\ UNCHANGED <<worker, results, resultsPending>>
      /\ cpu' = In("free", f, NoThread) /\ asyncNotify' = asyncNotify \ {f}
      /\ syncNotify' = [syncNotify EXCEPT ![f] = {}]
  BY DEF FreeFd, WaitResult
<1>2. cpu'.at = "free" /\ cpu'.file = f
  BY <1>1 DEF In
<1>3. \A g \in Files : (HasOperation(g)' <=> HasOperation(g)) /\ \A n : Answers(g, n) => Answers(g, n)'
  BY <1>0, <1>1, AnswersBehind DEF HasOperation, HasResult
<1>4. /\ \A t \in Threads : thread'[t] = threads[t]
             \/ (WaitsFor(t, "async", f) /\ thread'[t] = Awake(Failure, Failure))
      /\ \A t \in Threads : WaitsFor(t, "async", f) => ~WaitsFor(t, "async", f)'
  <2>1. thread' = [t \in Threads |->
                    IF t \in Seqs!ToSet(file[f].waitingThreads) /\ threads[t].waits = "async" /\ threads[t].file = f
                    THEN Awake(Failure, Failure) ELSE threads[t]]
    BY DEF FreeFd
  <2>2. \A t \in Threads : WaitsFor(t, "async", f) => file[f].waitingThreads = <<t>>
    BY <1>0 DEF CallsOf, AsyncWaits
  <2>3. \A t \in Threads : t \in Seqs!ToSet(<<t>>)
    BY DEF Seqs!ToSet
  <2>4. \A t \in Threads : threads[t].waits = "async" => threads[t] = thread[t]
    OBVIOUS
  <2>5. \A t \in Threads : WaitsFor(t, "async", f) => thread'[t] = Awake(Failure, Failure)
    BY <2>1, <2>2, <2>3 DEF WaitsFor
  <2> QED
    BY <2>1, <2>4, <2>5, ThreadRecordFacts DEF WaitsFor
<1>5. \A t \in Threads, type \in {"io", "async"} : ~WaitsFor(t, type, f)'
  <2>1. ASSUME NEW t \in Threads, NEW type \in {"io", "async"}, WaitsFor(t, type, f)'
        PROVE  FALSE
    <3>1. thread'[t].waits = type /\ thread'[t].file = f
      BY <2>1 DEF WaitsFor
    <3>2. CASE thread'[t] = Awake(Failure, Failure)
      BY <3>1, <3>2, ThreadRecordFacts
    <3>3. CASE thread'[t] = threads[t]
      <4>1. thread'[t] = thread[t]
        BY <3>1, <3>3
      <4> QED
        BY <1>4, <2>1, <3>1, <4>1 DEF WaitsFor
    <3> QED
      BY <1>4, <3>2, <3>3
  <2> QED
    BY <2>1
<1>6. ASSUME NEW g \in Files \ {f}
      PROVE  CallsOf(g)'
  <2>1. syncNotify'[g] = syncNotify[g] /\ (g \in asyncNotify' <=> g \in asyncNotify)
    BY <1>0, <1>1
  <2>2. \A t \in Threads : thread'[t] = thread[t]
              \/ \A type \in {"io", "async"} : ~WaitsFor(t, type, g) /\ ~WaitsFor(t, type, g)'
    BY <1>4, ThreadRecordFacts DEF WaitsFor
  <2>3. cpu.at = "guest" \/ cpu.file = f
    BY DEF At
  <2> QED
    BY <1>0, <1>2, <1>3, <2>1, <2>2, <2>3, OtherCalls
<1>7. CallsOf(f)'
  <2>1. /\ At("free", f)' /\ ~At("sync notify", f)' /\ ~At("async notify", f)' /\ ~At("close", f)'
        /\ syncNotify'[f] = {} /\ f \notin asyncNotify'
    BY <1>0, <1>1, <1>2 DEF At
  <2>2. SyncWaits(f)' /\ Apart(f)' /\ Owned(f)'
    BY <1>5, <2>1 DEF SyncWaits, Apart, Owned
  <2>3. ClosedIsEmpty(f)'
    BY <1>0 DEF CallsOf, ClosedIsEmpty
  <2>4. AsyncWaits(f)'
    <3>1. PICK n : n = file[f].asyncOp
      OBVIOUS
    <3>2. file'[f].pendingAsyncResult => IF HasOperation(f)' THEN Answers(f, n)' ELSE file'[f].asyncResult = n
      BY <1>0, <1>3, <3>1 DEF CallsOf, AsyncWaits
    <3>3. file'[f].pendingAsyncResult =>
             IF HasOperation(f)' THEN Answers(f, file[f].asyncOp)' ELSE file'[f].asyncResult = file'[f].asyncOp
      BY <3>1, <3>2 DEF Answers
    <3> QED
      BY <1>5, <2>1, <3>3 DEF AsyncWaits
  <2> QED
    BY <2>2, <2>3, <2>4 DEF CallsOf
<1>8. OwnResults'
  <2>1. \A t \in Threads : thread'[t].waits = "none" => thread'[t].result = thread'[t].op
    <3>1. Awake(Failure, Failure).result = Awake(Failure, Failure).op
      BY ThreadRecordFacts
    <3>2. \A t \in Threads : threads[t].waits = "none" => threads[t].result = threads[t].op
      BY <1>0 DEF OwnResults
    <3> QED
      BY <1>4, <3>1, <3>2
  <2>2. \A g \in Files : file'[g].hasAsyncResult => file'[g].asyncResult = file'[g].asyncOp
    BY <1>0 DEF OwnResults
  <2> QED
    BY <2>1, <2>2 DEF OwnResults
<1>9. CallerAwake'
  BY <1>2 DEF CallerAwake
<1> QED
  BY <1>6, <1>7, <1>8, <1>9 DEF ResultInv

LEMMA CloseResult ==
    ASSUME Careless = {}, ResultInv, Typed', (\E t \in Threads, f \in Files : Close(t, f)) \/ CloseNotified
    PROVE  ResultInv'
<1>1. CASE \E t \in Threads, f \in Files : Close(t, f)
  <2>1. PICK f \in Files : FreeFd(f, thread) /\ UNCHANGED file /\ cpu.at = "guest" /\ MayClose(f)
    BY <1>1 DEF Close, Calls, InGuestCode
  <2>2. \A t \in Threads : ~WaitsFor(t, "io", f)
    BY <2>1 DEF MayClose, waitingSyncThreads
  <2> QED
    BY <2>1, <2>2, FreeFdResult
<1>2. CASE CloseNotified
  <2>1. PICK f \in Files : f = cpu.file
    BY <1>2 DEF CloseNotified, ResultInv, Typed, QueueInv, HandlerTypes
  <2>2. FreeFd(f, thread) /\ UNCHANGED file /\ At("close", f) /\ cpu.at # "ended"
    BY <1>2, <2>1 DEF CloseNotified, At
  <2>3. \A t \in Threads : ~WaitsFor(t, "io", f)
    BY <2>2 DEF ResultInv, CallsOf, SyncWaits, Apart, At
  <2> QED
    BY <2>2, <2>3, FreeFdResult
<1> QED
  BY <1>1, <1>2

LEMMA TakeResult ==
    ASSUME ResultInv, Typed', NEW t \in Threads, NEW f \in Files, TakeAsyncResult(t, f)
    PROVE  ResultInv'
<1>0. Typed /\ OwnResults /\ file \in [Files -> FileRecords] /\ thread \in [Threads -> ThreadRecords]
      /\ file[f].asyncOp \in Nat /\ file[f].asyncResult \in Nat /\ file[f] \in FileRecords
  BY TypedFacts DEF ResultInv
<1>1. /\ cpu.at = "guest" /\ thread[t].waits = "none" /\ file[f].open /\ ~file[f].pendingAsyncResult /\ file[f].hasAsyncResult
      /\ file' = [file EXCEPT ![f].hasAsyncResult = FALSE]
  BY DEF TakeAsyncResult, Calls, InGuestCode
<1>2. PICK node : node = [file[f] EXCEPT !.hasAsyncResult = FALSE]
  OBVIOUS
<1>3. /\ node.open /\ ~node.hasAsyncResult /\ ~node.pendingAsyncResult /\ node.asyncOp = file[f].asyncOp
      /\ node.asyncResult = file[f].asyncResult /\ node.waitingThreads = file[f].waitingThreads
  BY <1>0, <1>1, <1>2 DEF FileRecords
<1>4. file'[f] = node /\ \A g \in Files \ {f} : file'[g] = file[g]
  <2>1. file' = [file EXCEPT ![f] = node]
    BY <1>1, <1>2
  <2> QED
    BY <1>0, <2>1
<1>5. /\ syncNotify[f] = {} /\ f \notin asyncNotify /\ ~HasOperation(f) /\ file[f].waitingThreads = << >>
      /\ \A u \in Threads, type \in {"io", "async"} : ~WaitsFor(u, type, f)
  <2>1. syncNotify[f] = {}
    BY <1>1 DEF ResultInv, CallsOf, Apart, asyncBusy
  <2>2. ~HasOperation(f)
    BY <1>1, <2>1, QuietFile
  <2> QED
    BY <1>1, <2>1, <2>2, QuietFile
<1>6. PICK record : record = Awake(file[f].asyncOp, file[f].asyncResult)
  OBVIOUS
<1>7. record.waits = "none" /\ record.op = record.result
  BY <1>0, <1>1, <1>6, ThreadRecordFacts DEF OwnResults
<1>8. PICK taken : taken = [thread EXCEPT ![t] = record]
  OBVIOUS
<1>9. taken[t] = record /\ \A u \in Threads \ {t} : taken[u] = thread[u]
  BY <1>0, <1>8
<1>10. CASE FreeFd(f, taken)
  <2>1. \A u \in Threads : taken[u] = thread[u]
              \/ (thread[u].waits = "none" /\ taken[u].waits = "none" /\ taken[u].result = taken[u].op)
    BY <1>1, <1>7, <1>9
  <2> QED
    BY <1>1, <1>3, <1>4, <1>5, <1>10, <2>1, FreeFdResult
<1>11. CASE thread' = taken /\ UNCHANGED <<managerVars, asyncNotify, syncNotify, cpu>>
  <2>1. \A g \in Files : (HasOperation(g)' <=> HasOperation(g)) /\ \A n : Answers(g, n) => Answers(g, n)'
    BY <1>11, SameAnswers DEF managerVars, queueVars
  <2>2. \A u \in Threads : thread'[u] = thread[u]
           \/ \A g \in Files, type \in {"io", "async"} : ~WaitsFor(u, type, g) /\ ~WaitsFor(u, type, g)'
    BY <1>1, <1>7, <1>9, <1>11 DEF WaitsFor
  <2>3. \A g \in Files \ {f} : CallsOf(g)'
    BY <1>1, <1>4, <1>11, <2>1, <2>2, OtherCalls
  <2>4. \A u \in Threads, type \in {"io", "async"} : ~WaitsFor(u, type, f)'
    BY <1>5, <2>2 DEF WaitsFor
  <2>5. CallsOf(f)'
    BY <1>1, <1>3, <1>4, <1>5, <1>11, <2>1, <2>4, IdleCalls
  <2>6. OwnResults'
    BY <1>0, <1>3, <1>4, <1>7, <1>9, <1>11 DEF OwnResults
  <2>7. CallerAwake'
    BY <1>1, <1>11 DEF CallerAwake
  <2> QED
    BY <2>3, <2>5, <2>6, <2>7 DEF ResultInv
<1> QED
  BY <1>6, <1>8, <1>10, <1>11 DEF TakeAsyncResult

LEMMA WaitAsyncResult ==
    ASSUME Careless = {}, ResultInv, Typed', NEW t \in Threads, NEW f \in Files, WaitAsync(t, f)
    PROVE  ResultInv'
<1>0. Typed /\ OwnResults /\ file \in [Files -> FileRecords] /\ thread \in [Threads -> ThreadRecords]
      /\ file[f].asyncOp \in Nat /\ file[f] \in FileRecords /\ CallsOf(f)
  BY TypedFacts DEF ResultInv, WaitAsync, Calls, InGuestCode
<1>1. /\ cpu.at = "guest" /\ thread[t].waits = "none" /\ file[f].open /\ file[f].pendingAsyncResult
      /\ \A u \in Threads : ~WaitsFor(u, "async", f)
      /\ UNCHANGED <<managerVars, timing, issued, asyncNotify, syncNotify, cpu>>
  BY DEF WaitAsync, Calls, InGuestCode, MayWait
<1>2. file[f].waitingThreads = << >>
  BY <1>0, <1>1 DEF CallsOf, AsyncWaits, At
<1>3. PICK node : node = [file[f] EXCEPT !.waitingThreads = Append(@, t)]
  OBVIOUS
<1>4. /\ node.open /\ node.hasAsyncResult = file[f].hasAsyncResult /\ node.pendingAsyncResult /\ node.asyncOp = file[f].asyncOp
      /\ node.asyncResult = file[f].asyncResult /\ node.waitingThreads = <<t>>
  BY <1>0, <1>1, <1>2, <1>3 DEF FileRecords
<1>5. file'[f] = node /\ \A g \in Files \ {f} : file'[g] = file[g]
  <2>1. file' = [file EXCEPT ![f] = node]
    BY <1>3 DEF WaitAsync
  <2> QED
    BY <1>0, <2>1
<1>6. PICK record : record = WaitsIn("async", f, file[f].asyncOp)
  OBVIOUS
<1>7. record.waits = "async" /\ record.file = f /\ record.op = file[f].asyncOp
  BY <1>0, <1>6, ThreadRecordFacts
<1>8. thread'[t] = record /\ \A u \in Threads \ {t} : thread'[u] = thread[u]
  BY <1>0, <1>6 DEF WaitAsync
<1>9. \A g \in Files : (HasOperation(g)' <=> HasOperation(g)) /\ \A n : Answers(g, n) => Answers(g, n)'
  BY <1>1, SameAnswers DEF managerVars, queueVars
<1>10. ASSUME NEW g \in Files \ {f}
       PROVE  CallsOf(g)'
  <2>1. \A type \in {"io", "async"} : ~WaitsFor(t, type, g) /\ ~WaitsFor(t, type, g)'
    BY <1>1, <1>7, <1>8 DEF WaitsFor
  <2> QED
    BY <1>1, <1>5, <1>8, <1>9, <2>1, OtherCalls
<1>11. CallsOf(f)'
  <2>1. syncNotify[f] = {} /\ \A u \in Threads : ~WaitsFor(u, "io", f)
    BY <1>0, <1>1 DEF CallsOf, Apart, SyncWaits, asyncBusy
  <2>2. \A u \in Threads : ~WaitsFor(u, "io", f)' /\ (WaitsFor(u, "async", f)' <=> u = t)
    BY <1>1, <1>7, <1>8, <2>1 DEF WaitsFor
  <2>3. \A h \in {"free", "close", "sync notify", "async notify"} : ~At(h, f)'
    BY <1>1 DEF At
  <2>4. SyncWaits(f)' /\ Apart(f)' /\ Owned(f)' /\ ClosedIsEmpty(f)'
    BY <1>1, <1>4, <1>5, <2>1, <2>2, <2>3 DEF SyncWaits, Apart, Owned, ClosedIsEmpty
  <2>5. AsyncWaits(f)'
    <3>1. PICK n : n = file[f].asyncOp
      OBVIOUS
    <3>2. IF HasOperation(f)' THEN Answers(f, n)' ELSE file'[f].asyncResult = n
      BY <1>0, <1>1, <1>4, <1>5, <1>9, <3>1 DEF CallsOf, AsyncWaits
    <3>3. IF HasOperation(f)' THEN Answers(f, file[f].asyncOp)' ELSE file'[f].asyncResult = file'[f].asyncOp
      BY <1>4, <1>5, <3>1, <3>2 DEF Answers
    <3> QED
      BY <1>4, <1>5, <1>7, <1>8, <2>2, <3>3 DEF AsyncWaits
  <2> QED
    BY <2>4, <2>5 DEF CallsOf
<1>12. OwnResults'
  BY <1>0, <1>4, <1>5, <1>7, <1>8 DEF OwnResults
<1>13. CallerAwake'
  BY <1>1 DEF CallerAwake
<1> QED
  BY <1>10, <1>11, <1>12, <1>13 DEF ResultInv

(* Events that notify of the end of an operation                           *)
LEMMA NotifyResult ==
    ASSUME ResultInv, Typed', Notify
    PROVE  ResultInv'
<1>0. Typed /\ OwnResults /\ file \in [Files -> FileRecords] /\ syncNotify \in [Files -> SUBSET Threads]
  BY TypedFacts DEF ResultInv
<1>1. PICK f \in Files : AsyncNotify(f) \/ \E t \in Threads : SyncNotify(t, f)
  BY DEF Notify
<1>2. /\ cpu.at = "guest" /\ events' = Append(events, Sync)
      /\ UNCHANGED <<worker, results, resultsPending, thread>>
      /\ cpu'.file = f /\ cpu'.at \in {"sync notify", "async notify"}
  <2>1. ASSUME NEW h \in {"sync notify", "async notify"}, NEW t, cpu.at = "guest", WaitResult(h, f, t), UNCHANGED thread
        PROVE  /\ cpu.at = "guest" /\ events' = Append(events, Sync)
               /\ UNCHANGED <<worker, results, resultsPending, thread>>
               /\ cpu'.file = f /\ cpu'.at \in {"sync notify", "async notify"}
    BY <2>1 DEF WaitResult, In
  <2>2. CASE AsyncNotify(f)
    BY <2>1, <2>2 DEF AsyncNotify
  <2>3. CASE \E t \in Threads : SyncNotify(t, f)
    BY <2>1, <2>3 DEF SyncNotify
  <2> QED
    BY <1>1, <2>2, <2>3
<1>3. \A g \in Files : (HasOperation(g)' <=> HasOperation(g)) /\ \A n : Answers(g, n) => Answers(g, n)'
  BY <1>0, <1>2, AnswersBehind DEF HasOperation, HasResult
<1>4. CallsOf(f) /\ \A h \in {"free", "close", "sync notify", "async notify"} : ~At(h, f)
  BY <1>2, QuietFile
<1>5. \A u \in Threads, type \in {"io", "async"}, g \in Files : WaitsFor(u, type, g)' <=> WaitsFor(u, type, g)
  BY <1>2 DEF WaitsFor
<1>6. CallerAwake'
  BY <1>2 DEF CallerAwake
<1>7. ASSUME \A g \in Files \ {f} : file'[g] = file[g] /\ syncNotify'[g] = syncNotify[g] /\ (g \in asyncNotify' <=> g \in asyncNotify)
      PROVE  \A g \in Files \ {f} : CallsOf(g)'
  BY <1>2, <1>3, <1>7, OtherCalls
<1>8. ASSUME file'[f] = file[f], syncNotify'[f] = {}, f \notin asyncNotify',
             ~At("free", f)', ~At("close", f)',
             At("sync notify", f)' \/ At("async notify", f)',
             At("async notify", f)' => ~At("sync notify", f)' /\ file[f].pendingAsyncResult /\ syncNotify[f] = {},
             At("sync notify", f)' => ~At("async notify", f)' /\ ~asyncBusy(f) /\ syncNotify[f] = {cpu'.thread}
      PROVE  CallsOf(f)'
  <2>1. ASSUME NEW t \in Threads, WaitsFor(t, "io", f)'
        PROVE  At("sync notify", f)' /\ t = cpu'.thread /\ HasOperation(f)' /\ Answers(f, thread[t].op)'
    <3>1. t \in syncNotify[f] /\ HasOperation(f) /\ Answers(f, thread[t].op)
      BY <1>4, <1>5, <2>1 DEF CallsOf, SyncWaits
    <3>2. PICK n : n = thread[t].op
      OBVIOUS
    <3>3. Answers(f, n)' /\ thread'[t].op = n
      BY <1>2, <1>3, <3>1, <3>2
    <3> QED
      BY <1>3, <1>8, <3>1, <3>3 DEF Answers
  <2>2. SyncWaits(f)'
    <3>1. At("sync notify", f)' => HasOperation(f)'
      BY <1>3, <1>4, <1>8 DEF CallsOf, SyncWaits
    <3> QED
      BY <1>8, <2>1, <3>1 DEF SyncWaits
  <2>3. Apart(f)'
    BY <1>8 DEF Apart, asyncBusy
  <2>4. Owned(f)' /\ ClosedIsEmpty(f)'
    BY <1>4, <1>8 DEF CallsOf, Owned, ClosedIsEmpty
  <2>5. AsyncWaits(f)'
    <3>1. PICK n : n = file[f].asyncOp
      OBVIOUS
    <3>2. file'[f].pendingAsyncResult => IF HasOperation(f)' THEN Answers(f, n)' ELSE file'[f].asyncResult = n
      BY <1>3, <1>4, <1>8, <3>1 DEF CallsOf, AsyncWaits
    <3>3. file'[f].pendingAsyncResult =>
             IF HasOperation(f)' THEN Answers(f, file[f].asyncOp)' ELSE file'[f].asyncResult = file'[f].asyncOp
      BY <1>8, <3>1, <3>2 DEF Answers
    <3>4. \A t \in Threads : WaitsFor(t, "async", f)' =>
            /\ file'[f].pendingAsyncResult /\ thread'[t].op = file'[f].asyncOp
            /\ file'[f].waitingThreads = <<t>>
      BY <1>2, <1>4, <1>5, <1>8 DEF CallsOf, AsyncWaits
    <3>5. file'[f].waitingThreads = << >> \/ \E t \in Threads : file'[f].waitingThreads = <<t>> /\ WaitsFor(t, "async", f)'
      BY <1>4, <1>5, <1>8 DEF CallsOf, AsyncWaits
    <3> QED
      BY <3>3, <3>4, <3>5 DEF AsyncWaits
  <2> QED
    BY <2>2, <2>3, <2>4, <2>5 DEF CallsOf
<1>9. ASSUME file' = file
      PROVE  OwnResults'
  BY <1>0, <1>2, <1>9 DEF OwnResults
<1>10. CASE AsyncNotify(f)
  <2>1. /\ f \in asyncNotify /\ asyncNotify' = asyncNotify \ {f} /\ cpu' = In("async notify", f, NoThread)
        /\ UNCHANGED <<file, syncNotify>>
    BY <1>10 DEF AsyncNotify, WaitResult
  <2>2. cpu'.at = "async notify"
    BY <2>1 DEF In
  <2>3. file[f].pendingAsyncResult /\ syncNotify[f] = {}
    BY <1>4, <2>1 DEF CallsOf, Apart, asyncBusy
  <2>4. CallsOf(f)'
    BY <1>2, <1>8, <2>1, <2>2, <2>3 DEF At
  <2>5. \A g \in Files \ {f} : CallsOf(g)'
    BY <1>7, <2>1
  <2> QED
    BY <1>6, <1>9, <2>1, <2>4, <2>5 DEF ResultInv
<1>11. ASSUME NEW t \in Threads, SyncNotify(t, f)
       PROVE  ResultInv'
  <2>1. /\ t \in syncNotify[f] /\ syncNotify' = [syncNotify EXCEPT ![f] = @ \ {t}] /\ cpu' = In("sync notify", f, t)
        /\ file' = [file EXCEPT ![f].pendingAsyncResult = FALSE, ![f].hasAsyncResult = FALSE]
        /\ UNCHANGED asyncNotify
    BY <1>11 DEF SyncNotify, WaitResult
  <2>2. cpu'.at = "sync notify" /\ cpu'.thread = t
    BY <2>1 DEF In
  <2>3. syncNotify[f] = {t}
    BY <1>0, <1>4, <2>1 DEF CallsOf, SyncWaits
  <2>4. ~asyncBusy(f) /\ f \notin asyncNotify
    BY <1>4, <2>1 DEF CallsOf, Apart, asyncBusy
  <2>5. file' = file
    <3>1. PICK node : node = [file[f] EXCEPT !.pendingAsyncResult = FALSE, !.hasAsyncResult = FALSE]
      OBVIOUS
    <3>2. node = file[f]
      BY <1>0, <2>4, <3>1 DEF asyncBusy, FileRecords
    <3>3. file' = [file EXCEPT ![f] = node]
      BY <1>0, <2>1, <3>1
    <3> QED
      BY <1>0, <3>2, <3>3
  <2>6. syncNotify'[f] = {} /\ \A g \in Files \ {f} : syncNotify'[g] = syncNotify[g]
    BY <1>0, <2>1, <2>3
  <2>7. CallsOf(f)'
    BY <1>2, <1>8, <2>1, <2>2, <2>3, <2>4, <2>5, <2>6 DEF At
  <2>8. \A g \in Files \ {f} : CallsOf(g)'
    BY <1>7, <2>1, <2>5, <2>6
  <2> QED
    BY <1>6, <1>9, <2>5, <2>7, <2>8 DEF ResultInv
<1> QED
  BY <1>1, <1>10, <1>11

(* The handlers that waited for the result go on.                          *)
LEMMA PoppedCalls ==
    ASSUME ResultInv, cpu.at \in Waiting, NEW f \in Files, f = cpu.file, WaitIsOver(f), PopResult(f),
           UNCHANGED <<events, worker, asyncNotify, syncNotify>>, NEW node, file' = [file EXCEPT ![f] = node],
           cpu'.at = "guest" \/ cpu'.file = f,
           \A t \in Threads : thread'[t] = thread[t]
              \/ (thread'[t].waits = "none" /\ thread[t].file = f)
    PROVE  /\ \A g \in Files \ {f} : CallsOf(g)'
           /\ ~HasOperation(f)' /\ file'[f] = node /\ \A g \in Files \ {f} : file'[g] = file[g]
<1>0. Typed /\ QueueInv /\ file \in [Files -> FileRecords] /\ cpu.at # "ended"
  BY TypedFacts DEF ResultInv, Waiting
<1>1. /\ ~HasOperation(f)'
      /\ \A g \in Files \ {f} : /\ (HasOperation(g)' <=> HasOperation(g)) /\ results'[g] = results[g]
  BY <1>0, PoppedResult
<1>2. \A g \in Files \ {f} : \A n : Answers(g, n) => Answers(g, n)'
  BY <1>1, AnswersKept
<1>3. file'[f] = node /\ \A g \in Files \ {f} : file'[g] = file[g]
  BY <1>0
<1>4. ASSUME NEW g \in Files \ {f}
      PROVE  CallsOf(g)'
  <2>1. \A t \in Threads : thread'[t] = thread[t]
              \/ \A type \in {"io", "async"} : ~WaitsFor(t, type, g) /\ ~WaitsFor(t, type, g)'
    BY DEF WaitsFor
  <2> QED
    BY <1>0, <1>1, <1>2, <1>3, <2>1, OtherCalls
<1> QED
  BY <1>1, <1>3, <1>4

LEMMA FreedResult ==
    ASSUME ResultInv, Typed', Freed
    PROVE  ResultInv'
<1>0. Typed /\ OwnResults /\ cpu.at = "free" /\ cpu.at \in Waiting
  BY DEF ResultInv, Freed, Waiting
<1>1. PICK f \in Files : f = cpu.file
  BY <1>0 DEF Typed, QueueInv, HandlerTypes, Waiting
<1>2. /\ WaitIsOver(f) /\ PopResult(f) /\ file' = [file EXCEPT ![f] = Closed] /\ cpu'.at = "guest"
      /\ UNCHANGED <<events, worker, asyncNotify, syncNotify, thread>>
  BY <1>1, ThreadRecordFacts DEF Freed, queueVars
<1>3. /\ \A g \in Files \ {f} : CallsOf(g)'
      /\ ~HasOperation(f)' /\ file'[f] = Closed /\ \A g \in Files \ {f} : file'[g] = file[g]
  BY <1>0, <1>1, <1>2, PoppedCalls
<1>4. CallsOf(f) /\ At("free", f) /\ ~At("sync notify", f)
  BY <1>0, <1>1 DEF ResultInv, At
<1>5. syncNotify[f] = {} /\ f \notin asyncNotify /\ \A t \in Threads, type \in {"io", "async"} : ~WaitsFor(t, type, f)
  BY <1>4 DEF CallsOf, Apart, SyncWaits
<1>6. CallsOf(f)'
  <2>1. \A t \in Threads, type \in {"io", "async"} : ~WaitsFor(t, type, f)'
    BY <1>2, <1>5 DEF WaitsFor
  <2> QED
    BY <1>2, <1>3, <1>5, <2>1, ClosedFields, IdleCalls
<1>7. OwnResults'
  BY <1>0, <1>2, <1>3, ClosedFields DEF OwnResults
<1>8. CallerAwake'
  BY <1>2 DEF CallerAwake
<1> QED
  BY <1>3, <1>6, <1>7, <1>8 DEF ResultInv

LEMMA SyncNotifiedResult ==
    ASSUME ResultInv, Typed', SyncNotified
    PROVE  ResultInv'
<1>0. /\ Typed /\ OwnResults /\ cpu.at \in Waiting /\ QueueInv
      /\ file \in [Files -> FileRecords] /\ thread \in [Threads -> ThreadRecords]
  BY TypedFacts DEF ResultInv, SyncNotified, Waiting
<1>1. PICK f \in Files, node \in FileRecords, t \in Threads, record \in ThreadRecords :
              /\ f = cpu.file /\ t = cpu.thread /\ cpu.at = "sync notify" /\ WaitIsOver(f) /\ PopResult(f)
              /\ node.open = file[f].open /\ node.asyncOp = file[f].asyncOp /\ node.asyncResult = file[f].asyncResult
              /\ ~node.pendingAsyncResult /\ ~node.hasAsyncResult
              /\ node.closePending = file[f].closePending /\ node.waitingThreads = file[f].waitingThreads
              /\ file' = [file EXCEPT ![f] = node]
              /\ record = IF WaitsFor(t, "io", f) THEN Awake(thread[t].op, results[f]) ELSE thread[t]
              /\ thread' = [thread EXCEPT ![t] = record]
              /\ cpu'.at = "guest"
              /\ UNCHANGED <<queueVars, worker, applied, timing, issued, asyncNotify, syncNotify>>
  BY <1>0, SyncNotifiedEffect
<1>2. thread'[t] = record /\ \A u \in Threads \ {t} : thread'[u] = thread[u]
  BY <1>0, <1>1
<1>3. CallsOf(f) /\ At("sync notify", f) /\ ~At("free", f)
  BY <1>1 DEF ResultInv, At
<1>4. /\ syncNotify[f] = {} /\ f \notin asyncNotify /\ HasOperation(f) /\ HasResult(f) /\ ~asyncBusy(f)
      /\ \A u \in Threads : ~WaitsFor(u, "async", f) /\ (WaitsFor(u, "io", f) => u = t)
      /\ file[f].waitingThreads = << >> /\ file[f].open
  <2>1. syncNotify[f] = {} /\ HasOperation(f) /\ ~asyncBusy(f)
    BY <1>3 DEF CallsOf, SyncWaits, Apart
  <2>2. HasResult(f)
    BY <1>0, <1>1, <2>1, WaitOver
  <2>3. file[f].open
    BY <1>0, <2>1 DEF QueueInv, FileOpen
  <2>4. f \notin asyncNotify /\ \A u \in Threads : ~WaitsFor(u, "async", f)
    BY <1>3, <2>1 DEF CallsOf, Apart, AsyncWaits, asyncBusy
  <2>5. \A u \in Threads : WaitsFor(u, "io", f) => u = t
    BY <1>1, <1>3, <2>1 DEF CallsOf, SyncWaits
  <2>6. file[f].waitingThreads = << >>
    BY <1>3, <2>4 DEF CallsOf, AsyncWaits
  <2> QED
    BY <2>1, <2>2, <2>3, <2>4, <2>5, <2>6
<1>5. WaitsFor(t, "io", f) => record.waits = "none" /\ record.op = thread[t].op /\ record.result = thread[t].op
  <2> SUFFICES ASSUME WaitsFor(t, "io", f)
               PROVE  record.waits = "none" /\ record.op = thread[t].op /\ record.result = thread[t].op
    OBVIOUS
  <2>1. results[f] = thread[t].op
    BY <1>3, <1>4 DEF CallsOf, SyncWaits, Answers
  <2>2. PICK n \in Nat : n = thread[t].op
    BY <1>0, TypedFacts
  <2>3. record = Awake(n, n)
    BY <1>1, <2>1, <2>2
  <2> QED
    BY <2>2, <2>3, ThreadRecordFacts
<1>6. \A u \in Threads : thread'[u] = thread[u] \/ (thread'[u].waits = "none" /\ thread[u].file = f)
  BY <1>1, <1>2, <1>5 DEF WaitsFor
<1>7. /\ \A g \in Files \ {f} : CallsOf(g)'
      /\ ~HasOperation(f)' /\ file'[f] = node /\ \A g \in Files \ {f} : file'[g] = file[g]
  <2>1. UNCHANGED <<events, worker, asyncNotify, syncNotify>>
    BY <1>1 DEF queueVars
  <2> QED
    BY <1>0, <1>1, <1>6, <2>1, PoppedCalls
<1>8. CallsOf(f)'
  <2>1. \A u \in Threads, type \in {"io", "async"} : ~WaitsFor(u, type, f)'
    <3>1. WaitsFor(t, "io", f) \/ record = thread[t]
      BY <1>1
    <3>2. \A type \in {"io", "async"} : ~WaitsFor(t, type, f)'
      BY <1>2, <1>4, <1>5, <3>1 DEF WaitsFor
    <3>3. \A u \in Threads \ {t}, type \in {"io", "async"} : ~WaitsFor(u, type, f)'
      BY <1>2, <1>4 DEF WaitsFor
    <3> QED
      BY <3>2, <3>3
  <2> QED
    BY <1>1, <1>4, <1>7, <2>1, IdleCalls
<1>9. OwnResults'
  <2>1. thread'[t].waits = "none" => thread'[t].result = thread'[t].op
    BY <1>0, <1>1, <1>2, <1>5 DEF OwnResults
  <2> QED
    BY <1>0, <1>1, <1>2, <1>7, <2>1 DEF OwnResults
<1>10. CallerAwake'
  BY <1>1 DEF CallerAwake
<1> QED
  BY <1>7, <1>8, <1>9, <1>10 DEF ResultInv

LEMMA AsyncNotifiedResult ==
    ASSUME ResultInv, Typed', AsyncNotified
    PROVE  ResultInv'
<1>0. /\ Typed /\ OwnResults /\ cpu.at \in Waiting /\ QueueInv
      /\ file \in [Files -> FileRecords] /\ thread \in [Threads -> ThreadRecords]
  BY TypedFacts DEF ResultInv, AsyncNotified, Waiting
<1>1. PICK f \in Files, node \in FileRecords, woken \in SUBSET Threads :
              /\ f = cpu.file /\ cpu.at = "async notify" /\ WaitIsOver(f) /\ PopResult(f)
              /\ woken = {t \in Threads : file[f].waitingThreads # << >> /\ t = Head(file[f].waitingThreads)
                                          /\ WaitsFor(t, "async", f)}
              /\ node.open = file[f].open /\ node.asyncOp = file[f].asyncOp
              /\ node.asyncResult = (IF HasResult(f) THEN results[f] ELSE file[f].asyncResult)
              /\ ~node.pendingAsyncResult /\ node.hasAsyncResult = (woken = {})
              /\ node.waitingThreads = (IF file[f].waitingThreads = << >> THEN << >> ELSE Tail(file[f].waitingThreads))
              /\ file' = [file EXCEPT ![f] = node]
              /\ thread' = [t \in Threads |-> IF t \in woken THEN Awake(thread[t].op, node.asyncResult) ELSE thread[t]]
              /\ cpu' = (IF woken # {} /\ node.closePending THEN In("close", f, NoThread) ELSE InGuest)
              /\ UNCHANGED <<queueVars, worker, applied, timing, issued, asyncNotify, syncNotify>>
  BY <1>0, AsyncNotifiedEffect
<1>2. CallsOf(f) /\ At("async notify", f) /\ ~At("free", f) /\ ~At("sync notify", f) /\ ~At("close", f)
  BY <1>1 DEF ResultInv, At
<1>3. /\ file[f].pendingAsyncResult /\ syncNotify[f] = {} /\ f \notin asyncNotify
      /\ \A u \in Threads : ~WaitsFor(u, "io", f)
  BY <1>2 DEF CallsOf, Apart, SyncWaits, asyncBusy
<1>4. node.asyncResult = file[f].asyncOp /\ node.asyncResult \in Nat
  <2>1. HasOperation(f) => HasResult(f)
    BY <1>0, <1>1, WaitOver
  <2>2. CASE HasResult(f)
    BY <1>1, <1>2, <1>3, <2>2 DEF CallsOf, AsyncWaits, Answers, HasOperation, FileRecords
  <2>3. CASE ~HasResult(f)
    BY <1>1, <1>2, <1>3, <2>1, <2>3 DEF CallsOf, AsyncWaits, FileRecords
  <2> QED
    BY <2>2, <2>3
<1>5. /\ node.waitingThreads = << >>
      /\ \A u \in Threads : u \in woken <=> WaitsFor(u, "async", f)
  <2>1. CASE file[f].waitingThreads = << >>
    <3>1. woken = {} /\ node.waitingThreads = << >>
      BY <1>1, <2>1
    <3>2. \A u \in Threads : ~WaitsFor(u, "async", f)
      <4>1. \A u \in Threads : <<u>> # << >>
        OBVIOUS
      <4> QED
        BY <1>2, <2>1, <4>1 DEF CallsOf, AsyncWaits
    <3> QED
      BY <3>1, <3>2
  <2>2. ASSUME NEW t \in Threads, file[f].waitingThreads = <<t>>, WaitsFor(t, "async", f)
        PROVE  /\ node.waitingThreads = << >>
               /\ \A u \in Threads : u \in woken <=> WaitsFor(u, "async", f)
    <3>1. Tail(<<t>>) = << >> /\ Head(<<t>>) = t /\ <<t>> # << >>
      OBVIOUS
    <3>2. node.waitingThreads = << >> /\ woken = {u \in Threads : u = t /\ WaitsFor(u, "async", f)}
      BY <1>1, <2>2, <3>1
    <3>3. \A u \in Threads : WaitsFor(u, "async", f) => <<u>> = <<t>>
      BY <1>2, <2>2 DEF CallsOf, AsyncWaits
    <3> QED
      BY <3>2, <3>3
  <2> QED
    BY <1>2, <2>1, <2>2 DEF CallsOf, AsyncWaits
<1>6. \A u \in Threads : IF WaitsFor(u, "async", f)
                         THEN thread'[u] = Awake(file[f].asyncOp, file[f].asyncOp)
                         ELSE thread'[u] = thread[u]
  <2>1. \A u \in Threads : WaitsFor(u, "async", f) => thread[u].op = file[f].asyncOp
    BY <1>2 DEF CallsOf, AsyncWaits
  <2> QED
    BY <1>1, <1>4, <1>5, <2>1
<1>7. \A u \in Threads : WaitsFor(u, "async", f) => thread'[u].waits = "none" /\ thread'[u].op = thread'[u].result
  BY <1>4, <1>6, ThreadRecordFacts
<1>8. cpu'.at \in {"guest", "close"} /\ (cpu'.at = "guest" \/ cpu'.file = f)
  BY <1>1 DEF In, InGuest
<1>9. /\ \A g \in Files \ {f} : CallsOf(g)'
      /\ ~HasOperation(f)' /\ file'[f] = node /\ \A g \in Files \ {f} : file'[g] = file[g]
  <2>1. UNCHANGED <<events, worker, asyncNotify, syncNotify>>
    BY <1>1 DEF queueVars
  <2>2. \A u \in Threads : thread'[u] = thread[u] \/ (thread'[u].waits = "none" /\ thread[u].file = f)
    BY <1>6, <1>7 DEF WaitsFor
  <2> QED
    BY <1>0, <1>1, <1>8, <2>1, <2>2, PoppedCalls
<1>10. CallsOf(f)'
  <2>1. \A u \in Threads, type \in {"io", "async"} : ~WaitsFor(u, type, f)'
    BY <1>3, <1>6, <1>7 DEF WaitsFor
  <2>2. node.open
    <3>1. ~file[f].open => file[f] = Closed
      BY <1>2 DEF CallsOf, ClosedIsEmpty
    <3> QED
      BY <1>1, <1>3, <3>1, ClosedFields
  <2> QED
    BY <1>1, <1>3, <1>5, <1>8, <1>9, <2>1, <2>2, IdleCalls
<1>11. OwnResults'
  <2>1. \A u \in Threads : thread'[u].waits = "none" => thread'[u].result = thread'[u].op
    BY <1>0, <1>6, <1>7 DEF OwnResults
  <2>2. \A g \in Files : file'[g].hasAsyncResult => file'[g].asyncResult = file'[g].asyncOp
    BY <1>0, <1>1, <1>4, <1>9 DEF OwnResults
  <2> QED
    BY <2>1, <2>2 DEF OwnResults
<1>12. CallerAwake'
  BY <1>8 DEF CallerAwake
<1> QED
  BY <1>9, <1>10, <1>11, <1>12 DEF ResultInv

(* The emulator's thread saves a state or shuts down, the worker steps     *)
LEMMA PausingResult ==
    ASSUME ResultInv, Typed', SaveState \/ Shutdown \/ (SavedAndLoaded /\ ~lost')
    PROVE  ResultInv'
<1>1. Typed
  BY DEF ResultInv
<1>2. CASE SaveState \/ Shutdown
  <2>1. /\ events' = Append(events, Sync) /\ cpu.at = "guest" /\ cpu'.at \in {"save", "shutdown"}
        /\ UNCHANGED <<resultsPending, results, worker, file, thread, asyncNotify, syncNotify>>
    BY <1>2 DEF SaveState, Shutdown, SyncThread, In, InGuestCode, kernelVars
  <2>2. \A g \in Files : (HasOperation(g)' <=> HasOperation(g)) /\ \A n : Answers(g, n) => Answers(g, n)'
    BY <1>1, <2>1, AnswersBehind DEF HasOperation, HasResult
  <2> QED
    BY <2>1, <2>2, QuietStep
<1>3. CASE SavedAndLoaded /\ ~lost'
  <2>1. /\ cpu.at = "save" /\ cpu'.at = "guest"
        /\ UNCHANGED <<resultsPending, results, file, thread, asyncNotify, syncNotify>>
    BY <1>3 DEF SavedAndLoaded, InGuest
  <2>2. \A g \in Files : (HasOperation(g)' <=> HasOperation(g)) /\ \A n : Answers(g, n) => Answers(g, n)'
    <3>1. CASE UNCHANGED <<events, worker>>
      BY <2>1, <3>1, SameAnswers
    <3>2. CASE /\ events' = << >>
               /\ worker' = IF AtWorker = {} THEN worker ELSE [worker EXCEPT !.at = "processed", !.event = Sync]
               /\ lost' = (lost \/ \E f \in Files : Undone(f))
      <4>1. DOMAIN events' = {}
        BY <3>2
      <4>2. \A g \in Files : ~Doing(g)
        BY <1>3, <3>2, InQueueIsUndone
      <4>3. \A g \in Files : ~Doing(g)'
        BY <3>2, <4>2 DEF Doing, AtWorker
      <4> QED
        BY <2>1, <4>1, <4>3 DEF Answers, HasOperation, HasResult
    <3> QED
      BY <1>3, <3>1, <3>2 DEF SavedAndLoaded
  <2> QED
    BY <2>1, <2>2, QuietStep
<1> QED
  BY <1>2, <1>3

(* Once the state of the files is gone, nothing that was answered changes. *)
LEMMA EndedResult ==
    ASSUME ResultInv, Typed', ShutDown \/ (cpu.at = "ended" /\ [Next]_vars)
    PROVE  ResultInv'
<1>1. UNCHANGED <<file, thread>> /\ cpu'.at = "ended"
  <2>1. CASE ShutDown
    BY <2>1 DEF ShutDown, In, kernelVars
  <2>2. ASSUME cpu.at = "ended", [Next]_vars
        PROVE  UNCHANGED <<file, thread, cpu>>
    <3>1. CASE \E t \in Threads, f \in Files : Call(t, f)
      BY <2>2, <3>1 DEF Call, Read, ReadAsync, Lseek, LseekAsync, Close, CloseAsync, TakeAsyncResult, WaitAsync,
                        Calls, InGuestCode
    <3>2. CASE \E f \in Files : Open(f) \/ \E found \in BOOLEAN : OpenAsync(f, found)
      BY <2>2, <3>2 DEF Open, OpenAsync, OpenedAs, InGuestCode
    <3>3. CASE (\E t \in Threads : ReleaseWaitThread(t)) \/ Notify \/ SaveState \/ Shutdown
      BY <2>2, <3>3 DEF ReleaseWaitThread, Notify, AsyncNotify, SyncNotify, SaveState, Shutdown, InGuestCode
    <3>4. CASE Continue
      BY <2>2, <3>4 DEF Continue, ReadHere, Freed, SyncNotified, AsyncNotified, CloseNotified, SavedAndLoaded, ShutDown
    <3>5. CASE ManagerStep \/ UNCHANGED vars
      BY <3>5 DEF ManagerStep, vars, kernelVars
    <3> QED
      BY <2>2, <3>1, <3>2, <3>3, <3>4, <3>5 DEF Next
  <2> QED
    BY <2>1, <2>2
<1>2. OwnResults'
  BY <1>1 DEF ResultInv, OwnResults
<1> QED
  BY <1>1, <1>2 DEF ResultInv

LEMMA KeptResult ==
    ASSUME ResultInv, Typed', cpu.at # "ended", ManagerStep \/ UNCHANGED vars
    PROVE  ResultInv'
<1>1. UNCHANGED <<file, thread, asyncNotify, syncNotify, cpu>>
  BY DEF ManagerStep, vars, kernelVars
<1>2. \A g \in Files : (HasOperation(g)' <=> HasOperation(g)) /\ \A n : Answers(g, n) => Answers(g, n)'
  <2>1. CASE ManagerStep
    BY <2>1, ManagerAnswers DEF ResultInv
  <2>2. CASE UNCHANGED vars
    BY <2>2, SameAnswers DEF vars, managerVars, queueVars
  <2> QED
    BY <2>1, <2>2
<1> QED
  BY <1>1, <1>2, QuietStep

LEMMA ResultInvStep ==
    ASSUME Careless = {}, ResultInv, [Next]_vars, ~lost'
    PROVE  ResultInv'
<1>1. Typed'
  BY TypedStep DEF ResultInv
<1>2. CASE cpu.at = "ended"
  BY <1>1, <1>2, EndedResult
<1>3. CASE cpu.at # "ended"
  <2>1. CASE \E t \in Threads, f \in Files : Call(t, f)
    <3>1. PICK t \in Threads, f \in Files : Call(t, f)
      BY <2>1
    <3>2. CASE Close(t, f)
      BY <1>1, <3>2, CloseResult
    <3> QED
      BY <1>1, <3>1, <3>2, ReadResult, ReadAsyncResult, SeekResult, CloseAsyncResult, TakeResult, WaitAsyncResult DEF Call
  <2>2. CASE \E f \in Files : Open(f) \/ \E found \in BOOLEAN : OpenAsync(f, found)
    BY <1>1, <2>2, OpenResult
  <2>3. CASE \E t \in Threads : ReleaseWaitThread(t)
    BY <1>1, <2>3, ReleasedResult
  <2>4. CASE Notify
    BY <1>1, <2>4, NotifyResult
  <2>5. CASE Continue
    BY <1>1, <2>5, ReadHereResult, FreedResult, SyncNotifiedResult, AsyncNotifiedResult, CloseResult, PausingResult,
       EndedResult DEF Continue
  <2>6. CASE SaveState \/ Shutdown
    BY <1>1, <2>6, PausingResult
  <2>7. CASE ManagerStep \/ UNCHANGED vars
    BY <1>1, <1>3, <2>7, KeptResult
  <2> QED
    BY <2>1, <2>2, <2>3, <2>4, <2>5, <2>6, <2>7 DEF Next
<1> QED
  BY <1>2, <1>3

LEMMA InitialResult == Init => ResultInv
<1> SUFFICES ASSUME Init PROVE ResultInv
  OBVIOUS
<1>1. Typed
  BY InitialTypes
<1>2. /\ cpu.at = "guest" /\ events = << >> /\ resultsPending = {} /\ results = [f \in Files |-> NoResult]
      /\ file = [f \in Files |-> Closed] /\ thread = [t \in Threads |-> Awake(Failure, Failure)]
      /\ asyncNotify = {} /\ syncNotify = [f \in Files |-> {}]
  BY DEF Init, ManagerInit, InGuest
<1>3. PICK record : record = Awake(Failure, Failure)
  OBVIOUS
<1>4. record.waits = "none" /\ record.op = record.result /\ \A t \in Threads : thread[t] = record
  BY <1>2, <1>3, ThreadRecordFacts
<1>5. OwnResults
  BY <1>2, <1>4, ClosedFields DEF OwnResults
<1>6. CallerAwake
  BY <1>2 DEF CallerAwake
<1>7. ASSUME NEW f \in Files
      PROVE  CallsOf(f)
  <2>1. \A h \in {"free", "close", "sync notify", "async notify"} : ~At(h, f)
    BY <1>2 DEF At
  <2>2. ~HasOperation(f) /\ file[f] = Closed /\ syncNotify[f] = {} /\ f \notin asyncNotify
    BY <1>2 DEF HasOperation, HasResult
  <2>3. \A t \in Threads, type \in {"io", "async"} : ~WaitsFor(t, type, f)
    BY <1>4 DEF WaitsFor
  <2> QED
    BY <2>1, <2>2, <2>3, ClosedFields DEF CallsOf, SyncWaits, Apart, Owned, AsyncWaits, ClosedIsEmpty
<1> QED
  BY <1>1, <1>5, <1>6, <1>7 DEF ResultInv

(* Every call gets the result of its own operation, whatever the worker is *)
(* at when the events of the calls fire (__IoSyncNotify, __IoAsyncNotify)  *)
(* or a call for the same file has to wait for it, between two of its      *)
(* rounds too: for a guest that is careful, until a state is saved without *)
(* what was queued.                                                        *)
THEOREM OwnResultTheorem ==
    ASSUME Careless = {}
    PROVE  Spec => []OwnResult
<1> DEFINE Inv == lost \/ ResultInv
<1>1. Init => Inv
  BY InitialResult
<1>2. Inv /\ [Next]_vars => Inv'
  BY ResultInvStep, LostStays
<1>3. Inv => OwnResult
  BY DEF ResultInv, OwnResults, OwnResult
<1> QED
  BY <1>1, <1>2, <1>3, PTL DEF Spec
=============================================================================
