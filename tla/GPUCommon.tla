------------------------------ MODULE GPUCommon ------------------------------
(***************************************************************************)
(* Display lists (GPUCommon.cpp and sceGe.cpp): the guest enqueues lists   *)
(* of commands, which the GPU executes one after the other, up to a stall  *)
(* address that the guest moves on, or to a SIGNAL or FINISH, which        *)
(* triggers an interrupt.  The end of the interrupt's handler sets the GPU *)
(* going again.                                                            *)
(*                                                                         *)
(* The GPU is a thread of the host of its own, or it does what it is told  *)
(* inside of the call that tells it.  What either does while it holds      *)
(* listLock is one step.  Calls that first wait for the GPU's thread may   *)
(* find it between two runs of its loop, when SyncThread returns at once.  *)
(***************************************************************************)
EXTENDS Integers, Queues

LOCAL Sets == INSTANCE FiniteSetsExt
LOCAL Seqs == INSTANCE SequencesExt

CONSTANTS
    DisplayListMaxCount,
    NoList,
    Threads,        \* threads of the guest that wait for lists
    Programs,       \* the lists of commands the guest writes; what follows is FINISH
    Stalls,         \* the commands the guest has a list stall at, 0: at none
    SeparateThread, \* g_Config.bSeparateCPUThread: some of TRUE and FALSE
    NewSdk,         \* sceKernelGetCompiledSdkVersion() > 0x02000010
    Careless,       \* what a careful guest does not do
    MaxQueued       \* bound: requests to the GPU

(* Every SIGNAL or FINISH comes with its END.                              *)
Commands == {"draw", "suspend", "continue", "pause", "sync", "finish"}

ASSUME GPUCommonAssumption ==
    /\ DisplayListMaxCount \in Nat \ {0} /\ NoList \notin 0 .. DisplayListMaxCount - 1
    /\ Programs \subseteq Seq(Commands) /\ Stalls \subseteq Nat
    /\ SeparateThread \subseteq BOOLEAN /\ NewSdk \in BOOLEAN
    /\ Careless \subseteq {"busy", "break all", "continue", "dequeue", "refused head", "save", "head of paused"}
    /\ MaxQueued \in Nat

VARIABLES
    separate,
    dls, dlQueue, currentList, isbreak, nextListID,
    drawComplete,     \* drawCompleteTicks: "never", "due" at a time to come, or "past"
    drawSyncs,        \* how many events of the end of drawing are pending
    ge_pending_cb,    \* the interrupts that are pending, that of the handler included
    inHandler,
    listWaitingThreads, drawWaitingThreads,
    queued,           \* how often the GPU was told to process the queue
    overtaken,        \* not of the code: a list came before drawing ended, but after the last look
    gpu               \* at: where it is in ProcessDLQueueInternal; list: with which list

lists == <<dls, dlQueue, currentList, isbreak, nextListID>>
waiting == <<listWaitingThreads, drawWaitingThreads>>
vars == <<separate, lists, drawComplete, drawSyncs, ge_pending_cb, inHandler, waiting, queued, overtaken, gpu>>

Lists == 0 .. DisplayListMaxCount - 1

(* done stands for waitTicks, which is 0 or infinite: no list ends without *)
(* an interrupt, since nothing disables them.                              *)
NoneList ==
    [state |-> "none", signal |-> "none", program |-> << >>, pc |-> 1, stall |-> 0,
     pendingInterrupt |-> FALSE, started |-> FALSE, done |-> TRUE]

Idle == [at |-> "idle", list |-> NoList]
At(step, l) == gpu' = [at |-> step, list |-> l]

Init ==
    /\ separate \in SeparateThread
    /\ dls = [l \in Lists |-> NoneList]
    /\ dlQueue = << >> /\ currentList = NoList /\ isbreak = FALSE /\ nextListID = 0
    /\ drawComplete = "past" /\ drawSyncs = 0
    /\ ge_pending_cb = << >> /\ inHandler = FALSE
    /\ listWaitingThreads = [l \in Lists |-> {}] /\ drawWaitingThreads = {}
    /\ queued = 0 /\ overtaken = FALSE /\ gpu = Idle

----------------------------------------------------------------------------
(* The GPU                                                                 *)

Without(queue, l) == Selected(queue, Lists \ {l})

cpuVars == <<separate, isbreak, nextListID, inHandler, waiting>>

StartProcessing ==
    /\ gpu.at = "idle" /\ queued > 0
    /\ queued' = queued - 1
    /\ At("next", NoList)
    /\ UNCHANGED <<cpuVars, dls, dlQueue, currentList, drawComplete, drawSyncs, ge_pending_cb>>

GetNextListIndex ==
    /\ gpu.at = "next"
    /\ IF dlQueue = << >> THEN At("drawn", NoList) ELSE At("interpret", Head(dlQueue))
    /\ UNCHANGED <<cpuVars, dls, dlQueue, currentList, drawComplete, drawSyncs, ge_pending_cb, queued>>

(* A mutant: the list that is interpreted does not become the current one. *)
InterpretsAsBefore ==
    /\ gpu.at = "interpret"
    /\ IF dls[gpu.list].state = "paused"
       THEN gpu' = Idle /\ UNCHANGED dls
       ELSE /\ dls' = [dls EXCEPT ![gpu.list].started = TRUE, ![gpu.list].state = "running"]
            /\ At("run", gpu.list)
    /\ UNCHANGED <<cpuVars, dlQueue, currentList, drawComplete, drawSyncs, ge_pending_cb, queued>>

(* A mutant: a paused list is interpreted too.                             *)
InterpretsPaused ==
    /\ gpu.at = "interpret"
    /\ currentList' = gpu.list
    /\ dls' = [dls EXCEPT ![gpu.list].started = TRUE, ![gpu.list].state = "running"]
    /\ At("run", gpu.list)
    /\ UNCHANGED <<cpuVars, dlQueue, drawComplete, drawSyncs, ge_pending_cb, queued>>

(* InterpretList, to its loop                                              *)
InterpretList ==
    /\ gpu.at = "interpret"
    /\ IF dls[gpu.list].state = "paused"
       THEN gpu' = Idle /\ UNCHANGED <<dls, currentList>>
       ELSE /\ currentList' = gpu.list
            /\ dls' = [dls EXCEPT ![gpu.list].started = TRUE, ![gpu.list].state = "running"]
            /\ At("run", gpu.list)
    /\ UNCHANGED <<cpuVars, dlQueue, drawComplete, drawSyncs, ge_pending_cb, queued>>

list == dls[gpu.list]
Command == IF list.pc > Len(list.program) THEN "finish" ELSE list.program[list.pc]

Stall ==
    /\ gpu.at = "run" /\ list.pc = list.stall
    /\ gpu' = Idle
    /\ UNCHANGED <<cpuVars, dls, dlQueue, currentList, drawComplete, drawSyncs, ge_pending_cb, queued>>

Runs(commands) == gpu.at = "run" /\ list.pc # list.stall /\ Command \in commands

Draw ==
    /\ Runs({"draw"})
    /\ dls' = [dls EXCEPT ![gpu.list].pc = @ + 1]
    /\ UNCHANGED <<cpuVars, dlQueue, currentList, drawComplete, drawSyncs, ge_pending_cb, queued, gpu>>

(* __GeTriggerInterrupt                                                    *)
TriggerInterrupt(l, cmd) == ge_pending_cb' = Append(ge_pending_cb, [list |-> l, cmd |-> cmd])

(* Execute_End behind a SIGNAL; it goes by currentList.                    *)
Signal ==
    LET l == currentList
        triggers == Command \in {"suspend", "continue"}
    IN  /\ Runs({"suspend", "continue", "pause", "sync"})
        /\ dls' = [dls EXCEPT
                    ![l].pc = @ + 1, ![l].signal = Command,
                    ![l].state = IF Command = "suspend" /\ ~NewSdk THEN "paused" ELSE @,
                    ![l].pendingInterrupt = @ \/ triggers]
        /\ IF triggers THEN TriggerInterrupt(l, "signal") /\ gpu' = Idle
           ELSE UNCHANGED <<ge_pending_cb, gpu>>
        /\ UNCHANGED <<cpuVars, dlQueue, currentList, drawComplete, drawSyncs, queued>>

(* Execute_End behind a FINISH                                             *)
Finish ==
    LET l == currentList
        signal == dls[l].signal
    IN  /\ Runs({"finish"})
        /\ \/ /\ signal = "sync"
              /\ dls' = [dls EXCEPT ![l].pc = @ + 1, ![l].signal = "none"]
              /\ UNCHANGED <<ge_pending_cb, gpu>>
           \/ /\ signal = "pause"
              /\ dls' = [dls EXCEPT ![l].pc = @ + 1, ![l].state = "paused", ![l].pendingInterrupt = TRUE]
              /\ TriggerInterrupt(l, "finish")
              /\ gpu' = Idle
           \/ /\ signal \notin {"sync", "pause"}
              /\ dls' = [dls EXCEPT ![l].pc = @ + 1, ![l].pendingInterrupt = TRUE]
              /\ TriggerInterrupt(l, "finish")
              /\ At("done", gpu.list)
        /\ UNCHANGED <<cpuVars, dlQueue, currentList, drawComplete, drawSyncs, queued>>

(* "Some other list could've taken the spot while we dilly-dallied around."*)
RemoveDone ==
    /\ gpu.at = "done"
    /\ dlQueue' = IF list.state = "queued" THEN dlQueue ELSE Without(dlQueue, gpu.list)
    /\ At("next", NoList)
    /\ UNCHANGED <<cpuVars, dls, currentList, drawComplete, drawSyncs, ge_pending_cb, queued>>

(* The end of ProcessDLQueueInternal, after the lock was given up and taken*)
(* again; __GeTriggerSync replaces an event that is still in the list of   *)
(* posted events.                                                          *)
DrawingEnds ==
    /\ gpu.at = "drawn"
    /\ currentList' = NoList
    /\ drawComplete' = "due"
    /\ drawSyncs' \in {1, 2} /\ drawSyncs' \in {drawSyncs, drawSyncs + 1}
    /\ overtaken' = (dlQueue # << >>)
    /\ gpu' = Idle
    /\ UNCHANGED <<cpuVars, dls, dlQueue, ge_pending_cb, queued>>

Processing ==
    \/ StartProcessing \/ GetNextListIndex \/ InterpretList
    \/ Stall \/ Draw \/ Signal \/ Finish
    \/ RemoveDone

GPUStep == DrawingEnds \/ (Processing /\ UNCHANGED overtaken)

----------------------------------------------------------------------------
(* Calls of the guest, from its threads and from handlers                  *)

AtRest == queued = 0 /\ gpu.at = "idle"
CpuIsFree == separate \/ AtRest
Calls == CpuIsFree /\ queued < MaxQueued
gpuVars == <<separate, ge_pending_cb, inHandler, gpu, overtaken>>

(* A careful guest puts a list in front, takes one out or breaks the       *)
(* current one only when the GPU has done what it was told: sceGeDrawSync  *)
(* and sceGeListSync wait for that before they answer.  To enqueue a list  *)
(* behind the others needs no such care.                                   *)
MayReorder == AtRest \/ "busy" \in Careless

(* A mutant: an interrupt that is pending does not matter.                 *)
FreeListAnyway ==
    LET id(i) == (nextListID + i) % DisplayListMaxCount
        free(state) == {i \in Lists : dls[id(i)].state = state}
        complete == {i \in free("completed") : dls[id(i)].done}
    IN  IF free("none") # {} THEN id(Sets!Min(free("none")))
        ELSE IF complete # {} THEN id(Sets!Max(complete)) ELSE NoList

(* The ids are tried from nextListID on, for one that was never used; the  *)
(* last one that is complete will do.                                      *)
FreeList ==
    LET id(i) == (nextListID + i) % DisplayListMaxCount
        free(state) == {i \in Lists : dls[id(i)].state = state /\ ~dls[id(i)].pendingInterrupt}
        complete == {i \in free("completed") : dls[id(i)].done}
    IN  IF free("none") # {} THEN id(Sets!Min(free("none")))
        ELSE IF complete # {} THEN id(Sets!Max(complete)) ELSE NoList

Written(l, program, stall, state) ==
    [dls EXCEPT ![l] = [@ EXCEPT !.program = program, !.pc = 1, !.stall = stall, !.signal = "none",
                                 !.started = FALSE, !.done = FALSE, !.state = state]]

EnqueueList(program, stall) ==
    /\ Calls /\ FreeList # NoList
    /\ nextListID' = FreeList + 1
    /\ \/ /\ currentList # NoList
          /\ dls' = Written(FreeList, program, stall, "queued")
          /\ dlQueue' = Append(dlQueue, FreeList)
          /\ UNCHANGED <<currentList, drawComplete, queued>>
       \/ /\ currentList = NoList
          /\ dls' = Written(FreeList, program, stall, "running")
          /\ dlQueue' = <<FreeList>> \o dlQueue
          /\ currentList' = FreeList
          /\ drawComplete' = "never"
          /\ queued' = queued + 1
    /\ UNCHANGED <<gpuVars, isbreak, drawSyncs, waiting>>

PausedBySignal(l) == l.signal = "pause" \/ l.pendingInterrupt

(* EnqueueList with head: only in front of a paused list.  The one that is *)
(* refused has been written nevertheless.                                  *)
EnqueueHead(program, stall) ==
    LET l == FreeList
        written == Written(l, program, stall, "paused")
    IN  /\ Calls /\ l # NoList /\ MayReorder
        /\ currentList # NoList /\ PausedBySignal(dls[currentList]) => "head of paused" \in Careless
        /\ nextListID' = l + 1
        /\ \/ /\ currentList # NoList => dls[currentList].state = "paused"
              /\ dls' = IF currentList = NoList THEN written
                        ELSE [written EXCEPT ![currentList].state = "queued"]
              /\ currentList' = l
              /\ dlQueue' = <<l>> \o dlQueue
           \/ /\ currentList # NoList /\ dls[currentList].state # "paused"
              /\ "refused head" \in Careless
              /\ dls' = Written(l, program, stall, dls[l].state)
              /\ UNCHANGED <<currentList, dlQueue>>
        /\ UNCHANGED <<gpuVars, isbreak, drawComplete, drawSyncs, waiting, queued>>

Woken(l) ==
    /\ listWaitingThreads' = [listWaitingThreads EXCEPT ![l] = {}]
    /\ UNCHANGED drawWaitingThreads

(* DequeueList, with PopDLQueue and CheckDrawSync                          *)
DequeueList(l) ==
    LET queue == IF l = Head(dlQueue) THEN Tail(dlQueue) ELSE Without(dlQueue, l)
        dequeued == [dls EXCEPT ![l].state = "none", ![l].done = TRUE]
        running == dequeued[currentList].state = "running"
        popped == [dequeued EXCEPT ![Head(queue)].state = IF running THEN "running" ELSE @]
    IN  /\ Calls /\ dls[l].state # "none" /\ ~dls[l].started /\ dlQueue # << >>
        /\ MayReorder /\ ("dequeue" \in Careless \/ l \notin {currentList, Head(dlQueue)})
        /\ currentList # NoList \/ l # Head(dlQueue) \/ queue = << >>
        /\ dlQueue' = queue
        /\ dls' = IF queue = << >> THEN [k \in Lists |-> [dequeued[k] EXCEPT !.state = "none"]]
                  ELSE IF l = Head(dlQueue) THEN popped ELSE dequeued
        /\ currentList' = IF l # Head(dlQueue) THEN currentList
                          ELSE IF queue = << >> THEN NoList ELSE Head(queue)
        /\ Woken(l)
        /\ UNCHANGED <<gpuVars, isbreak, nextListID, drawComplete, drawSyncs, queued>>

(* The guest moves the stall address on, or takes it away.                 *)
UpdateStall(l, stall) ==
    /\ Calls /\ dls[l].state \notin {"none", "completed"}
    /\ dls[l].stall # 0 /\ (stall = 0 \/ stall > dls[l].stall)
    /\ dls' = [dls EXCEPT ![l].stall = stall]
    /\ queued' = queued + 1
    /\ UNCHANGED <<gpuVars, dlQueue, currentList, isbreak, nextListID, drawComplete, drawSyncs, waiting>>

Continue ==
    /\ Calls /\ currentList # NoList /\ dls[currentList].state = "paused"
    /\ "continue" \in Careless \/ ~dls[currentList].pendingInterrupt
    /\ IF isbreak
       THEN /\ dls' = [dls EXCEPT ![currentList].state = "queued"]
            /\ UNCHANGED drawComplete
       ELSE /\ dls' = [dls EXCEPT ![currentList].state = "running", ![currentList].signal = "none"]
            /\ drawComplete' = "never"
    /\ queued' = queued + 1
    /\ UNCHANGED <<gpuVars, dlQueue, currentList, isbreak, nextListID, drawSyncs, waiting>>

(* Break, of the current list (mode 0) or of all lists (mode 1)            *)
Break(mode) ==
    LET l == dls[currentList] IN
    /\ Calls /\ currentList # NoList
    /\ IF mode = 0 THEN MayReorder ELSE "break all" \in Careless
    /\ \/ /\ mode = 0 /\ l.state = "queued"
          /\ dls' = [dls EXCEPT ![currentList].state = "paused"]
          /\ UNCHANGED <<dlQueue, currentList, nextListID, isbreak>>
       \/ /\ mode = 0 /\ l.state = "running"
          /\ dls' = [dls EXCEPT ![currentList] =
                        [l EXCEPT !.pc = IF l.signal = "sync" THEN @ + 1 ELSE @,
                                  !.state = "paused", !.signal = "suspend"]]
          /\ isbreak' = TRUE
          /\ UNCHANGED <<dlQueue, currentList, nextListID>>
       \/ /\ mode = 1
          /\ dlQueue' = << >>
          /\ dls' = [k \in Lists |-> [dls[k] EXCEPT !.state = "none", !.signal = "none"]]
          /\ nextListID' = 0 /\ currentList' = NoList
          /\ UNCHANGED isbreak
    /\ UNCHANGED <<gpuVars, drawComplete, drawSyncs, waiting, queued>>

Forgotten == [l \in Lists |-> [dls[l] EXCEPT !.state = IF @ = "completed" THEN "none" ELSE @]]

(* DrawSync and ListSync that wait are not for handlers.                   *)
MaySync(t) ==
    /\ Calls /\ ~inHandler
    /\ t \notin drawWaitingThreads /\ \A l \in Lists : t \notin listWaitingThreads[l]

DrawSync(t) ==
    /\ MaySync(t)
    /\ IF drawComplete = "past" THEN dls' = Forgotten /\ UNCHANGED drawWaitingThreads
       ELSE drawWaitingThreads' = drawWaitingThreads \cup {t} /\ UNCHANGED dls
    /\ UNCHANGED <<gpuVars, listWaitingThreads, dlQueue, currentList, isbreak, nextListID, drawComplete, drawSyncs, queued>>

ListSync(t, l) ==
    /\ MaySync(t) /\ ~dls[l].done
    /\ listWaitingThreads' = [listWaitingThreads EXCEPT ![l] = @ \cup {t}]
    /\ UNCHANGED <<gpuVars, drawWaitingThreads, lists, drawComplete, drawSyncs, queued>>

(* DoState: the number of the current list is divided by its size, which   *)
(* gives 0, and 0 is taken for no list at all; in a state that is only     *)
(* saved too.                                                              *)
DoState ==
    /\ Calls /\ (currentList = NoList \/ "save" \in Careless)
    /\ currentList' = NoList
    /\ UNCHANGED <<gpuVars, dls, dlQueue, isbreak, nextListID, drawComplete, drawSyncs, waiting, queued>>

----------------------------------------------------------------------------
(* Events and interrupts                                                   *)

TimePasses ==
    /\ drawComplete = "due"
    /\ drawComplete' = "past"
    /\ UNCHANGED <<gpuVars, lists, drawSyncs, waiting, queued>>

(* __GeExecuteSync of the end of drawing, and SyncEnd                      *)
GeExecuteSync ==
    /\ Calls /\ drawSyncs > 0
    /\ drawSyncs' = drawSyncs - 1
    /\ drawComplete' = IF drawSyncs = 1 /\ drawComplete = "due" THEN "past" ELSE drawComplete
    /\ drawWaitingThreads' = {}
    /\ dls' = IF drawWaitingThreads # {} THEN Forgotten ELSE dls
    /\ UNCHANGED <<gpuVars, listWaitingThreads, dlQueue, currentList, isbreak, nextListID, queued>>

(* A mutant: the GPU is not set going again.                               *)
InterruptEndsQuietly(l, after) ==
    LET ended == after.state \in {"completed", "none"} IN
    /\ isbreak' = FALSE
    /\ dls' = [dls EXCEPT ![l] = [after EXCEPT !.pendingInterrupt = FALSE, !.done = @ \/ ended]]
    /\ IF ended THEN Woken(l) ELSE UNCHANGED waiting
    /\ ge_pending_cb' = Tail(ge_pending_cb)
    /\ UNCHANGED queued

(* A mutant: a list that was forgotten in the meantime has not ended.      *)
InterruptEndOfCompleted(l, after) ==
    LET ended == after.state = "completed" IN
    /\ isbreak' = FALSE
    /\ dls' = [dls EXCEPT ![l] = [after EXCEPT !.pendingInterrupt = FALSE, !.done = @ \/ ended]]
    /\ IF ended THEN Woken(l) ELSE UNCHANGED waiting
    /\ ge_pending_cb' = Tail(ge_pending_cb)
    /\ queued' = queued + 1

(* InterruptEnd; after is what becomes of the list before.                 *)
InterruptEnd(l, after) ==
    LET ended == after.state \in {"completed", "none"} IN
    /\ isbreak' = FALSE
    /\ dls' = [dls EXCEPT ![l] = [after EXCEPT !.pendingInterrupt = FALSE, !.done = @ \/ ended]]
    /\ IF ended THEN Woken(l) ELSE UNCHANGED waiting
    /\ ge_pending_cb' = Tail(ge_pending_cb)
    /\ queued' = queued + 1

(* What ends with the handler of a SIGNAL that suspended the list          *)
Resumed(l) ==
    IF l.signal = "suspend" /\ ~NewSdk /\ l.state \notin {"none", "completed"}
    THEN [l EXCEPT !.state = "queued"] ELSE l

(* GeIntrHandler::run; without a handler of the guest, the interrupt ends. *)
GeInterrupt(handled) ==
    LET e == Head(ge_pending_cb)
        l == dls[e.list]
        entered == IF l.signal # "pause" /\ e.cmd = "finish" THEN [l EXCEPT !.state = "completed"] ELSE l
    IN  /\ Calls /\ ge_pending_cb # << >> /\ ~inHandler
        /\ \/ /\ handled /\ l.signal # "sync" /\ (l.signal = "pause" => e.cmd = "finish")
              /\ dls' = [dls EXCEPT ![e.list] = entered]
              /\ inHandler' = TRUE
              /\ UNCHANGED <<isbreak, waiting, ge_pending_cb, queued>>
           \/ /\ ~handled
              /\ InterruptEnd(e.list, Resumed(entered))
              /\ UNCHANGED inHandler
        /\ UNCHANGED <<separate, gpu, overtaken, dlQueue, currentList, nextListID, drawComplete, drawSyncs>>

(* GeIntrHandler::handleResult                                             *)
HandlerReturns ==
    LET e == Head(ge_pending_cb) IN
    /\ Calls /\ inHandler
    /\ InterruptEnd(e.list, Resumed(dls[e.list]))
    /\ inHandler' = FALSE
    /\ UNCHANGED <<separate, gpu, overtaken, dlQueue, currentList, nextListID, drawComplete, drawSyncs>>

----------------------------------------------------------------------------
GuestStep ==
    \/ \E program \in Programs : \E stall \in Stalls :
            EnqueueList(program, stall) \/ EnqueueHead(program, stall)
    \/ \E l \in Lists :
            DequeueList(l) \/ \E stall \in Stalls : UpdateStall(l, stall)
    \/ Continue \/ \E mode \in {0, 1} : Break(mode)
    \/ \E t \in Threads : DrawSync(t) \/ \E l \in Lists : ListSync(t, l)
    \/ DoState

Interrupts == (\E handled \in BOOLEAN : GeInterrupt(handled)) \/ HandlerReturns

Next == GPUStep \/ GuestStep \/ TimePasses \/ GeExecuteSync \/ Interrupts

Spec == Init /\ [][Next]_vars

----------------------------------------------------------------------------
DisplayList ==
    [state : {"none", "queued", "running", "completed", "paused"},
     signal : Commands \cup {"none"}, program : Programs \cup {<< >>}, pc : Nat \ {0}, stall : Nat,
     pendingInterrupt : BOOLEAN, started : BOOLEAN, done : BOOLEAN]

TypeOK ==
    /\ dls \in [Lists -> DisplayList]
    /\ dlQueue \in Seq(Lists) /\ currentList \in Lists \cup {NoList}
    /\ drawComplete \in {"never", "due", "past"} /\ drawSyncs \in 0 .. 2
    /\ ge_pending_cb \in Seq([list : Lists, cmd : {"signal", "finish"}])
    /\ listWaitingThreads \in [Lists -> SUBSET Threads] /\ drawWaitingThreads \subseteq Threads
    /\ queued \in Nat

(* Execute_End goes by the current list: it is the one that is executed,   *)
(* and that one is in the queue.  Unless a list came too late for the last *)
(* look at the queue, the one that is executed is in front, and "If        *)
(* there's no current list, it must be complete."                          *)
CurrentListInStep ==
    /\ gpu.at = "run" => currentList = gpu.list /\ gpu.list \in Seqs!ToSet(dlQueue)
    /\ ~overtaken =>
        /\ gpu.at = "run" => Head(dlQueue) = gpu.list
        /\ currentList = NoList => \A i \in DOMAIN dlQueue : dls[dlQueue[i]].state = "completed"

(* When nothing is under way, the list in front waits for the guest: it is *)
(* stalled, or it is the one that the guest has to continue.  Of a list    *)
(* that came too late for the last look at the queue this is not true.     *)
UnderWay == queued > 0 \/ gpu.at # "idle" \/ ge_pending_cb # << >>
HeldByGuest ==
    LET l == dls[Head(dlQueue)] IN
    \/ l.state = "paused" /\ Head(dlQueue) = currentList
    \/ l.state = "running" /\ l.pc = l.stall

NoListStranded == ~overtaken /\ ~UnderWay /\ dlQueue # << >> => HeldByGuest

(* "If there's no current list, it must be complete.", which DrawSync goes *)
(* by after it has waited for the GPU to do what it was told.  The code    *)
(* breaks this: a list that comes between the last look at the queue and   *)
(* the end of drawing is still queued when there is no current list.       *)
CompleteWithoutCurrentList ==
    AtRest /\ currentList = NoList => \A i \in DOMAIN dlQueue : dls[dlQueue[i]].state = "completed"

InterruptPending(l) == \E i \in DOMAIN ge_pending_cb : ge_pending_cb[i].list = l

(* A thread waits for a list that is queued or whose interrupt is still to *)
(* come, and for the end of drawing while there is a list or the event is  *)
(* still to come.                                                          *)
WaitersAreServed ==
    /\ \A l \in Lists : listWaitingThreads[l] # {} =>
            l \in Seqs!ToSet(dlQueue) \/ InterruptPending(l)
    /\ drawWaitingThreads # {} => dlQueue # << >> \/ UnderWay \/ drawSyncs > 0

(* The number of a list is not given to another one while an interrupt of  *)
(* it is still to come, or in its handler: the handler's end would end     *)
(* the other one.                                                          *)
NoInterruptOfOldList ==
    [][\A i \in DOMAIN ge_pending_cb :
        LET l == ge_pending_cb[i].list IN dls[l].started => dls'[l].started]_vars

(* "Suspend the list, and call the signal handler.  When it's done,        *)
(* resume."                                                                *)
SuspendedUntilHandled ==
    [][\A l \in Lists :
        dls[l].signal = "suspend" /\ dls[l].pendingInterrupt /\ dls'[l].pendingInterrupt
            => dls'[l].pc = dls[l].pc]_vars

=============================================================================
