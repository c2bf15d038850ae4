# TLA+ models of the emulated kernel

This directory holds TLA+ specifications of the core of CPU-Allegrex-cpp, an
emulator of a handheld console (a port of PPSSPP): the part that emulates the
console's operating system. It schedules guest threads, runs interrupt handlers
on borrowed contexts, fires timers, lets threads wait for kernel objects, hands
out memory, and drives two threads of the host, one that reads and writes files
and one that draws. Most of it happens on one host thread, but the interleavings
are those of an operating system: timer events and interrupts come up inside
system calls, results are delivered to threads that stopped waiting long ago, and
lists are changed by one call while another walks them.

Run a configuration with `tlc -config X.cfg M`, check the proofs of `M` with
`tlapm M.tla`. `PROJECT.json` lists the runs, the mutants (how a plausible
mistake in the code breaks each property), the source lines of every
definition, the hazards and the theorems.

Source paths below are relative to `src/src/Core/HLE/` unless they start with
`Core/`, `GPU/` or `native/`.

## 1. The system

| Component | State | Operations | Hard behaviour | What makes it correct |
|---|---|---|---|---|
| Ready queues (`struct ThreadQueueList`, `sceKernelThread.cpp:597-860`) | per priority an array with room at both ends; a chain of the queues ever used | prepare, push front/back, pop, pop better, remove, rotate, clear, save/load | recentring and growing by halves; linking in any order | no write outside an array; behaves as plain queues |
| Threads and scheduler (`sceKernelThread.cpp`) | status flags, priority, what a thread waits for, who waits for its end, stored wakeups | create ... delete, suspend, resume, change priority, rotate, sleep, delay, wait for an end, release; `__KernelReSchedule` | flags, queue and priority kept in step by hand; deferred reschedule; waits that end by several means | the queue lists exactly the ready threads; one runner; the best one; no wait or timer lost |
| Interrupts (`sceKernelInterrupt.cpp`) | pending list, `inInterrupt`, `interruptsEnabled`, `threadBeforeInterrupt`, handlers | trigger, run one, return, disable/enable, register, release | interrupts in a call, in a handler, while dispatch is off | no thread switch in a handler; interrupted thread keeps its place; none stranded |
| Alarms and virtual timers (`sceKernelAlarm.cpp`, `sceKernelVTimer.cpp`) | timer objects, their events, `triggeredAlarm`, `vtimers` | set, start, stop, change, cancel, delete, go off, handler result | queues kept in step with that of the interrupts by position only | the queues stay in step; no timer forgotten |
| Kernel objects: semaphores, event flags, mutexes, lightweight mutexes, mailboxes, message pipes, memory pools (`sceKernelSemaphore.cpp` ... `sceKernelMemory.cpp`, `KernelWaitHelpers.h`) | counts, patterns, owners, rings of packets, buffers, blocks; waiting lists; time-limit events | create, delete, cancel, query, wait, poll, signal/set/lock/unlock/send/receive/allocate/free, time-out | entries left behind by waits that ended otherwise; grants against time-outs; a thread that ends holding locks | who waits is listed, once; nobody waits for what is there; the best is served; what was granted stays granted |
| Callbacks and calls into guest code (`sceKernelThread.cpp:2963-3560`) | notify counts, the saved context of the interrupted thread | notify, check, run, return | a wait is paused and resumed around a callback | the thread's status and its wait are restored |
| Clock (`Core/CoreTiming.cpp`) | list of events sorted by time; a second list that host threads add to | schedule, unschedule, advance, idle, force a check | host threads; events scheduled by events; nested `Advance` | each event fires once, in order, never early, late by a block at most |
| Memory (`Core/Util/BlockAllocator.cpp`, `SceKernelVplHeader`) | list of blocks; a ring of free blocks inside the memory itself | allocate low, high, at an address, anywhere; free; largest, total | merging neighbours; the ends of the list | blocks tile the range, taken ones never overlap, refusal only without a place |
| File access (`sceIo.cpp`, `Core/HW/AsyncIOManager.cpp`, `Core/ThreadEventQueue.h`) | operation and result per file, waiting threads, the worker's queue | open, read, write, seek, close, at once or later; wait, poll; notify; shut down; save | host thread; handles used again; powering down | each call its own result; operations in order; every wait ends |
| Display lists (`GPU/GPUCommon.cpp`, `sceGe.cpp`) | list queue, current list, pending interrupts, waiting threads | enqueue, stall, dequeue, break, continue, signal, finish, sync | GPU thread of the host; several critical sections; numbers used again | the list that runs is the current one; none stranded; waiters woken |
| Save states, UMD, dialogs, audio, codecs, ad hoc networking, processor, renderer, host utilities | see `PROJECT.json` | | | |

Interaction. A guest thread's system call enters `CallSyscall` (`HLE.cpp`). Its
handler changes kernel objects and may *ask* for a reschedule (`hleReSchedule`),
for interrupts to be run (`hleRunInterrupts`) or for a callback check; only
`hleFinishSyscall`, after the handler, does it. `__KernelReSchedule` also
advances the clock, so that timer events (which wake threads, trigger
interrupts, end waits) are fired between the two, as well as at the end of each
slice of guest code. An interrupt handler is guest code too: the current thread
is switched off, the handler runs on the context of the idle thread, makes
system calls of its own, and `__KernelReturnFromInterrupt` then either runs the
next pending one, reschedules, or, if dispatch is suspended, switches back. The
threads of the host, for files and for drawing, are handed work through queues
with a lock, and come back through timer events.

## 2. Modules

```
ReadyQueues  <== refined by ==  ThreadQueueList  <-- ThreadQueueList_proofs
     (the same promise)
Scheduler <- KernelThread <- KernelInterrupt            <-- KernelThread_proofs (Scheduler's, too)
                  ^                                         <- KernelInterrupt_proofs
                  +- KernelWaitHelpers <- KernelSema, KernelEventFlag, KernelMutex,
                        KernelMbx, KernelMsgPipe, KernelPools <- KernelObjects
InterruptQueue                                          <-- InterruptQueue_proofs
TimedEvents   <== refined by ==  CoreTiming             <-- CoreTiming_proofs
MemoryBlocks  <== refined by ==  MemoryPools, of BlockAllocator and VplHeader
AsyncIOManager <- SceIo                                 <-- SceIo_proofs
GPUCommon                                               <-- GPUCommon_proofs
Queues        used by most of them                      <-- Queues_proofs, used by their proofs
MC...         small instances for TLC
```

**ReadyQueues** is the promise: per priority a double-ended queue. **ThreadQueueList**
is the code: `queues[p]` with `first`, `end`, `capacity`, `data` and `next`, and
`first`, the head of the chain. Each operation is an action, `rebalance` is part
of the pushes and of `rotate`, and `link` of `prepare`. `popped` is what the last
pop returned and the priority it was asked to beat. Pointers are slot numbers; the
`(Queue *) -1` at the end of the chain is `INVALID`, behind every priority; realloc
succeeds or fails according to `AllocOutcomes`. Failure of the `malloc` in `link`,
which the code does not look at, is left out.

**Scheduler** has the operators on a thread table that all other modules use, one
for each helper of `sceKernelThread.cpp`: `MadeReady`/`MadeUnready`
(`__KernelChangeReadyState`), `Resumed` (`Thread::resumeFromWait`), `VerifyWait`
(which looks at what a thread *last* waited for), `WaitingCurThread`
(`__KernelWaitCurThread`), `SwitchContext`, `ReScheduled` (`__KernelReSchedule`).
Its ready queues are those of ReadyQueues, which is what the refinement of
ThreadQueueList allows. Filtering a sequence is `Selected`, of the module **Queues**,
which stands for the built-in `SelectSeq`: a proof can look inside.

**KernelThread** has one action per system call (the handler) and
`FinishSyscall` (`hleFinishSyscall`); `resched` is the request in between. Timer
events are counters of pending events per thread (`wakeups`, `endTimeouts`),
fired by the actions `ScheduledWakeup` and `ThreadEndTimeout` at any time,
also between handler and `FinishSyscall`: that is where `CoreTiming::Advance`
fires them. A thread's id may be used again as soon as it is deleted, which
happens in the code only after the ids of the pool have wrapped; this is more
than the code does, never less. The priorities of the code, smaller is better,
are numbered from 0; `UserPriorities` is that of the idle threads (0x7f).

**KernelInterrupt** composes threads and interrupts: every call of KernelThread,
from threads or from handlers, interleaved with interrupts. Interrupts are counted
(`pendingInterrupts`, including the one that runs); which handlers are refused
(released sub-interrupts) is a choice in `RunOnePending`. **InterruptQueue** is the
other half: which entries, which handlers, what is released, ignored, cancelled or
scheduled again, with the queues of alarms and virtual timers beside it
(`triggered[SYSTIMER0]` is `triggeredAlarm`, `triggered[SYSTIMER1]` is `vtimers`).
Times are left out of it: an event is pending or not.

**KernelWaitHelpers** has what the kernel objects share: the pool of objects, the
walk over a waiting list (`Walk`, `Woken`, `Finished`), clean-up, sorting by
priority, time limits (`waitTimers[kind][t]`, the pending events) and releases;
`outcome[t]` is the return value the wait of `t` has been given. `guestUses` is not of
the code: it says which of the features of `Guests` the guest of a behaviour uses, and
is chosen at the beginning. **KernelSema**,
**KernelEventFlag**, **KernelMutex** (both kinds, with `mutexHeldLocks`),
**KernelMbx** (with the ring of packets in guest memory), **KernelMsgPipe** (two
waiting lists and the cascade between them) and **KernelPools** (pools of blocks
of one size, FPL, and of any size, VPL) have one action per call;
**KernelObjects** composes them with the threads, in one pool of ids. Loops that
start over after each entry they remove (`sceKernelSignalSema`, `sceKernelFreeVpl`)
are one walk, since there is only less to give on the way. An id is used again as
soon as no thread remembers it. In KernelPools the memory of a VPL is counted, at
most two units, so that it is never in pieces (placement is VplHeader's subject);
`hleDelayResult`, the 50 µs an allocation takes when somebody else is listed, is a
wait with an event of its own.

**TimedEvents** promises a bag of events, each fired once, in order and never
early. **CoreTiming** is the code: the sorted list `first`, the list `tsFirst` that
another thread posts to, the slice and its down counter, and `Advance` as steps on a
`stack`, since a callback may enter it again. An `int` wraps at `IntRange`.

**MemoryBlocks** promises a set of disjoint intervals: where a block is placed
(lowest, highest, as asked for, or any place), that it is refused only if there is
none, and what the queries return. **MemoryPools** lets either of the two ways the
code keeps a range answer the requests: **BlockAllocator**, a doubly linked list
whose null pointer is a node that counts as taken, and **VplHeader**, a ring of
free blocks whose cells lie in the memory that is handed out, stale ones included.

**AsyncIOManager** is the worker of the host with its queue, as steps between
the points where it takes or gives up a lock; **SceIo** adds the calls for files and
the events that notify, with `cpu` saying where the emulator's thread is inside a
handler that waits for the worker. A round of 1000 ms of the worker's loop may end
whenever the queue is empty, as in the code. Contents are left out: operations are numbered,
and a result is the number of the operation it belongs to.

**GPUCommon** has the queue of display lists, the GPU's loop step by step, the
interrupts and the calls. A program of a list is a short sequence of commands of the
kinds that matter: drawing, the kinds of SIGNAL, FINISH.

### Assumptions, as constants

Some guards restrict what the *guest* (or the host) does, where the code misbehaves
otherwise. Each is a constant, and the violation it hides is found at once when it
is changed in the cfg named:

| Constant | Assumes | Otherwise |
|---|---|---|
| `CarelessGuest = FALSE` | no thread yields twice, or exits, while dispatch is suspended | `KernelInterrupts.cfg`: `ReadyListSound` is violated, the rotation (`sceKernelThread.cpp:2421`) lists a thread a second time although `:896` says "Lists only ready thread ids.", and so is `OneRunner`, a thread that exited remains current |
| `CarelessHandler = FALSE` | no handler stops or suspends the thread it interrupted | `KernelInterrupts.cfg`: `SwitchesBack` is violated, the idle thread stays current while dispatch is suspended |
| `ReleasesItself = FALSE` | no handler releases its own sub-interrupt | `InterruptQueue.cfg`: `FrontIsRunning` is violated, the return pops an entry that is not its own |
| `CancelsLate = FALSE` | no timer is cancelled, deleted or changed between going off and the return of its handler | run `interrupt_late_cancel` for alarms; `InterruptQueue.cfg`: `TimersInStep` is violated, the deletion of a virtual timer empties `vtimers`, whose front is read all the same, and a handler can be entered at address 0 |
| `AllocOutcomes = {TRUE}` | realloc succeeds | `ThreadQueueList.cfg`: `RoomAtBothEnds` is violated (`sceKernelThread.cpp:840` has no other branch) |
| no `"release timed"` in the `Guests` of KernelWaitHelpers | no wait with a time limit is released | `KernelObjects.cfg`: `GrantsAreKept` is violated, a release (`sceKernelThread.cpp:2882`) leaves the event pending, which ends a later wait |
| no `"stale pipe entries"` in `Guests` | waits for pipes neither time out nor are released | `KernelObjects.cfg`: `ListsInStep` is violated, a thread is in both lists of a pipe |
| `Positions` are multiples of 8 | memory is asked for at aligned addresses | `MemoryPools.cfg` with `Positions = {12}`: `ImplementsMemoryBlocks` is violated, `Core/Util/BlockAllocator.cpp:160` subtracts where it says "size must increase."; only the loader of executables asks for such places |
| `IdlesLate = FALSE` | no block of code takes the idle thread beyond its slice | `CoreTiming.cfg`: `TimeNeverGoesBack` is violated (`Core/CoreTiming.cpp:640`) |
| `SavesPosted = FALSE` | no state is saved while posted events wait | `CoreTiming.cfg`: `NoPostedEventStranded` is violated, `hasTsEvents` is not restored |
| `Careless = {}` of SceIo | "mix": asynchronous calls for a file that another thread reads; "close": closing it; "close async": `sceIoCloseAsync` while an asynchronous call for the file is under way, which the code (`sceIo.cpp:1768`) does not check; "wait": two threads wait for one asynchronous call; "release": such a wait is released | `SceIo.cfg`: `OwnResult` ("mix", "close async", "wait", "release") or `WaitsEnd` ("close", `sceIo.cpp:311`) is violated |
| `Careless = {}` of GPUCommon | "busy": a list is put in front, dequeued or broken while the GPU has something to do (a careful guest does so in the handler of the interrupt that stopped the list, or asks with `sceGeListSync` before); "break all": all lists are broken; "dequeue": the current list, or the one in front, is dequeued; "refused head": a list is put in front of one that is not paused; "head of paused": or of one that waits for its handler or for the guest; "continue": a list is continued whose interrupt is pending; "save": a state is saved while there is a current list | `GPUCommon.cfg`: one of its properties is violated, see the hazards |
| `NewSdk = FALSE` | the guest was compiled for an old SDK | `GPUCommon.cfg`: `SuspendedUntilHandled` is violated |
| `Programs` without `"continue"` (`NoneContinues`; for the two action properties of GPUCommon only) | no SIGNAL lets its list go on while its handler runs | `GPUCommon.cfg` with the program `<<"continue", "finish">>`: `NoInterruptOfOldList` is violated, the end of the first handler clears `pendingInterrupt` (`GPU/GPUCommon.cpp:1129`) while a second interrupt of the list is to come |

Exits of the idle thread from inside an interrupt handler are excluded (`OnThread`).

Nothing is assumed of where the threads of the host are when a call comes, except what
"busy" says: whoever reorders display lists waits for the GPU first. Two variables that
the code does not have note what went wrong there for good, so that the properties can
say what holds until then:

- `lost` of SceIo: a state was saved without operations that were queued. SyncThread,
  by which `AsyncIOManager::DoState` waits for the worker, returns at once between two
  rounds of the worker's loop, which end after 1000 ms (`sceIo.cpp:514`), and while the
  debugger steps (`Core/ThreadEventQueue.h:135`). `OwnResult`, `ClosedFilesAreDone` and
  `WaitsEnd` promise nothing from then on, and the guest of the model stops calling.
- `overtaken` of GPUCommon: a list was enqueued between the last look at the queue and
  the end of drawing (`GPU/GPUCommon.cpp:693-711`), which strands it (run
  `display_lists_late`). `NoListStranded`, and the part of `CurrentListInStep` about the
  order of the queue, promise nothing until drawing ends the next time; the other
  properties hold all the same.

## 3. What the runs check

All runs are exhaustive within their bounds.

| Run | Bounds | Shows |
|---|---|---|
| `queue_list` | 3 priorities, 2 threads, 3 entries in all, initial capacity 2 | `RoomAtBothEnds` and the refinement `ImplementsReadyQueues`. Capacity 2 makes every second push recentre or grow, three entries pass through both, in both directions; three priorities are first used in every order, so that a queue lands at the head, in the middle and at the end of the chain |
| `kernel_interrupts` | 2 threads of 2 priorities, 1 stored wakeup, up to 2 events of a kind pending for each, 2 pending interrupts, and no more than 2 of all of these together (`MaxAhead`, a stored wakeup counts for two) | `ReadyListSound`, `NoReadyThreadLost`, `OneRunner`, `PicksBest`, `PreemptedGoesFirst`, `WaitersAreListed`, `TimedWaitHasTimer`, `SuspendedUntilResumed`, `SwitchesBack`, `HandlerStaysCurrent` and, with fairness, `DelayEnds`. Two events of a thread: a stale one beside that of the current wait. Two pending interrupts: one runs and one follows on it. One of each: an event that fires inside of a handler |
| `interrupt_queue` | 2 sub-interrupts, 2 alarms, 2 virtual timers, 3 pending | `FrontIsRunning`, `TimersInStep`, `NoTimerForgotten`, `NoInterruptStranded`. Two of each: one whose handler runs and one that comes, goes or is refused behind it |
| `kernel_objects` | one object of any of the 8 kinds at a time, 3 threads of 2 priorities, counts up to 2, one event of a time limit for each kind and thread, messages of 1 and 2 units through a buffer of 2 or none, 3 packets, pools of 2 blocks; two guests: the first with time limits, releases, yields, one thread suspended at a time and blocks taken past waiting threads, the second with cancels, ends of threads and changes of priority; both query | `ListsInStep`, `NothingServableWaits`, `HeldLocksInStep`, `RingIsWhole`, `TimedWaitsEnd`, `GrantedOwnsUnlessEnds`, `BestIsServed`, `GrantsAreKept`. A count of 2 lets one thread want more than another, a message of 2 goes in parts and wakes both sides of a pipe; three threads are one that acts and two that wait; of three packets one is inserted in the middle. Not checked: what the first guest does mixed with what the second one does |
| `memory_pools` | 64 bytes in units of 8, requests of 0 to 20 bytes, grains 8 and 16, places in the middle | `PoolIsWhole` and the refinement `ImplementsMemoryBlocks`. Eight units hold a taken block between two free ones, with room to split and merge on both sides. The view leaves out the numbers of list nodes and the last request |
| `core_timing` | a vertical blank every 2 cycles and another event, 3 events, blocks of 1 and 2 cycles, nesting up to 3, a time up to 3 | `NoPostedEventStranded`, `SliceEndsInTime` and the refinement `KeepsPromise`. A callback that is entered from `Advance` inside of a callback, and blocks that overrun the slice |
| `async_io` | 2 threads, one file that is opened, closed and opened again, 2 operations on it, both timings | `OwnResult`, `ClosedFilesAreDone` and, with fairness, `WaitsEnd`, `WorkerEnds`, with the worker in any place of any of its rounds. The program ends, so that deadlock is not checked |
| `display_lists` | 2 lists with three programs, stalls, one thread that waits, one request queued, the GPU as a thread of its own (without one its steps come in the same order, with fewer calls between them) | `CurrentListInStep`, `NoListStranded`, `WaitersAreServed`, `NoInterruptOfOldList`, `SuspendedUntilHandled`. Two lists: one that is executed and one that is enqueued, put in front of it or given its number. Lists are enqueued, stalls moved, lists continued and handlers ended between any two steps of the GPU |
| `display_lists_late` | the same | *violated* (`CompleteWithoutCurrentList`): a list is enqueued after the GPU thread found the queue empty and before it sets `currentList` to NULL: the list is behind one that is still current, so that the GPU is not told, and then there is no current list; "If there's no current list, it must be complete." (`GPU/GPUCommon.cpp:104`) is not so, and the next line that goes by it follows a null pointer (`:116`) |
| `async_io_rounds` | as `async_io` | *violated* (`OperationsInOrder`): between two rounds of the worker's loop SyncThread returns at once (`Core/ThreadEventQueue.h:140`), and a call does its operation on a file before the one that is queued, although "wait for it to finish and don't overwrite it" (`sceIo.cpp:852`) |
| `mutex_thread_end` | 2 threads, 3 mutexes | *violated* (`GrantedOwns`): the end of a thread that holds two mutexes hands one to another thread, whose lock is inserted into the range that is iterated, and taken away again (`sceKernelMutex.cpp:478`) |
| `interrupt_late_cancel` | 2 alarms, 4 pending | *violated* (`OnlyDeletedIgnored`): an alarm cancelled after it went off stays in front of `triggeredAlarm`, and the interrupt of the next alarm, which exists, is ignored in its place (`sceKernelAlarm.cpp:76`) |

Dispatch and interrupts can be suspended in the runs of KernelThread and
KernelInterrupt. Unbounded counters are capped in guards by `MaxLength`,
`MaxWakeups`, `MaxTimers`, `MaxPending`, `MaxCount`, `MaxOps`, `MaxEvents`, `MaxTime`,
`MaxDepth`, `MaxQueued` and `MaxAhead`; `NoneSuspended` of KernelWaitHelpers lets one
thread be suspended at a time. In `kernel_objects` two threads are symmetric: they
differ for the initial order of the ready queue only.

Why small instances suffice: the code treats threads alike except for priority and
for being current; a disagreement between flags, queue, priority and wait involves
one thread that acts, one it acts on, and at most a third that both depend on. The
queue list is a chain whose insertion looks at one neighbour on each side, and an
array whose arithmetic only depends on its size relative to its capacity. Objects
do not know of each other, except mutexes of one thread, for which there is a run
with three.

**Fairness.** In `kernel_interrupts` (`FairInterruptSpec`): weak fairness of each
thread's event of a delay, because the clock advances whatever the guest does. In `async_io`:
weak fairness of the worker, of the emulator's thread inside a handler, and of
`WakeManager`, since the host schedules its threads; strong fairness of the events
that notify and of the shut-down, since the clock advances again and again. Nothing is
assumed of the guest anywhere.

### Where the code departs from its comments

Besides the four runs that are expected to fail and the constants above, modelling
brought up these, which no property of a run states:

- `sceKernelSignalSema` compares `currentCount + signal - waitingThreads.size()`
  with `maxCount` (`sceKernelSemaphore.cpp:296`): entries that were left behind, and
  threads that want more than there is, count as if each took one. The count can
  exceed what `:49` calls "The maximum count."
- `VerifyWait` ("Verify that a thread has not been released from waiting",
  `KernelWaitHelpers.h:262`) looks at the type of the last wait, which is kept until
  the thread runs: until then a signal is spent on a released thread.
- `CleanupWaitingThreads` ("Removes threads that are not waiting anymore",
  `KernelWaitHelpers.h:289`) moves the last entry into the gap, so that a status
  query changes the order in which a FIFO object serves its threads.
- The walk of `__KernelSemaTimeout` (`sceKernelSemaphore.cpp:346`), and that of
  `__KernelVplTimeout`, may serve the thread that has just timed out, or stop at it.
- `sceKernelResumeThread` and `sceKernelTerminateThread` never reschedule, and
  `sceKernelStartThread` only for a better thread. A better thread may be ready until
  the next call.
- An entry of an event flag's list that no longer counts makes a waiter be refused
  (`sceKernelEventFlag.cpp:450`); a thread that waits behind one that was released, on
  a FIFO memory pool, waits until the next free.
- A pipe that is polled with too much takes a part and then says that it is full
  (`sceKernelMsgPipe.cpp:368`); a receive ignores that it woke senders (`:498`).
- Creating a thread fails for lack of stack after the object and its id were made,
  which remain (`sceKernelThread.cpp:2118`).
- An alarm that cancels itself in its handler and asks to be scheduled again follows a
  null pointer (`sceKernelAlarm.cpp:98`).
- Without events and with less than 10000 cycles in the slice, `Advance` moves time back
  (`Core/CoreTiming.cpp:596`); an event more than 2^31 cycles away makes the slice wrong.
- Breaking a list that is stalled behind a SYNC signal moves it past the stall; a
  stale event of the end of drawing wakes a later `sceGeDrawSync` early
  (`sceGe.cpp:350`); a second signal overwrites `subIntrToken` of the first.

## 4. What is proved

All theorems hold for every value of the constants that satisfies the assumptions of
the modules, and the extra one that a theorem states (`~CarelessGuest` and the like,
each of them a row of the table above: where it fails, TLC shows the violation).
`PROJECT.json` says which property each theorem is about; a theorem called
`TypeCorrect` or `TypeTheorem` is that of its module's `TypeOK`. What follows is the
argument of each module: the inductive invariant and why it has to be stronger than
the property.

`Queues_proofs` has the lemmas on sequences that the others share: the entries of
`Append`, `Tail`, of a sequence with one element removed, and that `Selected(q, S)`
holds the entries of `q` in `S`, in their order and as often. `Selected` is a recursive
function; the induction over its index is over the least counterexample, since the
library's induction theorems can not be instantiated.

**The ready queue.** `ThreadQueueList_proofs`, *RoomTheorem*: if `AllocOutcomes` is at
most `{TRUE}`, no push finds an array without a free slot on its side.
`IInv == TypeOK /\ RoomAtBothEnds` is inductive as it stands. The argument follows the
code: a queue with room on both sides is at most full after one push
(`AddedInFrontIsQueue`, `AddedBehindIsQueue`); `rebalance` of a queue that is at most
full restores the room, because either at least three slots are free or the capacity,
at least 2, is doubled (`RebalancedHasRoom`, over `CentredHasRoom`, where `div` is
bounded); taking an entry from either end or from the middle only adds room. `rotate`
fills the slot behind the last entry before it gives up the first, which is why
`AtMostFull` and not `HasRoom` is the invariant of its middle.

**Threads.** The first part of `KernelThread_proofs` has lemmas about the operators of
Scheduler: that `MadeReady`, `MadeUnready`, `Resumed`, `SwitchContext`, `ReScheduled` ...
keep the ready queue and the status flags in step, list nothing twice and leave one
runner (`InStep(s, X)`, for all threads but those of `X`, which are being moved); that
`ReScheduled` runs a thread no ready one is better than (`ReScheduledBest`), and puts the
one that loses the CPU to a better one in front of its queue (`ReScheduledFirst`).

Its second part takes these through every action of KernelThread (*TypeTheorem*,
*ReadyListTheorem*): `ThreadInv` says that the state has its types, that queues and
flags are in step in both directions (which is why `ReadyListSound` alone is not
inductive: a thread that is ready and not listed would be listed twice later), and that
somebody runs or a reschedule is due. The third part is about waits: who waits for the
end of a thread is on its list (*WaitersTheorem*; `WaitsInStep` adds that only threads that exist
wait, and that one that has ended is nothing else besides), a suspended thread stays so (*SuspensionTheorem*,
an action property), and a wait with a time limit has its event (*TimersTheorem*).
`Undisturbed(s, r, X)` says what no helper of the scheduler does to the waits of threads
outside of `X`; each action is then a few lines.

**Interrupts.** `KernelInterrupt_proofs` carries `ThreadInv` over to interrupts and their
handlers (*NoReadyThreadLostTheorem*, *OneRunnerTheorem*). *HandlerTheorem* holds for
careless guests and handlers too: in an interrupt the current thread is an idle one
(`HandlerContext`), and no step switches from it. *PicksBestTheorem* and
*PreemptedGoesFirstTheorem* are action properties: the first is about `FinishSyscall` and
the returns that take the request back; the second goes through every step that may
switch, with the events that come up in between (`Keeps(c)`). *SwitchesBackTheorem* needs
`~CarelessHandler` and an invariant of its own, `SuspendedInv`: while dispatch is
suspended, either an interrupt is handled and the thread before it exists and is ready
(and nothing else), or the current thread is one of the guest's. That dispatch is
suspended is not enough: the proof has to show that no call of a handler enables it
for another thread, or makes the interrupted one wait (`ThreadCallRest`).

`InterruptQueue_proofs`: *FrontAlwaysRunning*, *TimersAlwaysInStep*,
*NoTimerEverForgotten* all follow from one invariant, for guests that neither release
their own sub-interrupt nor cancel late. Its parts: the queue of interrupts has as
many entries of each kind of timer as the timer's own queue is long, and entries of
sub-interrupts have a handler (`QueuesInStep`); the handler that runs is the one the
front stands for (`FrontRuns`); a timer that went off exists, is in its queue once and
has no event (`TimersOwned`); and one that should go off has an event or is in its queue
(`TimersRemembered`). None of the first three is inductive alone, since what a return
pops is right only if the queues agree and what it calls exists. *NoInterruptEverStranded*
is inductive by itself and needs no assumption about the guest.

**The clock.** `CoreTiming_proofs`, with `CInv`: the list is sorted and contains the
vertical blank, and of the nested calls of `Advance` only the innermost is outside of a
callback. *NoPostedEventEverStranded* holds if no state is saved while posted events
wait; *SlicesEndInTime* if `downcount` never exceeds the slice (`NotAhead`), which is what
`Idle` breaks when it is called late (`IdlesLate`). *ImplementsTimedEvents* is the
refinement, step by step: the bag of a list loses one copy with `Tail` and with an
unscheduled event, gains one with a sorted insertion, and `ProcessFifoWaitEvents` fires
the first of a sorted list, which is an earliest one (`PromiseStep`). *TimeRunsForward*
follows from it.

**Display lists.** `GPUCommon_proofs`, for a guest that does nothing of `Careless`, with
the GPU as a thread or not, and lists enqueued between any two of its steps. `IInv` says
where the GPU is in relation to the queue (`QueueInStep`: the list it has gone for is in the
queue in each of its steps, although the guest's calls come between them, and in front of it
as long as `~overtaken`; without a current list the queue is even empty then); that only the
current list of the queue is paused, and that it is in front then (`PausedInStep`); that a list
that runs and was stopped by something else has a request or an interrupt to come
(`GoesOn`, without which `NoListStranded` is not inductive); that until drawing ends there is
a list, something under way or the event to come (`DrawingIsAwaited`); and that a list that has not
ended is in the queue, or an interrupt that ends it is to come (`ListsEnd`, with
`Kept` and `Ending`: a list that has just been executed is in the queue and yet not kept,
if it was not enqueued again). From these: *CurrentListTheorem*, *NoListStrandedTheorem*,
*WaitersAreServedTheorem*. The invariant holds across the race at the end of drawing: only
the clauses that it breaks are under `~overtaken`, and the proof shows that they are
restored when drawing ends with an empty queue.

*NoInterruptOfOldListTheorem* and *SuspendedUntilHandledTheorem* are action properties
and rest on `OneInterrupt`: a list has at most one interrupt to come, has one exactly if
it says so (`pendingInterrupt`), and is paused, or just executed, meanwhile; a step then
either leaves such lists alone (`Undisturbed`, `QuietStep`) or triggers or ends
one interrupt (`ListTriggers`, `InterruptEndOrderly`). They assume `~NewSdk` and
`NoneContinues`, that no program has a SIGNAL that lets its list go on. Looking for this
invariant brought up that the latter is needed: a list that goes on triggers a second
interrupt, the end of the first one's handler clears `pendingInterrupt`, and the number
can be given to another list while the second is to come (`GPU/GPUCommon.cpp:1129`).

**Files.** `SceIo_proofs` has two invariants. `QueueInv` is about the worker and holds
whatever the guest does with its files and in whichever of its rounds the worker is, until
a state is saved without what was queued (what is proved is `lost \/ Typed`, with `QueueInv` in
`Typed`). What is in
the queue or at the worker for a file is one operation, and is
exactly what is pending and has no result (`OnePerFile`, `PendingInStep`); the Sync of
`WaitResult` is behind every operation (`WaitsBehind`), which is what makes an empty queue
mean that the result has come (`WaitOver`).
From it follows *ClosedFilesTheorem*. `ClosedFilesAreDone`
is not inductive: that nothing is left when `__IoFreeFd` goes on is `WaitOver`.

`ResultInv` adds, for each file (`CallsOf`), which call an operation belongs to, and takes
a careful guest (`Careless = {}`): a thread that waits in `sceIoRead` has its event, or the
handler that waits for the worker is its own, and the result that is there or will come is that of
its call (`SyncWaits`, `Answers`); such waits and asynchronous operations are never under
way for the same file (`Apart`); an operation has a waiter, an asynchronous call, or the
handler that closes the file (`Owned`); a pending asynchronous call has its result in
`asyncResult` exactly if none is pending at the worker (`AsyncWaits`). `SameCalls` says which steps leave
all that alone; most of the proof shows that what the worker or the calls for another file
do is such a step. *OwnResultTheorem* is its consequence, and goes on to hold when the
emulation was ended in between. Nothing in it
says that operations are done in the order of the calls, since between two rounds they are
not (run `async_io_rounds`): the result of each is its own all the same. TLC found `ResultInv` to be an invariant with two threads
and one file, and with two files, before it was proved.

**Only model-checked**, and why:

- `DelayEnds`, `WaitsEnd`, `WorkerEnds`: liveness under fairness, which these provers do
  not do.
- `ImplementsReadyQueues` and `ImplementsMemoryBlocks`: the abstract values are built by
  recursion over data (the chain of queues, the list of blocks), and an invariant about
  chains of unbounded length needs induction over data.
- `PoolIsWhole`, and the properties of the kernel objects (`ListsInStep`,
  `NothingServableWaits`, `HeldLocksInStep`, `RingIsWhole`, `BestIsServed`,
  `TimedWaitsEnd`, `GrantedOwnsUnlessEnds`, `GrantsAreKept`): BlockAllocator, VplHeader, KernelMutex
  and KernelMsgPipe declare RECURSIVE operators, for which `tlapm` has no backend, and
  MemoryPools and KernelObjects, which state what the runs check, extend them; see the plan.

## 5. What is not modelled

- Callbacks, the CB variants of waits and calls of guest code from the kernel; the
  pausing of a wait around a callback (`KernelWaitHelpers.h:67-258`).
- Times of threads and timers: outside of CoreTiming an event is pending or not. That a
  stale event ends a later delay *early* (`sceKernelThread.cpp:2628`, "It never wakes
  up right away.") can not be said.
- The second idle thread never runs, as in the code; the request to reschedule that
  `__KernelSwitchToThread` makes when it refuses is left out, since the idle thread
  reschedules all the time.
- Stacks, VFPU contexts, the exit status of threads, the debugger, `numWaitThreads`,
  which only status queries write and read; names, checks of attributes and the
  addresses where results of calls are written.
- A semaphore's initial count is at most its maximum; the code does not check it. A
  guest that overwrites the ring of a mailbox, or the header of a pool, is left out. The
  search for a free block of an FPL goes on behind the last one modulo their number,
  where the code's `int` gets negative after 2^31 tries.
- Saving and loading, except for the ready queue, the clock, files, display lists and
  the list of blocks.
- Thread local pools and partition blocks as objects; a request of size 0 at an address.
- Of files: the timing method that computes delays, directories, devctl and ioctl,
  NPDRM. Of display lists: jumps and calls, contexts, drawing, cycle counts,
  queries that do not wait, the check for addresses in use.
- Everything marked `not_modelled` in `PROJECT.json`, with the reason there.

## 6. Plan

To prove next: the properties of the kernel objects, beginning with `ListsInStep` and
`GrantsAreKept`, after the RECURSIVE operators of KernelMutex (`UnlockedRange`) and
KernelMsgPipe have become recursive functions.

To check next: that a resumed thread whose wait ended is ready (the other half of the
hazard at `sceKernelThread.cpp:3191`), and that the emulator's thread gets out of every
handler, which it does not when the emulation is stopped while it waits for the worker.

To model next: callbacks (`KernelCallback`: notify counts, the pausing of waits, what
`ActionAfterMipsCall` restores), thread local pools, and a CoreTiming composed with
KernelThread for the stale event of a delay.
