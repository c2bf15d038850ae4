---------------------------- MODULE KernelMsgPipe ----------------------------
(***************************************************************************)
(* Message pipes of the emulated kernel (sceKernelMsgPipe.cpp).  A pipe    *)
(* has a buffer, whose size may be 0, and two lists of waiting threads,    *)
(* one of senders and one of receivers; only how many bytes there are      *)
(* matters here.  Data moves in a cascade: bytes that reach the buffer     *)
(* are passed on to waiting receivers, which makes room for waiting        *)
(* senders, whose bytes reach the buffer.                                  *)
(***************************************************************************)
EXTENDS KernelWaitHelpers

LOCAL Seqs == INSTANCE SequencesExt

CONSTANTS
    BufferSizes,     \* the buffer sizes of the pipes the guest creates
    MessageSizes     \* the sizes of what it sends and wants to receive

ASSUME KernelMsgPipeAssumption == BufferSizes \subseteq Nat /\ MessageSizes \subseteq Nat \ {0}

MessageModes == {"full", "asap"}      \* SCE_KERNEL_MPW_FULL, SCE_KERNEL_MPW_ASAP

MsgPipe(size, sendPriority, receivePriority) ==
    [kind |-> "msgpipe", bySender |-> sendPriority, byReceiver |-> receivePriority,
     bufSize |-> size, used |-> 0, senders |-> << >>, waiters |-> << >>]

Least(m, n) == IF m < n THEN m ELSE n

----------------------------------------------------------------------------
(* SortReceiveThreads, SortSendThreads: entries that do not count go.      *)
SortReceiveThreads(w, o) ==
    LET q == CleanedUp(w, o, w.objects[o].waiters) IN
    [w EXCEPT !.objects[o].waiters = IF w.objects[o].byReceiver THEN SortedByPriority(q) ELSE q]

SortSendThreads(w, o) ==
    LET q == CleanedUp(w, o, w.objects[o].senders) IN
    [w EXCEPT !.objects[o].senders = IF w.objects[o].bySender THEN SortedByPriority(q) ELSE q]

(* Complete, for the entry e that was taken off its list.                  *)
Completed(w, o, e) ==
    IF Remembers(w, o, e.thread) THEN Woken(w, o, e.thread, "ok") ELSE [w EXCEPT !.woke = TRUE]

(* n bytes are moved to or from the first entry of a list, which is done   *)
(* if it is content with them.                                             *)
Content(e, n) == e.mode = "asap" \/ e.left = n

FrontReceives(w, o, n) ==
    LET e == Head(w.objects[o].waiters) IN
    IF Content(e, n) THEN Completed([w EXCEPT !.objects[o].waiters = Tail(@)], o, e)
    ELSE [w EXCEPT !.objects[o].waiters[1].left = @ - n]

FrontSends(w, o, n) ==
    LET e == Head(w.objects[o].senders) IN
    IF Content(e, n) THEN Completed([w EXCEPT !.objects[o].senders = Tail(@)], o, e)
    ELSE [w EXCEPT !.objects[o].senders[1].left = @ - n]

Free(w, o) == w.objects[o].bufSize - w.objects[o].used

(* CheckSendThreads and CheckReceiveThreads, which call each other, and    *)
(* their loops.                                                            *)
RECURSIVE CheckSendThreads(_, _), CheckReceiveThreads(_, _)
RECURSIVE SendLoop(_, _), ReceiveLoop(_, _)

SendLoop(w, o) ==
    IF w.objects[o].senders = << >> \/ Free(w, o) = 0 THEN w
    ELSE LET e == Head(w.objects[o].senders)
             n == Least(e.left, Free(w, o))
             sent == [FrontSends(w, o, n) EXCEPT !.objects[o].used = @ + n]
         IN  IF Content(e, n) THEN SendLoop(sent, o) ELSE sent

ReceiveLoop(w, o) ==
    IF w.objects[o].waiters = << >> \/ w.objects[o].used = 0 THEN w
    ELSE LET e == Head(w.objects[o].waiters)
             n == Least(e.left, w.objects[o].used)
             received == [FrontReceives(w, o, n) EXCEPT !.objects[o].used = @ - n]
         IN  IF Content(e, n) THEN ReceiveLoop(received, o) ELSE received

CheckSendThreads(w, o) ==
    LET sorted == SortSendThreads(w, o)
        sent == SendLoop(sorted, o)
    IN  IF sent.objects[o].used # sorted.objects[o].used THEN CheckReceiveThreads(sent, o) ELSE sent

CheckReceiveThreads(w, o) ==
    LET sorted == SortReceiveThreads(w, o)
        received == ReceiveLoop(sorted, o)
    IN  IF received.objects[o].used # sorted.objects[o].used THEN CheckSendThreads(received, o) ELSE received

(* With no buffer, n bytes of the current thread go directly to waiting    *)
(* receivers, or come from waiting senders: what is left of n, and w.      *)
RECURSIVE Given(_, _, _), Taken(_, _, _)
Given(w, o, n) ==
    IF w.objects[o].waiters = << >> \/ n = 0 THEN [w |-> w, left |-> n]
    ELSE LET m == Least(Head(w.objects[o].waiters).left, n) IN Given(FrontReceives(w, o, m), o, n - m)

Taken(w, o, n) ==
    IF w.objects[o].senders = << >> \/ n = 0 THEN [w |-> w, left |-> n]
    ELSE LET m == Least(Head(w.objects[o].senders).left, n) IN Taken(FrontSends(w, o, m), o, n - m)

(* Mutant: what senders put into the buffer meanwhile is left in it.       *)
DrainedOnce(w, o, n) ==
    LET m == Least(n, w.objects[o].used) IN
    IF m = 0 THEN [w |-> w, left |-> n]
    ELSE [w |-> CheckSendThreads([w EXCEPT !.objects[o].used = @ - m], o), left |-> n - m]

(* Bytes of the buffer are received until there are none, as senders fill  *)
(* it again.  That senders were woken is not noticed.                      *)
RECURSIVE Drained(_, _, _)
Drained(w, o, n) ==
    LET m == Least(n, w.objects[o].used) IN
    IF m = 0 THEN [w |-> w, left |-> n]
    ELSE Drained(CheckSendThreads([w EXCEPT !.objects[o].used = @ - m], o), o, n - m)

----------------------------------------------------------------------------
(* sceKernelCreateMsgPipe                                                  *)
CreateMsgPipe(o, size, sendPriority, receivePriority) ==
    /\ CanCreate(o, "msgpipe")
    /\ Changed(o, MsgPipe(size, sendPriority, receivePriority))

Everyone(w, o, result) ==
    WokenAll(WokenAll(w, o, w.objects[o].senders, result), o, w.objects[o].waiters, result)

(* sceKernelDeleteMsgPipe, sceKernelCancelMsgPipe: nothing is rescheduled. *)
DeleteMsgPipe(o) ==
    /\ Calling /\ IsA(o, "msgpipe")
    /\ Finished([Everyone(Walk, o, "deleted") EXCEPT !.objects[o] = NoObject], FALSE)

CancelMsgPipe(o) ==
    /\ Calling /\ IsA(o, "msgpipe")
    /\ Finished([Everyone(Walk, o, "canceled") EXCEPT
                    !.objects[o].senders = << >>, !.objects[o].waiters = << >>, !.objects[o].used = 0],
                FALSE)

(* sceKernelReferMsgPipeStatus                                             *)
ReferMsgPipeStatus(o) ==
    /\ Calling /\ IsA(o, "msgpipe")
    /\ Changed(o, SortSendThreads(SortReceiveThreads(Walk, o), o).objects[o])

(* What is left for the current thread to send or receive: it tries no     *)
(* more, waits, or, if its time limit is too short, is only listed.        *)
Entry(left, mode) == [thread |-> current, left |-> left, mode |-> mode]

ListedOrWaiting(w, o, timed) ==
    \/ MayWait /\ WaitOn(w, o, 0, timed)
    \/ MayWait /\ timed /\ Finished(w, w.woke)

(* What is sent to a pipe with a buffer if nobody is in line.              *)
Room(w, o, size, mode) ==
    IF w.objects[o].senders # << >> THEN 0
    ELSE IF size <= Free(w, o) THEN size
    ELSE IF mode = "asap" THEN Free(w, o) ELSE 0

(* sceKernelSendMsgPipe, sceKernelTrySendMsgPipe                           *)
SendMsgPipe(o, size, mode, poll, timed) ==
    /\ OnThread /\ IsA(o, "msgpipe")
    /\ IF kernelObjects[o].bufSize = 0
       THEN LET given == Given(SortReceiveThreads(Walk, o), o, size)
                done == given.left = 0 \/ (mode = "asap" /\ given.left < size)
                listed == [given.w EXCEPT !.objects[o].senders = Append(@, Entry(given.left, mode))]
            IN  IF done \/ poll THEN Finished(given.w, given.w.woke)
                ELSE ListedOrWaiting(listed, o, timed)
       ELSE LET sorted == SortSendThreads(Walk, o)
                n == Room(sorted, o, size, mode)
                w == CheckReceiveThreads([sorted EXCEPT !.objects[o].used = @ + n], o)
                listed == [sorted EXCEPT !.objects[o].senders = Append(@, Entry(size, mode))]
            IN  /\ size <= kernelObjects[o].bufSize
                /\ IF n > 0 THEN Finished(w, w.woke)
                   ELSE IF poll THEN Finished(sorted, FALSE)
                   ELSE ListedOrWaiting(listed, o, timed)

(* sceKernelReceiveMsgPipe, sceKernelTryReceiveMsgPipe.  A sender that was *)
(* woken makes the call reschedule only if there is no buffer.             *)
ReceiveMsgPipe(o, size, mode, poll, timed) ==
    /\ OnThread /\ IsA(o, "msgpipe")
    /\ LET direct == kernelObjects[o].bufSize = 0
           taken == IF direct THEN Taken(SortSendThreads(Walk, o), o, size) ELSE Drained(Walk, o, size)
           done == taken.left = 0 \/ (mode = "asap" /\ taken.left < size)
           listed == [taken.w EXCEPT !.objects[o].waiters = Append(@, Entry(taken.left, mode))]
       IN  /\ direct \/ size <= kernelObjects[o].bufSize
           /\ IF done \/ poll THEN Finished(taken.w, direct /\ taken.w.woke)
              ELSE ListedOrWaiting([listed EXCEPT !.woke = direct /\ @], o, timed)

PipeCall(o) ==
    \/ \E size \in BufferSizes, bySender, byReceiver \in BOOLEAN :
            CreateMsgPipe(o, size, bySender, byReceiver)
    \/ DeleteMsgPipe(o) \/ CancelMsgPipe(o)
    \/ "refer" \in guestUses /\ ReferMsgPipeStatus(o)
    \/ \E size \in MessageSizes, mode \in MessageModes, poll \in BOOLEAN,
          timed \in IF "stale pipe entries" \in guestUses THEN BOOLEAN ELSE {FALSE} :
        SendMsgPipe(o, size, mode, poll, timed) \/ ReceiveMsgPipe(o, size, mode, poll, timed)

----------------------------------------------------------------------------
PipeEntries == [thread: Threads, left: Nat, mode: MessageModes]
MsgPipes ==
    [kind: {"msgpipe"}, bySender: BOOLEAN, byReceiver: BOOLEAN, bufSize: Nat, used: Nat,
     senders: Seq(PipeEntries), waiters: Seq(PipeEntries)]

(* Data goes on as long as there is somebody to take it: no thread waits   *)
(* to receive while there is data, or to send while the buffer is empty    *)
(* or, without one, a receiver waits; and the buffer never overflows.      *)
PipeFlows ==
    \A o \in Objects : IsA(o, "msgpipe") =>
        LET waits(q) == \E t \in ThreadsIn(q) : WaitsFor(t, o)
            receiving == waits(kernelObjects[o].waiters)
            sending == waits(kernelObjects[o].senders)
        IN  /\ kernelObjects[o].used <= kernelObjects[o].bufSize
            /\ receiving => kernelObjects[o].used = 0 /\ ~sending
            /\ sending /\ kernelObjects[o].bufSize > 0 => kernelObjects[o].used > 0

=============================================================================
