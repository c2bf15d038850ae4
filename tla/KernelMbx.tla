------------------------------ MODULE KernelMbx ------------------------------
(***************************************************************************)
(* Mailboxes of the emulated kernel (sceKernelMbx.cpp).  The packets of a  *)
(* mailbox form a ring: each packet, in guest memory, begins with the      *)
(* address of the next one, and the mailbox knows the first one and how    *)
(* many there are.                                                         *)
(***************************************************************************)
EXTENDS KernelWaitHelpers

CONSTANTS
    Packets,          \* the packets the guest sends
    PacketPriority,   \* their priorities, 0 the best
    NoPacket          \* the address 0

ASSUME KernelMbxAssumption ==
    /\ NoPacket \notin Packets
    /\ PacketPriority \in [Packets -> Nat]

(* A packet outside of the mailbox belongs to the guest.                   *)
Mbx(threadPriority, packetPriority) ==
    [kind |-> "mbx", byPriority |-> threadPriority, byPacket |-> packetPriority,
     numMessages |-> 0, packetListHead |-> NoPacket, next |-> [p \in Packets |-> NoPacket],
     waiters |-> << >>]

----------------------------------------------------------------------------
(* The packet i steps behind the first one.                                *)
Nth(b, i) ==
    LET walk[n \in 0 .. i] == IF n = 0 THEN b.packetListHead ELSE b.next[walk[n - 1]] IN walk[i]

Listed(b) == {Nth(b, i) : i \in 0 .. b.numMessages - 1}

(* AddInitialMessage, AddFirstMessage, AddLastMessage and AddMessage       *)
AddInitialMessage(b, p) ==
    [b EXCEPT !.numMessages = 1, !.next[p] = p, !.packetListHead = p]
AddFirstMessage(b, last, p) ==
    [b EXCEPT !.numMessages = @ + 1, !.next = [@ EXCEPT ![p] = b.packetListHead, ![last] = p],
              !.packetListHead = p]
AddMessage(b, before, after, p) ==
    [b EXCEPT !.numMessages = @ + 1, !.next = [@ EXCEPT ![p] = after, ![before] = p]]
AddLastMessage(b, last, p) == AddMessage(b, last, b.packetListHead, p)

(* The places in the ring of the packets p goes in front of.               *)
BehindPlaces(b, p) ==
    {i \in 0 .. b.numMessages - 1 : PacketPriority[p] < PacketPriority[Nth(b, i)]}

(* Where sceKernelSendMbx puts a packet.                                   *)
Added(b, p) ==
    LET last == Nth(b, b.numMessages - 1)
        places == IF b.byPacket THEN BehindPlaces(b, p) ELSE {}
        place == CHOOSE i \in places : \A j \in places : i <= j
    IN  IF b.numMessages = 0 THEN AddInitialMessage(b, p)
        ELSE IF places = {} THEN AddLastMessage(b, last, p)
        ELSE IF place = 0 THEN AddFirstMessage(b, last, p)
        ELSE AddMessage(b, Nth(b, place - 1), Nth(b, place), p)

(* Mutant: the last packet still leads to the one that was taken.          *)
ReceivedUnlinked(b) ==
    LET p == b.packetListHead IN
    [b EXCEPT !.numMessages = @ - 1,
              !.packetListHead = IF b.next[p] = p THEN NoPacket ELSE b.next[p],
              !.next[p] = NoPacket]

(* Mbx::ReceiveMessage: the last packet is found by going round the ring.  *)
Received(b) ==
    LET p == b.packetListHead
        last == CHOOSE q \in Listed(b) : b.next[q] = p
    IN  IF last = p
        THEN [b EXCEPT !.numMessages = @ - 1, !.packetListHead = NoPacket, !.next[p] = NoPacket]
        ELSE [b EXCEPT !.numMessages = @ - 1, !.packetListHead = b.next[p],
                       !.next = [@ EXCEPT ![last] = b.next[p], ![p] = NoPacket]]

(* Mbx::AddWaitingThread: with SCE_KERNEL_MBA_THPRI, in front of the first *)
(* worse one.                                                              *)
AddedWaiting(q, t, byPriority) ==
    LET worse == {i \in DOMAIN q : byPriority /\ sched.prio[t] < sched.prio[q[i].thread]}
        place == IF worse = {} THEN Len(q) + 1 ELSE CHOOSE i \in worse : \A j \in worse : i <= j
    IN  SubSeq(q, 1, place - 1) \o <<[thread |-> t]>> \o SubSeq(q, place, Len(q))

----------------------------------------------------------------------------
(* sceKernelCreateMbx                                                      *)
CreateMbx(b, threadPriority, packetPriority) ==
    /\ CanCreate(b, "mbx")
    /\ Changed(b, Mbx(threadPriority, packetPriority))

(* sceKernelDeleteMbx                                                      *)
DeleteMbx(b) ==
    /\ Calling /\ IsA(b, "mbx")
    /\ LET w == WokenAll(Walk, b, kernelObjects[b].waiters, "deleted") IN
       Finished([w EXCEPT !.objects[b] = NoObject], w.woke)

(* sceKernelCancelReceiveMbx                                               *)
CancelReceiveMbx(b) ==
    /\ Calling /\ IsA(b, "mbx")
    /\ LET w == WokenAll(Walk, b, kernelObjects[b].waiters, "canceled") IN
       Finished([w EXCEPT !.objects[b].waiters = << >>], w.woke)

(* sceKernelSendMbx: if there are no packets, a thread may wait; entries   *)
(* that do not count are removed on the way.                               *)
SendMbx(b, p) ==
    /\ Calling /\ IsA(b, "mbx") /\ p \notin Listed(kernelObjects[b])
    /\ LET mbx == kernelObjects[b]
           tried == IF mbx.numMessages # 0 THEN << >> ELSE Tried(Walk, b, mbx.waiters, mbx.byPriority)
           t == tried[Len(tried)].thread
           rest == SelectSeq(mbx.waiters, LAMBDA e : \A i \in DOMAIN tried : tried[i] # e)
           w == [Walk EXCEPT !.objects[b].waiters = rest]
       IN  IF tried # << >> /\ Remembers(Walk, b, t)
           THEN Finished(Woken(w, b, t, "ok"), TRUE)
           ELSE Changed(b, Added(w.objects[b], p))

(* sceKernelPollMbx, and sceKernelReceiveMbx when there is a packet.       *)
PollMbx(b) ==
    /\ Calling /\ IsA(b, "mbx") /\ kernelObjects[b].numMessages > 0
    /\ Changed(b, Received(kernelObjects[b]))

(* sceKernelReceiveMbx, when it has to wait.                               *)
ReceiveMbx(b, timed) ==
    /\ MayWait /\ IsA(b, "mbx") /\ kernelObjects[b].numMessages = 0
    /\ LET mbx == kernelObjects[b] IN
       WaitOn([Walk EXCEPT !.objects[b].waiters =
                    AddedWaiting(Without(mbx.waiters, current), current, mbx.byPriority)],
              b, 0, timed)

(* sceKernelReferMbxStatus, which goes once round the ring.                *)
ReferMbxStatus(b) ==
    /\ Calling /\ IsA(b, "mbx")
    /\ Changed(b, [kernelObjects[b] EXCEPT !.waiters = CleanedUp(Walk, b, @),
                                           !.packetListHead = Nth(kernelObjects[b], kernelObjects[b].numMessages)])

MbxCall(b) ==
    \/ \E threadPriority, packetPriority \in BOOLEAN : CreateMbx(b, threadPriority, packetPriority)
    \/ DeleteMbx(b) \/ CancelReceiveMbx(b)
    \/ \E p \in Packets : SendMbx(b, p)
    \/ PollMbx(b)
    \/ \E timed \in Timed : ReceiveMbx(b, timed)
    \/ "refer" \in guestUses /\ ReferMbxStatus(b)

----------------------------------------------------------------------------
Mailboxes ==
    [kind: {"mbx"}, byPriority: BOOLEAN, byPacket: BOOLEAN, numMessages: Nat,
     packetListHead: Packets \cup {NoPacket}, next: [Packets -> Packets \cup {NoPacket}],
     waiters: Seq([thread: Threads])]

(* No thread waits for a packet while the mailbox has one.                 *)
NoPacketAwaited ==
    \A b \in Objects, t \in Threads :
        IsA(b, "mbx") /\ WaitsFor(t, b) => kernelObjects[b].numMessages = 0

(* "Check over the linked list": the links lead from the first packet over *)
(* as many different ones as there are messages back to the first, and     *)
(* with SCE_KERNEL_MBA_MSPRI they get worse on the way.                    *)
RingIsWhole ==
    \A b \in Objects : IsA(b, "mbx") =>
        LET mbx == kernelObjects[b]
            n == mbx.numMessages
        IN  /\ Listed(mbx) \subseteq Packets /\ Cardinality(Listed(mbx)) = n
            /\ Nth(mbx, n) = mbx.packetListHead
            /\ mbx.byPacket => \A i \in 1 .. n - 1 :
                    PacketPriority[Nth(mbx, i - 1)] <= PacketPriority[Nth(mbx, i)]

=============================================================================
