--------------------------- MODULE KernelEventFlag ---------------------------
(***************************************************************************)
(* Event flags of the emulated kernel (sceKernelEventFlag.cpp).  A pattern *)
(* is the set of its bits.                                                 *)
(***************************************************************************)
EXTENDS KernelWaitHelpers

LOCAL Seqs == INSTANCE SequencesExt

CONSTANTS
    Patterns,       \* the patterns the guest sets, and passes to create, clear and cancel
    Conditions      \* what the guest waits for: records of bits and wait, a set of WaitModes

PSP_EVENT_WAITOR == "or"
PSP_EVENT_WAITCLEAR == "clear"
PSP_EVENT_WAITCLEARALL == "clear all"
WaitModes == {PSP_EVENT_WAITOR, PSP_EVENT_WAITCLEAR, PSP_EVENT_WAITCLEARALL}

Bits == UNION Patterns

ASSUME KernelEventFlagAssumption ==
    Conditions \subseteq [bits: SUBSET Bits \ {{}}, wait: SUBSET WaitModes]

EventFlag(pattern, multiple) ==
    [kind |-> "eventflag", multiple |-> multiple, pattern |-> pattern, waiters |-> << >>]

----------------------------------------------------------------------------
(* __KernelEventFlagMatches, and the pattern it leaves.                    *)
Matches(pattern, e) ==
    IF PSP_EVENT_WAITOR \in e.wait THEN e.bits \cap pattern # {} ELSE e.bits \subseteq pattern

PatternAfter(pattern, e) ==
    IF PSP_EVENT_WAITCLEARALL \in e.wait THEN {}
    ELSE IF PSP_EVENT_WAITCLEAR \in e.wait THEN pattern \ e.bits ELSE pattern

(* Mutant: an entry that does not match ends the walk.                     *)
UnlockedUpTo(w, f, e) ==
    IF w.objects[f].waiters # << >> THEN [w EXCEPT !.objects[f].waiters = Append(@, e)]
    ELSE IF ~Remembers(w, f, e.thread) THEN w
    ELSE IF ~Matches(w.objects[f].pattern, e) THEN [w EXCEPT !.objects[f].waiters = Append(@, e)]
    ELSE [Woken(w, f, e.thread, "ok") EXCEPT !.objects[f].pattern = PatternAfter(@, e)]

(* __KernelUnlockEventFlagForThread with result 0, and the removal of the  *)
(* entry if it says so.                                                    *)
UnlockedFlag(w, f, e) ==
    IF ~Remembers(w, f, e.thread) THEN w
    ELSE IF ~Matches(w.objects[f].pattern, e) THEN [w EXCEPT !.objects[f].waiters = Append(@, e)]
    ELSE [Woken(w, f, e.thread, "ok") EXCEPT !.objects[f].pattern = PatternAfter(@, e)]

----------------------------------------------------------------------------
(* sceKernelCreateEventFlag                                                *)
CreateEventFlag(f, pattern, multiple) ==
    /\ CanCreate(f, "eventflag")
    /\ Changed(f, EventFlag(pattern, multiple))

(* sceKernelDeleteEventFlag                                                *)
DeleteEventFlag(f) ==
    /\ Calling /\ IsA(f, "eventflag")
    /\ LET w == WokenAll(Walk, f, kernelObjects[f].waiters, "deleted") IN
       Finished([w EXCEPT !.objects[f] = NoObject], w.woke)

(* sceKernelCancelEventFlag                                                *)
CancelEventFlag(f, pattern) ==
    /\ Calling /\ IsA(f, "eventflag")
    /\ LET w == WokenAll(Walk, f, kernelObjects[f].waiters, "canceled") IN
       Finished([w EXCEPT !.objects[f].waiters = << >>, !.objects[f].pattern = pattern], w.woke)

(* sceKernelClearEventFlag, whose argument are the bits to keep.           *)
ClearEventFlag(f, bits) ==
    /\ Calling /\ IsA(f, "eventflag")
    /\ Changed(f, [kernelObjects[f] EXCEPT !.pattern = @ \cap bits])

(* sceKernelSetEventFlag                                                   *)
SetEventFlag(f, bits) ==
    /\ Calling /\ IsA(f, "eventflag")
    /\ LET start == [Walk EXCEPT !.objects[f].pattern = @ \cup bits, !.objects[f].waiters = << >>]
           w == Seqs!FoldLeft(LAMBDA v, e : UnlockedFlag(v, f, e), start, kernelObjects[f].waiters)
       IN  Finished(w, w.woke)

(* sceKernelPollEventFlag, and sceKernelWaitEventFlag, when they match.    *)
(* Poll refuses to clear both ways.                                        *)
PollEventFlag(f, c) ==
    /\ Calling /\ IsA(f, "eventflag") /\ Matches(kernelObjects[f].pattern, c)
    /\ MayWait \/ ~{PSP_EVENT_WAITCLEAR, PSP_EVENT_WAITCLEARALL} \subseteq c.wait
    /\ Changed(f, [kernelObjects[f] EXCEPT !.pattern = PatternAfter(@, c)])

(* sceKernelWaitEventFlag, when it does not match: an old entry of the     *)
(* thread is removed first; without PSP_EVENT_WAITMULTIPLE, any other      *)
(* entry makes it fail.                                                    *)
WaitEventFlag(f, c, timed) ==
    /\ MayWait /\ IsA(f, "eventflag") /\ ~Matches(kernelObjects[f].pattern, c)
    /\ LET others == Without(kernelObjects[f].waiters, current)
           entry == [thread |-> current, bits |-> c.bits, wait |-> c.wait]
       IN  \/ /\ others # << >> /\ ~kernelObjects[f].multiple
              /\ Changed(f, [kernelObjects[f] EXCEPT !.waiters = others])
           \/ /\ others = << >> \/ kernelObjects[f].multiple
              /\ WaitOn([Walk EXCEPT !.objects[f].waiters = Append(others, entry)], f, 0, timed)

(* sceKernelReferEventFlagStatus                                           *)
ReferEventFlagStatus(f) ==
    /\ Calling /\ IsA(f, "eventflag")
    /\ Changed(f, [kernelObjects[f] EXCEPT !.waiters = CleanedUp(Walk, f, @)])

(* __KernelEventFlagTimeout: the entry stays, and nothing is rescheduled.  *)
EventFlagTimeout(t) ==
    /\ waitTimers["eventflag"][t] > 0
    /\ LET elapsed == [Walk EXCEPT !.timers["eventflag"][t] = @ - 1]
           remembered == {f \in Objects : /\ IsA(f, "eventflag") /\ VerifyWait(sched, t, "eventflag", f)
                                          /\ t \in ThreadsIn(kernelObjects[f].waiters)}
       IN  \/ remembered = {} /\ Walked(elapsed)
           \/ \E f \in remembered : Walked(Woken(elapsed, f, t, "timeout"))
    /\ UNCHANGED <<waitValue, wakeupCount, waitingThreads, timers, resched>>

FlagCall(f) ==
    \/ \E pattern \in Patterns, multiple \in BOOLEAN : CreateEventFlag(f, pattern, multiple)
    \/ DeleteEventFlag(f)
    \/ \E bits \in Patterns : CancelEventFlag(f, bits) \/ ClearEventFlag(f, bits) \/ SetEventFlag(f, bits)
    \/ "refer" \in guestUses /\ ReferEventFlagStatus(f)
    \/ \E c \in Conditions :
        \/ PollEventFlag(f, c)
        \/ \E timed \in Timed : WaitEventFlag(f, c, timed)

----------------------------------------------------------------------------
FlagEntries == [thread: Threads, bits: SUBSET Bits, wait: SUBSET WaitModes]
EventFlags ==
    [kind: {"eventflag"}, multiple: BOOLEAN, pattern: SUBSET Bits, waiters: Seq(FlagEntries)]

(* No thread waits for bits that are set, whatever was cleared, polled,    *)
(* cancelled or taken by other threads in between.                         *)
NoFlagMissed ==
    \A f \in Objects : IsA(f, "eventflag") =>
        \A i \in DOMAIN kernelObjects[f].waiters :
            LET e == kernelObjects[f].waiters[i] IN
            WaitsFor(e.thread, f) => ~Matches(kernelObjects[f].pattern, e)

=============================================================================
