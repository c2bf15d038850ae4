----------------------- MODULE KernelInterrupt_proofs -----------------------
(***************************************************************************)
(* Proof that threads are not switched in interrupt handlers, whatever the *)
(* threads, priorities and bounds, and whatever a handler does: it also    *)
(* stops and suspends the thread it interrupted here.  And, for careful    *)
(* guests, that with interrupts no ready thread is lost, that a reschedule *)
(* leaves the best thread running and the one it preempted first in its    *)
(* queue, and that a thread that suspended dispatch is switched back to.   *)
(***************************************************************************)
EXTENDS KernelInterrupt, KernelThread_proofs

(* As much of a scheduler's type as the proof needs: it is a record with   *)
(* the fields of one.                                                      *)
Fields == {"threads", "current", "status", "prio", "wait", "ready",
           "dispatchEnabled", "interruptsEnabled", "inInterrupt"}
IsScheduler(s) == s = [f \in Fields |-> s[f]]

(* r is as much in an interrupt as s is, and does not run another thread.  *)
SameContext(s, r) == IsScheduler(r) /\ r.current = s.current /\ r.inInterrupt = s.inInterrupt

----------------------------------------------------------------------------
(* The steps that system calls are composed of.                            *)
LEMMA InitialContext == IsScheduler(InitialSched)
BY DEF IsScheduler, InitialSched, Fields

LEMMA MadeReadyContext ==
    ASSUME NEW s, IsScheduler(s), NEW t
    PROVE  SameContext(s, MadeReady(s, t))
BY DEF IsScheduler, SameContext, MadeReady, Fields

LEMMA MadeUnreadyContext ==
    ASSUME NEW s, IsScheduler(s), NEW t
    PROVE  SameContext(s, MadeUnready(s, t))
BY DEF IsScheduler, SameContext, MadeUnready, Fields

LEMMA ResumedContext ==
    ASSUME NEW s, IsScheduler(s), NEW t
    PROVE  SameContext(s, Resumed(s, t))
<1> DEFINE woken == [s EXCEPT !.status[t] = @ \ {"wait"}]
<1>1. SameContext(s, woken)
  BY DEF IsScheduler, SameContext, Fields
<1> HIDE DEF woken
<1>2. SameContext(s, MadeReady(woken, t))
  BY <1>1, MadeReadyContext DEF SameContext
<1>3. Resumed(s, t) \in {woken, MadeReady(woken, t)}
  BY DEF Resumed, woken
<1> QED
  BY <1>1, <1>2, <1>3

LEMMA ResumedAllContext ==
    ASSUME NEW s, IsScheduler(s), NEW q
    PROVE  SameContext(s, ResumedAll(s, q))
BY DEF IsScheduler, SameContext, ResumedAll, Fields

LEMMA WaitingContext ==
    ASSUME NEW s, IsScheduler(s), NEW w
    PROVE  SameContext(s, WaitingCurThread(s, w))
<1> DEFINE u == MadeUnready(s, s.current)
<1>1. SameContext(s, u)
  BY MadeUnreadyContext
<1> HIDE DEF u
<1>2. SameContext(s, [u EXCEPT !.status[s.current] = {"wait"} \cup (@ \cap {"suspend"}),
                               !.wait[s.current] = w])
  BY <1>1 DEF IsScheduler, SameContext, Fields
<1>3. CASE ~s.dispatchEnabled
  BY <1>3 DEF WaitingCurThread, SameContext
<1>4. CASE s.dispatchEnabled
  BY <1>2, <1>4 DEF WaitingCurThread, u
<1> QED
  BY <1>3, <1>4

LEMMA SwitchContextContext ==
    ASSUME NEW s, IsScheduler(s), NEW t
    PROVE  /\ IsScheduler(SwitchContext(s, t))
           /\ SwitchContext(s, t).current = t
           /\ SwitchContext(s, t).inInterrupt = s.inInterrupt
<1>1. SameContext(s, SwitchedOff(s))
  BY MadeReadyContext DEF SwitchedOff, SameContext
<1> DEFINE u == MadeUnready(SwitchedOff(s), t)
<1>2. SameContext(s, u)
  BY <1>1, MadeUnreadyContext DEF SameContext
<1> HIDE DEF u
<1>3. SwitchContext(s, t) = [u EXCEPT !.current = t,
                                      !.status[t] = (@ \cup {"running"}) \ {"ready"},
                                      !.wait[t] = NotWaiting]
  BY DEF SwitchContext, u
<1> QED
  BY <1>2, <1>3 DEF IsScheduler, SameContext, Fields

(* The scheduler does nothing in an interrupt.                             *)
LEMMA ReScheduledContext ==
    ASSUME NEW s, IsScheduler(s), NEW r \in ReScheduled(s)
    PROVE  IsScheduler(r) /\ r.inInterrupt = s.inInterrupt /\ (s.inInterrupt => r = s)
<1>1. CASE r = s
  BY <1>1
<1>2. CASE r # s
  <2>1. ~s.inInterrupt
    BY <1>2 DEF ReScheduled, CanSwitch
  <2>2. PICK p : r = SwitchContext([s EXCEPT !.ready[p] = Tail(@)], Head(s.ready[p]))
    BY <1>2 DEF ReScheduled
  <2>3. SameContext(s, [s EXCEPT !.ready[p] = Tail(@)])
    BY DEF IsScheduler, SameContext, Fields
  <2> QED
    BY <2>1, <2>2, <2>3, SwitchContextContext DEF SameContext
<1> QED
  BY <1>1, <1>2

LEMMA StoppedContext ==
    ASSUME IsScheduler(sched), NEW t
    PROVE  SameContext(sched, Stopped(t))
<1> DEFINE u == MadeUnready(sched, t)
           d == [u EXCEPT !.status[t] = {"dormant"}]
           a == ResumedAll(d, EndWaiters(t))
<1>1. SameContext(sched, u)
  BY MadeUnreadyContext
<1> HIDE DEF u
<1>2. SameContext(sched, d)
  BY <1>1 DEF IsScheduler, SameContext, Fields
<1> HIDE DEF d
<1>3. SameContext(sched, a)
  BY <1>2, ResumedAllContext DEF SameContext
<1>4. Stopped(t) = [a EXCEPT !.wait[t] = NotWaiting]
  BY DEF Stopped, u, d
<1> HIDE DEF a
<1> QED
  BY <1>3, <1>4 DEF IsScheduler, SameContext, Fields

LEMMA DeletedContext ==
    ASSUME IsScheduler(sched), NEW t
    PROVE  /\ IsScheduler(Deleted(t))
           /\ Deleted(t).inInterrupt = sched.inInterrupt
           /\ Deleted(t).current = IF t = sched.current THEN NoThread ELSE sched.current
<1> DEFINE a == Stopped(t)
<1>1. SameContext(sched, a)
  BY StoppedContext
<1> HIDE DEF a
<1>2. PICK q : Deleted(t) = [a EXCEPT !.ready[sched.prio[t]] = q,
                                      !.threads = @ \ {t},
                                      !.current = IF @ = t THEN NoThread ELSE @]
  BY DEF Deleted, a
<1> QED
  BY <1>1, <1>2 DEF IsScheduler, SameContext, Fields

----------------------------------------------------------------------------
(* The invariant: a handler runs on the context of an idle thread.         *)
HandlerContext == IsScheduler(sched) /\ (sched.inInterrupt => current \in IdleThreads)

(* What every step of the threads does to the context.                     *)
ContextKept ==
    /\ IsScheduler(sched')
    /\ sched'.inInterrupt = sched.inInterrupt
    /\ sched.inInterrupt => sched'.current = sched.current

LEMMA SameContextKept ==
    ASSUME SameContext(sched, sched')
    PROVE  ContextKept
BY DEF SameContext, ContextKept

(* A change of the priority of t, whose queue is left as q, before t joins *)
(* another one.                                                            *)
UnrunWith(t, p, q) ==
    LET taken == [sched EXCEPT !.ready[sched.prio[t]] = q, !.prio[t] = p] IN
    [taken EXCEPT !.status[t] = IF "running" \in @ THEN (@ \ {"running"}) \cup {"ready"} ELSE @]

LEMMA ThreadCallKeeps ==
    ASSUME HandlerContext, NEW t \in Threads, ThreadCall(t)
    PROVE  SameContext(sched, sched')
<1>1. IsScheduler(sched)
  BY DEF HandlerContext
<1>2. ASSUME CreateThread(t)
      PROVE  SameContext(sched, sched')
  BY <1>1, <1>2 DEF CreateThread, OnThread, SameContext, IsScheduler, Fields
<1>3. ASSUME StartThread(t)
      PROVE  SameContext(sched, sched')
  <2> DEFINE reset == [sched EXCEPT
                          !.prio[t] = IF @ < sched.prio[current] THEN InitialPriority[t] ELSE @,
                          !.wait[t] = NotWaiting]
             better == reset.prio[t] < reset.prio[current]
             u == IF better THEN MadeReady(reset, current) ELSE reset
             v == [u EXCEPT !.dispatchEnabled = TRUE]
  <2>1. sched' = MadeReady(v, t)
    BY <1>3 DEF StartThread
  <2>2. SameContext(sched, reset)
    BY <1>1 DEF IsScheduler, SameContext, Fields
  <2> HIDE DEF reset, better
  <2>3. SameContext(sched, u)
    BY <2>2, MadeReadyContext DEF SameContext
  <2> HIDE DEF u
  <2>4. SameContext(sched, v)
    BY <2>3 DEF IsScheduler, SameContext, Fields
  <2> HIDE DEF v
  <2> QED
    BY <2>1, <2>4, MadeReadyContext DEF SameContext
<1>4. ASSUME TerminateThread(t)
      PROVE  SameContext(sched, sched')
  <2> DEFINE u == Stopped(t)
  <2>1. SameContext(sched, u)
    BY <1>1, StoppedContext
  <2>2. sched' = [u EXCEPT !.prio[t] = InitialPriority[t]]
    BY <1>4 DEF TerminateThread
  <2> HIDE DEF u
  <2> QED
    BY <2>1, <2>2 DEF IsScheduler, SameContext, Fields
<1>5. ASSUME DeleteThread(t) \/ TerminateDeleteThread(t)
      PROVE  SameContext(sched, sched')
  BY <1>1, <1>5, DeletedContext DEF DeleteThread, TerminateDeleteThread, Other, current, SameContext
<1>6. ASSUME WakeupThread(t) \/ ReleaseWaitThread(t)
      PROVE  SameContext(sched, sched')
  <2>1. sched' \in {sched, Resumed(sched, t)}
    BY <1>6 DEF WakeupThread, ReleaseWaitThread
  <2> QED
    BY <1>1, <2>1, ResumedContext DEF SameContext
<1>7. ASSUME CancelWakeupThread(t)
      PROVE  SameContext(sched, sched')
  BY <1>1, <1>7 DEF CancelWakeupThread, SameContext
<1>8. ASSUME SuspendThread(t)
      PROVE  SameContext(sched, sched')
  <2> DEFINE u == MadeUnready(sched, t)
  <2>1. SameContext(sched, u)
    BY <1>1, MadeUnreadyContext
  <2>2. sched' = [u EXCEPT !.status[t] = (@ \ {"ready"}) \cup {"suspend"}]
    BY <1>8 DEF SuspendThread
  <2> HIDE DEF u
  <2> QED
    BY <2>1, <2>2 DEF IsScheduler, SameContext, Fields
<1>9. ASSUME ResumeThread(t)
      PROVE  SameContext(sched, sched')
  <2> DEFINE u == [sched EXCEPT !.status[t] = @ \ {"suspend"}]
  <2>1. SameContext(sched, u)
    BY <1>1 DEF IsScheduler, SameContext, Fields
  <2>2. sched' \in {u, MadeReady(u, t)}
    BY <1>9 DEF ResumeThread
  <2> HIDE DEF u
  <2> QED
    BY <2>1, <2>2, MadeReadyContext DEF SameContext
<1>10. ASSUME NEW timed \in BOOLEAN, WaitThreadEnd(t, timed)
       PROVE  SameContext(sched, sched')
  BY <1>1, <1>10, WaitingContext DEF WaitThreadEnd
<1>11. ASSUME NEW p \in 0 .. UserPriorities - 1, ChangeThreadPriority(t, p)
       PROVE  SameContext(sched, sched')
  <2>1. PICK q : \/ sched' = UnrunWith(t, p, q)
                 \/ sched' = [UnrunWith(t, p, q) EXCEPT !.ready[p] = Append(@, t)]
    BY <1>11 DEF ChangeThreadPriority, UnrunWith
  <2>2. SameContext(sched, UnrunWith(t, p, q))
    BY <1>1 DEF UnrunWith, IsScheduler, SameContext, Fields
  <2>3. SameContext(sched, [UnrunWith(t, p, q) EXCEPT !.ready[p] = Append(@, t)])
    BY <2>2 DEF IsScheduler, SameContext, Fields
  <2> QED
    BY <2>1, <2>2, <2>3
<1> QED
  BY <1>2, <1>3, <1>4, <1>5, <1>6, <1>7, <1>8, <1>9, <1>10, <1>11 DEF ThreadCall

(* The calls that concern the calling thread itself: most of them are not  *)
(* made in an interrupt.                                                   *)
LEMMA OwnCallKeeps ==
    ASSUME HandlerContext,
           \/ ExitThread \/ ExitDeleteThread
           \/ DelayThread \/ SleepThread
           \/ SuspendDispatchThread
           \/ \E enabled \in BOOLEAN : ResumeDispatchThread(enabled)
           \/ \E p \in 0 .. UserPriorities - 1 : RotateThreadReadyQueue(p)
    PROVE  ContextKept /\ sched'.current \in {sched.current, NoThread}
<1>1. IsScheduler(sched)
  BY DEF HandlerContext
<1>2. CASE ExitThread
  BY <1>1, <1>2, StoppedContext, SameContextKept DEF ExitThread, SameContext
<1>3. CASE ExitDeleteThread
  BY <1>1, <1>3, DeletedContext DEF ExitDeleteThread, OnThread, ContextKept
<1>4. CASE DelayThread \/ SleepThread
  <2>1. PICK w : sched' \in {sched, WaitingCurThread(sched, w)}
    BY <1>4 DEF DelayThread, SleepThread
  <2> QED
    BY <1>1, <2>1, WaitingContext, SameContextKept DEF SameContext
<1>5. CASE SuspendDispatchThread \/ \E enabled \in BOOLEAN : ResumeDispatchThread(enabled)
  <2>1. PICK enabled : sched' = [sched EXCEPT !.dispatchEnabled = enabled]
    BY <1>5 DEF SuspendDispatchThread, ResumeDispatchThread
  <2> QED
    BY <1>1, <2>1 DEF ContextKept, IsScheduler, Fields
<1>6. ASSUME NEW p \in 0 .. UserPriorities - 1, RotateThreadReadyQueue(p)
      PROVE  ContextKept /\ sched'.current \in {sched.current, NoThread}
  <2>1. CASE UNCHANGED sched
    BY <1>1, <2>1 DEF ContextKept
  <2>2. CASE sched' = [sched EXCEPT !.ready[p] = Append(@, current),
                                    !.status[current] = (@ \ {"running"}) \cup {"ready"}]
    BY <1>1, <2>2 DEF ContextKept, IsScheduler, Fields
  <2>3. CASE sched' = [sched EXCEPT !.ready[p] = Append(Tail(@), Head(@))]
    BY <1>1, <2>3 DEF ContextKept, IsScheduler, Fields
  <2> QED
    BY <1>6, <2>1, <2>2, <2>3 DEF RotateThreadReadyQueue
<1> QED
  BY <1>2, <1>3, <1>4, <1>5, <1>6

(* Events, and the scheduler's own steps.                                  *)
LEMMA SchedulingKeeps ==
    ASSUME HandlerContext, Event \/ Idle \/ FinishSyscall
    PROVE  ContextKept
<1>1. IsScheduler(sched)
  BY DEF HandlerContext
<1>2. CASE Event
  <2>1. PICK t \in Threads : ScheduledWakeup(t) \/ ThreadEndTimeout(t)
    BY <1>2 DEF Event
  <2>2. sched' = sched \/ sched' \in ReScheduled(Resumed(sched, t))
    BY <2>1 DEF ScheduledWakeup, ThreadEndTimeout
  <2> DEFINE u == Resumed(sched, t)
  <2>3. SameContext(sched, u)
    BY <1>1, ResumedContext
  <2> HIDE DEF u
  <2> QED
    BY <1>1, <2>2, <2>3, ReScheduledContext DEF SameContext, ContextKept, u
<1>3. CASE Idle \/ FinishSyscall
  BY <1>1, <1>3, ReScheduledContext DEF Idle, FinishSyscall, ContextKept
<1> QED
  BY <1>2, <1>3

LEMMA ThreadStepKeeps ==
    ASSUME HandlerContext, ThreadStep
    PROVE  ContextKept
BY ThreadCallKeeps, SameContextKept, OwnCallKeeps, SchedulingKeeps DEF ThreadStep, ThreadSyscall

----------------------------------------------------------------------------
(* Interrupts.                                                             *)
LEMMA SwitchedToIdleContext ==
    ASSUME NEW s, IsScheduler(s)
    PROVE  /\ IsScheduler(SwitchedToIdle(s))
           /\ SwitchedToIdle(s).inInterrupt = s.inInterrupt
           /\ SwitchedToIdle(s).current \in IdleThreads
           /\ s.current \in IdleThreads => SwitchedToIdle(s) = s
BY SwitchContextContext DEF SwitchedToIdle, IdleThreads

LEMMA SwitchedToContext ==
    ASSUME NEW s, IsScheduler(s), NEW t
    PROVE  IsScheduler(SwitchedTo(s, t)) /\ SwitchedTo(s, t).inInterrupt = s.inInterrupt
BY SwitchContextContext DEF SwitchedTo

(* A handler is entered on the context of an idle thread, which stays the  *)
(* current one if it was before; no interrupt is run within another one.   *)
LEMMA RunOnePendingContext ==
    ASSUME NEW s, IsScheduler(s), NEW n, NEW before, NEW o \in RunOnePending(s, n, before)
    PROVE  /\ IsScheduler(o.sched)
           /\ s.inInterrupt => o.sched = s
           /\ o.ran => /\ o.sched.current \in IdleThreads
                       /\ s.current \in IdleThreads => o.sched.current = s.current
           /\ ~o.ran => o.sched.inInterrupt = s.inInterrupt
<1> DEFINE off == SwitchedToIdle(s)
           interrupted == IF s.current \in IdleThreads THEN before ELSE s.current
           back == IF s.current \in IdleThreads THEN s ELSE SwitchedTo(off, interrupted)
           in == [off EXCEPT !.inInterrupt = TRUE]
<1>1. /\ IsScheduler(off) /\ off.inInterrupt = s.inInterrupt /\ off.current \in IdleThreads
      /\ s.current \in IdleThreads => off = s
  BY SwitchedToIdleContext
<1>2. IsScheduler(back) /\ back.inInterrupt = s.inInterrupt
  BY <1>1, SwitchedToContext
<1>3. \/ o = Outcome(s, n, before, FALSE)
      \/ ~s.inInterrupt /\ \E k \in 0 .. n - 1 : o = Outcome(in, n - k, interrupted, TRUE)
      \/ ~s.inInterrupt /\ o = Outcome(back, 0, interrupted, FALSE)
  BY DEF RunOnePending
<1> HIDE DEF off, interrupted, back
<1>4. IsScheduler(in) /\ in.current = off.current
  BY <1>1 DEF IsScheduler, Fields
<1> HIDE DEF in
<1> QED
  BY <1>1, <1>2, <1>3, <1>4 DEF Outcome

(* What an interrupt step must establish.                                  *)
Switched ==
    /\ HandlerContext'
    /\ sched.inInterrupt /\ sched'.inInterrupt => sched'.current = sched.current

LEMMA KeptIsSwitched ==
    ASSUME HandlerContext, ContextKept
    PROVE  Switched
BY DEF HandlerContext, ContextKept, Switched, current

LEMMA CpuIntrStep ==
    ASSUME HandlerContext, CpuSuspendIntr \/ CpuResumeIntr
    PROVE  Switched
<1>1. PICK enabled : sched' = [sched EXCEPT !.interruptsEnabled = enabled]
  BY DEF CpuSuspendIntr, CpuResumeIntr
<1>2. ContextKept
  BY <1>1 DEF HandlerContext, ContextKept, IsScheduler, Fields
<1> QED
  BY <1>2, KeptIsSwitched

LEMMA OutcomeSwitched ==
    ASSUME HandlerContext, NEW n, NEW before, NEW o \in RunOnePending(sched, n, before),
           sched' = o.sched
    PROVE  Switched
<1>1. IsScheduler(sched)
  BY DEF HandlerContext
<1>2. /\ IsScheduler(o.sched)
      /\ sched.inInterrupt => o.sched = sched
      /\ o.ran => o.sched.current \in IdleThreads
      /\ ~o.ran => o.sched.inInterrupt = sched.inInterrupt
  BY <1>1, RunOnePendingContext
<1> QED
  BY <1>2 DEF HandlerContext, Switched, current

LEMMA OutcomeRecord ==
    ASSUME NEW s, NEW n, NEW before, NEW o \in RunOnePending(s, n, before), NEW r
    PROVE  [o EXCEPT !.sched = r].sched = r
<1>1. PICK a, b, c, d : o = Outcome(a, b, c, d)
  BY DEF RunOnePending
<1> QED
  BY <1>1 DEF Outcome

LEMMA FinishStep ==
    ASSUME HandlerContext, FinishAndRunInterrupts
    PROVE  Switched
<1>1. PICK o \in RunOnePending(sched, pendingInterrupts, threadBeforeInterrupt) :
        \E s \in ReScheduled(o.sched) : Left([o EXCEPT !.sched = s])
  BY DEF FinishAndRunInterrupts
<1>2. PICK s \in ReScheduled(o.sched) : Left([o EXCEPT !.sched = s])
  BY <1>1
<1>3. sched' = s
  BY <1>2, OutcomeRecord DEF Left
<1>4. IsScheduler(sched)
  BY DEF HandlerContext
<1>5. /\ IsScheduler(o.sched)
      /\ sched.inInterrupt => o.sched = sched
      /\ o.ran => o.sched.current \in IdleThreads
      /\ ~o.ran => o.sched.inInterrupt = sched.inInterrupt
  BY <1>4, RunOnePendingContext
<1>6. IsScheduler(s) /\ s.inInterrupt = o.sched.inInterrupt /\ (o.sched.inInterrupt => s = o.sched)
  BY <1>5, ReScheduledContext
<1> QED
  BY <1>3, <1>5, <1>6 DEF HandlerContext, Switched, current

LEMMA TriggerStep ==
    ASSUME HandlerContext, TriggerInterrupt
    PROVE  Switched
BY OutcomeSwitched DEF TriggerInterrupt, Left

LEMMA VblankStep ==
    ASSUME HandlerContext, NEW handlers \in 0 .. 1, TriggerVblank(handlers)
    PROVE  Switched
<1>1. CASE sched.inInterrupt
  <2>1. ContextKept
    BY <1>1 DEF TriggerVblank, HandlerContext, ContextKept
  <2> QED
    BY <2>1, KeptIsSwitched
<1>2. CASE ~sched.inInterrupt
  <2>1. PICK o \in RunOnePending(sched, pendingInterrupts + handlers, threadBeforeInterrupt) :
            IF o.ran \/ ~IsDispatchEnabled(o.sched) \/ o.sched.current \in IdleThreads
            THEN Left(o)
            ELSE Left([o EXCEPT !.sched = SwitchedToIdle(@), !.before = o.sched.current])
    BY <1>2 DEF TriggerVblank
  <2>2. CASE Left(o)
    BY <2>2, OutcomeSwitched DEF Left
  <2>3. CASE Left([o EXCEPT !.sched = SwitchedToIdle(@), !.before = o.sched.current])
    <3>1. PICK a, b, c, d : o = Outcome(a, b, c, d)
      BY DEF RunOnePending
    <3>2. sched' = SwitchedToIdle(o.sched)
      BY <2>3, <3>1 DEF Left, Outcome
    <3>3. IsScheduler(o.sched)
      BY RunOnePendingContext DEF HandlerContext
    <3> QED
      BY <1>2, <3>2, <3>3, SwitchedToIdleContext DEF Switched, HandlerContext, current
  <2> QED
    BY <2>1, <2>2, <2>3
<1> QED
  BY <1>1, <1>2

(* Only when another interrupt is run at once does an interrupt follow on  *)
(* another one, and it takes over the idle thread.                         *)
LEMMA ReturnStep ==
    ASSUME HandlerContext, ReturnFromInterrupt
    PROVE  Switched
<1> DEFINE s == [sched EXCEPT !.inInterrupt = FALSE]
<1>1. IsScheduler(s) /\ s.current = sched.current /\ ~s.inInterrupt
  BY DEF HandlerContext, IsScheduler, Fields
<1>2. sched.current \in IdleThreads
  BY DEF HandlerContext, ReturnFromInterrupt, current
<1>3. PICK o \in RunOnePending(s, pendingInterrupts - 1, threadBeforeInterrupt) :
        \/ o.ran /\ Left(o)
        \/ /\ ~o.ran /\ IsDispatchEnabled(o.sched)
           /\ \E s2 \in ReScheduled(o.sched) : Left([o EXCEPT !.sched = s2])
        \/ /\ ~o.ran /\ ~IsDispatchEnabled(o.sched)
           /\ Left([o EXCEPT !.sched = SwitchedTo(@, o.before)])
  BY DEF ReturnFromInterrupt
<1> HIDE DEF s
<1>4. /\ IsScheduler(o.sched)
      /\ o.ran => o.sched.current \in IdleThreads /\ o.sched.current = s.current
      /\ ~o.ran => ~o.sched.inInterrupt
  BY <1>1, <1>2, RunOnePendingContext
<1>5. CASE o.ran /\ Left(o)
  BY <1>1, <1>4, <1>5 DEF Left, Switched, HandlerContext, current
<1>6. ASSUME ~o.ran, NEW s2 \in ReScheduled(o.sched), Left([o EXCEPT !.sched = s2])
      PROVE  Switched
  <2>1. sched' = s2
    BY <1>6, OutcomeRecord DEF Left
  <2>2. IsScheduler(s2) /\ ~s2.inInterrupt
    BY <1>4, <1>6, ReScheduledContext
  <2> QED
    BY <2>1, <2>2 DEF Switched, HandlerContext
<1>7. CASE ~o.ran /\ Left([o EXCEPT !.sched = SwitchedTo(@, o.before)])
  <2>1. PICK a, b, c, d : o = Outcome(a, b, c, d)
    BY DEF RunOnePending
  <2>2. sched' = SwitchedTo(o.sched, o.before)
    BY <1>7, <2>1 DEF Left, Outcome
  <2>3. IsScheduler(sched') /\ ~sched'.inInterrupt
    BY <1>4, <1>7, <2>2, SwitchedToContext
  <2> QED
    BY <2>3 DEF Switched, HandlerContext
<1> QED
  BY <1>3, <1>5, <1>6, <1>7

----------------------------------------------------------------------------
LEMMA StepSwitches ==
    ASSUME HandlerContext, [InterruptNext]_allVars
    PROVE  Switched
<1>1. CASE UNCHANGED allVars
  BY <1>1 DEF allVars, vars, Switched, HandlerContext, current
<1>2. CASE ThreadStep
  BY <1>2, ThreadStepKeeps, KeptIsSwitched
<1> QED
  BY <1>1, <1>2, CpuIntrStep, FinishStep, TriggerStep, VblankStep, ReturnStep DEF InterruptNext

(* "Threads don't get changed within interrupts": whatever system calls a  *)
(* handler makes and whatever events come up while it runs, the thread     *)
(* whose context it borrowed stays the current one.                        *)
THEOREM HandlerTheorem == InterruptSpec => HandlerStaysCurrent
<1>1. InterruptInit => HandlerContext
  BY InitialContext DEF InterruptInit, Init, HandlerContext, InitialSched
<1>2. HandlerContext /\ [InterruptNext]_allVars => HandlerContext'
  BY StepSwitches DEF Switched
<1>3. HandlerContext /\ [InterruptNext]_allVars
        => [sched.inInterrupt /\ sched'.inInterrupt => current' = current]_allVars
  BY StepSwitches DEF Switched, current
<1> QED
  BY <1>1, <1>2, <1>3, PTL DEF InterruptSpec, HandlerStaysCurrent

----------------------------------------------------------------------------
(* The invariant of the threads, in the steps of interrupts.               *)
LEMMA CurrentIdle ==
    ASSUME NEW s, InStep(s, {}), s.current \in IdleThreads
    PROVE  CurrentRuns(s)
BY Constants DEF InStep, IdleAwake, CurrentRuns

(* Interrupts create, delete and enable nothing.                           *)
SameOtherwise(s, r) ==
    r.threads = s.threads /\ r.prio = s.prio /\ r.dispatchEnabled = s.dispatchEnabled

LEMMA SwitchedToIdleInStep ==
    ASSUME NEW s, InStep(s, {})
    PROVE  LET r == SwitchedToIdle(s) IN
           /\ InStep(r, {}) /\ CurrentRuns(r) /\ SameOtherwise(s, r)
           /\ \A c \in s.threads : Runs(s, c) => Runs(r, c) \/ First(r, c, s.prio[c])
<1>1. CASE s.current \in IdleThreads
  BY <1>1, CurrentIdle DEF SwitchedToIdle, SameOtherwise
<1>2. CASE s.current \notin IdleThreads
  <2>1. Idle0 \in s.threads /\ s.status[Idle0] = {"ready"}
    BY <1>2, OneStatus DEF InStep, IdleAwake, IdleThreads
  <2> DEFINE r == SwitchContext(s, Idle0)
  <2>2. InStep(r, {}) /\ CurrentRuns(r) /\ r.threads = s.threads /\ r.dispatchEnabled = s.dispatchEnabled
    BY <2>1, SwitchContextInStep
  <2>3. r.prio = s.prio /\ \A c \in s.threads : Runs(s, c) => First(r, c, s.prio[c])
    BY <2>1, SwitchContextRest
  <2>4. SwitchedToIdle(s) = r
    BY <1>2 DEF SwitchedToIdle
  <2> HIDE DEF r
  <2> QED
    BY <2>2, <2>3, <2>4 DEF SameOtherwise
<1> QED
  BY <1>1, <1>2

LEMMA SwitchedToInStep ==
    ASSUME NEW s, InStep(s, {}), NEW t
    PROVE  LET r == SwitchedTo(s, t) IN
           /\ InStep(r, {}) /\ (CurrentRuns(s) => CurrentRuns(r)) /\ SameOtherwise(s, r)
           /\ \A c \in s.threads : Runs(s, c) => Runs(r, c) \/ First(r, c, s.prio[c])
           /\ s.current \in IdleThreads /\ t # s.current /\ t \in s.threads /\ s.status[t] = {"ready"}
                => r.current = t /\ Runs(r, t)
<1>1. CASE s.current \in IdleThreads /\ t # s.current /\ t \in s.threads /\ s.status[t] \cap {"ready", "running"} # {}
  <2>1. s.status[t] = {"ready"}
    BY <1>1, OneStatus
  <2> DEFINE r == SwitchContext(s, t)
  <2>2. /\ InStep(r, {}) /\ CurrentRuns(r) /\ r.current = t
        /\ r.threads = s.threads /\ r.dispatchEnabled = s.dispatchEnabled
    BY <1>1, <2>1, SwitchContextInStep
  <2>3. r.prio = s.prio /\ r.status[t] = {"running"} /\ \A c \in s.threads : Runs(s, c) => First(r, c, s.prio[c])
    BY <1>1, <2>1, SwitchContextRest
  <2>4. SwitchedTo(s, t) = r
    BY <1>1 DEF SwitchedTo
  <2> HIDE DEF r
  <2> QED
    BY <2>2, <2>3, <2>4 DEF SameOtherwise, Runs, Has
<1>2. CASE ~(s.current \in IdleThreads /\ t # s.current /\ t \in s.threads /\ s.status[t] \cap {"ready", "running"} # {})
  BY <1>2 DEF SwitchedTo, SameOtherwise
<1> QED
  BY <1>1, <1>2

(* A thread that runs goes on, or is the next of its priority when the     *)
(* handler returns.                                                        *)
LEMMA RunOnePendingInStep ==
    ASSUME NEW s, InStep(s, {}), NEW n, NEW before, NEW o \in RunOnePending(s, n, before)
    PROVE  /\ InStep(o.sched, {}) /\ SameOtherwise(s, o.sched)
           /\ CurrentRuns(o.sched) \/ o.sched = s
           /\ \A c \in s.threads : Runs(s, c) =>
                \/ Runs(o.sched, c)
                \/ o.ran /\ o.sched.inInterrupt /\ First(o.sched, c, s.prio[c])
<1> DEFINE off == SwitchedToIdle(s)
           interrupted == IF s.current \in IdleThreads THEN before ELSE s.current
           back == IF s.current \in IdleThreads THEN s ELSE SwitchedTo(off, interrupted)
           in == [off EXCEPT !.inInterrupt = TRUE]
<1>1. /\ InStep(off, {}) /\ CurrentRuns(off) /\ SameOtherwise(s, off)
      /\ \A c \in s.threads : Runs(s, c) => Runs(off, c) \/ First(off, c, s.prio[c])
  BY SwitchedToIdleInStep
<1>2. \/ o = Outcome(s, n, before, FALSE)
      \/ \E k \in 0 .. n - 1 : o = Outcome(in, n - k, interrupted, TRUE)
      \/ o = Outcome(back, 0, interrupted, FALSE)
  BY DEF RunOnePending
<1>3. /\ InStep(back, {}) /\ CurrentRuns(back) /\ SameOtherwise(s, back)
      /\ \A c \in s.threads : Runs(s, c) => Runs(back, c)
  <2>1. CASE s.current \in IdleThreads
    BY <2>1, CurrentIdle DEF SameOtherwise
  <2>2. CASE s.current \notin IdleThreads
    <3> DEFINE c == s.current
    <3>1. back = SwitchedTo(off, c) /\ off = SwitchContext(s, Idle0)
      BY <2>2 DEF SwitchedToIdle
    <3>2. Idle0 \in s.threads /\ s.status[Idle0] = {"ready"} /\ c # Idle0
      BY <2>2, OneStatus DEF InStep, IdleAwake, IdleThreads
    <3>3. off.current = Idle0 /\ (c \in s.threads /\ Runs(s, c) => off.status[c] = {"ready"})
      BY <3>1, <3>2, SwitchContextInStep, SwitchContextRest
    <3> HIDE DEF off, back
    <3>4. /\ InStep(back, {}) /\ CurrentRuns(back) /\ SameOtherwise(off, back)
          /\ c \in s.threads /\ Runs(s, c) => Runs(back, c)
      BY <1>1, <3>1, <3>2, <3>3, SwitchedToInStep DEF SameOtherwise, IdleThreads
    <3> QED
      BY <1>1, <3>4 DEF SameOtherwise, Runs
  <2> QED
    BY <2>1, <2>2
<1> HIDE DEF off, interrupted
<1>4. /\ InStep(in, {}) /\ CurrentRuns(in) /\ in.inInterrupt
      /\ in.threads = off.threads /\ in.prio = off.prio /\ in.dispatchEnabled = off.dispatchEnabled
      /\ in.current = off.current /\ in.status = off.status /\ in.ready = off.ready
  BY <1>1, FlagsInStep DEF InStep, Schedulers
<1> HIDE DEF back, in
<1>5. /\ SameOtherwise(s, in)
      /\ \A c \in s.threads : Runs(s, c) => Runs(in, c) \/ First(in, c, s.prio[c])
  BY <1>1, <1>4 DEF SameOtherwise, Runs, Has, First
<1> QED
  BY <1>2, <1>3, <1>4, <1>5 DEF Outcome, SameOtherwise

LEMMA CpuIntrContinues ==
    ASSUME ThreadInv, CpuSuspendIntr \/ CpuResumeIntr
    PROVE  Continues
<1>1. InStep(sched, {}) /\ CurrentRuns(sched)
  BY CallFacts DEF CpuSuspendIntr, CpuResumeIntr, Calling
<1>2. PICK enabled \in BOOLEAN : sched' = [sched EXCEPT !.interruptsEnabled = enabled]
  BY DEF CpuSuspendIntr, CpuResumeIntr
<1> QED
  BY <1>1, <1>2, FlagsInStep DEF Continues

LEMMA FinishContinues ==
    ASSUME ThreadInv, FinishAndRunInterrupts
    PROVE  Continues
<1>1. PICK o \in RunOnePending(sched, pendingInterrupts, threadBeforeInterrupt) :
        \E s \in ReScheduled(o.sched) : Left([o EXCEPT !.sched = s])
  BY DEF FinishAndRunInterrupts
<1>2. PICK s \in ReScheduled(o.sched) : Left([o EXCEPT !.sched = s])
  BY <1>1
<1>3. sched' = s
  BY <1>2, OutcomeRecord DEF Left
<1>4. InStep(o.sched, {}) /\ (CurrentRuns(o.sched) \/ o.sched = sched)
  BY RunOnePendingInStep DEF ThreadInv
<1>5. CurrentRuns(o.sched) \/ CanSwitch(o.sched)
  BY <1>4 DEF ThreadInv, SomeoneRuns
<1> QED
  BY <1>3, <1>4, <1>5, ReScheduledInStep DEF Continues

LEMMA OutcomeContinues ==
    ASSUME ThreadInv, NEW n, NEW before, NEW o \in RunOnePending(sched, n, before),
           sched' = o.sched, UNCHANGED resched
    PROVE  Continues
<1>1. InStep(o.sched, {}) /\ (CurrentRuns(o.sched) \/ o.sched = sched)
  BY RunOnePendingInStep DEF ThreadInv
<1> QED
  BY <1>1 DEF ThreadInv, SomeoneRuns, Continues

LEMMA TriggerContinues ==
    ASSUME ThreadInv, TriggerInterrupt
    PROVE  Continues
BY OutcomeContinues DEF TriggerInterrupt, Left

LEMMA VblankContinues ==
    ASSUME ThreadInv, NEW handlers \in 0 .. 1, TriggerVblank(handlers)
    PROVE  Continues
<1>1. CASE sched.inInterrupt
  BY <1>1 DEF TriggerVblank, ThreadInv, SomeoneRuns, Continues
<1>2. CASE ~sched.inInterrupt
  <2>1. PICK o \in RunOnePending(sched, pendingInterrupts + handlers, threadBeforeInterrupt) :
            IF o.ran \/ ~IsDispatchEnabled(o.sched) \/ o.sched.current \in IdleThreads
            THEN Left(o)
            ELSE Left([o EXCEPT !.sched = SwitchedToIdle(@), !.before = o.sched.current])
    BY <1>2 DEF TriggerVblank
  <2>2. CASE Left(o)
    BY <2>2, OutcomeContinues DEF Left, TriggerVblank
  <2>3. CASE Left([o EXCEPT !.sched = SwitchedToIdle(@), !.before = o.sched.current])
    <3>1. PICK a, b, c, d : o = Outcome(a, b, c, d)
      BY DEF RunOnePending
    <3>2. sched' = SwitchedToIdle(o.sched)
      BY <2>3, <3>1 DEF Left, Outcome
    <3>3. InStep(o.sched, {})
      BY RunOnePendingInStep DEF ThreadInv
    <3> QED
      BY <3>2, <3>3, SwitchedToIdleInStep DEF Continues
  <2> QED
    BY <2>1, <2>2, <2>3
<1> QED
  BY <1>1, <1>2

LEMMA ReturnContinues ==
    ASSUME ThreadInv, ReturnFromInterrupt
    PROVE  Continues
<1> DEFINE s == [sched EXCEPT !.inInterrupt = FALSE]
<1>1. InStep(sched, {}) /\ CurrentRuns(sched)
  BY CallFacts DEF ReturnFromInterrupt
<1>2. InStep(s, {}) /\ CurrentRuns(s)
  BY <1>1, FlagsInStep
<1>3. PICK o \in RunOnePending(s, pendingInterrupts - 1, threadBeforeInterrupt) :
        \/ o.ran /\ Left(o)
        \/ /\ ~o.ran /\ IsDispatchEnabled(o.sched)
           /\ \E s2 \in ReScheduled(o.sched) : Left([o EXCEPT !.sched = s2])
        \/ /\ ~o.ran /\ ~IsDispatchEnabled(o.sched)
           /\ Left([o EXCEPT !.sched = SwitchedTo(@, o.before)])
  BY DEF ReturnFromInterrupt
<1> HIDE DEF s
<1>4. InStep(o.sched, {}) /\ CurrentRuns(o.sched)
  BY <1>2, RunOnePendingInStep
<1>5. CASE Left(o)
  BY <1>4, <1>5 DEF Left, Continues
<1>6. ASSUME NEW s2 \in ReScheduled(o.sched), Left([o EXCEPT !.sched = s2])
      PROVE  Continues
  <2>1. sched' = s2
    BY <1>6, OutcomeRecord DEF Left
  <2> QED
    BY <1>4, <2>1, ReScheduledInStep DEF Continues
<1>7. CASE Left([o EXCEPT !.sched = SwitchedTo(@, o.before)])
  <2>1. PICK a, b, c, d : o = Outcome(a, b, c, d)
    BY DEF RunOnePending
  <2>2. sched' = SwitchedTo(o.sched, o.before)
    BY <1>7, <2>1 DEF Left, Outcome
  <2> QED
    BY <1>4, <2>2, SwitchedToInStep DEF Continues
<1> QED
  BY <1>3, <1>5, <1>6, <1>7

LEMMA InterruptStepInv ==
    ASSUME ThreadInv, ~CarelessGuest, [InterruptNext]_allVars
    PROVE  ThreadInv'
<1> DEFINE interrupt == \/ CpuSuspendIntr \/ CpuResumeIntr \/ FinishAndRunInterrupts \/ TriggerInterrupt
                        \/ \E handlers \in 0 .. 1 : TriggerVblank(handlers)
                        \/ ReturnFromInterrupt
<1>1. CASE UNCHANGED allVars
  BY <1>1 DEF allVars, vars, timers, ThreadInv, SomeoneRuns, Counted, ListedOnce
<1>2. CASE ThreadStep
  BY <1>2, ThreadStepInv DEF ThreadStep, ThreadSyscall, OwnCall, ThreadNext
<1>3. CASE interrupt
  <2>1. Continues
    BY <1>3, CpuIntrContinues, FinishContinues, TriggerContinues, VblankContinues, ReturnContinues
  <2>2. UNCHANGED threadVars /\ resched' \in {resched, TRUE, FALSE}
    BY <1>3 DEF CpuSuspendIntr, CpuResumeIntr, FinishAndRunInterrupts, TriggerInterrupt, TriggerVblank,
        ReturnFromInterrupt, Reschedule
  <2>3. Counted' /\ ListedOnce' /\ resched' \in BOOLEAN
    BY <2>2 DEF threadVars, timers, ThreadInv, Counted, ListedOnce
  <2> QED
    BY <2>1, <2>3 DEF Continues, ThreadInv, SomeoneRuns
<1> QED
  BY <1>1, <1>2, <1>3 DEF InterruptNext

LEMMA InterruptSpecInv ==
    ASSUME ~CarelessGuest
    PROVE  InterruptSpec => []ThreadInv
<1>1. InterruptInit => ThreadInv
  BY InitialInv DEF InterruptInit
<1>2. ThreadInv /\ [InterruptNext]_allVars => ThreadInv'
  BY InterruptStepInv
<1> QED
  BY <1>1, <1>2, PTL DEF InterruptSpec

(* A ready thread is in the queue of its current priority, so that the     *)
(* scheduler finds it: whatever the threads and interrupt handlers do to   *)
(* it, and whenever the clock's events and interrupts come.                *)
THEOREM NoReadyThreadLostTheorem ==
    ASSUME ~CarelessGuest
    PROVE  InterruptSpec => []NoReadyThreadLost
BY InterruptSpecInv, InvImpliesNoReadyThreadLost, PTL

(* No thread but the current one runs, and when a system call has finished *)
(* the current one is not one that waits, is suspended or has ended.       *)
THEOREM OneRunnerTheorem ==
    ASSUME ~CarelessGuest
    PROVE  InterruptSpec => []OneRunner
BY InterruptSpecInv, InvImpliesOneRunner, PTL

----------------------------------------------------------------------------
(* Which thread runs.  Only the end of a system call answers a request to  *)
(* reschedule.                                                             *)
LEMMA OnlyFinishAnswers ==
    ASSUME [InterruptNext]_allVars, resched, ~resched'
    PROVE  FinishSyscall \/ FinishAndRunInterrupts
<1>1. ASSUME NEW t \in Threads, ThreadCall(t) PROVE FALSE
  BY <1>1 DEF ThreadCall, CreateThread, StartThread, TerminateThread, TerminateDeleteThread, DeleteThread,
     WakeupThread, CancelWakeupThread, ReleaseWaitThread, SuspendThread, ResumeThread, WaitThreadEnd,
     ChangeThreadPriority, OnThread, Calling, MayWait
<1>2. CASE ThreadSyscall
  BY <1>1, <1>2 DEF ThreadSyscall, ExitThread, ExitDeleteThread, DelayThread, SleepThread,
     SuspendDispatchThread, ResumeDispatchThread, RotateThreadReadyQueue, OnThread, Calling, MayWait
<1>3. CASE ThreadStep
  BY <1>2, <1>3 DEF ThreadStep, Event, ScheduledWakeup, ThreadEndTimeout, Idle
<1>4. CASE UNCHANGED allVars
  BY <1>4 DEF allVars, vars
<1> QED
  BY <1>3, <1>4 DEF InterruptNext, CpuSuspendIntr, CpuResumeIntr, TriggerInterrupt, TriggerVblank,
     ReturnFromInterrupt, Calling

BestRuns ==
    /\ Has(sched', current', "running")
    /\ \A t \in sched.threads : Has(sched', t, "ready") => sched'.prio[t] >= sched'.prio[current']

LEMMA FinishLeavesBest ==
    ASSUME ThreadInv, FinishSyscall \/ FinishAndRunInterrupts, CanSwitch(sched')
    PROVE  BestRuns
<1>1. CASE FinishSyscall
  <2>1. InStep(sched, {}) /\ sched' \in ReScheduled(sched)
    BY <1>1 DEF FinishSyscall, ThreadInv
  <2>2. CanSwitch(sched)
    BY <2>1, ReScheduledInStep DEF CanSwitch, IsDispatchEnabled
  <2> QED
    BY <2>1, <2>2, ReScheduledBest DEF BestRuns, current
<1>2. CASE FinishAndRunInterrupts
  <2>1. PICK o \in RunOnePending(sched, pendingInterrupts, threadBeforeInterrupt) :
            \E s \in ReScheduled(o.sched) : Left([o EXCEPT !.sched = s])
    BY <1>2 DEF FinishAndRunInterrupts
  <2>2. PICK s \in ReScheduled(o.sched) : Left([o EXCEPT !.sched = s])
    BY <2>1
  <2>3. sched' = s
    BY <2>2, OutcomeRecord DEF Left
  <2>4. InStep(o.sched, {}) /\ o.sched.threads = sched.threads
    BY RunOnePendingInStep DEF ThreadInv, SameOtherwise
  <2>5. CanSwitch(o.sched)
    BY <2>3, <2>4, ReScheduledInStep DEF CanSwitch, IsDispatchEnabled
  <2> QED
    BY <2>3, <2>4, <2>5, ReScheduledBest DEF BestRuns, current
<1> QED
  BY <1>1, <1>2

(* When a system call that asked for it is finished, the scheduler leaves  *)
(* the CPU to a thread that runs, and none that is ready is better.        *)
THEOREM PicksBestTheorem ==
    ASSUME ~CarelessGuest
    PROVE  InterruptSpec => PicksBest
<1> DEFINE best == resched /\ ~resched' /\ CanSwitch(sched') => BestRuns
<1>1. ThreadInv /\ [InterruptNext]_allVars => best
  BY OnlyFinishAnswers, FinishLeavesBest
<1>2. best => [resched /\ ~resched' /\ CanSwitch(sched') =>
        /\ Has(sched', current', "running")
        /\ \A t \in sched.threads : Has(sched', t, "ready") => sched'.prio[t] >= sched'.prio[current']]_vars
  BY DEF BestRuns
<1> HIDE DEF best
<1> QED
  BY <1>1, <1>2, InterruptSpecInv, PTL DEF InterruptSpec, PicksBest

----------------------------------------------------------------------------
(* What happens to a thread that runs, in every step that may switch from  *)
(* it.                                                                     *)
Keeps(c) == sched'.current \in {c, NoThread} \/ First(sched', c, sched.prio[c])

LEMMA SchedulingFirst ==
    ASSUME ThreadInv, Event \/ Idle \/ FinishSyscall, NEW c \in sched.threads, Runs(sched, c)
    PROVE  Keeps(c)
<1>0. InStep(sched, {})
  BY DEF ThreadInv
<1>1. CASE Event
  <2>1. PICK t \in Threads : ScheduledWakeup(t) \/ ThreadEndTimeout(t)
    BY <1>1 DEF Event
  <2>2. sched' = sched \/ (t \in sched.threads /\ sched' \in ReScheduled(Resumed(sched, t)))
    BY <2>1 DEF ScheduledWakeup, ThreadEndTimeout, VerifyWait
  <2>3. CASE t \in sched.threads /\ sched' \in ReScheduled(Resumed(sched, t))
    <3> DEFINE u == Resumed(sched, t)
    <3>1. InStep(u, {}) /\ Untouched(sched, u, t) /\ (Runs(u, c) \/ First(u, c, sched.prio[c]))
      BY <1>0, <2>3, ResumedInStep, ResumedRest
    <3>2. sched' \in ReScheduled(u)
      BY <2>3
    <3> HIDE DEF u
    <3> QED
      BY <3>1, <3>2, ReScheduledFirst DEF Keeps, Untouched, Runs
  <2> QED
    BY <2>2, <2>3 DEF Keeps, Runs
<1>2. CASE Idle \/ FinishSyscall
  BY <1>0, <1>2, ReScheduledFirst DEF Idle, FinishSyscall, Keeps, Runs
<1> QED
  BY <1>1, <1>2

LEMMA CallFirst ==
    ASSUME HandlerContext, ThreadSyscall, NEW c, Runs(sched, c)
    PROVE  Keeps(c)
<1>1. sched'.current \in {sched.current, NoThread}
  BY ThreadCallKeeps, OwnCallKeeps DEF ThreadSyscall, SameContext
<1> QED
  BY <1>1 DEF Keeps, Runs

LEMMA InterruptFirst ==
    ASSUME ThreadInv, NEW c \in sched.threads, Runs(sched, c),
           \/ FinishAndRunInterrupts \/ TriggerInterrupt
           \/ \E handlers \in 0 .. 1 : TriggerVblank(handlers)
    PROVE  Keeps(c)
<1>0. InStep(sched, {})
  BY DEF ThreadInv
<1>1. ASSUME NEW n, NEW o \in RunOnePending(sched, n, threadBeforeInterrupt)
      PROVE  /\ InStep(o.sched, {}) /\ o.sched.threads = sched.threads /\ o.sched.prio = sched.prio
             /\ \/ Runs(o.sched, c)
                \/ o.ran /\ o.sched.inInterrupt /\ First(o.sched, c, sched.prio[c])
  BY <1>0, <1>1, RunOnePendingInStep DEF SameOtherwise
<1>2. CASE FinishAndRunInterrupts
  <2>1. PICK o \in RunOnePending(sched, pendingInterrupts, threadBeforeInterrupt) :
            \E s \in ReScheduled(o.sched) : Left([o EXCEPT !.sched = s])
    BY <1>2 DEF FinishAndRunInterrupts
  <2>2. PICK s \in ReScheduled(o.sched) : Left([o EXCEPT !.sched = s])
    BY <2>1
  <2>3. sched' = s
    BY <2>2, OutcomeRecord DEF Left
  <2>4. CASE Runs(o.sched, c)
    BY <1>1, <2>3, <2>4, ReScheduledFirst DEF Keeps, Runs
  <2>5. CASE o.sched.inInterrupt /\ First(o.sched, c, sched.prio[c])
    BY <2>3, <2>5 DEF ReScheduled, CanSwitch, Keeps
  <2> QED
    BY <1>1, <2>4, <2>5
<1>3. ASSUME NEW n, NEW o \in RunOnePending(sched, n, threadBeforeInterrupt), Left(o)
      PROVE  Keeps(c)
  BY <1>1, <1>3 DEF Left, Keeps, Runs
<1>4. CASE TriggerInterrupt
  BY <1>3, <1>4 DEF TriggerInterrupt
<1>5. ASSUME NEW handlers \in 0 .. 1, TriggerVblank(handlers)
      PROVE  Keeps(c)
  <2>1. CASE sched.inInterrupt
    BY <1>5, <2>1 DEF TriggerVblank, Keeps, Runs
  <2>2. CASE ~sched.inInterrupt
    <3>1. PICK o \in RunOnePending(sched, pendingInterrupts + handlers, threadBeforeInterrupt) :
              IF o.ran \/ ~IsDispatchEnabled(o.sched) \/ o.sched.current \in IdleThreads
              THEN Left(o)
              ELSE Left([o EXCEPT !.sched = SwitchedToIdle(@), !.before = o.sched.current])
      BY <1>5, <2>2 DEF TriggerVblank
    <3>2. CASE ~o.ran /\ Left([o EXCEPT !.sched = SwitchedToIdle(@), !.before = o.sched.current])
      <4>1. PICK a, b, d, e : o = Outcome(a, b, d, e)
        BY DEF RunOnePending
      <4>2. sched' = SwitchedToIdle(o.sched)
        BY <3>2, <4>1 DEF Left, Outcome
      <4>3. InStep(o.sched, {}) /\ o.sched.threads = sched.threads /\ o.sched.prio = sched.prio /\ Runs(o.sched, c)
        BY <1>1, <3>2
      <4> QED
        BY <4>2, <4>3, SwitchedToIdleInStep DEF Keeps, Runs
    <3> QED
      BY <1>3, <3>1, <3>2
  <2> QED
    BY <2>1, <2>2
<1> QED
  BY <1>2, <1>4, <1>5

LEMMA ReturnFirst ==
    ASSUME ThreadInv, NEW c \in sched.threads, Runs(sched, c), ReturnFromInterrupt
    PROVE  Keeps(c)
<1> DEFINE s == [sched EXCEPT !.inInterrupt = FALSE]
<1>1. InStep(s, {}) /\ s.threads = sched.threads /\ s.prio = sched.prio /\ Runs(s, c)
  BY FlagsInStep DEF ThreadInv, InStep, Schedulers, Runs, Has
<1>2. PICK o \in RunOnePending(s, pendingInterrupts - 1, threadBeforeInterrupt) :
        \/ o.ran /\ Left(o)
        \/ /\ ~o.ran /\ IsDispatchEnabled(o.sched)
           /\ \E s2 \in ReScheduled(o.sched) : Left([o EXCEPT !.sched = s2])
        \/ /\ ~o.ran /\ ~IsDispatchEnabled(o.sched)
           /\ Left([o EXCEPT !.sched = SwitchedTo(@, o.before)])
  BY DEF ReturnFromInterrupt
<1> HIDE DEF s
<1>3. /\ InStep(o.sched, {}) /\ o.sched.threads = sched.threads /\ o.sched.prio = sched.prio
      /\ Runs(o.sched, c) \/ (o.ran /\ First(o.sched, c, sched.prio[c]))
  BY <1>1, RunOnePendingInStep DEF SameOtherwise
<1>4. CASE o.ran /\ Left(o)
  BY <1>3, <1>4 DEF Left, Keeps, Runs
<1>5. ASSUME ~o.ran, NEW s2 \in ReScheduled(o.sched), Left([o EXCEPT !.sched = s2])
      PROVE  Keeps(c)
  <2>1. sched' = s2
    BY <1>5, OutcomeRecord DEF Left
  <2> QED
    BY <1>3, <1>5, <2>1, ReScheduledFirst DEF Keeps, Runs
<1>6. CASE ~o.ran /\ Left([o EXCEPT !.sched = SwitchedTo(@, o.before)])
  <2>1. PICK a, b, d, e : o = Outcome(a, b, d, e)
    BY DEF RunOnePending
  <2>2. sched' = SwitchedTo(o.sched, o.before)
    BY <1>6, <2>1 DEF Left, Outcome
  <2> QED
    BY <1>3, <1>6, <2>2, SwitchedToInStep DEF Keeps, Runs
<1> QED
  BY <1>2, <1>4, <1>5, <1>6

LEMMA StepFirst ==
    ASSUME ThreadInv, HandlerContext, [InterruptNext]_allVars, NEW c \in sched.threads, Runs(sched, c)
    PROVE  Keeps(c)
<1>1. CASE UNCHANGED allVars \/ CpuSuspendIntr \/ CpuResumeIntr
  <2>1. sched' = sched \/ \E enabled \in BOOLEAN : sched' = [sched EXCEPT !.interruptsEnabled = enabled]
    BY <1>1 DEF allVars, vars, CpuSuspendIntr, CpuResumeIntr
  <2>2. sched'.current = sched.current
    BY <2>1 DEF ThreadInv, InStep, Schedulers
  <2> QED
    BY <2>2 DEF Keeps, Runs
<1>2. CASE ThreadStep
  BY <1>2, CallFirst, SchedulingFirst DEF ThreadStep
<1> QED
  BY <1>1, <1>2, InterruptFirst, ReturnFirst DEF InterruptNext

(* A running thread that is switched off by the scheduler or an interrupt, *)
(* and does not yield, is the next of its priority.                        *)
THEOREM PreemptedGoesFirstTheorem ==
    ASSUME ~CarelessGuest
    PROVE  InterruptSpec => PreemptedGoesFirst
<1> DEFINE first == \A t \in sched.threads : Has(sched, t, "running") /\ current' \notin {t, NoThread} =>
                        Head(sched'.ready[sched.prio[t]]) = t
<1>1. ThreadInv /\ HandlerContext /\ [InterruptNext]_allVars => first
  <2> SUFFICES ASSUME ThreadInv, HandlerContext, [InterruptNext]_allVars,
                      NEW t \in sched.threads, Has(sched, t, "running"), current' \notin {t, NoThread}
               PROVE  Head(sched'.ready[sched.prio[t]]) = t
    OBVIOUS
  <2>1. Runs(sched, t)
    BY DEF ThreadInv, InStep, Listed, Runs
  <2> QED
    BY <2>1, StepFirst DEF Keeps, First, current
<1>2. first => [first]_vars
  OBVIOUS
<1>3. InterruptInit => HandlerContext
  BY InitialContext DEF InterruptInit, Init, HandlerContext, InitialSched
<1>4. HandlerContext /\ [InterruptNext]_allVars => HandlerContext'
  BY StepSwitches DEF Switched
<1> HIDE DEF first
<1>5. InterruptSpec => [][first]_vars
  BY <1>1, <1>2, <1>3, <1>4, InterruptSpecInv, PTL DEF InterruptSpec
<1> QED
  BY <1>5 DEF PreemptedGoesFirst, first

----------------------------------------------------------------------------
(* While dispatch is suspended: in an interrupt, the thread it switched    *)
(* off is ready and will be switched back to.                              *)
Interrupted(s, before) ==
    ~s.dispatchEnabled =>
        IF s.inInterrupt THEN before \in Threads /\ before \in s.threads /\ s.status[before] = {"ready"}
                         ELSE s.current \in Threads

SuspendedInv == ThreadInv /\ HandlerContext /\ Interrupted(sched, threadBeforeInterrupt)

(* No call enables less than before, or concerns another thread that is    *)
(* ready, when a handler makes it.                                         *)
LEMMA ThreadCallRest ==
    ASSUME ThreadInv, NEW t \in Threads, ThreadCall(t)
    PROVE  /\ sched'.dispatchEnabled \in {sched.dispatchEnabled, TRUE}
           /\ \A u \in sched.threads \ {t} : sched.inInterrupt /\ sched.status[u] = {"ready"} =>
                u \in sched'.threads /\ sched'.status[u] = {"ready"}
<1> DEFINE Goal == /\ sched'.dispatchEnabled \in {sched.dispatchEnabled, TRUE}
                   /\ \A u \in sched.threads \ {t} : sched.inInterrupt /\ sched.status[u] = {"ready"} =>
                        u \in sched'.threads /\ sched'.status[u] = {"ready"}
<1>0. /\ InStep(sched, {}) /\ sched \in Schedulers /\ t \in AllThreads /\ sched.threads \subseteq AllThreads
  BY Constants DEF ThreadInv, InStep, Schedulers
<1>1. ASSUME CreateThread(t)
      PROVE  Goal
  BY <1>0, <1>1 DEF CreateThread, OnThread, Schedulers
<1>2. ASSUME StartThread(t)
      PROVE  Goal
  <2> DEFINE reset == [sched EXCEPT
                          !.prio[t] = IF @ < sched.prio[current] THEN InitialPriority[t] ELSE @,
                          !.wait[t] = NotWaiting]
             better == reset.prio[t] < reset.prio[current]
             u == IF better THEN MadeReady(reset, current) ELSE reset
             v == [u EXCEPT !.dispatchEnabled = TRUE]
  <2>1. sched' = MadeReady(v, t) /\ ~sched.inInterrupt
    BY <1>2 DEF StartThread, OnThread
  <2>2. IsScheduler(sched)
    BY <1>0 DEF Schedulers, IsScheduler, Fields
  <2>3. SameContext(sched, reset)
    BY <2>2 DEF IsScheduler, SameContext, Fields
  <2> HIDE DEF reset, better
  <2>4. SameContext(sched, u)
    BY <2>3, MadeReadyContext DEF SameContext
  <2> HIDE DEF u
  <2>5. v.dispatchEnabled
    BY <2>4 DEF SameContext, IsScheduler, Fields
  <2> HIDE DEF v
  <2>6. MadeReady(v, t).dispatchEnabled = v.dispatchEnabled
    BY DEF MadeReady
  <2> QED
    BY <2>1, <2>5, <2>6
<1>3. ASSUME TerminateThread(t)
      PROVE  Goal
  <2> DEFINE a == Stopped(t)
  <2>1. /\ InStep(a, {}) /\ a.threads = sched.threads /\ a.dispatchEnabled = sched.dispatchEnabled
        /\ \A w \in AllThreads \ {t} : sched.status[w] = {"ready"} => a.status[w] = {"ready"}
    BY <1>3, StoppedInStep DEF TerminateThread, Other
  <2>2. sched' = [a EXCEPT !.prio[t] = InitialPriority[t]]
    BY <1>3 DEF TerminateThread
  <2> HIDE DEF a
  <2>3. sched'.threads = a.threads /\ sched'.status = a.status /\ sched'.dispatchEnabled = a.dispatchEnabled
    BY <2>1, <2>2 DEF InStep, Schedulers
  <2> QED
    BY <1>0, <2>1, <2>3
<1>4. ASSUME DeleteThread(t) \/ TerminateDeleteThread(t)
      PROVE  Goal
  <2>1. sched' = Deleted(t) /\ Exists(t)
    BY <1>4 DEF DeleteThread, TerminateDeleteThread, Other
  <2> QED
    BY <1>0, <2>1, DeletedInStep
<1>5. ASSUME NEW r, sched' = r, Untouched(sched, r, t)
      PROVE  Goal
  BY <1>0, <1>5 DEF Untouched
<1>6. ASSUME WakeupThread(t) \/ ReleaseWaitThread(t)
      PROVE  Goal
  <2>1. sched' \in {sched, Resumed(sched, t)} /\ t \in sched.threads
    BY <1>6 DEF WakeupThread, ReleaseWaitThread, Other, Exists
  <2>2. Untouched(sched, sched, t) /\ Untouched(sched, Resumed(sched, t), t)
    BY <1>0, <2>1, ResumedRest DEF Untouched
  <2> QED
    BY <1>5, <2>1, <2>2
<1>7. ASSUME CancelWakeupThread(t)
      PROVE  Goal
  BY <1>7 DEF CancelWakeupThread
<1>8. ASSUME SuspendThread(t)
      PROVE  Goal
  <2> DEFINE u == MadeUnready(sched, t)
             r == [u EXCEPT !.status[t] = (@ \ {"ready"}) \cup {"suspend"}]
  <2>1. Untouched(sched, u, t) /\ u \in Schedulers
    BY <1>0, MadeUnreadyAlone
  <2>2. sched' = r
    BY <1>8 DEF SuspendThread
  <2> HIDE DEF u
  <2>3. Untouched(sched, r, t)
    BY <2>1 DEF Untouched, Schedulers
  <2> QED
    BY <1>5, <2>2, <2>3
<1>9. ASSUME ResumeThread(t)
      PROVE  Goal
  <2> DEFINE u == [sched EXCEPT !.status[t] = @ \ {"suspend"}]
  <2>1. sched' \in {u, MadeReady(u, t)}
    BY <1>9 DEF ResumeThread
  <2>2. Untouched(sched, u, t) /\ u \in Schedulers
    BY <1>0 DEF Untouched, Schedulers
  <2> HIDE DEF u
  <2>3. Untouched(sched, MadeReady(u, t), t)
    BY <1>0, <2>2, MadeReadyUntouched DEF Untouched
  <2> QED
    BY <1>5, <2>1, <2>2, <2>3
<1>10. ASSUME NEW timed \in BOOLEAN, WaitThreadEnd(t, timed)
       PROVE  Goal
  <2>1. /\ sched' = WaitingCurThread(sched, WaitingFor("threadend", t, timed))
        /\ current \in Threads /\ current \in sched.threads /\ ~sched.inInterrupt
        /\ WaitingFor("threadend", t, timed) \in Waits
    BY <1>0, <1>10, CallFacts, Constants DEF WaitThreadEnd, MayWait, OnThread, WaitingFor, Waits, WaitTypes
  <2> QED
    BY <1>0, <2>1, WaitingInStep DEF current
<1>11. ASSUME NEW p \in 0 .. UserPriorities - 1, ChangeThreadPriority(t, p)
       PROVE  Goal
  <2>1. PICK q : \/ sched' = UnrunWith(t, p, q)
                 \/ sched' = [UnrunWith(t, p, q) EXCEPT !.ready[p] = Append(@, t)]
    BY <1>11 DEF ChangeThreadPriority, UnrunWith
  <2> DEFINE v == UnrunWith(t, p, q)
  <2>2. /\ v.threads = sched.threads /\ v.dispatchEnabled = sched.dispatchEnabled
        /\ \A u \in AllThreads \ {t} : v.status[u] = sched.status[u]
    <3> DEFINE taken == [sched EXCEPT !.ready[sched.prio[t]] = q, !.prio[t] = p]
    <3>1. taken.threads = sched.threads /\ taken.dispatchEnabled = sched.dispatchEnabled /\ taken.status = sched.status
      OBVIOUS
    <3>2. v = [taken EXCEPT !.status[t] = IF "running" \in @ THEN (@ \ {"running"}) \cup {"ready"} ELSE @]
      BY DEF UnrunWith
    <3>3. sched.status \in [AllThreads -> SUBSET Flags]
      BY <1>0 DEF Schedulers
    <3> HIDE DEF taken, v
    <3>4. /\ v.threads = taken.threads /\ v.dispatchEnabled = taken.dispatchEnabled
          /\ \A u \in AllThreads \ {t} : v.status[u] = taken.status[u]
      BY <3>1, <3>2, <3>3
    <3> QED
      BY <3>1, <3>4
  <2>4. sched' = v \/ sched' = [v EXCEPT !.ready[p] = Append(@, t)]
    BY <2>1
  <2> HIDE DEF v
  <2>3. /\ sched'.threads = v.threads /\ sched'.dispatchEnabled = v.dispatchEnabled
        /\ sched'.status = v.status
    <3> DEFINE r == [v EXCEPT !.ready[p] = Append(@, t)]
    <3>1. r.threads = v.threads /\ r.dispatchEnabled = v.dispatchEnabled /\ r.status = v.status
      OBVIOUS
    <3> HIDE DEF r
    <3> QED
      BY <2>4, <3>1 DEF r
  <2> QED
    BY <1>0, <2>2, <2>3
<1> QED
  BY <1>1, <1>2, <1>3, <1>4, <1>6, <1>7, <1>8, <1>9, <1>10, <1>11 DEF ThreadCall

LEMMA ThreadCallInterrupted ==
    ASSUME SuspendedInv, ~CarelessHandler, NEW t \in Threads, Spares(t), ThreadCall(t),
           threadBeforeInterrupt' = threadBeforeInterrupt
    PROVE  Interrupted(sched', threadBeforeInterrupt')
<1>1. SameContext(sched, sched')
  BY ThreadCallKeeps DEF SuspendedInv
<1>2. ThreadInv
  BY DEF SuspendedInv
<1>3. SUFFICES ASSUME ~sched'.dispatchEnabled
               PROVE  Interrupted(sched', threadBeforeInterrupt')
  BY DEF Interrupted
<1>4. ~sched.dispatchEnabled
  BY <1>2, <1>3, ThreadCallRest
<1>5. CASE sched.inInterrupt
  <2> DEFINE b == threadBeforeInterrupt
  <2>1. b \in Threads /\ b \in sched.threads /\ sched.status[b] = {"ready"} /\ b # t
    BY <1>4, <1>5 DEF SuspendedInv, Interrupted, Spares
  <2>2. b \in sched'.threads /\ sched'.status[b] = {"ready"}
    BY <1>2, <1>5, <2>1, ThreadCallRest
  <2> QED
    BY <1>1, <1>5, <2>1, <2>2 DEF SameContext, Interrupted
<1>6. CASE ~sched.inInterrupt
  BY <1>1, <1>4, <1>6 DEF SuspendedInv, SameContext, Interrupted
<1> QED
  BY <1>5, <1>6

LEMMA OwnCallInterrupted ==
    ASSUME SuspendedInv, ~CarelessGuest, OwnCall, threadBeforeInterrupt' = threadBeforeInterrupt
    PROVE  Interrupted(sched', threadBeforeInterrupt')
<1>0. InStep(sched, {}) /\ sched \in Schedulers /\ Interrupted(sched, threadBeforeInterrupt)
      /\ (sched.inInterrupt => current \in IdleThreads)
  BY DEF SuspendedInv, ThreadInv, InStep, HandlerContext
<1>1. CASE ExitThread \/ ExitDeleteThread
  <2>1. sched.dispatchEnabled /\ current \in Threads /\ Exists(current) /\ ThreadInv
    BY <1>1, CallFacts DEF ExitThread, ExitDeleteThread, Leaving, IsDispatchEnabled, OnThread, SuspendedInv, Exists
  <2>2. sched'.dispatchEnabled = sched.dispatchEnabled
    BY <1>1, <2>1, StoppedInStep, DeletedInStep DEF ExitThread, ExitDeleteThread
  <2> QED
    BY <2>1, <2>2 DEF Interrupted
<1>2. CASE DelayThread \/ SleepThread
  <2>1. sched.dispatchEnabled /\ current \in Threads /\ current \in sched.threads
    BY <1>2, CallFacts DEF DelayThread, SleepThread, MayWait, IsDispatchEnabled, OnThread, SuspendedInv
  <2>2. WaitingFor("delay", current, TRUE) \in Waits /\ WaitingFor("sleep", NoThread, FALSE) \in Waits
    BY <2>1, Constants DEF WaitingFor, Waits, WaitTypes
  <2>3. sched' = sched \/ \E w \in Waits : sched' = WaitingCurThread(sched, w)
    BY <1>2, <2>2 DEF DelayThread, SleepThread
  <2>4. sched'.dispatchEnabled = sched.dispatchEnabled
    BY <1>0, <2>1, <2>3, WaitingInStep DEF current
  <2> QED
    BY <2>1, <2>4 DEF Interrupted
<1>3. CASE SuspendDispatchThread \/ \E enabled \in BOOLEAN : ResumeDispatchThread(enabled)
  <2>1. PICK enabled \in BOOLEAN : sched' = [sched EXCEPT !.dispatchEnabled = enabled]
    BY <1>3 DEF SuspendDispatchThread, ResumeDispatchThread
  <2>2. current \in Threads /\ ~sched.inInterrupt
    BY <1>3 DEF SuspendDispatchThread, ResumeDispatchThread, OnThread
  <2>3. sched'.current \in Threads /\ ~sched'.inInterrupt
    BY <1>0, <2>1, <2>2 DEF Schedulers, current
  <2> QED
    BY <2>3 DEF Interrupted
<1>4. ASSUME NEW p \in 0 .. UserPriorities - 1, RotateThreadReadyQueue(p)
      PROVE  Interrupted(sched', threadBeforeInterrupt')
  <2>1. /\ sched'.threads = sched.threads /\ sched'.current = sched.current
        /\ sched'.dispatchEnabled = sched.dispatchEnabled /\ sched'.inInterrupt = sched.inInterrupt
        /\ \A u \in AllThreads : u # current => sched'.status[u] = sched.status[u]
    <3>1. CASE UNCHANGED sched
      BY <3>1
    <3>2. CASE sched' = [sched EXCEPT !.ready[p] = Append(@, current),
                                      !.status[current] = (@ \ {"running"}) \cup {"ready"}]
      BY <1>0, <3>2 DEF Schedulers
    <3>3. CASE sched' = [sched EXCEPT !.ready[p] = Append(Tail(@), Head(@))]
      BY <1>0, <3>3 DEF Schedulers
    <3> QED
      BY <1>4, <3>1, <3>2, <3>3 DEF RotateThreadReadyQueue
  <2> QED
    BY <1>0, <2>1, Constants DEF Interrupted, current
<1> QED
  BY <1>1, <1>2, <1>3, <1>4 DEF OwnCall

(* Nothing is switched by the scheduler then.                              *)
LEMMA NotReScheduled ==
    ASSUME NEW s, ~s.dispatchEnabled, NEW r \in ReScheduled(s)
    PROVE  r = s
BY DEF ReScheduled, CanSwitch, IsDispatchEnabled

LEMMA SchedulingInterrupted ==
    ASSUME SuspendedInv, Event \/ Idle \/ FinishSyscall, threadBeforeInterrupt' = threadBeforeInterrupt
    PROVE  Interrupted(sched', threadBeforeInterrupt')
<1>0. InStep(sched, {}) /\ Interrupted(sched, threadBeforeInterrupt)
  BY DEF SuspendedInv, ThreadInv
<1>1. CASE Idle \/ FinishSyscall
  <2>1. sched' \in ReScheduled(sched)
    BY <1>1 DEF Idle, FinishSyscall
  <2>2. sched'.dispatchEnabled = sched.dispatchEnabled
    BY <1>0, <2>1, ReScheduledInStep
  <2>3. ~sched.dispatchEnabled => sched' = sched
    BY <2>1, NotReScheduled
  <2> QED
    BY <1>0, <2>2, <2>3 DEF Interrupted
<1>2. CASE Event
  <2>1. PICK t \in Threads : ScheduledWakeup(t) \/ ThreadEndTimeout(t)
    BY <1>2 DEF Event
  <2>2. sched' = sched \/ (t \in sched.threads /\ sched' \in ReScheduled(Resumed(sched, t)))
    BY <2>1 DEF ScheduledWakeup, ThreadEndTimeout, VerifyWait
  <2>3. CASE t \in sched.threads /\ sched' \in ReScheduled(Resumed(sched, t))
    <3> DEFINE u == Resumed(sched, t)
    <3>1. InStep(u, {}) /\ Untouched(sched, u, t) /\ (sched.status[t] = {"ready"} => u.status[t] = {"ready"})
      BY <1>0, <2>3, ResumedInStep, ResumedRest
    <3>2. sched' \in ReScheduled(u)
      BY <2>3
    <3> HIDE DEF u
    <3>3. Interrupted(u, threadBeforeInterrupt)
      BY <1>0, <3>1, Constants DEF Interrupted, Untouched
    <3>4. sched'.dispatchEnabled = u.dispatchEnabled
      BY <3>1, <3>2, ReScheduledInStep
    <3>5. ~u.dispatchEnabled => sched' = u
      BY <3>2, NotReScheduled
    <3> QED
      BY <3>3, <3>4, <3>5 DEF Interrupted
  <2> QED
    BY <1>0, <2>2, <2>3
<1> QED
  BY <1>1, <1>2


(* An interrupt notes the thread it switches off, which is ready then, or  *)
(* switches back to it.                                                    *)
LEMMA RunOnePendingInterrupted ==
    ASSUME NEW s, InStep(s, {}), NEW n, NEW before, Interrupted(s, before),
           CurrentRuns(s) \/ s.dispatchEnabled, NEW o \in RunOnePending(s, n, before)
    PROVE  Interrupted(o.sched, o.before)
<1> DEFINE c == s.current
           off == SwitchedToIdle(s)
           back == SwitchedTo(off, c)
           in == [off EXCEPT !.inInterrupt = TRUE]
<1>1. SUFFICES ASSUME ~o.sched.dispatchEnabled, ~s.inInterrupt, o # Outcome(s, n, before, FALSE)
               PROVE  Interrupted(o.sched, o.before)
  <2>1. s.inInterrupt => o = Outcome(s, n, before, FALSE)
    BY DEF RunOnePending
  <2> QED
    BY <2>1 DEF Interrupted, Outcome
<1>2. ~s.dispatchEnabled
  BY <1>1, RunOnePendingInStep DEF SameOtherwise
<1>3. /\ c \in Threads /\ c \in s.threads /\ c \notin IdleThreads /\ c # Idle0
      /\ Runs(s, c) \/ s.status[c] = {"ready"}
  BY <1>1, <1>2, Constants DEF Interrupted, CurrentRuns, InStep, Runs, Has, IdleThreads
<1>4. \/ \E k \in 0 .. n - 1 : o = Outcome(in, n - k, c, TRUE)
      \/ o = Outcome(back, 0, c, FALSE)
  BY <1>1, <1>3 DEF RunOnePending
<1>5. off = SwitchContext(s, Idle0) /\ Idle0 \in s.threads /\ s.status[Idle0] = {"ready"}
  BY <1>3, OneStatus DEF SwitchedToIdle, InStep, IdleAwake, IdleThreads
<1>6. /\ InStep(off, {}) /\ off.current = Idle0 /\ off.threads = s.threads /\ off.status[c] = {"ready"}
  BY <1>3, <1>5, SwitchContextInStep, SwitchContextRest
<1> HIDE DEF off
<1>7. back.current = c /\ (~back.inInterrupt \/ back.inInterrupt = off.inInterrupt)
  <2>1. back = SwitchContext(off, c)
    BY <1>3, <1>6 DEF SwitchedTo, IdleThreads
  <2> QED
    BY <1>3, <1>6, <2>1, SwitchContextInStep
<1>8. off.inInterrupt = s.inInterrupt
  BY <1>5, SwitchContextInStep
<1>9. in.inInterrupt /\ in.threads = s.threads /\ in.status = off.status
  BY <1>6 DEF InStep, Schedulers
<1> HIDE DEF back, in, c
<1>10. CASE \E k \in 0 .. n - 1 : o = Outcome(in, n - k, c, TRUE)
  BY <1>3, <1>6, <1>9, <1>10 DEF Interrupted, Outcome
<1>11. CASE o = Outcome(back, 0, c, FALSE)
  BY <1>1, <1>3, <1>7, <1>8, <1>11 DEF Interrupted, Outcome
<1> QED
  BY <1>4, <1>10, <1>11

LEMMA InterruptInterrupted ==
    ASSUME SuspendedInv,
           \/ FinishAndRunInterrupts \/ TriggerInterrupt
           \/ \E handlers \in 0 .. 1 : TriggerVblank(handlers)
    PROVE  Interrupted(sched', threadBeforeInterrupt')
<1>0. /\ InStep(sched, {}) /\ Interrupted(sched, threadBeforeInterrupt)
      /\ CurrentRuns(sched) \/ sched.dispatchEnabled
  BY DEF SuspendedInv, ThreadInv, SomeoneRuns, CanSwitch, IsDispatchEnabled
<1>1. CASE FinishAndRunInterrupts
  <2>1. PICK o \in RunOnePending(sched, pendingInterrupts, threadBeforeInterrupt) :
            \E s \in ReScheduled(o.sched) : Left([o EXCEPT !.sched = s])
    BY <1>1 DEF FinishAndRunInterrupts
  <2>2. PICK s \in ReScheduled(o.sched) : Left([o EXCEPT !.sched = s])
    BY <2>1
  <2>3. PICK a, b, d, e : o = Outcome(a, b, d, e)
    BY DEF RunOnePending
  <2>4. sched' = s /\ threadBeforeInterrupt' = o.before
    BY <2>2, <2>3 DEF Left, Outcome
  <2>5. InStep(o.sched, {}) /\ Interrupted(o.sched, o.before)
    BY <1>0, RunOnePendingInStep, RunOnePendingInterrupted
  <2>6. s.dispatchEnabled = o.sched.dispatchEnabled
    BY <2>5, ReScheduledInStep
  <2>7. ~o.sched.dispatchEnabled => s = o.sched
    BY NotReScheduled
  <2> QED
    BY <2>4, <2>5, <2>6, <2>7 DEF Interrupted
<1>2. ASSUME NEW n, NEW o \in RunOnePending(sched, n, threadBeforeInterrupt), Left(o)
      PROVE  Interrupted(sched', threadBeforeInterrupt')
  <2>1. Interrupted(o.sched, o.before)
    BY <1>0, <1>2, RunOnePendingInterrupted
  <2> QED
    BY <1>2, <2>1 DEF Left
<1>3. CASE TriggerInterrupt
  BY <1>2, <1>3 DEF TriggerInterrupt
<1>4. ASSUME NEW handlers \in 0 .. 1, TriggerVblank(handlers)
      PROVE  Interrupted(sched', threadBeforeInterrupt')
  <2>1. CASE sched.inInterrupt
    BY <1>0, <1>4, <2>1 DEF TriggerVblank
  <2>2. CASE ~sched.inInterrupt
    <3>1. PICK o \in RunOnePending(sched, pendingInterrupts + handlers, threadBeforeInterrupt) :
              IF o.ran \/ ~IsDispatchEnabled(o.sched) \/ o.sched.current \in IdleThreads
              THEN Left(o)
              ELSE Left([o EXCEPT !.sched = SwitchedToIdle(@), !.before = o.sched.current])
      BY <1>4, <2>2 DEF TriggerVblank
    <3>2. CASE IsDispatchEnabled(o.sched) /\ Left([o EXCEPT !.sched = SwitchedToIdle(@), !.before = o.sched.current])
      <4>1. PICK a, b, d, e : o = Outcome(a, b, d, e)
        BY DEF RunOnePending
      <4>2. sched' = SwitchedToIdle(o.sched)
        BY <3>2, <4>1 DEF Left, Outcome
      <4>3. InStep(o.sched, {})
        BY <1>0, RunOnePendingInStep
      <4>4. sched'.dispatchEnabled
        BY <3>2, <4>2, <4>3, SwitchedToIdleInStep DEF SameOtherwise, IsDispatchEnabled
      <4> QED
        BY <4>4 DEF Interrupted
    <3> QED
      BY <1>2, <3>1, <3>2
  <2> QED
    BY <2>1, <2>2
<1> QED
  BY <1>1, <1>3, <1>4

(* The return from the handler switches back, unless the next interrupt    *)
(* is run at once, on the same idle thread.                                *)
LEMMA ReturnInterrupted ==
    ASSUME SuspendedInv, ReturnFromInterrupt
    PROVE  Interrupted(sched', threadBeforeInterrupt')
<1> DEFINE s == [sched EXCEPT !.inInterrupt = FALSE]
           before == threadBeforeInterrupt
           in == [s EXCEPT !.inInterrupt = TRUE]
<1>0. /\ InStep(sched, {}) /\ sched \in Schedulers /\ sched.inInterrupt /\ sched.current \in IdleThreads
      /\ Interrupted(sched, before)
  BY DEF SuspendedInv, ThreadInv, InStep, HandlerContext, ReturnFromInterrupt, current
<1>1. /\ InStep(s, {}) /\ s.current \in IdleThreads /\ s.threads = sched.threads /\ s.status = sched.status
      /\ s.dispatchEnabled = sched.dispatchEnabled /\ ~s.inInterrupt
      /\ in.inInterrupt /\ in.threads = sched.threads /\ in.status = sched.status
      /\ in.dispatchEnabled = sched.dispatchEnabled
  BY <1>0, FlagsInStep DEF Schedulers
<1>2. PICK o \in RunOnePending(s, pendingInterrupts - 1, before) :
        \/ o.ran /\ Left(o)
        \/ /\ ~o.ran /\ IsDispatchEnabled(o.sched)
           /\ \E s2 \in ReScheduled(o.sched) : Left([o EXCEPT !.sched = s2])
        \/ /\ ~o.ran /\ ~IsDispatchEnabled(o.sched)
           /\ Left([o EXCEPT !.sched = SwitchedTo(@, o.before)])
  BY DEF ReturnFromInterrupt
<1>3. /\ o.before = before
      /\ o.ran => o.sched = in
      /\ ~o.ran => o.sched = s
  <2> DEFINE n == pendingInterrupts - 1
  <2>1. \/ \E k \in 0 .. n - 1 : o = Outcome(in, n - k, before, TRUE)
        \/ o = Outcome(s, n, before, FALSE)
        \/ o = Outcome(s, 0, before, FALSE)
    BY <1>1 DEF RunOnePending, SwitchedToIdle
  <2> HIDE DEF s, in, before, n
  <2> QED
    BY <2>1 DEF Outcome
<1> HIDE DEF s, in
<1>4. CASE o.ran /\ Left(o)
  BY <1>0, <1>1, <1>3, <1>4 DEF Left, Interrupted
<1>5. ASSUME ~o.ran, IsDispatchEnabled(o.sched), NEW s2 \in ReScheduled(o.sched), Left([o EXCEPT !.sched = s2])
      PROVE  Interrupted(sched', threadBeforeInterrupt')
  <2>1. sched' = s2
    BY <1>5, OutcomeRecord DEF Left
  <2>2. sched'.dispatchEnabled
    BY <1>1, <1>3, <1>5, <2>1, ReScheduledInStep DEF IsDispatchEnabled
  <2> QED
    BY <2>2 DEF Interrupted
<1>6. CASE ~o.ran /\ Left([o EXCEPT !.sched = SwitchedTo(@, o.before)])
  <2>1. PICK a, b, d, e : o = Outcome(a, b, d, e)
    BY DEF RunOnePending
  <2> DEFINE r == SwitchedTo(s, before)
  <2>2. sched' = r
    BY <1>3, <1>6, <2>1 DEF Left, Outcome
  <2>3. SUFFICES ASSUME ~r.dispatchEnabled
                 PROVE  Interrupted(r, threadBeforeInterrupt')
    BY <2>2 DEF Interrupted
  <2>4. ~sched.dispatchEnabled
    BY <1>1, <2>3, SwitchedToInStep DEF SameOtherwise
  <2>5. before \in Threads /\ before \in s.threads /\ s.status[before] = {"ready"} /\ before # s.current
    BY <1>0, <1>1, <2>4, Constants DEF Interrupted
  <2>6. r.current = before
    BY <1>1, <2>5, SwitchedToInStep
  <2>7. r.inInterrupt = s.inInterrupt
    <3>1. s \in Schedulers
      BY <1>1 DEF InStep
    <3>2. IsScheduler(s)
      BY <3>1 DEF IsScheduler, Schedulers, Fields
    <3> QED
      BY <3>2, SwitchedToContext
  <2> QED
    BY <1>1, <2>5, <2>6, <2>7 DEF Interrupted
<1> QED
  BY <1>2, <1>4, <1>5, <1>6

LEMMA SuspendedStep ==
    ASSUME SuspendedInv, ~CarelessGuest, ~CarelessHandler, [InterruptNext]_allVars
    PROVE  SuspendedInv'
<1>1. ThreadInv' /\ HandlerContext'
  BY InterruptStepInv, StepSwitches DEF SuspendedInv, Switched
<1>2. CASE UNCHANGED allVars \/ CpuSuspendIntr \/ CpuResumeIntr
  <2>1. /\ sched' = sched \/ \E enabled \in BOOLEAN : sched' = [sched EXCEPT !.interruptsEnabled = enabled]
        /\ threadBeforeInterrupt' = threadBeforeInterrupt
    BY <1>2 DEF allVars, vars, interruptVars, CpuSuspendIntr, CpuResumeIntr
  <2>2. /\ sched'.dispatchEnabled = sched.dispatchEnabled /\ sched'.inInterrupt = sched.inInterrupt
        /\ sched'.current = sched.current /\ sched'.threads = sched.threads /\ sched'.status = sched.status
    BY <2>1 DEF SuspendedInv, ThreadInv, InStep, Schedulers
  <2> QED
    BY <1>1, <2>1, <2>2 DEF SuspendedInv, Interrupted
<1>3. CASE ThreadStep
  <2>1. threadBeforeInterrupt' = threadBeforeInterrupt
    BY <1>3 DEF ThreadStep, ThreadSyscall, interruptVars
  <2>2. \/ \E t \in Threads : Spares(t) /\ ThreadCall(t)
        \/ OwnCall
        \/ Event \/ Idle \/ FinishSyscall
    BY <1>3 DEF ThreadStep, ThreadSyscall, OwnCall
  <2> QED
    BY <1>1, <2>1, <2>2, ThreadCallInterrupted, OwnCallInterrupted, SchedulingInterrupted DEF SuspendedInv
<1> QED
  BY <1>1, <1>2, <1>3, InterruptInterrupted, ReturnInterrupted DEF InterruptNext, SuspendedInv

(* While dispatch is suspended the thread that suspended it is the one     *)
(* that runs, outside of interrupt handlers: however many interrupts come  *)
(* one on another, the last one switches back to it.                       *)
THEOREM SwitchesBackTheorem ==
    ASSUME ~CarelessGuest, ~CarelessHandler
    PROVE  InterruptSpec => []SwitchesBack
<1>1. InterruptInit => SuspendedInv
  BY InitialInv, InitialContext DEF InterruptInit, Init, InitialSched, HandlerContext, SuspendedInv, Interrupted
<1>2. SuspendedInv /\ [InterruptNext]_allVars => SuspendedInv'
  BY SuspendedStep
<1>3. SuspendedInv => SwitchesBack
  BY Constants DEF SuspendedInv, Interrupted, SwitchesBack, current
<1> QED
  BY <1>1, <1>2, <1>3, PTL DEF InterruptSpec

=============================================================================
