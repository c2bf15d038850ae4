------------------------- MODULE KernelThread_proofs -------------------------
(***************************************************************************)
(* Proof that the ready queues list exactly the threads that are ready,    *)
(* and that the CPU never executes a thread that waits, is suspended or    *)
(* has ended; that who waits for the end of a thread is on its list, so    *)
(* that the end of the thread finds it, that a suspended thread stays so   *)
(* until it is resumed or stopped, and that a thread that waits for a time *)
(* has an event that ends its wait: whatever the threads, priorities and   *)
(* bounds, for guests that give up the CPU only when they can lose it.     *)
(* The first part is about the operators of Scheduler.                     *)
(***************************************************************************)
EXTENDS KernelThread, Queues_proofs

LOCAL Seqs == INSTANCE SequencesExt

----------------------------------------------------------------------------
(* The invariant of the scheduler's state, while the threads of the set X  *)
(* are being moved: the ready queues list the other threads that are       *)
(* ready, each once; of them only the current one runs; the idle threads   *)
(* never wait.                                                             *)
Queued(s, X) ==
    \A p \in Priorities :
        /\ NoDup(s.ready[p])
        /\ \A t \in Entries(s.ready[p]) : t \in s.threads \ X /\ s.status[t] = {"ready"} /\ s.prio[t] = p

Listed(s, X) ==
    \A t \in s.threads \ X :
        /\ Has(s, t, "ready") => t \in Entries(s.ready[s.prio[t]])
        /\ Has(s, t, "running") => s.status[t] = {"running"} /\ t = s.current

IdleAwake(s, X) ==
    /\ IdleThreads \subseteq s.threads
    /\ \A t \in IdleThreads \ X : s.status[t] \in {{"ready"}, {"running"}}

InStep(s, X) ==
    /\ s \in Schedulers /\ s.current \in s.threads \cup {NoThread}
    /\ Queued(s, X) /\ Listed(s, X) /\ IdleAwake(s, X)

(* The current thread can be executed.                                     *)
CurrentRuns(s) == s.current # NoThread /\ s.status[s.current] \in {{"running"}, {"ready"}}

(* A thread that is moved can be changed, ...                              *)
LEMMA Reassigned ==
    ASSUME NEW s, NEW X, NEW t \in X, InStep(s, X),
           NEW r \in Schedulers, r.threads = s.threads, r.current = s.current, r.ready = s.ready,
           \A u \in AllThreads \ {t} : r.status[u] = s.status[u] /\ r.prio[u] = s.prio[u]
    PROVE  InStep(r, X)
<1>1. s.threads \subseteq AllThreads /\ IdleThreads \subseteq AllThreads
  BY DEF InStep, Schedulers, AllThreads
<1>2. \A u \in AllThreads \ X : r.status[u] = s.status[u] /\ r.prio[u] = s.prio[u]
  OBVIOUS
<1>3. Queued(r, X)
  BY <1>1, <1>2 DEF InStep, Queued
<1>4. Listed(r, X)
  BY <1>1, <1>2 DEF InStep, Listed, Has
<1>5. IdleAwake(r, X)
  BY <1>1, <1>2 DEF InStep, IdleAwake
<1> QED
  BY <1>3, <1>4, <1>5 DEF InStep

(* ... and is settled when it neither runs nor is ready.                   *)
LEMMA Settled ==
    ASSUME NEW s, NEW X, NEW t, t \notin IdleThreads, InStep(s, X \cup {t}),
           s.status[t] \cap {"ready", "running"} = {}
    PROVE  InStep(s, X)
BY DEF InStep, Queued, Listed, IdleAwake, Has

LEMMA Exempt ==
    ASSUME NEW s, NEW X, NEW t, InStep(s, X), ~Has(s, t, "ready")
    PROVE  InStep(s, X \cup {t})
BY DEF InStep, Queued, Listed, IdleAwake, Has

LEMMA Taken ==
    ASSUME NEW s, NEW X, NEW t \in AllThreads, InStep(s, X)
    PROVE  InStep([s EXCEPT !.ready[s.prio[t]] = Seqs!RemoveFirst(@, t)], X \cup {t})
<1> DEFINE r == [s EXCEPT !.ready[s.prio[t]] = Seqs!RemoveFirst(@, t)]
           p == s.prio[t]
           q == Seqs!RemoveFirst(s.ready[p], t)
<1>1. s \in Schedulers /\ p \in Priorities /\ s.ready \in [Priorities -> Seq(AllThreads)]
  BY DEF InStep, Schedulers
<1>2. s.ready[p] \in Seq(AllThreads) /\ NoDup(s.ready[p])
  BY <1>1 DEF InStep, Queued
<1>3. q \in Seq(AllThreads) /\ NoDup(q) /\ Entries(q) = Entries(s.ready[p]) \ {t}
  BY <1>2, RemoveFirstEntries
<1>4. r = [s EXCEPT !.ready[p] = q]
  OBVIOUS
<1> HIDE DEF p, q, r
<1>5. /\ r \in Schedulers /\ r.threads = s.threads /\ r.current = s.current
      /\ r.status = s.status /\ r.prio = s.prio
      /\ r.ready[p] = q /\ \A o \in Priorities \ {p} : r.ready[o] = s.ready[o]
  BY <1>1, <1>3, <1>4 DEF Schedulers
<1>6. \A u \in s.threads \ X : s.prio[u] \in Priorities
  BY DEF InStep, Schedulers
<1>7. Queued(r, X \cup {t})
  <2> SUFFICES ASSUME NEW o \in Priorities
               PROVE  /\ NoDup(r.ready[o])
                      /\ \A u \in Entries(r.ready[o]) :
                            u \in r.threads \ (X \cup {t}) /\ r.status[u] = {"ready"} /\ r.prio[u] = o
    BY DEF Queued
  <2>1. CASE o = p
    BY <1>3, <1>5, <2>1 DEF InStep, Queued
  <2>2. CASE o # p
    BY <1>5, <2>2 DEF InStep, Queued, p
  <2> QED
    BY <2>1, <2>2
<1>8. Listed(r, X \cup {t})
  BY <1>3, <1>5, <1>6 DEF InStep, Listed, Has
<1>9. IdleAwake(r, X \cup {t})
  BY <1>5 DEF InStep, IdleAwake
<1>10. InStep(r, X \cup {t})
  BY <1>5, <1>7, <1>8, <1>9 DEF InStep
<1> QED
  BY <1>10 DEF r

LEMMA MadeUnreadyInStep ==
    ASSUME NEW s, NEW X, NEW t \in AllThreads, InStep(s, X)
    PROVE  InStep(MadeUnready(s, t), X \cup {t})
BY Taken, Exempt DEF MadeUnready

(* A thread that is moved joins the queue of its priority, at either end.  *)
LEMMA Joined ==
    ASSUME NEW s, NEW X, NEW t, t \notin X, t \in s.threads, InStep(s, X \cup {t}),
           NEW q \in {Append(s.ready[s.prio[t]], t), <<t>> \o s.ready[s.prio[t]]}
    PROVE  InStep([s EXCEPT !.ready[s.prio[t]] = q, !.status[t] = {"ready"}], X)
<1> DEFINE r == [s EXCEPT !.ready[s.prio[t]] = q, !.status[t] = {"ready"}]
           p == s.prio[t]
<1>1. s \in Schedulers /\ p \in Priorities /\ t \in AllThreads /\ s.ready \in [Priorities -> Seq(AllThreads)]
  BY DEF InStep, Schedulers
<1>2. s.ready[p] \in Seq(AllThreads) /\ NoDup(s.ready[p]) /\ t \notin Entries(s.ready[p])
  BY <1>1 DEF InStep, Queued
<1>3. q \in Seq(AllThreads) /\ NoDup(q) /\ Entries(q) = Entries(s.ready[p]) \cup {t}
  <2>1. <<t>> \in Seq(AllThreads) /\ NoDup(<<t>>) /\ Entries(<<t>>) = {t}
    BY <1>1, SingleEntry
  <2>2. CASE q = <<t>> \o s.ready[p]
    <3> DEFINE a == <<t>>
               b == s.ready[p]
    <3>1. /\ a \in Seq(AllThreads) /\ NoDup(a) /\ Entries(a) = {t}
          /\ b \in Seq(AllThreads) /\ NoDup(b) /\ Entries(a) \cap Entries(b) = {}
      BY <1>2, <2>1
    <3> HIDE DEF a, b
    <3>2. a \o b \in Seq(AllThreads) /\ NoDup(a \o b) /\ Entries(a \o b) = {t} \cup Entries(b)
      BY <3>1, ConcatEntries
    <3> QED
      BY <2>2, <3>2 DEF a, b
  <2>3. CASE q = Append(s.ready[p], t)
    BY <1>1, <1>2, <2>3, AppendEntries
  <2> QED
    BY <2>2, <2>3
<1>4. r = [s EXCEPT !.ready[p] = q, !.status[t] = {"ready"}]
  OBVIOUS
<1> HIDE DEF p, r
<1>5. /\ r \in Schedulers /\ r.threads = s.threads /\ r.current = s.current /\ r.prio = s.prio
      /\ r.status[t] = {"ready"} /\ \A u \in AllThreads \ {t} : r.status[u] = s.status[u]
      /\ r.ready[p] = q /\ \A o \in Priorities \ {p} : r.ready[o] = s.ready[o]
  BY <1>1, <1>3, <1>4 DEF Schedulers, Flags
<1>6. s.threads \subseteq AllThreads /\ IdleThreads \subseteq AllThreads /\ \A u \in AllThreads : s.prio[u] \in Priorities
  BY DEF InStep, Schedulers, AllThreads
<1>7. Queued(r, X)
  <2> SUFFICES ASSUME NEW o \in Priorities
               PROVE  /\ NoDup(r.ready[o])
                      /\ \A u \in Entries(r.ready[o]) :
                            u \in r.threads \ X /\ r.status[u] = {"ready"} /\ r.prio[u] = o
    BY DEF Queued
  <2>1. \A u \in Entries(s.ready[o]) : u \in s.threads \ (X \cup {t}) /\ s.status[u] = {"ready"} /\ s.prio[u] = o
    BY DEF InStep, Queued
  <2>2. CASE o = p
    <3>1. \A u \in Entries(r.ready[o]) : u = t \/ u \in Entries(s.ready[o])
      BY <1>3, <1>5, <2>2
    <3> QED
      BY <1>3, <1>5, <1>6, <2>1, <2>2, <3>1 DEF p
  <2>3. CASE o # p
    BY <1>5, <1>6, <2>1, <2>3 DEF InStep, Queued
  <2> QED
    BY <2>2, <2>3
<1>8. Listed(r, X)
  <2> SUFFICES ASSUME NEW u \in s.threads \ X
               PROVE  /\ Has(r, u, "ready") => u \in Entries(r.ready[r.prio[u]])
                      /\ Has(r, u, "running") => r.status[u] = {"running"} /\ u = r.current
    BY <1>5 DEF Listed
  <2>1. CASE u = t
    BY <1>3, <1>5, <2>1 DEF Has, p
  <2>2. CASE u # t
    BY <1>3, <1>5, <1>6, <2>2 DEF InStep, Listed, Has
  <2> QED
    BY <2>1, <2>2
<1>9. IdleAwake(r, X)
  BY <1>5, <1>6 DEF InStep, IdleAwake
<1>10. InStep(r, X)
  BY <1>5, <1>7, <1>8, <1>9 DEF InStep
<1> QED
  BY <1>10 DEF r

LEMMA MadeReadyInStep ==
    ASSUME NEW s, NEW X, NEW t, t \notin X, t \in s.threads, InStep(s, X)
    PROVE  InStep(MadeReady(s, t), X)
<1>1. CASE Has(s, t, "ready")
  BY <1>1 DEF MadeReady
<1>2. CASE ~Has(s, t, "ready")
  <2>1. InStep(s, X \cup {t})
    BY <1>2, Exempt
  <2> QED
    BY <1>2, <2>1, Joined DEF MadeReady
<1> QED
  BY <1>1, <1>2

(* The other fields, and what is done to other threads than t.             *)
Untouched(s, r, t) ==
    /\ r.threads = s.threads /\ r.current = s.current /\ r.prio = s.prio
    /\ r.dispatchEnabled = s.dispatchEnabled /\ r.interruptsEnabled = s.interruptsEnabled
    /\ r.inInterrupt = s.inInterrupt
    /\ \A u \in AllThreads \ {t} : r.status[u] = s.status[u]

LEMMA MadeReadyUntouched ==
    ASSUME NEW s \in Schedulers, NEW t \in AllThreads
    PROVE  /\ Untouched(s, MadeReady(s, t), t)
           /\ MadeReady(s, t).status[t] = IF Has(s, t, "ready") THEN s.status[t] ELSE {"ready"}
           /\ MadeReady(s, t).wait = s.wait
BY DEF Schedulers, Untouched, MadeReady

LEMMA MadeUnreadyUntouched ==
    ASSUME NEW s \in Schedulers, NEW t \in AllThreads
    PROVE  /\ Untouched(s, MadeUnready(s, t), t)
           /\ MadeUnready(s, t).status = s.status
           /\ MadeUnready(s, t).wait = s.wait
BY DEF Schedulers, Untouched, MadeUnready

(* A thread that stops waiting is ready, unless it is suspended as well.   *)
LEMMA ResumedInStep ==
    ASSUME NEW s, InStep(s, {}), NEW t \in Threads, t \in s.threads
    PROVE  /\ InStep(Resumed(s, t), {})
           /\ Resumed(s, t).threads = s.threads /\ Resumed(s, t).current = s.current
           /\ CurrentRuns(s) => CurrentRuns(Resumed(s, t))
           /\ CanSwitch(s) => CanSwitch(Resumed(s, t))
<1> DEFINE w == [s EXCEPT !.status[t] = @ \ {"wait"}]
<1>0. s \in Schedulers /\ t \in AllThreads /\ t \notin IdleThreads
  BY SchedulerAssumption DEF InStep, AllThreads, IdleThreads
<1>1. /\ w \in Schedulers /\ Untouched(s, w, t) /\ w.ready = s.ready
      /\ w.status[t] = s.status[t] \ {"wait"}
  BY <1>0 DEF Schedulers, Untouched
<1>2. Resumed(s, t) \in {w, MadeReady(w, t)}
  BY DEF Resumed
<1> HIDE DEF w
<1>3. InStep(w, {})
  <2>1. CASE Has(s, t, "ready") \/ Has(s, t, "running")
    <3>1. s.status[t] = {"ready"} \/ s.status[t] = {"running"}
      BY <2>1 DEF InStep, Listed, Queued, Has, Schedulers
    <3>2. w.status = s.status
      <4>1. \A u \in AllThreads : w.status[u] = s.status[u]
        BY <1>1, <3>1 DEF Untouched
      <4> QED
        BY <1>0, <1>1, <4>1 DEF Schedulers
    <3> QED
      BY <1>1, <3>2 DEF InStep, Queued, Listed, IdleAwake, Has, Untouched
  <2>2. CASE ~Has(s, t, "ready") /\ ~Has(s, t, "running")
    <3>1. InStep(s, {t})
      BY <2>2, Exempt
    <3>2. InStep(w, {t})
      BY <1>1, <3>1, Reassigned DEF Untouched
    <3>3. w.status[t] \cap {"ready", "running"} = {}
      BY <1>1, <2>2 DEF Has
    <3> QED
      BY <1>0, <3>2, <3>3, Settled
  <2> QED
    BY <2>1, <2>2
<1>4. InStep(MadeReady(w, t), {})
  BY <1>1, <1>3, MadeReadyInStep DEF Untouched
<1>5. Untouched(s, MadeReady(w, t), t) /\ MadeReady(w, t).status[t] \in {w.status[t], {"ready"}}
  BY <1>0, <1>1, MadeReadyUntouched DEF Untouched
<1>6. ASSUME NEW r, Untouched(s, r, t), r.status[t] \in {w.status[t], {"ready"}}, CurrentRuns(s)
      PROVE  CurrentRuns(r)
  <2>1. s.current \in AllThreads
    BY <1>0, <1>6 DEF Schedulers, CurrentRuns
  <2>2. CASE s.current = t
    BY <1>1, <1>6, <2>2 DEF CurrentRuns, Untouched
  <2>3. CASE s.current # t
    BY <1>6, <2>1, <2>3 DEF CurrentRuns, Untouched
  <2> QED
    BY <2>2, <2>3
<1> QED
  BY <1>1, <1>2, <1>3, <1>4, <1>5, <1>6 DEF Untouched, CanSwitch, IsDispatchEnabled

(* Threads of a list that has each once all stop waiting.                  *)
LEMMA ResumedAllInStep ==
    ASSUME NEW s, InStep(s, {}), NEW q \in Seq(Threads), NoDup(q), Entries(q) \subseteq s.threads
    PROVE  LET r == ResumedAll(s, q) IN
           /\ InStep(r, {})
           /\ r.threads = s.threads /\ r.current = s.current /\ r.prio = s.prio /\ r.wait = s.wait
           /\ r.dispatchEnabled = s.dispatchEnabled /\ r.interruptsEnabled = s.interruptsEnabled
           /\ r.inInterrupt = s.inInterrupt
           /\ \A u \in AllThreads : s.status[u] \in {{"ready"}, {"running"}, {"dormant"}}
                => r.status[u] = s.status[u]
<1> DEFINE in == Entries(q)
           free == {t \in in : s.status[t] \ {"wait"} = {}}
           joining == [p \in Priorities |-> Selected(q, {t \in free : s.prio[t] = p})]
           status == [t \in AllThreads |->
                        IF t \in free THEN {"ready"}
                        ELSE IF t \in in THEN s.status[t] \ {"wait"} ELSE s.status[t]]
           ready == [p \in Priorities |-> s.ready[p] \o joining[p]]
           r == [s EXCEPT !.status = status, !.ready = ready]
<1>0. /\ s \in Schedulers /\ s.threads \subseteq AllThreads /\ \A t \in AllThreads : s.prio[t] \in Priorities
      /\ \A p \in Priorities : s.ready[p] \in Seq(AllThreads) /\ NoDup(s.ready[p])
  BY DEF InStep, Schedulers, Queued
<1>1. ResumedAll(s, q) = r
  <2>1. Seqs!ToSet(q) = in
    BY DEF Seqs!ToSet, Entries
  <2> QED
    BY <2>1 DEF ResumedAll
<1>2. in \subseteq Threads /\ Threads \subseteq AllThreads /\ \A t \in IdleThreads : t \notin in
  BY SchedulerAssumption DEF Entries, AllThreads, IdleThreads
<1>3. ASSUME NEW p \in Priorities
      PROVE  /\ joining[p] \in Seq(AllThreads) /\ NoDup(joining[p])
             /\ Entries(joining[p]) = {t \in free : s.prio[t] = p}
  <2> DEFINE S == {t \in free : s.prio[t] = p}
  <2>1. q \in Seq(AllThreads)
    BY <1>2
  <2>2. Selected(q, S) \in Seq(AllThreads) /\ NoDup(Selected(q, S)) /\ Entries(Selected(q, S)) = Entries(q) \cap S
    BY <2>1, SelectedEntries
  <2>3. joining[p] = Selected(q, S) /\ Entries(q) \cap S = S
    OBVIOUS
  <2> HIDE DEF S, joining
  <2>4. S = {t \in free : s.prio[t] = p}
    BY DEF S
  <2> QED
    BY <2>2, <2>3, <2>4
<1> HIDE DEF joining
<1>4. ASSUME NEW p \in Priorities
      PROVE  /\ ready[p] \in Seq(AllThreads) /\ NoDup(ready[p])
             /\ Entries(ready[p]) = Entries(s.ready[p]) \cup {t \in free : s.prio[t] = p}
  <2>1. Entries(s.ready[p]) \cap Entries(joining[p]) = {}
    <3>1. \A t \in Entries(s.ready[p]) : s.status[t] = {"ready"}
      BY DEF InStep, Queued
    <3>2. \A t \in Entries(joining[p]) : s.status[t] \ {"wait"} = {}
      BY <1>3
    <3> QED
      BY <3>1, <3>2
  <2>2. /\ s.ready[p] \o joining[p] \in Seq(AllThreads) /\ NoDup(s.ready[p] \o joining[p])
        /\ Entries(s.ready[p] \o joining[p]) = Entries(s.ready[p]) \cup Entries(joining[p])
    BY <1>0, <1>3, <2>1, ConcatEntries
  <2> QED
    BY <1>3, <2>2
<1>5. status \in [AllThreads -> SUBSET Flags]
  BY <1>0 DEF Schedulers, Flags
<1>6. ready \in [Priorities -> Seq(AllThreads)]
  <2>1. ready = [p \in Priorities |-> ready[p]]
    OBVIOUS
  <2> HIDE DEF ready
  <2> QED
    BY <1>4, <2>1
<1>7. \A t \in AllThreads :
        /\ t \in free => status[t] = {"ready"} /\ s.status[t] \ {"wait"} = {}
        /\ t \notin free /\ t \in in => status[t] = s.status[t] \ {"wait"} /\ status[t] # {}
        /\ t \notin in => status[t] = s.status[t]
  OBVIOUS
<1>8. free \subseteq in
  OBVIOUS
<1> HIDE DEF status, ready, free
<1>9. /\ r \in Schedulers /\ r.status = status /\ r.ready = ready /\ r.wait = s.wait
      /\ r.threads = s.threads /\ r.current = s.current /\ r.prio = s.prio
      /\ r.dispatchEnabled = s.dispatchEnabled /\ r.interruptsEnabled = s.interruptsEnabled
      /\ r.inInterrupt = s.inInterrupt
  BY <1>0, <1>5, <1>6 DEF Schedulers
<1> HIDE DEF r, in
<1>10. Queued(r, {})
  <2> SUFFICES ASSUME NEW p \in Priorities
               PROVE  /\ NoDup(ready[p])
                      /\ \A t \in Entries(ready[p]) : t \in s.threads /\ status[t] = {"ready"} /\ s.prio[t] = p
    BY <1>9 DEF Queued
  <2>1. ASSUME NEW t \in Entries(s.ready[p])
        PROVE  t \in s.threads /\ status[t] = {"ready"} /\ s.prio[t] = p
    <3>1. t \in s.threads /\ s.status[t] = {"ready"} /\ s.prio[t] = p
      BY DEF InStep, Queued
    <3> QED
      BY <1>0, <1>7, <3>1
  <2>2. ASSUME NEW t \in free, s.prio[t] = p
        PROVE  t \in s.threads /\ status[t] = {"ready"} /\ s.prio[t] = p
    BY <1>2, <1>7, <1>8, <2>2 DEF in
  <2> QED
    BY <1>4, <2>1, <2>2
<1>11. Listed(r, {})
  <2> SUFFICES ASSUME NEW t \in s.threads
               PROVE  /\ "ready" \in status[t] => t \in Entries(ready[s.prio[t]])
                      /\ "running" \in status[t] => status[t] = {"running"} /\ t = s.current
    BY <1>9 DEF Listed, Has
  <2>0. t \in AllThreads /\ s.prio[t] \in Priorities
    BY <1>0
  <2>1. CASE t \in free
    BY <1>4, <1>7, <2>0, <2>1
  <2>2. CASE t \notin free
    <3>1. /\ "ready" \in status[t] => "ready" \in s.status[t]
          /\ "running" \in status[t] => "running" \in s.status[t]
      BY <1>7, <2>0, <2>2
    <3>2. /\ "ready" \in s.status[t] => t \in Entries(s.ready[s.prio[t]])
          /\ "running" \in s.status[t] => s.status[t] = {"running"} /\ t = s.current
      BY DEF InStep, Listed, Has
    <3>3. s.status[t] = {"running"} => status[t] = {"running"}
      BY <1>7, <2>0, <2>2
    <3> QED
      BY <1>4, <2>0, <3>1, <3>2, <3>3
  <2> QED
    BY <2>1, <2>2
<1>12. IdleAwake(r, {})
  BY <1>2, <1>7, <1>9 DEF InStep, IdleAwake, AllThreads
<1>13. ASSUME NEW u \in AllThreads, s.status[u] \in {{"ready"}, {"running"}, {"dormant"}}
       PROVE  status[u] = s.status[u]
  BY <1>7, <1>13
<1>14. InStep(r, {})
  BY <1>9, <1>10, <1>11, <1>12 DEF InStep
<1> QED
  BY <1>1, <1>9, <1>13, <1>14

(* Another thread, which is ready, becomes the current one: the one that   *)
(* ran is ready then.                                                      *)
LEMMA SwitchContextInStep ==
    ASSUME NEW s, NEW t \in s.threads, NEW X, X \subseteq {t}, InStep(s, X), s.status[t] = {"ready"}
    PROVE  LET r == SwitchContext(s, t) IN
           /\ InStep(r, {}) /\ CurrentRuns(r) /\ r.current = t
           /\ r.threads = s.threads
           /\ r.dispatchEnabled = s.dispatchEnabled /\ r.interruptsEnabled = s.interruptsEnabled
           /\ r.inInterrupt = s.inInterrupt
<1> DEFINE a == SwitchedOff(s)
           b == MadeUnready(a, t)
           r == [b EXCEPT !.current = t, !.status[t] = (@ \cup {"running"}) \ {"ready"}, !.wait[t] = NotWaiting]
<1>0. /\ s \in Schedulers /\ t \in AllThreads /\ s.threads \subseteq AllThreads
      /\ NoThread \notin AllThreads /\ IdleThreads \subseteq AllThreads
  BY SchedulerAssumption DEF InStep, Schedulers, AllThreads, IdleThreads
<1>1. /\ InStep(a, X) /\ a.status[t] = {"ready"} /\ a.threads = s.threads
      /\ a.dispatchEnabled = s.dispatchEnabled /\ a.interruptsEnabled = s.interruptsEnabled
      /\ a.inInterrupt = s.inInterrupt
      /\ \A u \in s.threads : ~Has(a, u, "running")
  <2>1. \A u \in s.threads : Has(s, u, "running") => u = s.current /\ u # t /\ s.status[u] = {"running"}
    BY DEF InStep, Listed, Has
  <2>2. CASE s.current # NoThread /\ Has(s, s.current, "running")
    <3> DEFINE c == s.current
    <3>1. c \in s.threads /\ c # t /\ c \notin X /\ c \in AllThreads /\ s.status[c] = {"running"}
      BY <1>0, <2>1, <2>2 DEF InStep
    <3>2. a = MadeReady(s, c)
      BY <2>2 DEF SwitchedOff
    <3> HIDE DEF c, a
    <3>3. InStep(a, X)
      BY <3>1, <3>2, MadeReadyInStep
    <3>4. Untouched(s, a, c) /\ a.status[c] = {"ready"}
      BY <1>0, <3>1, <3>2, MadeReadyUntouched DEF Has
    <3> QED
      BY <1>0, <2>1, <3>1, <3>3, <3>4 DEF Untouched, Has, c
  <2>3. CASE ~(s.current # NoThread /\ Has(s, s.current, "running"))
    <3>1. a = s
      BY <2>3 DEF SwitchedOff
    <3>2. ASSUME NEW u \in s.threads PROVE ~Has(s, u, "running")
      BY <1>0, <2>1, <2>3
    <3> QED
      BY <3>1, <3>2
  <2> QED
    BY <2>2, <2>3
<1> HIDE DEF a
<1>2. /\ InStep(b, {t}) /\ b.status = a.status /\ Untouched(a, b, t)
  <2>1. X \cup {t} = {t} /\ a \in Schedulers
    BY <1>1 DEF InStep
  <2>2. InStep(b, X \cup {t})
    BY <1>0, <1>1, MadeUnreadyInStep
  <2> QED
    BY <1>0, <2>1, <2>2, MadeUnreadyUntouched
<1> HIDE DEF b
<1>3. b \in Schedulers
  BY <1>2 DEF InStep
<1>4. /\ r \in Schedulers /\ r.threads = s.threads /\ r.current = t
      /\ r.ready = b.ready /\ r.prio = b.prio
      /\ r.status[t] = {"running"} /\ \A u \in AllThreads \ {t} : r.status[u] = b.status[u]
      /\ r.dispatchEnabled = s.dispatchEnabled /\ r.interruptsEnabled = s.interruptsEnabled
      /\ r.inInterrupt = s.inInterrupt
  BY <1>0, <1>1, <1>2, <1>3 DEF Schedulers, Flags, Waits, NotWaiting, WaitingFor, WaitTypes, Untouched
<1>5. SwitchContext(s, t) = r
  BY DEF SwitchContext, a, b
<1> HIDE DEF r
<1>6. b.threads = s.threads
  BY <1>1, <1>2 DEF Untouched
<1>7. Queued(r, {})
  BY <1>0, <1>2, <1>4, <1>6 DEF InStep, Queued
<1>8. Listed(r, {})
  <2> SUFFICES ASSUME NEW u \in s.threads
               PROVE  /\ Has(r, u, "ready") => u \in Entries(r.ready[r.prio[u]])
                      /\ Has(r, u, "running") => r.status[u] = {"running"} /\ u = r.current
    BY <1>4 DEF Listed
  <2>1. CASE u = t
    BY <1>4, <2>1 DEF Has
  <2>2. CASE u # t
    BY <1>0, <1>1, <1>2, <1>4, <1>6, <2>2 DEF InStep, Listed, Has
  <2> QED
    BY <2>1, <2>2
<1>9. IdleAwake(r, {})
  BY <1>0, <1>2, <1>4, <1>6 DEF InStep, IdleAwake
<1>10. InStep(r, {})
  BY <1>4, <1>7, <1>8, <1>9 DEF InStep
<1>11. CurrentRuns(r)
  BY <1>0, <1>4 DEF CurrentRuns
<1> QED
  BY <1>4, <1>5, <1>10, <1>11

(* The thread that ran is the next of its priority then; otherwise nothing *)
(* comes in front of the queues, and no other thread is changed.           *)
First(s, t, p) == s.ready[p] # << >> /\ Head(s.ready[p]) = t
Runs(s, t) == t = s.current /\ Has(s, t, "running")

LEMMA SwitchedOffRest ==
    ASSUME NEW s, NEW X, InStep(s, X), NEW c, Runs(s, c), c \in s.threads \ X
    PROVE  LET a == SwitchedOff(s) IN
           /\ InStep(a, X)
           /\ Untouched(s, a, c) /\ a.status[c] = {"ready"}
           /\ First(a, c, s.prio[c])
           /\ \A p \in Priorities : p # s.prio[c] => a.ready[p] = s.ready[p]
<1> DEFINE a == SwitchedOff(s)
<1>1. s \in Schedulers /\ c \in AllThreads /\ c # NoThread /\ s.prio[c] \in Priorities
  BY SchedulerAssumption DEF InStep, Schedulers, AllThreads, IdleThreads
<1>2. s.status[c] = {"running"} /\ ~Has(s, c, "ready") /\ s.ready[s.prio[c]] \in Seq(AllThreads)
  BY <1>1 DEF InStep, Schedulers, Listed, Runs, Has
<1>3. a = MadeReady(s, c)
  BY <1>1 DEF SwitchedOff, Runs
<1>4. a = [s EXCEPT !.ready[s.prio[c]] = <<c>> \o @, !.status[c] = {"ready"}]
  BY <1>2, <1>3 DEF MadeReady, Has
<1>5. First(a, c, s.prio[c]) /\ \A p \in Priorities : p # s.prio[c] => a.ready[p] = s.ready[p]
  BY <1>1, <1>2, <1>4 DEF First, Schedulers
<1> QED
  BY <1>1, <1>2, <1>3, <1>5, MadeReadyInStep, MadeReadyUntouched

LEMMA MadeUnreadyFirst ==
    ASSUME NEW s, NEW X, InStep(s, X), NEW t \in AllThreads, NEW p \in Priorities,
           NEW c, c # t, First(s, c, p)
    PROVE  First(MadeUnready(s, t), c, p)
<1>1. /\ s \in Schedulers /\ s.ready[p] \in Seq(AllThreads) /\ NoDup(s.ready[p])
  BY DEF InStep, Schedulers, Queued
<1>2. MadeUnready(s, t).ready[p] \in {s.ready[p], Seqs!RemoveFirst(s.ready[p], t)}
  BY <1>1 DEF MadeUnready, Schedulers
<1> QED
  BY <1>1, <1>2, RemoveFirstHead DEF First

LEMMA SwitchContextRest ==
    ASSUME NEW s, NEW t \in s.threads, NEW X, X \subseteq {t}, InStep(s, X), s.status[t] = {"ready"}
    PROVE  LET r == SwitchContext(s, t) IN
           /\ r.prio = s.prio /\ r.status[t] = {"running"}
           /\ \A w \in s.threads \ {t} :
                r.status[w] = IF Runs(s, w) THEN {"ready"} ELSE s.status[w]
           /\ \A c \in s.threads : Runs(s, c) => First(r, c, s.prio[c])
           /\ ~Runs(s, s.current) => \A p \in Priorities, c \in AllThreads \ {t} : First(s, c, p) => First(r, c, p)
<1> DEFINE a == SwitchedOff(s)
           b == MadeUnready(a, t)
           r == SwitchContext(s, t)
           c == s.current
<1>0. s \in Schedulers /\ t \in AllThreads /\ s.threads \subseteq AllThreads /\ NoThread \notin AllThreads
  BY SchedulerAssumption DEF InStep, Schedulers, AllThreads, IdleThreads
<1>1. /\ InStep(a, X) /\ a.prio = s.prio /\ a.status[t] = {"ready"}
      /\ \A w \in s.threads : a.status[w] = IF Runs(s, w) THEN {"ready"} ELSE s.status[w]
      /\ Runs(s, c) /\ c \in s.threads => First(a, c, s.prio[c]) /\ c # t
      /\ ~Runs(s, c) => a = s
  <2>1. CASE Runs(s, c) /\ c \in s.threads
    <3>1. c # t
      BY <2>1 DEF Runs, Has
    <3>2. /\ InStep(a, X) /\ Untouched(s, a, c) /\ a.status[c] = {"ready"} /\ First(a, c, s.prio[c])
      <4>1. Runs(s, c) /\ c \in s.threads \ X
        BY <2>1, <3>1
      <4> HIDE DEF c
      <4> QED
        BY <4>1, SwitchedOffRest DEF a
    <3> QED
      BY <1>0, <2>1, <3>1, <3>2 DEF Untouched, Runs
  <2>2. CASE ~Runs(s, c)
    <3>1. a = s
      BY <2>2 DEF SwitchedOff, Runs
    <3> QED
      BY <2>2, <3>1 DEF Runs
  <2>3. CASE c \notin s.threads
    <3>1. a = s
      BY <2>3 DEF SwitchedOff, InStep
    <3>2. \A w \in s.threads : ~Runs(s, w)
      BY <2>3 DEF Runs
    <3> QED
      BY <2>3, <3>1, <3>2
  <2> QED
    BY <2>1, <2>2, <2>3
<1> HIDE DEF a
<1>2. a \in Schedulers
  BY <1>1 DEF InStep
<1>3. b \in Schedulers /\ b.status = a.status /\ b.prio = a.prio
  BY <1>0, <1>1, <1>2, MadeUnreadyInStep, MadeUnreadyUntouched DEF Untouched, InStep
<1>4. \A p \in Priorities, w \in AllThreads \ {t} : First(a, w, p) => First(b, w, p)
  BY <1>0, <1>1, MadeUnreadyFirst
<1> HIDE DEF b
<1>5. r = [b EXCEPT !.current = t, !.status[t] = (@ \cup {"running"}) \ {"ready"}, !.wait[t] = NotWaiting]
  BY DEF SwitchContext, a, b
<1>6. /\ r.prio = b.prio /\ r.ready = b.ready /\ r.status[t] = (b.status[t] \cup {"running"}) \ {"ready"}
      /\ \A w \in AllThreads \ {t} : r.status[w] = b.status[w]
  BY <1>0, <1>3, <1>5 DEF Schedulers
<1> HIDE DEF r
<1>7. r.status[t] = {"running"}
  BY <1>1, <1>3, <1>6
<1>8. \A w \in s.threads \ {t} : r.status[w] = IF Runs(s, w) THEN {"ready"} ELSE s.status[w]
  BY <1>0, <1>1, <1>3, <1>6
<1>9. \A p \in Priorities, w \in AllThreads \ {t} : First(a, w, p) => First(r, w, p)
  BY <1>4, <1>6 DEF First
<1>10. ASSUME NEW w \in s.threads, Runs(s, w) PROVE First(r, w, s.prio[w])
  <2>1. w = c /\ s.prio[w] \in Priorities /\ w \in AllThreads
    BY <1>0, <1>10 DEF Runs, Schedulers
  <2> QED
    BY <1>1, <1>9, <1>10, <2>1
<1>11. ~Runs(s, c) => \A p \in Priorities, w \in AllThreads \ {t} : First(s, w, p) => First(r, w, p)
  BY <1>1, <1>9
<1>12. r.prio = s.prio
  BY <1>1, <1>3, <1>6
<1> HIDE DEF c
<1> QED
  BY <1>7, <1>8, <1>10, <1>11, <1>12 DEF r, c

(* A queue is chosen when a thread is ready that is better than the        *)
(* running one, ...                                                        *)
LEMMA BetterQueue ==
    ASSUME NEW s, InStep(s, {}), NEW w \in s.threads, Has(s, w, "ready"), s.prio[w] < Limit(s)
    PROVE  BestQueue(s) # {}
<1> DEFINE full == {p \in Priorities : s.ready[p] # << >>}
<1>1. s.prio[w] \in full
  <2>1. s.prio[w] \in Priorities /\ w \in Entries(s.ready[s.prio[w]])
    BY DEF InStep, Schedulers, Listed
  <2> QED
    BY <2>1, NoEntry
<1>2. full \subseteq Nat /\ Limit(s) \in Int
  BY SchedulerAssumption DEF Priorities, IdlePriority, Limit, InStep, Schedulers
<1> HIDE DEF full
<1>3. PICK p \in full : \A q \in full : p <= q
  BY <1>1, <1>2, Least
<1>4. p \in Priorities /\ s.ready[p] # << >>
  BY DEF full
<1>5. p < Limit(s)
  <2>1. p <= s.prio[w]
    BY <1>1, <1>3
  <2>2. s.prio[w] \in full /\ p \in full /\ full \subseteq Int
    BY <1>1, <1>2
  <2>3. s.prio[w] \in Int /\ p \in Int
    BY <2>2
  <2> QED
    BY <1>2, <2>1, <2>3
<1>6. ASSUME NEW q \in Priorities, q < p PROVE s.ready[q] = << >>
  <2>1. p \in Int /\ q \in Int
    BY <1>4 DEF Priorities
  <2>2. q \notin full
    BY <1>3, <1>6, <2>1
  <2> QED
    BY <2>2 DEF full
<1> QED
  BY <1>4, <1>5, <1>6 DEF BestQueue

(* ... and always when none runs: an idle thread is ready, if no better.   *)
LEMMA LimitBounds ==
    ASSUME NEW s, InStep(s, {})
    PROVE  /\ Limit(s) \in Int
           /\ ~Runs(s, s.current) \/ s.current = NoThread => \A w \in s.threads : s.prio[w] < Limit(s)
           /\ Runs(s, s.current) /\ s.current # NoThread => Limit(s) = s.prio[s.current]
<1>1. /\ \A w \in AllThreads : s.prio[w] \in Priorities
      /\ s.threads \subseteq AllThreads /\ s.current \in s.threads \cup {NoThread}
  BY DEF InStep, Schedulers
<1>2. \A p \in Priorities : p \in Int /\ p < IdlePriority + 1
  BY SchedulerAssumption DEF Priorities, IdlePriority
<1>3. IdlePriority + 1 \in Int
  BY SchedulerAssumption DEF IdlePriority
<1>4. CASE Runs(s, s.current) /\ s.current # NoThread
  <2>1. Limit(s) = s.prio[s.current]
    BY <1>4 DEF Limit, Runs
  <2> QED
    BY <1>1, <1>2, <1>4, <2>1
<1>5. CASE ~Runs(s, s.current) \/ s.current = NoThread
  <2>1. Limit(s) = IdlePriority + 1
    BY <1>5 DEF Limit, Runs
  <2> QED
    BY <1>1, <1>2, <1>3, <1>5, <2>1
<1> QED
  BY <1>4, <1>5

LEMMA SomeQueue ==
    ASSUME NEW s, InStep(s, {}), ~CurrentRuns(s)
    PROVE  BestQueue(s) # {}
<1>1. ~Runs(s, s.current) \/ s.current = NoThread
  BY DEF InStep, Listed, CurrentRuns, Runs, Has
<1>2. Idle0 \in s.threads /\ s.status[Idle0] \in {{"ready"}, {"running"}} /\ Idle0 # NoThread
  BY SchedulerAssumption DEF InStep, IdleAwake, IdleThreads
<1>3. Has(s, Idle0, "running") => Idle0 = s.current
  BY <1>2 DEF InStep, Listed
<1>4. Has(s, Idle0, "ready") /\ s.prio[Idle0] < Limit(s)
  BY <1>1, <1>2, <1>3, LimitBounds DEF Runs, Has
<1> QED
  BY <1>2, <1>4, BetterQueue

(* The chosen thread is taken out of its queue.                            *)
Dequeued(s, p) == [s EXCEPT !.ready[p] = Tail(@)]

LEMMA NextTaken ==
    ASSUME NEW s, InStep(s, {}), NEW p \in BestQueue(s), NEW t, t = Head(s.ready[p]), NEW u, u = Dequeued(s, p)
    PROVE  /\ t \in s.threads /\ s.status[t] = {"ready"} /\ s.prio[t] = p
           /\ InStep(u, {t})
           /\ u.threads = s.threads /\ u.current = s.current
           /\ u.status = s.status /\ u.prio = s.prio
           /\ u.dispatchEnabled = s.dispatchEnabled /\ u.interruptsEnabled = s.interruptsEnabled
           /\ u.inInterrupt = s.inInterrupt
           /\ \A o \in Priorities \ {p} : u.ready[o] = s.ready[o]
<1>2. /\ s \in Schedulers /\ p \in Priorities /\ s.ready[p] # << >>
      /\ s.ready[p] \in Seq(AllThreads) /\ NoDup(s.ready[p])
  BY DEF BestQueue, InStep, Schedulers, Queued
<1>3. /\ t \in Entries(s.ready[p]) /\ Tail(s.ready[p]) \in Seq(AllThreads) /\ NoDup(Tail(s.ready[p]))
      /\ Entries(Tail(s.ready[p])) = Entries(s.ready[p]) \ {t}
  BY <1>2, TailEntries
<1>4. t \in s.threads /\ s.status[t] = {"ready"} /\ s.prio[t] = p
  BY <1>2, <1>3 DEF InStep, Queued
<1>5. /\ u \in Schedulers /\ u.threads = s.threads /\ u.current = s.current
      /\ u.status = s.status /\ u.prio = s.prio
      /\ u.dispatchEnabled = s.dispatchEnabled /\ u.interruptsEnabled = s.interruptsEnabled
      /\ u.inInterrupt = s.inInterrupt
      /\ u.ready[p] = Tail(s.ready[p]) /\ \A o \in Priorities \ {p} : u.ready[o] = s.ready[o]
  BY <1>2, <1>3 DEF Schedulers, Dequeued
<1>6. Queued(u, {t})
  <2> SUFFICES ASSUME NEW o \in Priorities
               PROVE  /\ NoDup(u.ready[o])
                      /\ \A w \in Entries(u.ready[o]) :
                            w \in u.threads \ {t} /\ u.status[w] = {"ready"} /\ u.prio[w] = o
    BY DEF Queued
  <2>1. \A w \in Entries(s.ready[o]) : w \in s.threads /\ s.status[w] = {"ready"} /\ s.prio[w] = o
    BY DEF InStep, Queued
  <2>2. CASE o = p
    BY <1>3, <1>5, <2>1, <2>2
  <2>3. CASE o # p
    BY <1>4, <1>5, <2>1, <2>3 DEF InStep, Queued
  <2> QED
    BY <2>2, <2>3
<1>7. Listed(u, {t})
  <2> SUFFICES ASSUME NEW w \in s.threads
               PROVE  /\ Has(u, w, "ready") /\ w # t => w \in Entries(u.ready[u.prio[w]])
                      /\ Has(u, w, "running") => u.status[w] = {"running"} /\ w = u.current
    BY <1>5 DEF Listed
  <2>1. s.prio[w] \in Priorities
    BY DEF InStep, Schedulers
  <2>2. /\ Has(s, w, "ready") => w \in Entries(s.ready[s.prio[w]])
        /\ Has(s, w, "running") => s.status[w] = {"running"} /\ w = s.current
    BY DEF InStep, Listed
  <2> QED
    BY <1>3, <1>5, <2>1, <2>2 DEF Has
<1>8. IdleAwake(u, {t})
  BY <1>5 DEF InStep, IdleAwake
<1>9. InStep(u, {t})
  BY <1>5, <1>6, <1>7, <1>8 DEF InStep
<1> QED
  BY <1>4, <1>5, <1>9

LEMMA ReScheduledInStep ==
    ASSUME NEW s, InStep(s, {}), NEW r \in ReScheduled(s)
    PROVE  /\ InStep(r, {}) /\ r.threads = s.threads
           /\ r.dispatchEnabled = s.dispatchEnabled /\ r.interruptsEnabled = s.interruptsEnabled
           /\ r.inInterrupt = s.inInterrupt
           /\ CurrentRuns(s) \/ CanSwitch(s) => CurrentRuns(r)
<1>1. CASE CanSwitch(s) /\ BestQueue(s) # {}
  <2>1. PICK p \in BestQueue(s) : r = SwitchContext([s EXCEPT !.ready[p] = Tail(@)], Head(s.ready[p]))
    BY <1>1 DEF ReScheduled
  <2> PICK t : t = Head(s.ready[p])
    OBVIOUS
  <2> PICK u : u = Dequeued(s, p)
    OBVIOUS
  <2>3. r = SwitchContext(u, t)
    BY <2>1 DEF Dequeued
  <2>2. /\ t \in s.threads /\ s.status[t] = {"ready"} /\ InStep(u, {t})
        /\ u.threads = s.threads /\ u.status = s.status
        /\ u.dispatchEnabled = s.dispatchEnabled /\ u.interruptsEnabled = s.interruptsEnabled
        /\ u.inInterrupt = s.inInterrupt
    BY NextTaken
  <2>4. t \in u.threads /\ u.status[t] = {"ready"}
    BY <2>2
  <2> QED
    BY <2>2, <2>3, <2>4, SwitchContextInStep
<1>2. CASE ~(CanSwitch(s) /\ BestQueue(s) # {})
  <2>1. r = s
    BY <1>2 DEF ReScheduled
  <2> QED
    BY <1>2, <2>1, SomeQueue
<1> QED
  BY <1>1, <1>2

(* The scheduler leaves the best thread running, ...                       *)
LEMMA ReScheduledBest ==
    ASSUME NEW s, InStep(s, {}), CanSwitch(s), NEW r \in ReScheduled(s)
    PROVE  /\ Has(r, r.current, "running")
           /\ \A w \in s.threads : Has(r, w, "ready") => r.prio[w] >= r.prio[r.current]
<1>0. s.threads \subseteq AllThreads /\ \A w \in s.threads : s.prio[w] \in Priorities /\ s.prio[w] \in Int
  BY DEF InStep, Schedulers, Priorities
<1>1. CASE BestQueue(s) # {}
  <2>1. PICK p \in BestQueue(s) : r = SwitchContext([s EXCEPT !.ready[p] = Tail(@)], Head(s.ready[p]))
    BY <1>1 DEF ReScheduled
  <2> PICK t : t = Head(s.ready[p])
    OBVIOUS
  <2> PICK u : u = Dequeued(s, p)
    OBVIOUS
  <2>3. r = SwitchContext(u, t)
    BY <2>1 DEF Dequeued
  <2>2. /\ t \in s.threads /\ s.status[t] = {"ready"} /\ s.prio[t] = p
        /\ InStep(u, {t}) /\ u.threads = s.threads
        /\ u.current = s.current /\ u.status = s.status /\ u.prio = s.prio
    BY NextTaken
  <2>4. /\ r.current = t /\ r.status[t] = {"running"} /\ r.prio = s.prio
        /\ \A w \in s.threads \ {t} : r.status[w] = IF Runs(s, w) THEN {"ready"} ELSE s.status[w]
    BY <2>2, <2>3, SwitchContextInStep, SwitchContextRest DEF Runs, Has
  <2>5. p \in Int /\ p < Limit(s) /\ \A q \in Priorities : q < p => s.ready[q] = << >>
    BY <1>0, <2>2 DEF BestQueue
  <2>6. ASSUME NEW w \in s.threads, Has(r, w, "ready") PROVE s.prio[w] >= p
    <3>1. w # t /\ (Runs(s, w) \/ Has(s, w, "ready"))
      BY <2>4, <2>6 DEF Has
    <3>2. CASE Runs(s, w)
      <4>1. Limit(s) = s.prio[w]
        BY <1>0, <3>2, SchedulerAssumption DEF Limit, Runs, AllThreads, IdleThreads
      <4> QED
        BY <1>0, <2>5, <4>1
    <3>3. CASE Has(s, w, "ready")
      <4>1. s.ready[s.prio[w]] # << >>
        BY <1>0, <3>3, NoEntry DEF InStep, Listed
      <4> QED
        BY <1>0, <2>5, <4>1
    <3> QED
      BY <3>1, <3>2, <3>3
  <2> QED
    BY <2>2, <2>4, <2>6 DEF Has
<1>2. CASE BestQueue(s) = {}
  <2>1. r = s /\ CurrentRuns(s)
    BY <1>2, SomeQueue DEF ReScheduled
  <2>2. s.current \in s.threads /\ s.current # NoThread
    BY <2>1 DEF InStep, CurrentRuns
  <2>3. \A w \in s.threads : Has(s, w, "ready") => ~(s.prio[w] < Limit(s))
    BY <1>2, BetterQueue
  <2>4. Runs(s, s.current)
    BY <2>1, <2>2, <2>3, LimitBounds DEF CurrentRuns, Runs, Has
  <2>5. Limit(s) = s.prio[s.current]
    BY <2>2, <2>4, LimitBounds
  <2> QED
    BY <1>0, <2>1, <2>2, <2>3, <2>4, <2>5 DEF Runs
<1> QED
  BY <1>1, <1>2

(* ... and the one that ran, or was the next of its priority, goes on or   *)
(* is the next.                                                            *)
LEMMA ReScheduledFirst ==
    ASSUME NEW s, InStep(s, {}), NEW c \in s.threads, c = s.current,
           Runs(s, c) \/ First(s, c, s.prio[c]), NEW r \in ReScheduled(s)
    PROVE  r.current = c \/ First(r, c, s.prio[c])
<1>1. CASE CanSwitch(s) /\ BestQueue(s) # {}
  <2>1. PICK p \in BestQueue(s) : r = SwitchContext([s EXCEPT !.ready[p] = Tail(@)], Head(s.ready[p]))
    BY <1>1 DEF ReScheduled
  <2> PICK t : t = Head(s.ready[p])
    OBVIOUS
  <2> PICK u : u = Dequeued(s, p)
    OBVIOUS
  <2>3. r = SwitchContext(u, t)
    BY <2>1 DEF Dequeued
  <2>2. /\ t \in s.threads /\ s.status[t] = {"ready"} /\ InStep(u, {t})
        /\ u.threads = s.threads /\ u.current = s.current /\ u.status = s.status /\ u.prio = s.prio
        /\ \A o \in Priorities \ {p} : u.ready[o] = s.ready[o]
    BY NextTaken
  <2>4. c \in AllThreads /\ s.prio[c] \in Priorities
    BY DEF InStep, Schedulers
  <2>5. CASE t = c
    BY <2>2, <2>3, <2>5, SwitchContextInStep
  <2>6. CASE Runs(s, c)
    <3>1. Runs(u, c) /\ c \in u.threads
      BY <2>2, <2>6 DEF Runs, Has
    <3> QED
      BY <2>2, <2>3, <3>1, SwitchContextRest
  <2>7. CASE t # c /\ ~Runs(s, c) /\ First(s, c, s.prio[c])
    <3>1. s.prio[c] # p
      BY <2>7 DEF First
    <3>2. First(u, c, s.prio[c]) /\ ~Runs(u, u.current)
      BY <2>2, <2>4, <2>7, <3>1 DEF First, Runs, Has
    <3> QED
      BY <2>2, <2>3, <2>4, <2>7, <3>2, SwitchContextRest
  <2> QED
    BY <2>5, <2>6, <2>7
<1>2. CASE ~(CanSwitch(s) /\ BestQueue(s) # {})
  BY <1>2 DEF ReScheduled
<1> QED
  BY <1>1, <1>2

(* The end of a wait concerns no other thread, and none that is ready; one *)
(* that runs would go on or be the next.                                   *)
LEMMA ResumedRest ==
    ASSUME NEW s, InStep(s, {}), NEW t \in Threads, t \in s.threads
    PROVE  LET r == Resumed(s, t) IN
           /\ Untouched(s, r, t)
           /\ s.status[t] = {"ready"} => r.status[t] = {"ready"}
           /\ \A c \in s.threads : Runs(s, c) => Runs(r, c) \/ First(r, c, s.prio[c])
<1> DEFINE w == [s EXCEPT !.status[t] = @ \ {"wait"}]
           r == Resumed(s, t)
<1>0. s \in Schedulers /\ t \in AllThreads /\ s.threads \subseteq AllThreads
  BY DEF InStep, Schedulers, AllThreads
<1>1. /\ w \in Schedulers /\ Untouched(s, w, t) /\ w.ready = s.ready
      /\ w.status[t] = s.status[t] \ {"wait"}
  BY <1>0 DEF Schedulers, Untouched
<1>2. r = IF w.status[t] \cap {"suspend", "dormant"} = {} THEN MadeReady(w, t) ELSE w
  BY DEF Resumed
<1> HIDE DEF w, r
<1>3. Untouched(s, r, t)
  BY <1>0, <1>1, <1>2, MadeReadyUntouched DEF Untouched
<1>4. s.status[t] = {"ready"} => r.status[t] = {"ready"}
  BY <1>0, <1>1, <1>2, MadeReadyUntouched DEF Untouched
<1>5. ASSUME NEW c \in s.threads, Runs(s, c) PROVE Runs(r, c) \/ First(r, c, s.prio[c])
  <2>1. s.status[c] = {"running"} /\ c \in AllThreads /\ s.prio[c] \in Priorities
    BY <1>0, <1>5 DEF InStep, Listed, Runs, Schedulers
  <2>2. CASE c # t
    BY <1>3, <1>5, <2>1, <2>2 DEF Untouched, Runs, Has
  <2>3. CASE c = t
    <3>1. w.status[t] = {"running"} /\ w.prio = s.prio /\ w.ready[s.prio[c]] \in Seq(AllThreads)
      BY <1>1, <2>1, <2>3 DEF Untouched, Schedulers
    <3>2. r = MadeReady(w, t)
      BY <1>2, <3>1
    <3>3. r = [w EXCEPT !.ready[s.prio[c]] = <<t>> \o @, !.status[t] = {"ready"}]
      BY <2>3, <3>1, <3>2 DEF MadeReady, Has
    <3>4. r.ready[s.prio[c]] = <<t>> \o w.ready[s.prio[c]]
      BY <1>1, <2>1, <3>3 DEF Schedulers
    <3> QED
      BY <2>3, <3>1, <3>4 DEF First
  <2> QED
    BY <2>2, <2>3
<1> QED
  BY <1>3, <1>4, <1>5 DEF r

----------------------------------------------------------------------------
(* The case that no other thread is being moved.                           *)
LEMMA SettledAlone ==
    ASSUME NEW s, NEW t, t \notin IdleThreads, InStep(s, {t}), s.status[t] \cap {"ready", "running"} = {}
    PROVE  InStep(s, {})
<1>1. {} \cup {t} = {t}
  OBVIOUS
<1> QED
  BY <1>1, Settled

LEMMA ExemptAlone ==
    ASSUME NEW s, NEW t, InStep(s, {}), "ready" \notin s.status[t]
    PROVE  InStep(s, {t})
<1>1. {} \cup {t} = {t}
  OBVIOUS
<1> QED
  BY <1>1, Exempt DEF Has

LEMMA TakenAlone ==
    ASSUME NEW s, NEW t \in AllThreads, InStep(s, {})
    PROVE  InStep([s EXCEPT !.ready[s.prio[t]] = Seqs!RemoveFirst(@, t)], {t})
<1>1. {} \cup {t} = {t}
  OBVIOUS
<1> QED
  BY <1>1, Taken

LEMMA MadeUnreadyAlone ==
    ASSUME NEW s, NEW t \in AllThreads, InStep(s, {})
    PROVE  /\ InStep(MadeUnready(s, t), {t}) /\ MadeUnready(s, t) \in Schedulers
           /\ Untouched(s, MadeUnready(s, t), t) /\ MadeUnready(s, t).status = s.status
<1>1. {} \cup {t} = {t} /\ s \in Schedulers
  BY DEF InStep
<1>2. InStep(MadeUnready(s, t), {t})
  BY <1>1, MadeUnreadyInStep
<1> QED
  BY <1>1, <1>2, MadeUnreadyUntouched DEF InStep

LEMMA JoinedAlone ==
    ASSUME NEW s, NEW t \in s.threads, InStep(s, {t}), s.status[t] = {"ready"}
    PROVE  InStep([s EXCEPT !.ready[s.prio[t]] = Append(@, t)], {})
<1> DEFINE q == Append(s.ready[s.prio[t]], t)
           r == [s EXCEPT !.ready[s.prio[t]] = q, !.status[t] = {"ready"}]
<1>1. {} \cup {t} = {t} /\ s \in Schedulers /\ t \notin {}
  BY DEF InStep
<1>2. InStep(r, {})
  BY <1>1, Joined
<1> HIDE DEF q
<1>3. r = [s EXCEPT !.ready[s.prio[t]] = q]
  BY <1>1 DEF Schedulers
<1> QED
  BY <1>2, <1>3 DEF q

----------------------------------------------------------------------------
(* The invariant.  A call leaves a current thread that can be executed, or *)
(* a reschedule to be done that finds one.                                 *)
Counted ==
    wakeupCount \in [Threads -> Nat] /\ wakeups \in [Threads -> Nat] /\ endTimeouts \in [Threads -> Nat]

ListedOnce ==
    /\ waitingThreads \in [AllThreads -> Seq(Threads)]
    /\ \A t \in AllThreads : NoDup(waitingThreads[t])

SomeoneRuns == CurrentRuns(sched) \/ (resched /\ CanSwitch(sched))

ThreadInv == InStep(sched, {}) /\ SomeoneRuns /\ Counted /\ ListedOnce /\ resched \in BOOLEAN

LEMMA Constants ==
    /\ Threads \subseteq AllThreads /\ IdleThreads \subseteq AllThreads /\ NoThread \notin AllThreads
    /\ \A t \in Threads : t \notin IdleThreads /\ InitialPriority[t] \in Priorities
    /\ 0 .. UserPriorities - 1 \subseteq Priorities
    /\ IdlePriority \in Priorities
BY SchedulerAssumption, KernelThreadAssumption DEF AllThreads, IdleThreads, Priorities, IdlePriority

LEMMA InvImpliesTypeOK == ThreadInv => TypeOK
BY DEF ThreadInv, Counted, ListedOnce, InStep, TypeOK

LEMMA InvImpliesReadyListSound == ThreadInv => ReadyListSound
<1> SUFFICES ASSUME ThreadInv, NEW p \in Priorities
             PROVE  LET q == sched.ready[p] IN
                    /\ \A i \in DOMAIN q : Exists(q[i]) /\ sched.status[q[i]] = {"ready"} /\ sched.prio[q[i]] = p
                    /\ \A i, j \in DOMAIN q : q[i] = q[j] => i = j
  BY DEF ReadyListSound
<1>1. NoDup(sched.ready[p]) /\ \A t \in Entries(sched.ready[p]) :
        t \in sched.threads /\ sched.status[t] = {"ready"} /\ sched.prio[t] = p
  BY DEF ThreadInv, InStep, Queued
<1> QED
  BY <1>1 DEF NoDup, Entries, Exists

LEMMA InvImpliesNoReadyThreadLost == ThreadInv => NoReadyThreadLost
<1> SUFFICES ASSUME ThreadInv, NEW t \in sched.threads, Has(sched, t, "ready")
             PROVE  t \in Seqs!ToSet(sched.ready[sched.prio[t]])
  BY DEF NoReadyThreadLost
<1>1. t \in Entries(sched.ready[sched.prio[t]])
  BY DEF ThreadInv, InStep, Listed
<1> QED
  BY <1>1 DEF Entries, Seqs!ToSet

LEMMA InvImpliesOneRunner == ThreadInv => OneRunner
BY DEF ThreadInv, InStep, Listed, SomeoneRuns, CurrentRuns, OneRunner, current, Counted

LEMMA InitialInv == Init => ThreadInv
<1> SUFFICES ASSUME Init PROVE ThreadInv
  OBVIOUS
<1> DEFINE s == InitialSched
           two == <<Idle0, Idle1>>
<1>1. /\ two \in Seq(AllThreads) /\ NoDup(two) /\ Entries(two) = IdleThreads
  BY SchedulerAssumption DEF NoDup, Entries, AllThreads, IdleThreads
<1>2. Root \in Threads /\ Root \notin IdleThreads /\ Root # NoThread
  BY Constants, KernelThreadAssumption
<1> HIDE DEF two
<1>3. /\ s.threads = {Root} \cup IdleThreads /\ s.current = Root
      /\ s.status = [t \in AllThreads |->
            IF t = Root THEN {"running"} ELSE IF t \in IdleThreads THEN {"ready"} ELSE {"dormant"}]
      /\ s.prio = [t \in AllThreads |-> IF t \in Threads THEN InitialPriority[t] ELSE IdlePriority]
      /\ s.ready = [p \in Priorities |-> IF p = IdlePriority THEN two ELSE << >>]
  BY DEF InitialSched, two
<1>4. s \in Schedulers
  <2>1. NotWaiting \in Waits
    BY DEF NotWaiting, WaitingFor, Waits, WaitTypes
  <2>2. s.status \in [AllThreads -> SUBSET Flags]
    BY <1>3 DEF Flags
  <2>3. s.prio \in [AllThreads -> Priorities]
    BY <1>3, Constants
  <2>4. s.ready \in [Priorities -> Seq(AllThreads)]
    BY <1>1, <1>3
  <2>5. s.threads \subseteq AllThreads /\ Root \in AllThreads
    BY <1>2, <1>3, Constants
  <2> QED
    BY <2>1, <2>2, <2>3, <2>4, <2>5, <1>3 DEF Schedulers, InitialSched
<1> HIDE DEF s
<1>5. Queued(s, {})
  BY <1>1, <1>2, <1>3, NoEntry, Constants DEF Queued
<1>6. Listed(s, {})
  <2>1. s.status[Root] = {"running"}
    BY <1>2, <1>3, Constants
  <2>2. ASSUME NEW t \in IdleThreads
        PROVE  s.status[t] = {"ready"} /\ t \in Entries(s.ready[s.prio[t]])
    <3>1. t \in AllThreads /\ t # Root /\ t \notin Threads
      BY <1>2, Constants
    <3>2. s.prio[t] = IdlePriority /\ s.ready[IdlePriority] = two
      BY <1>3, <3>1, Constants
    <3> QED
      BY <1>1, <1>3, <3>1, <3>2
  <2>3. ASSUME NEW t \in s.threads
        PROVE  /\ Has(s, t, "ready") => t \in Entries(s.ready[s.prio[t]])
               /\ Has(s, t, "running") => s.status[t] = {"running"} /\ t = s.current
    <3>1. CASE t = Root
      BY <1>3, <2>1, <3>1 DEF Has
    <3>2. CASE t \in IdleThreads
      BY <2>2, <3>2 DEF Has
    <3> QED
      BY <1>3, <3>1, <3>2
  <2> QED
    BY <2>3 DEF Listed
<1>7. IdleAwake(s, {})
  BY <1>2, <1>3, Constants DEF IdleAwake
<1>8. InStep(s, {})
  BY <1>3, <1>4, <1>5, <1>6, <1>7 DEF InStep
<1>9. CurrentRuns(s)
  <2>1. Root \in AllThreads
    BY <1>2, Constants
  <2> QED
    BY <1>2, <1>3, <2>1 DEF CurrentRuns
<1>10. Counted /\ ListedOnce
  <2>1. Counted
    BY DEF Init, InitialRest, Counted
  <2>2. << >> \in Seq(Threads)
    OBVIOUS
  <2>3. \A t \in AllThreads : waitingThreads[t] = << >>
    BY DEF Init, InitialRest
  <2>4. waitingThreads \in [AllThreads -> Seq(Threads)]
    BY <2>2 DEF Init, InitialRest
  <2> QED
    BY <2>1, <2>3, <2>4, NoEntry DEF ListedOnce
<1> QED
  BY <1>8, <1>9, <1>10 DEF Init, InitialRest, s, ThreadInv, SomeoneRuns

----------------------------------------------------------------------------
(* The steps system calls are composed of.                                 *)
LEMMA CurrentKept ==
    ASSUME NEW s, NEW r, NEW t, InStep(s, {}), CurrentRuns(s), Untouched(s, r, t),
           t = s.current => r.status[t] \in {s.status[t], {"ready"}, {"running"}}
    PROVE  CurrentRuns(r)
<1>1. s.current \in AllThreads
  BY DEF InStep, Schedulers, CurrentRuns
<1> QED
  BY <1>1 DEF CurrentRuns, Untouched

LEMMA RunningIsCurrent ==
    ASSUME NEW s, InStep(s, {}), CurrentRuns(s)
    PROVE  s.current \in s.threads
BY DEF InStep, CurrentRuns

(* The status of a thread is one of these, or neither ready nor running.   *)
LEMMA OneStatus ==
    ASSUME NEW s, InStep(s, {}), NEW t \in s.threads
    PROVE  \/ s.status[t] = {"ready"}
           \/ s.status[t] = {"running"} /\ t = s.current
           \/ s.status[t] \cap {"ready", "running"} = {}
<1>1. s \in Schedulers /\ t \in AllThreads
  BY DEF InStep, Schedulers
<1>2. CASE Has(s, t, "ready")
  <2>1. s.prio[t] \in Priorities /\ t \in Entries(s.ready[s.prio[t]])
    BY <1>1, <1>2 DEF InStep, Listed, Schedulers
  <2> QED
    BY <2>1 DEF InStep, Queued
<1>3. CASE Has(s, t, "running")
  BY <1>3 DEF InStep, Listed
<1> QED
  BY <1>2, <1>3 DEF Has

LEMMA FlagsInStep ==
    ASSUME NEW s, NEW X, InStep(s, X), NEW enabled \in BOOLEAN
    PROVE  \A r \in {[s EXCEPT !.dispatchEnabled = enabled], [s EXCEPT !.interruptsEnabled = enabled],
                     [s EXCEPT !.inInterrupt = enabled]} :
             InStep(r, X) /\ (CurrentRuns(s) => CurrentRuns(r))
<1> TAKE r \in {[s EXCEPT !.dispatchEnabled = enabled], [s EXCEPT !.interruptsEnabled = enabled],
               [s EXCEPT !.inInterrupt = enabled]}
<1>1. /\ r \in Schedulers /\ r.threads = s.threads /\ r.current = s.current
      /\ r.status = s.status /\ r.prio = s.prio /\ r.ready = s.ready
  BY DEF InStep, Schedulers
<1> QED
  BY <1>1 DEF InStep, Queued, Listed, IdleAwake, Has, CurrentRuns

LEMMA WaitingInStep ==
    ASSUME NEW s, InStep(s, {}), s.current \in s.threads, s.current \in Threads, NEW w \in Waits
    PROVE  LET r == WaitingCurThread(s, w) IN
           /\ InStep(r, {})
           /\ r.dispatchEnabled = s.dispatchEnabled /\ r.interruptsEnabled = s.interruptsEnabled
           /\ r.inInterrupt = s.inInterrupt
<1> DEFINE c == s.current
           u == MadeUnready(s, c)
           r == [u EXCEPT !.status[c] = {"wait"} \cup (@ \cap {"suspend"}), !.wait[c] = w]
<1>0. s \in Schedulers /\ c \in AllThreads /\ c \notin IdleThreads
  BY Constants DEF InStep
<1>1. CASE ~s.dispatchEnabled
  BY <1>1 DEF WaitingCurThread
<1>2. CASE s.dispatchEnabled
  <2>2. InStep(u, {c}) /\ Untouched(s, u, c) /\ u \in Schedulers
    BY <1>0, MadeUnreadyAlone
  <2>3. WaitingCurThread(s, w) = r
    BY <1>2 DEF WaitingCurThread
  <2> HIDE DEF c, u
  <2>4. /\ r \in Schedulers /\ Untouched(u, r, c) /\ r.ready = u.ready
        /\ r.status[c] \cap {"ready", "running"} = {}
    BY <1>0, <2>2 DEF Schedulers, Flags, Untouched
  <2> HIDE DEF r
  <2>5. InStep(r, {c})
    BY <2>2, <2>4, Reassigned DEF Untouched
  <2>6. InStep(r, {})
    BY <1>0, <2>4, <2>5, SettledAlone
  <2> QED
    BY <2>2, <2>3, <2>4, <2>6 DEF Untouched
<1> QED
  BY <1>1, <1>2

(* The waiters __KernelStopThread resumes exist, and it resumes each once. *)
LEMMA EndWaitersOnce ==
    ASSUME ThreadInv, NEW t \in AllThreads
    PROVE  /\ EndWaiters(t) \in Seq(Threads) /\ NoDup(EndWaiters(t))
           /\ Entries(EndWaiters(t)) \subseteq sched.threads
<1>1. waitingThreads[t] \in Seq(Threads) /\ NoDup(waitingThreads[t])
  BY DEF ThreadInv, ListedOnce
<1> DEFINE S == {w \in Threads : VerifyWait(sched, w, "threadend", t)}
<1>2. S \subseteq sched.threads
  BY DEF VerifyWait
<1> HIDE DEF S
<1>3. /\ Selected(waitingThreads[t], S) \in Seq(Threads) /\ NoDup(Selected(waitingThreads[t], S))
      /\ Entries(Selected(waitingThreads[t], S)) = Entries(waitingThreads[t]) \cap S
  BY <1>1, SelectedEntries
<1> QED
  BY <1>2, <1>3 DEF EndWaiters, S

LEMMA StoppedInStep ==
    ASSUME ThreadInv, NEW t \in Threads, Exists(t)
    PROVE  LET r == Stopped(t) IN
           /\ InStep(r, {}) /\ r.status[t] = {"dormant"}
           /\ r.threads = sched.threads /\ r.current = sched.current /\ r.prio = sched.prio
           /\ r.dispatchEnabled = sched.dispatchEnabled /\ r.interruptsEnabled = sched.interruptsEnabled
           /\ r.inInterrupt = sched.inInterrupt
           /\ CurrentRuns(sched) /\ t # current => CurrentRuns(r)
           /\ \A w \in AllThreads \ {t} : sched.status[w] = {"ready"} => r.status[w] = {"ready"}
<1> DEFINE u == MadeUnready(sched, t)
           d == [u EXCEPT !.status[t] = {"dormant"}]
           a == ResumedAll(d, EndWaiters(t))
           r == [a EXCEPT !.wait[t] = NotWaiting]
<1>0. /\ InStep(sched, {}) /\ sched \in Schedulers /\ t \in AllThreads /\ t \notin IdleThreads
     
  BY Constants DEF ThreadInv, InStep
<1>1. InStep(u, {t}) /\ Untouched(sched, u, t) /\ u \in Schedulers
  BY <1>0, MadeUnreadyAlone
<1>2. Stopped(t) = r
  BY DEF Stopped
<1> HIDE DEF u
<1>3. d \in Schedulers /\ Untouched(u, d, t) /\ d.ready = u.ready /\ d.status[t] = {"dormant"}
  BY <1>0, <1>1 DEF Schedulers, Flags, Untouched
<1> HIDE DEF d
<1>4. InStep(d, {t})
  BY <1>1, <1>3, Reassigned DEF Untouched
<1>5. InStep(d, {})
  BY <1>0, <1>3, <1>4, SettledAlone
<1>6. Untouched(sched, d, t)
  BY <1>1, <1>3 DEF Untouched
<1>7. /\ EndWaiters(t) \in Seq(Threads) /\ NoDup(EndWaiters(t)) /\ Entries(EndWaiters(t)) \subseteq d.threads
  BY <1>0, <1>6, EndWaitersOnce DEF Untouched
<1>8. /\ InStep(a, {})
      /\ a.threads = d.threads /\ a.current = d.current /\ a.prio = d.prio
      /\ a.dispatchEnabled = d.dispatchEnabled /\ a.interruptsEnabled = d.interruptsEnabled
      /\ a.inInterrupt = d.inInterrupt
      /\ \A w \in AllThreads : d.status[w] \in {{"ready"}, {"running"}, {"dormant"}}
            => a.status[w] = d.status[w]
  BY <1>5, <1>7, ResumedAllInStep
<1> HIDE DEF a
<1>9. /\ r \in Schedulers /\ r.status = a.status /\ r.prio = a.prio /\ r.ready = a.ready
      /\ r.threads = a.threads /\ r.current = a.current
      /\ r.dispatchEnabled = a.dispatchEnabled /\ r.interruptsEnabled = a.interruptsEnabled
      /\ r.inInterrupt = a.inInterrupt
  BY <1>0, <1>8 DEF InStep, Schedulers, NotWaiting, WaitingFor, Waits, WaitTypes
<1> HIDE DEF r
<1>10. InStep(r, {})
  BY <1>8, <1>9 DEF InStep, Queued, Listed, IdleAwake, Has
<1>11. r.status[t] = {"dormant"}
  BY <1>0, <1>3, <1>8, <1>9
<1>12. ASSUME CurrentRuns(sched), t # current PROVE CurrentRuns(r)
  <2>1. sched.current \in AllThreads \ {t}
    BY <1>0, <1>12 DEF Schedulers, CurrentRuns, current
  <2> QED
    BY <1>6, <1>8, <1>9, <1>12, <2>1 DEF CurrentRuns, Untouched
<1>13. \A w \in AllThreads \ {t} : sched.status[w] = {"ready"} => r.status[w] = {"ready"}
  BY <1>6, <1>8, <1>9 DEF Untouched
<1> QED
  BY <1>2, <1>6, <1>8, <1>9, <1>10, <1>11, <1>12, <1>13 DEF Untouched

(* A deleted thread is in no queue.                                        *)
LEMMA DeletedInStep ==
    ASSUME ThreadInv, NEW t \in Threads, Exists(t)
    PROVE  LET r == Deleted(t) IN
           /\ InStep(r, {})
           /\ r.dispatchEnabled = sched.dispatchEnabled /\ r.interruptsEnabled = sched.interruptsEnabled
           /\ r.inInterrupt = sched.inInterrupt
           /\ CurrentRuns(sched) /\ t # current => CurrentRuns(r)
           /\ r.threads = sched.threads \ {t}
           /\ \A w \in AllThreads \ {t} : sched.status[w] = {"ready"} => r.status[w] = {"ready"}
<1> DEFINE a == Stopped(t)
           b == [a EXCEPT !.ready[a.prio[t]] = Seqs!RemoveFirst(@, t)]
           r == [b EXCEPT !.threads = @ \ {t}, !.current = IF @ = t THEN NoThread ELSE @]
<1>0. t \in AllThreads /\ t \notin IdleThreads
  BY Constants
<1>1. /\ InStep(a, {}) /\ a.status[t] = {"dormant"} /\ a.prio = sched.prio
      /\ a.threads = sched.threads /\ a.current = sched.current
      /\ a.dispatchEnabled = sched.dispatchEnabled /\ a.interruptsEnabled = sched.interruptsEnabled
      /\ a.inInterrupt = sched.inInterrupt
      /\ CurrentRuns(sched) /\ t # current => CurrentRuns(a)
      /\ \A w \in AllThreads \ {t} : sched.status[w] = {"ready"} => a.status[w] = {"ready"}
  BY StoppedInStep
<1>2. Deleted(t) = r
  BY <1>1 DEF Deleted
<1> HIDE DEF a
<1>3. InStep(b, {t})
  BY <1>0, <1>1, TakenAlone
<1>4. b \in Schedulers /\ Untouched(a, b, t) /\ b.status = a.status
  BY <1>1, <1>3 DEF InStep, Schedulers, Untouched
<1> HIDE DEF b
<1>5. /\ r \in Schedulers /\ r.threads = b.threads \ {t} /\ r.status = b.status /\ r.prio = b.prio
      /\ r.ready = b.ready
      /\ r.current = (IF b.current = t THEN NoThread ELSE b.current)
      /\ r.dispatchEnabled = b.dispatchEnabled /\ r.interruptsEnabled = b.interruptsEnabled
      /\ r.inInterrupt = b.inInterrupt
  BY <1>4 DEF Schedulers
<1> HIDE DEF r
<1>6. InStep(r, {})
  BY <1>0, <1>3, <1>5 DEF InStep, Queued, Listed, IdleAwake, Has
<1>7. ASSUME CurrentRuns(sched), t # current PROVE CurrentRuns(r)
  BY <1>1, <1>4, <1>5, <1>7 DEF CurrentRuns, Untouched, current
<1> QED
  BY <1>1, <1>2, <1>4, <1>5, <1>6, <1>7 DEF Untouched

----------------------------------------------------------------------------
(* What a step must establish of the scheduler's state.                    *)
Continues ==
    /\ InStep(sched', {})
    /\ CurrentRuns(sched') \/ (resched' /\ CanSwitch(sched'))

LEMMA CallFacts ==
    ASSUME ThreadInv, ~resched
    PROVE  /\ InStep(sched, {}) /\ sched \in Schedulers /\ CurrentRuns(sched)
           /\ current \in sched.threads /\ current # NoThread
           /\ sched.threads \subseteq AllThreads
BY RunningIsCurrent DEF ThreadInv, SomeoneRuns, InStep, Schedulers, CurrentRuns, current

LEMMA CreateThreadStep ==
    ASSUME ThreadInv, NEW t \in Threads, CreateThread(t)
    PROVE  Continues
<1>0. InStep(sched, {}) /\ sched \in Schedulers /\ CurrentRuns(sched) /\ current \in sched.threads
  BY CallFacts DEF CreateThread, OnThread
<1> DEFINE r == sched'
<1>1. /\ r \in Schedulers /\ r.threads = sched.threads \cup {t} /\ r.current = sched.current
      /\ r.ready = sched.ready /\ r.status[t] = {"dormant"}
      /\ \A u \in AllThreads \ {t} : r.status[u] = sched.status[u] /\ r.prio[u] = sched.prio[u]
  BY <1>0, Constants DEF CreateThread, Schedulers, Flags, NotWaiting, WaitingFor, Waits, WaitTypes
<1>2. t \notin sched.threads /\ sched.threads \subseteq AllThreads \ {t}
  BY <1>0 DEF CreateThread, Exists, Schedulers
<1> HIDE DEF r
<1>3. Queued(r, {})
  BY <1>0, <1>1, <1>2 DEF InStep, Queued
<1>4. Listed(r, {})
  BY <1>0, <1>1, <1>2 DEF InStep, Listed, Has
<1>5. IdleAwake(r, {})
  BY <1>0, <1>1, <1>2 DEF InStep, IdleAwake
<1>6. InStep(r, {})
  BY <1>0, <1>1, <1>3, <1>4, <1>5 DEF InStep
<1>7. CurrentRuns(r)
  BY <1>0, <1>1, <1>2 DEF CurrentRuns, current
<1> QED
  BY <1>6, <1>7 DEF Continues, r

LEMMA StartThreadStep ==
    ASSUME ThreadInv, NEW t \in Threads, StartThread(t)
    PROVE  Continues
<1>0. /\ InStep(sched, {}) /\ sched \in Schedulers /\ CurrentRuns(sched) /\ current \in sched.threads
      /\ t \in sched.threads /\ sched.status[t] = {"dormant"}
      /\ t \in AllThreads /\ t \notin IdleThreads /\ sched.threads \subseteq AllThreads
  BY CallFacts, Constants DEF StartThread, OnThread, Exists
<1> DEFINE reset == [sched EXCEPT !.prio[t] = IF @ < sched.prio[current] THEN InitialPriority[t] ELSE @,
                                  !.wait[t] = NotWaiting]
           better == reset.prio[t] < reset.prio[current]
           u == IF better THEN MadeReady(reset, current) ELSE reset
           v == [u EXCEPT !.dispatchEnabled = TRUE]
<1>1. sched' = MadeReady(v, t)
  BY DEF StartThread
<1>2. /\ reset \in Schedulers /\ reset.threads = sched.threads /\ reset.current = sched.current
      /\ reset.ready = sched.ready /\ reset.status = sched.status
      /\ \A w \in AllThreads \ {t} : reset.prio[w] = sched.prio[w]
  BY <1>0, Constants DEF Schedulers, NotWaiting, WaitingFor, Waits, WaitTypes
<1> HIDE DEF reset, better
<1>3. InStep(reset, {}) /\ CurrentRuns(reset)
  <2>1. InStep(sched, {t})
    BY <1>0, ExemptAlone
  <2>2. InStep(reset, {t})
    BY <1>2, <2>1, Reassigned
  <2>3. InStep(reset, {})
    BY <1>0, <1>2, <2>2, SettledAlone
  <2> QED
    BY <1>0, <1>2, <2>3 DEF CurrentRuns
<1>4. InStep(MadeReady(reset, current), {}) /\ CurrentRuns(MadeReady(reset, current))
      /\ MadeReady(reset, current).threads = sched.threads
  <2>1. InStep(MadeReady(reset, current), {})
    BY <1>0, <1>2, <1>3, MadeReadyInStep
  <2>2. Untouched(reset, MadeReady(reset, current), current)
        /\ MadeReady(reset, current).status[current] \in {reset.status[current], {"ready"}}
    BY <1>0, <1>2, MadeReadyUntouched
  <2> QED
    BY <1>2, <1>3, <2>1, <2>2, CurrentKept DEF Untouched
<1>5. InStep(u, {}) /\ CurrentRuns(u) /\ u.threads = sched.threads
  BY <1>2, <1>3, <1>4
<1> HIDE DEF u
<1>6. InStep(v, {}) /\ CurrentRuns(v) /\ v.threads = sched.threads /\ v \in Schedulers
  <2>1. InStep(v, {}) /\ CurrentRuns(v)
    BY <1>5, FlagsInStep
  <2>2. v.threads = u.threads
    BY <1>5 DEF InStep, Schedulers
  <2> QED
    BY <1>5, <2>1, <2>2 DEF InStep
<1> HIDE DEF v
<1>7. InStep(MadeReady(v, t), {})
  BY <1>0, <1>6, MadeReadyInStep
<1>8. CurrentRuns(MadeReady(v, t))
  BY <1>0, <1>6, MadeReadyUntouched, CurrentKept
<1> QED
  BY <1>1, <1>7, <1>8 DEF Continues

LEMMA TerminateThreadStep ==
    ASSUME ThreadInv, NEW t \in Threads, TerminateThread(t)
    PROVE  Continues
<1>0. CurrentRuns(sched) /\ Exists(t) /\ t # current /\ t \in AllThreads /\ t \notin IdleThreads
  BY CallFacts, Constants DEF TerminateThread, Calling, Other
<1> DEFINE a == Stopped(t)
           r == [a EXCEPT !.prio[t] = InitialPriority[t]]
<1>1. /\ InStep(a, {}) /\ a.status[t] = {"dormant"} /\ CurrentRuns(a)
  BY <1>0, StoppedInStep
<1>2. sched' = r
  BY DEF TerminateThread
<1> HIDE DEF a
<1>3. /\ r \in Schedulers /\ r.threads = a.threads /\ r.current = a.current
      /\ r.ready = a.ready /\ r.status = a.status
      /\ \A w \in AllThreads \ {t} : r.prio[w] = a.prio[w]
  BY <1>0, <1>1, Constants DEF InStep, Schedulers
<1> HIDE DEF r
<1>4. InStep(a, {t})
  BY <1>0, <1>1, ExemptAlone
<1>5. InStep(r, {t})
  BY <1>3, <1>4, Reassigned
<1>6. InStep(r, {})
  BY <1>0, <1>1, <1>3, <1>5, SettledAlone
<1> QED
  BY <1>1, <1>2, <1>3, <1>6 DEF Continues, CurrentRuns

LEMMA DeleteThreadStep ==
    ASSUME ThreadInv, NEW t \in Threads, TerminateDeleteThread(t)
    PROVE  Continues
<1>1. CurrentRuns(sched) /\ Exists(t) /\ t # current /\ sched' = Deleted(t)
  BY CallFacts DEF TerminateDeleteThread, Calling, Other
<1> QED
  BY <1>1, DeletedInStep DEF Continues

LEMMA ResumeStep ==
    ASSUME ThreadInv, NEW t \in Threads, WakeupThread(t) \/ ReleaseWaitThread(t)
    PROVE  Continues
<1>1. InStep(sched, {}) /\ CurrentRuns(sched) /\ t \in sched.threads /\ sched' \in {sched, Resumed(sched, t)}
  BY CallFacts DEF WakeupThread, ReleaseWaitThread, Calling, Other, Exists
<1> QED
  BY <1>1, ResumedInStep DEF Continues

LEMMA SuspendThreadStep ==
    ASSUME ThreadInv, NEW t \in Threads, SuspendThread(t)
    PROVE  Continues
<1>0. /\ InStep(sched, {}) /\ sched \in Schedulers /\ CurrentRuns(sched)
      /\ t \in sched.threads /\ t # sched.current
      /\ t \in AllThreads /\ t \notin IdleThreads
  BY CallFacts, Constants DEF SuspendThread, Calling, Other, Exists, current
<1> DEFINE u == MadeUnready(sched, t)
           r == [u EXCEPT !.status[t] = (@ \ {"ready"}) \cup {"suspend"}]
<1>1. InStep(u, {t}) /\ Untouched(sched, u, t) /\ u.status = sched.status /\ u \in Schedulers
  BY <1>0, MadeUnreadyAlone
<1>2. sched' = r
  BY DEF SuspendThread
<1> HIDE DEF u
<1>3. "running" \notin sched.status[t]
  BY <1>0, OneStatus
<1>4. /\ r \in Schedulers /\ Untouched(u, r, t) /\ r.ready = u.ready
      /\ r.status[t] \cap {"ready", "running"} = {}
  <2> DEFINE status == (u.status[t] \ {"ready"}) \cup {"suspend"}
  <2>1. status \in SUBSET Flags /\ status \cap {"ready", "running"} = {}
    BY <1>0, <1>1, <1>3 DEF Schedulers, Flags
  <2>2. r = [u EXCEPT !.status[t] = status]
    OBVIOUS
  <2> HIDE DEF status, r
  <2> QED
    BY <1>0, <1>1, <2>1, <2>2 DEF Schedulers, Untouched
<1> HIDE DEF r
<1>5. InStep(r, {t})
  BY <1>1, <1>4, Reassigned DEF Untouched
<1>6. InStep(r, {})
  BY <1>0, <1>4, <1>5, SettledAlone
<1>7. Untouched(sched, r, t)
  BY <1>1, <1>4 DEF Untouched
<1> QED
  BY <1>0, <1>2, <1>6, <1>7, CurrentKept DEF Continues

LEMMA ResumeThreadStep ==
    ASSUME ThreadInv, NEW t \in Threads, ResumeThread(t)
    PROVE  Continues
<1>0. /\ InStep(sched, {}) /\ sched \in Schedulers /\ CurrentRuns(sched)
      /\ t \in sched.threads /\ t # sched.current /\ "suspend" \in sched.status[t]
      /\ t \in AllThreads /\ t \notin IdleThreads
  BY CallFacts, Constants DEF ResumeThread, Calling, Other, Exists, current, Has
<1> DEFINE u == [sched EXCEPT !.status[t] = @ \ {"suspend"}]
<1>1. sched' \in {u, MadeReady(u, t)}
  BY DEF ResumeThread
<1>2. sched.status[t] \cap {"ready", "running"} = {}
  BY <1>0, OneStatus
<1>3. /\ u \in Schedulers /\ Untouched(sched, u, t) /\ u.ready = sched.ready
      /\ u.status[t] \cap {"ready", "running"} = {}
  BY <1>0, <1>2 DEF Schedulers, Untouched
<1> HIDE DEF u
<1>4. InStep(sched, {t})
  BY <1>0, <1>2, ExemptAlone
<1>5. InStep(u, {t})
  BY <1>3, <1>4, Reassigned DEF Untouched
<1>6. InStep(u, {})
  BY <1>0, <1>3, <1>5, SettledAlone
<1>7. CurrentRuns(u)
  BY <1>0, <1>3, CurrentKept
<1>8. InStep(MadeReady(u, t), {})
  BY <1>0, <1>3, <1>6, MadeReadyInStep DEF Untouched
<1>9. CurrentRuns(MadeReady(u, t))
  BY <1>0, <1>3, <1>6, <1>7, MadeReadyUntouched, CurrentKept
<1> QED
  BY <1>1, <1>6, <1>7, <1>8, <1>9 DEF Continues

LEMMA WaitThreadEndStep ==
    ASSUME ThreadInv, NEW t \in Threads, NEW timed \in BOOLEAN, WaitThreadEnd(t, timed)
    PROVE  Continues
<1>1. /\ InStep(sched, {}) /\ current \in sched.threads /\ current \in Threads /\ CanSwitch(sched)
      /\ WaitingFor("threadend", t, timed) \in Waits
  BY CallFacts, Constants DEF WaitThreadEnd, MayWait, OnThread, CanSwitch, WaitingFor, Waits, WaitTypes
<1>2. sched' = WaitingCurThread(sched, WaitingFor("threadend", t, timed)) /\ resched'
  BY DEF WaitThreadEnd, Reschedule
<1> QED
  BY <1>1, <1>2, WaitingInStep DEF Continues, CanSwitch, IsDispatchEnabled, current

LEMMA ChangePriorityStep ==
    ASSUME ThreadInv, NEW t \in Threads, NEW p \in 0 .. UserPriorities - 1, ChangeThreadPriority(t, p)
    PROVE  Continues
<1>0. /\ InStep(sched, {}) /\ sched \in Schedulers /\ CurrentRuns(sched) /\ t \in sched.threads
      /\ t \in AllThreads /\ t \notin IdleThreads /\ p \in Priorities
  BY CallFacts, Constants DEF ChangeThreadPriority, Calling, Exists
<1> DEFINE a == [sched EXCEPT !.ready[sched.prio[t]] = Seqs!RemoveFirst(@, t)]
           b == [a EXCEPT !.prio[t] = p]
           status == IF "running" \in sched.status[t] THEN (sched.status[t] \ {"running"}) \cup {"ready"}
                     ELSE sched.status[t]
           c == [b EXCEPT !.status[t] = status]
<1>1. InStep(a, {t})
  BY <1>0, TakenAlone
<1>2. a \in Schedulers /\ Untouched(sched, a, t) /\ a.status = sched.status
  BY <1>0, <1>1 DEF InStep, Schedulers, Untouched
<1>3. /\ sched' = IF Has(c, t, "ready") THEN [c EXCEPT !.ready[p] = Append(@, t)] ELSE c
  <2>1. b.status[t] = sched.status[t]
    BY <1>0
  <2> QED
    BY <2>1 DEF ChangeThreadPriority
<1>4. /\ status \in SUBSET Flags
      /\ status = {"ready"} \/ status \cap {"ready", "running"} = {}
      /\ sched.status[t] \in {{"ready"}, {"running"}} => status = {"ready"}
  BY <1>0, OneStatus DEF Schedulers, Flags
<1> HIDE DEF a, status
<1>5. /\ c \in Schedulers /\ c.threads = a.threads /\ c.current = a.current /\ c.ready = a.ready
      /\ c.prio[t] = p /\ c.status[t] = status
      /\ \A u \in AllThreads \ {t} : c.status[u] = a.status[u] /\ c.prio[u] = a.prio[u]
  BY <1>0, <1>2, <1>4 DEF Schedulers
<1> HIDE DEF b, c
<1>6. InStep(c, {t}) /\ t \in c.threads
  <2>1. t \in {t}
    OBVIOUS
  <2>2. InStep(c, {t})
    BY <1>1, <1>5, <2>1, Reassigned
  <2> QED
    BY <1>0, <1>2, <1>5, <2>2 DEF Untouched
<1>7. CurrentRuns(c)
  <2>1. c.current = sched.current /\ sched.current \in AllThreads /\ sched.current # NoThread
        /\ sched.status[sched.current] \in {{"running"}, {"ready"}}
    BY <1>0, <1>2, <1>5 DEF CurrentRuns, Untouched, Schedulers
  <2>2. CASE t = sched.current
    BY <1>4, <1>5, <2>1, <2>2 DEF CurrentRuns
  <2>3. CASE t # sched.current
    BY <1>2, <1>5, <2>1, <2>3 DEF CurrentRuns
  <2> QED
    BY <2>2, <2>3
<1>8. CASE status = {"ready"}
  <2> DEFINE r == [c EXCEPT !.ready[c.prio[t]] = Append(@, t)]
  <2>1. sched' = r
    BY <1>3, <1>5, <1>8 DEF Has
  <2>2. InStep(r, {})
    BY <1>5, <1>6, <1>8, JoinedAlone
  <2>3. r.status = c.status /\ r.current = c.current
    BY <1>5 DEF Schedulers
  <2> QED
    BY <1>7, <2>1, <2>2, <2>3 DEF Continues, CurrentRuns
<1>9. CASE status \cap {"ready", "running"} = {}
  <2>1. sched' = c
    BY <1>3, <1>5, <1>9 DEF Has
  <2>2. InStep(c, {})
    BY <1>0, <1>5, <1>6, <1>9, SettledAlone
  <2> QED
    BY <1>7, <2>1, <2>2 DEF Continues
<1> QED
  BY <1>4, <1>8, <1>9

LEMMA ThreadCallStep ==
    ASSUME ThreadInv, NEW t \in Threads, ThreadCall(t)
    PROVE  Continues
<1>1. CASE CancelWakeupThread(t)
  BY <1>1, CallFacts DEF CancelWakeupThread, Calling, Continues
<1>2. CASE DeleteThread(t)
  BY <1>2, DeleteThreadStep DEF DeleteThread
<1> QED
  BY <1>1, <1>2, CreateThreadStep, StartThreadStep, TerminateThreadStep, DeleteThreadStep, ResumeStep,
     SuspendThreadStep, ResumeThreadStep, WaitThreadEndStep, ChangePriorityStep DEF ThreadCall

----------------------------------------------------------------------------
(* The calls that concern the calling thread itself.                       *)
OwnCall ==
    \/ ExitThread \/ ExitDeleteThread
    \/ DelayThread \/ SleepThread
    \/ SuspendDispatchThread
    \/ \E enabled \in BOOLEAN : ResumeDispatchThread(enabled)
    \/ \E p \in 0 .. UserPriorities - 1 : RotateThreadReadyQueue(p)

LEMMA ExitStep ==
    ASSUME ThreadInv, ~CarelessGuest, ExitThread \/ ExitDeleteThread
    PROVE  Continues
<1>1. current \in Threads /\ Exists(current) /\ CanSwitch(sched) /\ resched'
  BY CallFacts DEF ExitThread, ExitDeleteThread, OnThread, Leaving, Exists, CanSwitch, Reschedule
<1>2. CASE sched' = Stopped(current)
  <2>1. /\ InStep(Stopped(current), {}) /\ Stopped(current).inInterrupt = sched.inInterrupt
        /\ Stopped(current).dispatchEnabled = sched.dispatchEnabled
        /\ Stopped(current).interruptsEnabled = sched.interruptsEnabled
    BY <1>1, StoppedInStep
  <2> HIDE DEF Stopped
  <2> QED
    BY <1>1, <1>2, <2>1 DEF Continues, CanSwitch, IsDispatchEnabled
<1>3. CASE sched' = Deleted(current)
  <2>1. /\ InStep(Deleted(current), {}) /\ Deleted(current).inInterrupt = sched.inInterrupt
        /\ Deleted(current).dispatchEnabled = sched.dispatchEnabled
        /\ Deleted(current).interruptsEnabled = sched.interruptsEnabled
    BY <1>1, DeletedInStep
  <2> HIDE DEF Deleted
  <2> QED
    BY <1>1, <1>3, <2>1 DEF Continues, CanSwitch, IsDispatchEnabled
<1> QED
  BY <1>2, <1>3 DEF ExitThread, ExitDeleteThread

LEMMA OwnWaitStep ==
    ASSUME ThreadInv, DelayThread \/ SleepThread
    PROVE  Continues
<1>1. /\ InStep(sched, {}) /\ CurrentRuns(sched) /\ current \in sched.threads /\ current \in Threads
      /\ CanSwitch(sched)
  BY CallFacts DEF DelayThread, SleepThread, MayWait, OnThread, CanSwitch
<1>2. WaitingFor("delay", current, TRUE) \in Waits /\ WaitingFor("sleep", NoThread, FALSE) \in Waits
  BY <1>1, Constants DEF WaitingFor, Waits, WaitTypes
<1>3. \/ UNCHANGED sched
      \/ resched' /\ \E w \in Waits : sched' = WaitingCurThread(sched, w)
  BY <1>2 DEF DelayThread, SleepThread, Reschedule
<1>4. CASE UNCHANGED sched
  BY <1>1, <1>4 DEF Continues
<1>5. ASSUME NEW w \in Waits, sched' = WaitingCurThread(sched, w), resched' PROVE Continues
  BY <1>1, <1>5, WaitingInStep DEF Continues, CanSwitch, IsDispatchEnabled, current
<1> QED
  BY <1>3, <1>4, <1>5

LEMMA DispatchStep ==
    ASSUME ThreadInv, SuspendDispatchThread \/ \E enabled \in BOOLEAN : ResumeDispatchThread(enabled)
    PROVE  Continues
<1>1. InStep(sched, {}) /\ CurrentRuns(sched)
  BY CallFacts DEF SuspendDispatchThread, ResumeDispatchThread, OnThread
<1>2. PICK enabled \in BOOLEAN : sched' = [sched EXCEPT !.dispatchEnabled = enabled]
  BY DEF SuspendDispatchThread, ResumeDispatchThread
<1> QED
  BY <1>1, <1>2, FlagsInStep DEF Continues

LEMMA RotateStep ==
    ASSUME ThreadInv, ~CarelessGuest, NEW p \in 0 .. UserPriorities - 1, RotateThreadReadyQueue(p)
    PROVE  Continues
<1> DEFINE q == sched.ready[p]
<1>0. /\ InStep(sched, {}) /\ sched \in Schedulers /\ CurrentRuns(sched) /\ current \in sched.threads
      /\ p \in Priorities /\ q \in Seq(AllThreads) /\ NoDup(q) /\ sched.threads \subseteq AllThreads
  BY CallFacts, Constants DEF RotateThreadReadyQueue, Calling, InStep, Queued, Schedulers
<1>1. CASE UNCHANGED sched
  BY <1>0, <1>1 DEF Continues
<1>2. CASE /\ sched.prio[current] = p /\ Yielding
           /\ sched' = [sched EXCEPT !.ready[p] = Append(@, current),
                                     !.status[current] = (@ \ {"running"}) \cup {"ready"}]
  <2>1. sched.status[current] = {"running"}
    BY <1>0, <1>2, OneStatus DEF Yielding, Has
  <2>2. ({"running"} \ {"running"}) \cup {"ready"} = {"ready"} /\ {} \cup {current} = {current} /\ current \notin {}
    OBVIOUS
  <2>3. sched' = [sched EXCEPT !.ready[sched.prio[current]] = Append(sched.ready[sched.prio[current]], current),
                               !.status[current] = {"ready"}]
    BY <1>0, <1>2, <2>1, <2>2
  <2>4. InStep(sched, {current})
    BY <1>0, <2>1, ExemptAlone
  <2>5. InStep(sched', {})
    BY <1>0, <2>2, <2>3, <2>4, Joined
  <2>6. sched'.status[current] = {"ready"} /\ sched'.current = sched.current
    BY <1>0, <2>3 DEF Schedulers
  <2> QED
    BY <1>0, <2>5, <2>6 DEF Continues, CurrentRuns, current
<1>3. CASE q # << >> /\ sched' = [sched EXCEPT !.ready[p] = Append(Tail(@), Head(@))]
  <2> DEFINE n == Append(Tail(q), Head(q))
             r == [sched EXCEPT !.ready[p] = n]
  <2>1. /\ Head(q) \in Entries(q) /\ Head(q) \in AllThreads /\ Tail(q) \in Seq(AllThreads) /\ NoDup(Tail(q))
        /\ Entries(Tail(q)) = Entries(q) \ {Head(q)}
    BY <1>0, <1>3, TailEntries
  <2>2. n \in Seq(AllThreads) /\ NoDup(n) /\ Entries(n) = Entries(q)
    <3> DEFINE h == Head(q)
               l == Tail(q)
    <3>1. /\ h \in AllThreads /\ l \in Seq(AllThreads) /\ NoDup(l) /\ h \notin Entries(l)
          /\ Entries(l) \cup {h} = Entries(q)
      BY <2>1
    <3> HIDE DEF h, l
    <3>2. /\ Append(l, h) \in Seq(AllThreads) /\ NoDup(Append(l, h))
          /\ Entries(Append(l, h)) = Entries(l) \cup {h}
      BY <3>1, AppendEntries
    <3> QED
      BY <3>1, <3>2 DEF h, l
  <2>3. sched' = r
    BY <1>3
  <2> HIDE DEF n
  <2>4. /\ r \in Schedulers /\ r.threads = sched.threads /\ r.current = sched.current
        /\ r.status = sched.status /\ r.prio = sched.prio
        /\ r.ready[p] = n /\ \A o \in Priorities \ {p} : r.ready[o] = sched.ready[o]
    BY <1>0, <2>2 DEF Schedulers
  <2> HIDE DEF r
  <2>5. \A o \in Priorities : Entries(r.ready[o]) = Entries(sched.ready[o]) /\ NoDup(r.ready[o])
    BY <1>0, <2>2, <2>4 DEF InStep, Queued
  <2>6. \A u \in sched.threads : sched.prio[u] \in Priorities
    BY <1>0 DEF Schedulers
  <2>7. Queued(r, {}) /\ Listed(r, {}) /\ IdleAwake(r, {})
    BY <1>0, <2>4, <2>5, <2>6 DEF InStep, Queued, Listed, IdleAwake, Has
  <2>8. InStep(r, {})
    BY <1>0, <2>4, <2>7 DEF InStep
  <2> QED
    BY <1>0, <2>3, <2>4, <2>8 DEF Continues, CurrentRuns
<1> QED
  BY <1>1, <1>2, <1>3 DEF RotateThreadReadyQueue

LEMMA OwnCallStep ==
    ASSUME ThreadInv, ~CarelessGuest, OwnCall
    PROVE  Continues
BY ExitStep, OwnWaitStep, DispatchStep, RotateStep DEF OwnCall

----------------------------------------------------------------------------
(* Events, and the scheduler's own steps.                                  *)
LEMMA SchedulingStep ==
    ASSUME ThreadInv, Event \/ Idle \/ FinishSyscall
    PROVE  Continues
<1>1. InStep(sched, {}) /\ (CurrentRuns(sched) \/ (resched /\ CanSwitch(sched)))
  BY DEF ThreadInv, SomeoneRuns
<1>2. CASE Idle
  BY <1>1, <1>2, ReScheduledInStep DEF Idle, Continues
<1>3. CASE FinishSyscall
  BY <1>1, <1>3, ReScheduledInStep DEF FinishSyscall, Continues
<1>4. ASSUME NEW t \in Threads, ScheduledWakeup(t) \/ ThreadEndTimeout(t)
      PROVE  Continues
  <2>1. sched' = sched \/ (t \in sched.threads /\ sched' \in ReScheduled(Resumed(sched, t)))
    BY <1>4 DEF ScheduledWakeup, ThreadEndTimeout, VerifyWait
  <2>2. resched' = resched
    BY <1>4 DEF ScheduledWakeup, ThreadEndTimeout
  <2>3. CASE sched' = sched
    BY <1>1, <2>2, <2>3 DEF Continues
  <2>4. CASE t \in sched.threads /\ sched' \in ReScheduled(Resumed(sched, t))
    <3> DEFINE u == Resumed(sched, t)
    <3>1. /\ InStep(u, {})
          /\ CurrentRuns(sched) => CurrentRuns(u)
          /\ CanSwitch(sched) => CanSwitch(u)
      BY <1>1, <2>4, ResumedInStep
    <3> HIDE DEF u
    <3>2. sched' \in ReScheduled(u)
      BY <2>4 DEF u
    <3>3. CurrentRuns(u) \/ CanSwitch(u)
      BY <1>1, <3>1
    <3> QED
      BY <3>1, <3>2, <3>3, ReScheduledInStep DEF Continues
  <2> QED
    BY <2>1, <2>3, <2>4
<1> QED
  BY <1>2, <1>3, <1>4 DEF Event

----------------------------------------------------------------------------
(* The lists of waiters and the counters.                                  *)
ThreadNext == (\E t \in Threads : ThreadCall(t)) \/ OwnCall \/ Event \/ Idle \/ FinishSyscall

LEMMA ListedOnceStep ==
    ASSUME ThreadInv, ThreadNext
    PROVE  ListedOnce'
<1>0. ListedOnce
  BY DEF ThreadInv
<1>1. CASE UNCHANGED waitingThreads
  BY <1>0, <1>1 DEF ListedOnce
<1>2. ASSUME NEW t, waitingThreads' = [waitingThreads EXCEPT ![t] = << >>]
      PROVE  ListedOnce'
  <2>1. << >> \in Seq(Threads)
    OBVIOUS
  <2> QED
    BY <1>0, <1>2, <2>1, NoEntry DEF ListedOnce
<1>3. ASSUME NEW t \in Threads, current \in Threads,
             waitingThreads' = [waitingThreads EXCEPT ![t] =
                                    IF current \in Seqs!ToSet(@) THEN @ ELSE Append(@, current)]
      PROVE  ListedOnce'
  <2> DEFINE q == waitingThreads[t]
             n == IF current \in Seqs!ToSet(q) THEN q ELSE Append(q, current)
  <2>1. t \in AllThreads /\ q \in Seq(Threads) /\ NoDup(q) /\ Seqs!ToSet(q) = Entries(q)
    BY <1>0, Constants DEF ListedOnce, Entries, Seqs!ToSet
  <2>2. n \in Seq(Threads) /\ NoDup(n)
    BY <1>3, <2>1, AppendEntries
  <2>3. waitingThreads' = [waitingThreads EXCEPT ![t] = n]
    BY <1>3
  <2> HIDE DEF n
  <2> QED
    BY <1>0, <2>1, <2>2, <2>3 DEF ListedOnce
<1>4. ASSUME NEW t, StopTimers(t) PROVE ListedOnce'
  BY <1>2, <1>4 DEF StopTimers
<1>5. ASSUME NEW t \in Threads, ThreadCall(t) PROVE ListedOnce'
  <2>1. CASE \E timed \in BOOLEAN : WaitThreadEnd(t, timed)
    BY <1>3, <2>1 DEF WaitThreadEnd, MayWait, OnThread
  <2>2. CASE TerminateThread(t) \/ TerminateDeleteThread(t) \/ DeleteThread(t)
    BY <1>4, <2>2 DEF TerminateThread, TerminateDeleteThread, DeleteThread
  <2> QED
    BY <1>1, <1>5, <2>1, <2>2 DEF ThreadCall, CreateThread, StartThread, WakeupThread, CancelWakeupThread,
        ReleaseWaitThread, SuspendThread, ResumeThread, ChangeThreadPriority
<1>6. CASE OwnCall
  BY <1>1, <1>4, <1>6 DEF OwnCall, ExitThread, ExitDeleteThread, DelayThread, SleepThread,
        SuspendDispatchThread, ResumeDispatchThread, RotateThreadReadyQueue
<1>7. CASE Event \/ Idle \/ FinishSyscall
  BY <1>1, <1>7 DEF Event, ScheduledWakeup, ThreadEndTimeout, Idle, FinishSyscall
<1> QED
  BY <1>5, <1>6, <1>7 DEF ThreadNext

LEMMA CountedStep ==
    ASSUME ThreadInv, ThreadNext
    PROVE  Counted'
<1> DEFINE same == wakeupCount' = wakeupCount /\ wakeups' = wakeups /\ endTimeouts' = endTimeouts
<1>0. /\ wakeupCount \in [Threads -> Nat] /\ wakeups \in [Threads -> Nat] /\ endTimeouts \in [Threads -> Nat]
      /\ (~resched => current \in sched.threads)
  BY CallFacts DEF ThreadInv, Counted
<1>1. CASE same
  BY <1>0, <1>1 DEF Counted
<1>2. ASSUME NEW t, StopTimers(t), UNCHANGED wakeupCount PROVE Counted'
  <2>1. /\ wakeups' = [wakeups EXCEPT ![t] = 0]
        /\ endTimeouts' = [w \in Threads |-> IF w = t \/ w \in Seqs!ToSet(EndWaiters(t)) THEN 0 ELSE endTimeouts[w]]
    BY <1>2 DEF StopTimers
  <2> QED
    BY <1>0, <1>2, <2>1 DEF Counted
<1>3. ASSUME NEW t, CreateThread(t) \/ CancelWakeupThread(t) PROVE Counted'
  <2>1. wakeupCount' = [wakeupCount EXCEPT ![t] = 0] /\ wakeups' = wakeups /\ endTimeouts' = endTimeouts
    BY <1>3 DEF CreateThread, CancelWakeupThread, timers
  <2> QED
    BY <1>0, <2>1 DEF Counted
<1>4. ASSUME NEW t, \/ StartThread(t) \/ ReleaseWaitThread(t) \/ SuspendThread(t) \/ ResumeThread(t)
                    \/ \E p \in 0 .. UserPriorities - 1 : ChangeThreadPriority(t, p)
      PROVE  same
  BY <1>4 DEF StartThread, ReleaseWaitThread, SuspendThread, ResumeThread, ChangeThreadPriority, timers
<1>5. ASSUME NEW t, TerminateThread(t) \/ TerminateDeleteThread(t) \/ DeleteThread(t)
      PROVE  StopTimers(t) /\ UNCHANGED wakeupCount
  BY <1>5 DEF TerminateThread, TerminateDeleteThread, DeleteThread
<1>6. ASSUME NEW t, WakeupThread(t) PROVE Counted'
  <2>1. wakeupCount' \in {wakeupCount, [wakeupCount EXCEPT ![t] = @ + 1]} /\ wakeups' = wakeups /\ endTimeouts' = endTimeouts
    BY <1>6 DEF WakeupThread, timers
  <2> QED
    BY <1>0, <2>1 DEF Counted
<1>7. ASSUME NEW t, NEW timed \in BOOLEAN, WaitThreadEnd(t, timed) PROVE Counted'
  <2>1. wakeupCount' = wakeupCount /\ wakeups' = wakeups
        /\ endTimeouts' \in {endTimeouts, [endTimeouts EXCEPT ![current] = @ + 1]}
    BY <1>7 DEF WaitThreadEnd
  <2> QED
    BY <1>0, <2>1 DEF Counted
<1>8. CASE \E t \in Threads : ThreadCall(t)
  BY <1>1, <1>2, <1>3, <1>4, <1>5, <1>6, <1>7, <1>8 DEF ThreadCall
<1>9. CASE OwnCall
  <2>1. CASE ExitThread \/ ExitDeleteThread
    BY <1>2, <2>1 DEF ExitThread, ExitDeleteThread
  <2>2. CASE DelayThread
    <3>1. wakeupCount' = wakeupCount /\ wakeups' \in {wakeups, [wakeups EXCEPT ![current] = @ + 1]} /\ endTimeouts' = endTimeouts
      BY <2>2 DEF DelayThread
    <3> QED
      BY <1>0, <3>1 DEF Counted
  <2>3. CASE SleepThread
    <3>1. \/ wakeupCount' = wakeupCount
          \/ wakeupCount[current] > 0 /\ wakeupCount' = [wakeupCount EXCEPT ![current] = @ - 1]
      BY <2>3 DEF SleepThread
    <3>2. current \in Threads /\ wakeups' = wakeups /\ endTimeouts' = endTimeouts
      BY <2>3 DEF SleepThread, MayWait, OnThread, timers
    <3>3. wakeupCount' \in [Threads -> Nat]
      BY <1>0, <3>1, <3>2
    <3> QED
      BY <1>0, <3>2, <3>3 DEF Counted
  <2>4. CASE \/ SuspendDispatchThread
             \/ \E enabled \in BOOLEAN : ResumeDispatchThread(enabled)
             \/ \E p \in 0 .. UserPriorities - 1 : RotateThreadReadyQueue(p)
    <3>1. same
      BY <2>4 DEF SuspendDispatchThread, ResumeDispatchThread, RotateThreadReadyQueue, timers
    <3> QED
      BY <1>1, <3>1
  <2> QED
    BY <1>9, <2>1, <2>2, <2>3, <2>4 DEF OwnCall
<1>10. ASSUME NEW t \in Threads, ScheduledWakeup(t) PROVE Counted'
  <2>1. wakeups[t] > 0 /\ wakeups' = [wakeups EXCEPT ![t] = @ - 1] /\ wakeupCount' = wakeupCount /\ endTimeouts' = endTimeouts
    BY <1>10 DEF ScheduledWakeup
  <2>2. wakeups' \in [Threads -> Nat]
    BY <1>0, <2>1
  <2> QED
    BY <1>0, <2>1, <2>2 DEF Counted
<1>11. ASSUME NEW t \in Threads, ThreadEndTimeout(t) PROVE Counted'
  <2>1. endTimeouts[t] > 0 /\ endTimeouts' = [endTimeouts EXCEPT ![t] = @ - 1] /\ wakeupCount' = wakeupCount /\ wakeups' = wakeups
    BY <1>11 DEF ThreadEndTimeout
  <2>2. endTimeouts' \in [Threads -> Nat]
    BY <1>0, <2>1
  <2> QED
    BY <1>0, <2>1, <2>2 DEF Counted
<1>12. CASE Idle \/ FinishSyscall
  <2>1. same
    BY <1>12 DEF Idle, FinishSyscall, timers
  <2> QED
    BY <1>1, <2>1
<1> QED
  BY <1>8, <1>9, <1>10, <1>11, <1>12 DEF ThreadNext, Event

LEMMA RequestedStep ==
    ASSUME ThreadInv, ThreadNext
    PROVE  resched' \in BOOLEAN
<1>0. resched \in BOOLEAN
  BY DEF ThreadInv
<1>1. ASSUME NEW t, StartThread(t) PROVE resched' \in BOOLEAN
  <2> DEFINE reset == [sched EXCEPT !.prio[t] = IF @ < sched.prio[current] THEN InitialPriority[t] ELSE @,
                                    !.wait[t] = NotWaiting]
  <2>1. resched' = (reset.prio[t] < reset.prio[current])
    BY <1>1 DEF StartThread
  <2> HIDE DEF reset
  <2> QED
    BY <2>1
<1>2. CASE \E t \in Threads : ThreadCall(t)
  <2>1. PICK t \in Threads : ThreadCall(t)
    BY <1>2
  <2>2. resched' = TRUE \/ resched' = resched \/ StartThread(t)
    BY <2>1 DEF ThreadCall, CreateThread, TerminateThread, TerminateDeleteThread, DeleteThread, WakeupThread,
        CancelWakeupThread, ReleaseWaitThread, SuspendThread, ResumeThread, WaitThreadEnd,
        ChangeThreadPriority, Reschedule, NoReschedule
  <2> QED
    BY <1>0, <1>1, <2>2
<1>3. CASE OwnCall
  <2>1. resched' = TRUE \/ resched' = resched
    BY <1>3 DEF OwnCall, ExitThread, ExitDeleteThread, DelayThread, SleepThread, SuspendDispatchThread,
        ResumeDispatchThread, RotateThreadReadyQueue, Reschedule, NoReschedule
  <2> QED
    BY <1>0, <2>1
<1>4. CASE Event \/ Idle \/ FinishSyscall
  <2>1. resched' = FALSE \/ resched' = resched
    BY <1>4 DEF Event, ScheduledWakeup, ThreadEndTimeout, Idle, FinishSyscall
  <2> QED
    BY <1>0, <2>1
<1> QED
  BY <1>2, <1>3, <1>4 DEF ThreadNext

LEMMA ThreadStepInv ==
    ASSUME ThreadInv, ~CarelessGuest, ThreadNext
    PROVE  ThreadInv'
<1>1. Continues
  BY ThreadCallStep, OwnCallStep, SchedulingStep DEF ThreadNext
<1> QED
  BY <1>1, CountedStep, ListedOnceStep, RequestedStep DEF Continues, ThreadInv, SomeoneRuns

----------------------------------------------------------------------------
LEMMA SpecInv ==
    ASSUME ~CarelessGuest
    PROVE  Spec => []ThreadInv
<1>1. ThreadInv /\ [Next]_vars => ThreadInv'
  <2> SUFFICES ASSUME ThreadInv, [Next]_vars PROVE ThreadInv'
    OBVIOUS
  <2>1. CASE Next
    BY <2>1, ThreadStepInv DEF Next, Syscall, OwnCall, ThreadNext
  <2>2. CASE UNCHANGED vars
    BY <2>2 DEF vars, timers, ThreadInv, SomeoneRuns, Counted, ListedOnce
  <2> QED
    BY <2>1, <2>2
<1> QED
  BY <1>1, InitialInv, PTL DEF Spec

(* The state keeps its types: no wakeup is taken that was not stored, and  *)
(* no list names what is not a thread.                                     *)
THEOREM TypeTheorem ==
    ASSUME ~CarelessGuest
    PROVE  Spec => []TypeOK
BY SpecInv, InvImpliesTypeOK, PTL

(* Every entry of a ready queue is a thread that exists, is ready and has  *)
(* the priority of the queue, and no thread is queued twice: whatever      *)
(* stops, suspends, prioritises or deletes threads takes them out.         *)
THEOREM ReadyListTheorem ==
    ASSUME ~CarelessGuest
    PROVE  Spec => []ReadyListSound
BY SpecInv, InvImpliesReadyListSound, PTL

----------------------------------------------------------------------------
(* Waits                                                                   *)

(* As much of the type as these proofs need.                               *)
IsTable(s) ==
    /\ s = [f \in {"threads", "current", "status", "prio", "wait", "ready",
                   "dispatchEnabled", "interruptsEnabled", "inInterrupt"} |-> s[f]]
    /\ s.status = [t \in AllThreads |-> s.status[t]]
    /\ s.wait = [t \in AllThreads |-> s.wait[t]]

(* From s to r, no thread outside of X is deleted, resumed, stopped or     *)
(* made to wait.                                                           *)
Undisturbed(s, r, X) ==
    /\ IsTable(r)
    /\ s.threads \ X \subseteq r.threads
    /\ \A t \in AllThreads \ X :
        /\ Has(s, t, "suspend") => Has(r, t, "suspend")
        /\ Has(r, t, "wait") => Has(s, t, "wait") /\ r.wait[t] = s.wait[t]
        /\ Has(r, t, "dormant") => Has(s, t, "dormant") /\ r.status[t] \subseteq s.status[t]

LEMMA SchedulerIsTable ==
    ASSUME NEW s \in Schedulers
    PROVE  IsTable(s)
BY DEF Schedulers, IsTable

LEMMA UndisturbedTwice ==
    ASSUME NEW s, NEW u, NEW r, NEW X, Undisturbed(s, u, X), Undisturbed(u, r, X)
    PROVE  Undisturbed(s, r, X)
BY DEF Undisturbed

LEMMA UndisturbedMore ==
    ASSUME NEW s, NEW r, NEW X, Undisturbed(s, r, {})
    PROVE  Undisturbed(s, r, X)
BY DEF Undisturbed

LEMMA NothingDisturbed ==
    ASSUME NEW s, IsTable(s)
    PROVE  Undisturbed(s, s, {})
BY DEF Undisturbed

(* A change of the status of the thread t alone.                           *)
LEMMA StatusUndisturbed ==
    ASSUME NEW s, IsTable(s), NEW r, IsTable(r), NEW t \in AllThreads, s.threads \subseteq r.threads,
           r.wait = s.wait, NEW status, r.status = [s.status EXCEPT ![t] = status],
           /\ "suspend" \in s.status[t] => "suspend" \in status
           /\ "wait" \in status => "wait" \in s.status[t]
           /\ "dormant" \in status => "dormant" \in s.status[t] /\ status \subseteq s.status[t]
    PROVE  Undisturbed(s, r, {})
<1>1. r.status[t] = status /\ \A u \in AllThreads \ {t} : r.status[u] = s.status[u]
  BY DEF IsTable
<1> QED
  BY <1>1 DEF Undisturbed, Has

----------------------------------------------------------------------------
(* The steps system calls are composed of.                                 *)
LEMMA MadeReadyUndisturbed ==
    ASSUME NEW s, IsTable(s), NEW t \in AllThreads, ~Has(s, t, "suspend")
    PROVE  /\ Undisturbed(s, MadeReady(s, t), {})
           /\ MadeReady(s, t).wait = s.wait /\ MadeReady(s, t).threads = s.threads
           /\ \A u \in AllThreads \ {t} : MadeReady(s, t).status[u] = s.status[u]
<1>1. CASE Has(s, t, "ready")
  BY <1>1, NothingDisturbed DEF MadeReady
<1>2. CASE ~Has(s, t, "ready")
  <2>1. PICK q : MadeReady(s, t) = [s EXCEPT !.ready[s.prio[t]] = q, !.status[t] = {"ready"}]
    BY <1>2 DEF MadeReady
  <2> DEFINE r == [s EXCEPT !.ready[s.prio[t]] = q, !.status[t] = {"ready"}]
  <2>2. IsTable(r) /\ r.threads = s.threads /\ r.wait = s.wait /\ r.status = [s.status EXCEPT ![t] = {"ready"}]
    BY DEF IsTable
  <2> HIDE DEF r
  <2>3. Undisturbed(s, r, {})
    BY <2>2, StatusUndisturbed DEF Has
  <2>4. \A u \in AllThreads \ {t} : r.status[u] = s.status[u]
    BY <2>2 DEF IsTable
  <2> QED
    BY <2>1, <2>2, <2>3, <2>4 DEF r
<1> QED
  BY <1>1, <1>2

LEMMA MadeUnreadyUndisturbed ==
    ASSUME NEW s, IsTable(s), NEW t \in AllThreads
    PROVE  LET r == MadeUnready(s, t) IN
           IsTable(r) /\ r.status = s.status /\ r.wait = s.wait /\ r.threads = s.threads
BY DEF MadeUnready, IsTable

LEMMA ResumedUndisturbed ==
    ASSUME NEW s, IsTable(s), NEW t \in AllThreads
    PROVE  Undisturbed(s, Resumed(s, t), {})
<1> DEFINE w == [s EXCEPT !.status[t] = @ \ {"wait"}]
<1>1. /\ IsTable(w) /\ w.threads = s.threads /\ w.wait = s.wait
      /\ w.status = [s.status EXCEPT ![t] = s.status[t] \ {"wait"}]
  BY DEF IsTable
<1>2. \/ Resumed(s, t) = w
      \/ Resumed(s, t) = MadeReady(w, t) /\ w.status[t] \cap {"suspend", "dormant"} = {}
  BY DEF Resumed
<1> HIDE DEF w
<1>3. Undisturbed(s, w, {})
  BY <1>1, StatusUndisturbed
<1>4. CASE Resumed(s, t) = w
  BY <1>3, <1>4
<1>5. CASE Resumed(s, t) = MadeReady(w, t) /\ w.status[t] \cap {"suspend", "dormant"} = {}
  <2>1. Undisturbed(w, MadeReady(w, t), {})
    BY <1>1, <1>5, MadeReadyUndisturbed DEF Has
  <2> QED
    BY <1>3, <1>5, <2>1, UndisturbedTwice
<1> QED
  BY <1>2, <1>4, <1>5

LEMMA ResumedAllUndisturbed ==
    ASSUME NEW s, IsTable(s), NEW q
    PROVE  /\ Undisturbed(s, ResumedAll(s, q), {})
           /\ ResumedAll(s, q).wait = s.wait /\ ResumedAll(s, q).threads = s.threads
           /\ \A t \in AllThreads \cap Seqs!ToSet(q) : ~Has(ResumedAll(s, q), t, "wait")
<1> DEFINE in == Seqs!ToSet(q)
           free == {t \in in : s.status[t] \ {"wait"} = {}}
           status == [t \in AllThreads |->
                        IF t \in free THEN {"ready"}
                        ELSE IF t \in in THEN s.status[t] \ {"wait"} ELSE s.status[t]]
           r == ResumedAll(s, q)
<1>1. r.status = status /\ r.wait = s.wait /\ r.threads = s.threads /\ IsTable(r)
  BY DEF ResumedAll, IsTable
<1> HIDE DEF r, in
<1>2. \A t \in AllThreads : r.status[t] \in {s.status[t], s.status[t] \ {"wait"}, {"ready"}}
  BY <1>1
<1>3. \A t \in AllThreads : /\ Has(s, t, "suspend") => Has(r, t, "suspend")
                            /\ Has(r, t, "wait") => Has(s, t, "wait")
                            /\ Has(r, t, "dormant") => Has(s, t, "dormant") /\ r.status[t] \subseteq s.status[t]
  BY <1>1 DEF Has
<1>4. \A t \in AllThreads \cap in : ~Has(r, t, "wait")
  BY <1>1 DEF Has
<1>5. Undisturbed(s, r, {})
  BY <1>1, <1>3 DEF Undisturbed
<1> QED
  BY <1>1, <1>4, <1>5 DEF r, in

(* The thread that is switched to does not wait; the one that is switched  *)
(* off runs, and is nothing else.                                          *)
LEMMA SwitchContextUndisturbed ==
    ASSUME NEW s, IsTable(s), NEW t \in AllThreads, s.status[t] = {"ready"},
           s.current # NoThread /\ Has(s, s.current, "running")
                => s.current \in AllThreads /\ s.status[s.current] = {"running"}
    PROVE  Undisturbed(s, SwitchContext(s, t), {})
<1> DEFINE a == SwitchedOff(s)
           b == MadeUnready(a, t)
           r == [b EXCEPT !.current = t, !.status[t] = (@ \cup {"running"}) \ {"ready"}, !.wait[t] = NotWaiting]
<1>1. Undisturbed(s, a, {}) /\ a.status[t] = {"ready"}
  <2>1. CASE s.current # NoThread /\ Has(s, s.current, "running")
    <3>1. a = MadeReady(s, s.current) /\ ~Has(s, s.current, "suspend") /\ s.current # t
      BY <2>1 DEF SwitchedOff, Has
    <3> HIDE DEF a
    <3> QED
      BY <2>1, <3>1, MadeReadyUndisturbed
  <2>2. CASE ~(s.current # NoThread /\ Has(s, s.current, "running"))
    BY <2>2, NothingDisturbed DEF SwitchedOff
  <2> QED
    BY <2>1, <2>2
<1>2. SwitchContext(s, t) = r
  BY DEF SwitchContext
<1> HIDE DEF a
<1>3. IsTable(b) /\ b.status = a.status /\ b.wait = a.wait /\ b.threads = a.threads
  BY <1>1, MadeUnreadyUndisturbed DEF Undisturbed
<1> HIDE DEF b
<1>4. /\ IsTable(r) /\ r.threads = b.threads /\ r.status[t] = {"running"}
      /\ \A u \in AllThreads \ {t} : r.status[u] = b.status[u] /\ r.wait[u] = b.wait[u]
  BY <1>1, <1>3 DEF IsTable
<1> HIDE DEF r
<1>5. Undisturbed(a, r, {})
  BY <1>1, <1>3, <1>4 DEF Undisturbed, Has
<1> QED
  BY <1>1, <1>2, <1>5, UndisturbedTwice

LEMMA ReScheduledUndisturbed ==
    ASSUME NEW s, InStep(s, {}), NEW r \in ReScheduled(s)
    PROVE  Undisturbed(s, r, {})
<1>0. s \in Schedulers /\ IsTable(s) /\ s.threads \subseteq AllThreads
  BY SchedulerIsTable DEF InStep, Schedulers
<1>1. CASE r = s
  BY <1>0, <1>1, NothingDisturbed
<1>2. CASE r # s
  <2>1. PICK p \in BestQueue(s) : r = SwitchContext([s EXCEPT !.ready[p] = Tail(@)], Head(s.ready[p]))
    BY <1>2 DEF ReScheduled
  <2> DEFINE t == Head(s.ready[p])
             u == [s EXCEPT !.ready[p] = Tail(@)]
  <2>2. p \in Priorities /\ s.ready[p] # << >> /\ s.ready[p] \in Seq(AllThreads) /\ NoDup(s.ready[p])
    BY <1>0 DEF BestQueue, InStep, Schedulers, Queued
  <2>3. t \in Entries(s.ready[p])
    BY <2>2, TailEntries
  <2>4. t \in AllThreads /\ s.status[t] = {"ready"}
    BY <1>0, <2>2, <2>3 DEF InStep, Queued
  <2>5. /\ IsTable(u) /\ u.threads = s.threads /\ u.current = s.current
        /\ u.status = s.status /\ u.wait = s.wait
    BY <1>0 DEF IsTable
  <2>6. s.current # NoThread /\ Has(s, s.current, "running")
            => s.current \in AllThreads /\ s.status[s.current] = {"running"}
    BY <1>0 DEF InStep, Listed
  <2>7. r = SwitchContext(u, t)
    BY <2>1
  <2> HIDE DEF t, u
  <2>8. Undisturbed(u, r, {})
    BY <2>4, <2>5, <2>6, <2>7, SwitchContextUndisturbed DEF Has
  <2> QED
    BY <2>5, <2>8 DEF Undisturbed, Has
<1> QED
  BY <1>1, <1>2

----------------------------------------------------------------------------
(* The invariant: only threads that exist wait, they are listed, and one   *)
(* that has ended is neither suspended nor anything else.                  *)
WaitsInStep ==
    /\ \A t \in AllThreads : Has(sched, t, "wait") => Exists(t)
    /\ \A t \in AllThreads : Has(sched, t, "dormant") => sched.status[t] = {"dormant"}
    /\ \A t \in AllThreads : Has(sched, t, "wait") /\ sched.wait[t].type = "threadend" => sched.wait[t].id \in Threads
    /\ WaitersAreListed

(* What a step must establish.                                             *)
SuspendedStay ==
    \A t \in Threads : Has(sched, t, "suspend") =>
        Has(sched', t, "suspend") \/ Has(sched', t, "dormant") \/ ResumeThread(t)

WaitCall == DelayThread \/ SleepThread \/ \E t \in Threads : \E timed \in BOOLEAN : WaitThreadEnd(t, timed)

NoNewWait ==
    \A t \in AllThreads : Has(sched', t, "wait") => Has(sched, t, "wait") /\ sched'.wait[t] = sched.wait[t]

WaitsContinue == WaitsInStep' /\ SuspendedStay /\ (WaitCall \/ NoNewWait)

LEMMA TableFacts ==
    ASSUME ThreadInv
    PROVE  IsTable(sched) /\ sched \in Schedulers /\ sched.threads \subseteq AllThreads
BY SchedulerIsTable DEF ThreadInv, InStep, Schedulers

LEMMA UndisturbedContinues ==
    ASSUME WaitsInStep, Undisturbed(sched, sched', {}), UNCHANGED waitingThreads
    PROVE  WaitsContinue
<1>1. Threads \subseteq AllThreads
  BY Constants
<1>2. WaitersAreListed'
  <2> SUFFICES ASSUME NEW t \in Threads, NEW u \in Threads, IsWaitingFor(sched', t, "threadend", u)
               PROVE  u \in sched'.threads /\ ~Has(sched', u, "dormant") /\ t \in Seqs!ToSet(waitingThreads[u])
    BY DEF WaitersAreListed, Exists, Dormant
  <2>1. IsWaitingFor(sched, t, "threadend", u)
    BY <1>1 DEF Undisturbed, IsWaitingFor
  <2>2. Exists(u) /\ ~Dormant(u) /\ t \in Seqs!ToSet(waitingThreads[u])
    BY <2>1 DEF WaitsInStep, WaitersAreListed
  <2> QED
    BY <1>1, <2>2 DEF Undisturbed, Exists, Dormant
<1>3. \A t \in AllThreads : Has(sched', t, "wait") => t \in sched'.threads
  BY DEF WaitsInStep, Undisturbed, Exists
<1>4. SuspendedStay
  BY <1>1 DEF SuspendedStay, Undisturbed
<1>5. \A t \in AllThreads : Has(sched', t, "dormant") => sched'.status[t] = {"dormant"}
  BY DEF WaitsInStep, Undisturbed, Has
<1>6. NoNewWait
  BY DEF NoNewWait, Undisturbed
<1> QED
  BY <1>2, <1>3, <1>4, <1>5, <1>6 DEF WaitsContinue, WaitsInStep, Exists, NoNewWait

----------------------------------------------------------------------------
(* A thread ends: those that wait for it are resumed.                      *)
LEMMA StoppedUndisturbed ==
    ASSUME ThreadInv, NEW t \in Threads, Exists(t)
    PROVE  LET r == Stopped(t) IN
           /\ Undisturbed(sched, r, {t}) /\ r.threads = sched.threads
           /\ r.status[t] = {"dormant"}
           /\ \A w \in AllThreads \cap Seqs!ToSet(EndWaiters(t)) : ~Has(r, w, "wait")
<1> DEFINE u == MadeUnready(sched, t)
           d == [u EXCEPT !.status[t] = {"dormant"}]
           a == ResumedAll(d, EndWaiters(t))
           r == [a EXCEPT !.wait[t] = NotWaiting]
<1>0. IsTable(sched) /\ t \in AllThreads
  BY TableFacts, Constants
<1>1. IsTable(u) /\ u.status = sched.status /\ u.wait = sched.wait /\ u.threads = sched.threads
  BY <1>0, MadeUnreadyUndisturbed
<1>2. Stopped(t) = r
  BY DEF Stopped
<1> HIDE DEF u
<1>3. /\ IsTable(d) /\ d.threads = sched.threads /\ d.wait = sched.wait
      /\ \A w \in AllThreads \ {t} : d.status[w] = sched.status[w]
  BY <1>0, <1>1 DEF IsTable
<1> HIDE DEF d
<1>4. /\ Undisturbed(d, a, {}) /\ a.wait = d.wait /\ a.threads = d.threads
      /\ \A w \in AllThreads \cap Seqs!ToSet(EndWaiters(t)) : ~Has(a, w, "wait")
  BY <1>3, ResumedAllUndisturbed
<1> HIDE DEF a
<1>5. /\ IsTable(r) /\ r.status = a.status /\ r.threads = a.threads
      /\ \A w \in AllThreads \ {t} : r.wait[w] = a.wait[w]
  BY <1>0, <1>4 DEF Undisturbed, IsTable
<1>6. r.status[t] = {"dormant"}
  BY <1>2, StoppedInStep
<1> HIDE DEF r
<1>7. Undisturbed(sched, r, {t})
  BY <1>3, <1>4, <1>5 DEF Undisturbed, Has
<1> QED
  BY <1>2, <1>3, <1>4, <1>5, <1>6, <1>7 DEF Has

LEMMA StoppingContinues ==
    ASSUME ThreadInv, WaitsInStep, NEW t \in Threads, Exists(t), StopTimers(t),
           \/ sched' = Stopped(t)
           \/ sched' = [Stopped(t) EXCEPT !.prio[t] = InitialPriority[t]]
           \/ sched' = Deleted(t)
    PROVE  WaitsContinue
<1> DEFINE a == Stopped(t)
<1>0. t \in AllThreads /\ Threads \subseteq AllThreads /\ sched.threads \subseteq AllThreads
  BY TableFacts, Constants
<1>1. /\ Undisturbed(sched, a, {t}) /\ a.threads = sched.threads /\ a.status[t] = {"dormant"}
      /\ \A w \in AllThreads \cap Seqs!ToSet(EndWaiters(t)) : ~Has(a, w, "wait")
  BY StoppedUndisturbed
<1>2. /\ sched'.status = a.status /\ sched'.wait = a.wait
      /\ sched.threads \ {t} \subseteq sched'.threads
  <2>1. ASSUME sched' = [a EXCEPT !.prio[t] = InitialPriority[t]]
        PROVE  sched'.status = a.status /\ sched'.wait = a.wait /\ sched'.threads = a.threads
    BY <1>1, <2>1 DEF Undisturbed, IsTable
  <2>2. ASSUME sched' = Deleted(t)
        PROVE  sched'.status = a.status /\ sched'.wait = a.wait /\ sched'.threads = a.threads \ {t}
    <3>1. PICK q : sched' = [a EXCEPT !.ready[sched.prio[t]] = q, !.threads = @ \ {t},
                                      !.current = IF @ = t THEN NoThread ELSE @]
      BY <2>2 DEF Deleted
    <3> HIDE DEF a
    <3> QED
      BY <1>1, <3>1 DEF Undisturbed, IsTable
  <2> QED
    BY <1>1, <2>1, <2>2
<1> HIDE DEF a
<1>3. \A w \in AllThreads : Has(sched', w, "wait") => w \in sched.threads \ {t}
  BY <1>1, <1>2 DEF WaitsInStep, Undisturbed, Has, Exists
<1>4. /\ waitingThreads' = [waitingThreads EXCEPT ![t] = << >>]
      /\ waitingThreads \in [AllThreads -> Seq(Threads)]
  BY DEF StopTimers, ThreadInv, ListedOnce
<1>5. WaitersAreListed'
  <2> SUFFICES ASSUME NEW w \in Threads, NEW u \in Threads, IsWaitingFor(sched', w, "threadend", u)
               PROVE  u \in sched'.threads /\ ~Has(sched', u, "dormant") /\ w \in Seqs!ToSet(waitingThreads'[u])
    BY DEF WaitersAreListed, Exists, Dormant
  <2>1. w \in sched.threads /\ w # t /\ Has(sched', w, "wait")
    BY <1>0, <1>3 DEF IsWaitingFor
  <2>2. IsWaitingFor(sched, w, "threadend", u)
    BY <1>0, <1>1, <1>2, <2>1 DEF IsWaitingFor, Undisturbed, Has
  <2>3. Exists(u) /\ ~Dormant(u) /\ w \in Seqs!ToSet(waitingThreads[u])
    BY <2>2 DEF WaitsInStep, WaitersAreListed
  <2>4. u # t
    <3> SUFFICES ASSUME u = t PROVE FALSE
      OBVIOUS
    <3> DEFINE S == {v \in Threads : VerifyWait(sched, v, "threadend", t)}
    <3>1. w \in S
      BY <2>1, <2>2 DEF VerifyWait, IsWaitingFor
    <3> HIDE DEF S
    <3>2. Entries(Selected(waitingThreads[t], S)) = Entries(waitingThreads[t]) \cap S
      BY <1>0, <1>4, SelectedEntries DEF ThreadInv, ListedOnce
    <3>3. w \in Seqs!ToSet(EndWaiters(t))
      BY <2>3, <3>1, <3>2 DEF EndWaiters, S, Entries, Seqs!ToSet
    <3> QED
      BY <1>0, <1>1, <1>2, <2>1, <3>3 DEF Has
  <2> QED
    BY <1>0, <1>1, <1>2, <1>4, <2>3, <2>4 DEF Undisturbed, Exists, Dormant, Has
<1>6. SuspendedStay
  BY <1>0, <1>1, <1>2 DEF SuspendedStay, Undisturbed, Has
<1>7. \A w \in AllThreads : Has(sched', w, "wait") => w \in sched'.threads
  BY <1>2, <1>3
<1>8. \A w \in AllThreads : Has(sched', w, "dormant") => sched'.status[w] = {"dormant"}
  BY <1>1, <1>2 DEF WaitsInStep, Undisturbed, Has
<1>9. NoNewWait
  BY <1>1, <1>2 DEF NoNewWait, Undisturbed, Has
<1> QED
  BY <1>5, <1>6, <1>7, <1>8, <1>9 DEF WaitsContinue, WaitsInStep, Exists, NoNewWait

----------------------------------------------------------------------------
(* The calls that make or start a thread, or change its priority.          *)
LEMMA CreateThreadContinues ==
    ASSUME ThreadInv, WaitsInStep, NEW t \in Threads, CreateThread(t)
    PROVE  WaitsContinue
<1>0. IsTable(sched) /\ t \in AllThreads /\ Threads \subseteq AllThreads
  BY TableFacts, Constants
<1>1. /\ sched'.threads = sched.threads \cup {t} /\ sched'.status[t] = {"dormant"}
      /\ \A u \in AllThreads \ {t} : sched'.status[u] = sched.status[u] /\ sched'.wait[u] = sched.wait[u]
  BY <1>0 DEF CreateThread, IsTable
<1>2. t \notin sched.threads /\ waitingThreads' = waitingThreads
  BY DEF CreateThread, Exists
<1>3. WaitersAreListed'
  <2> SUFFICES ASSUME NEW w \in Threads, NEW u \in Threads, IsWaitingFor(sched', w, "threadend", u)
               PROVE  u \in sched'.threads /\ ~Has(sched', u, "dormant") /\ w \in Seqs!ToSet(waitingThreads'[u])
    BY DEF WaitersAreListed, Exists, Dormant
  <2>1. w # t
    BY <1>1 DEF IsWaitingFor, Has
  <2>2. IsWaitingFor(sched, w, "threadend", u)
    BY <1>0, <1>1, <2>1 DEF IsWaitingFor, Has
  <2>3. Exists(u) /\ ~Dormant(u) /\ w \in Seqs!ToSet(waitingThreads[u])
    BY <2>2 DEF WaitsInStep, WaitersAreListed
  <2> QED
    BY <1>0, <1>1, <1>2, <2>3 DEF Exists, Dormant, Has
<1>4. \A w \in AllThreads : Has(sched', w, "wait") => w \in sched'.threads
  BY <1>1 DEF WaitsInStep, Exists, Has
<1>5. SuspendedStay
  BY <1>0, <1>1 DEF SuspendedStay, Has
<1>6. \A w \in AllThreads : Has(sched', w, "dormant") => sched'.status[w] = {"dormant"}
  BY <1>1 DEF WaitsInStep, Has
<1>7. NoNewWait
  BY <1>1 DEF NoNewWait, Has
<1> QED
  BY <1>3, <1>4, <1>5, <1>6, <1>7 DEF WaitsContinue, WaitsInStep, Exists, NoNewWait

LEMMA StartThreadContinues ==
    ASSUME ThreadInv, WaitsInStep, NEW t \in Threads, StartThread(t)
    PROVE  WaitsContinue
<1>0. /\ IsTable(sched) /\ t \in AllThreads /\ sched.status[t] = {"dormant"}
      /\ current \in AllThreads /\ sched.status[current] \in {{"running"}, {"ready"}}
  BY TableFacts, CallFacts, Constants DEF StartThread, OnThread, CurrentRuns, current
<1> DEFINE reset == [sched EXCEPT !.prio[t] = IF @ < sched.prio[current] THEN InitialPriority[t] ELSE @,
                                  !.wait[t] = NotWaiting]
           better == reset.prio[t] < reset.prio[current]
           u == IF better THEN MadeReady(reset, current) ELSE reset
           v == [u EXCEPT !.dispatchEnabled = TRUE]
<1>1. sched' = MadeReady(v, t)
  BY DEF StartThread
<1>2. /\ IsTable(reset) /\ reset.threads = sched.threads /\ reset.status = sched.status
      /\ \A w \in AllThreads \ {t} : reset.wait[w] = sched.wait[w]
  BY <1>0 DEF IsTable
<1> HIDE DEF reset, better
<1>3. Undisturbed(sched, reset, {})
  BY <1>0, <1>2 DEF Undisturbed, Has
<1>4. Undisturbed(reset, MadeReady(reset, current), {})
      /\ \A w \in AllThreads \ {current} : MadeReady(reset, current).status[w] = reset.status[w]
  <2>1. ~Has(reset, current, "suspend")
    BY <1>0, <1>2 DEF Has
  <2> QED
    BY <1>0, <1>2, <2>1, MadeReadyUndisturbed
<1>5. Undisturbed(reset, u, {}) /\ u.status[t] = {"dormant"}
  <2>1. t # current
    BY <1>0
  <2> QED
    BY <1>0, <1>2, <1>4, <2>1, NothingDisturbed
<1> HIDE DEF u
<1>6. Undisturbed(u, v, {}) /\ v.status = u.status /\ IsTable(v)
  BY <1>5 DEF Undisturbed, IsTable, Has
<1> HIDE DEF v
<1>7. Undisturbed(v, MadeReady(v, t), {})
  BY <1>0, <1>5, <1>6, MadeReadyUndisturbed DEF Has
<1>8. Undisturbed(sched, sched', {})
  BY <1>1, <1>3, <1>5, <1>6, <1>7, UndisturbedTwice
<1> QED
  BY <1>8, UndisturbedContinues DEF StartThread

LEMMA ChangePriorityContinues ==
    ASSUME ThreadInv, WaitsInStep, NEW t \in Threads, NEW p \in 0 .. UserPriorities - 1,
           ChangeThreadPriority(t, p)
    PROVE  WaitsContinue
<1>0. IsTable(sched) /\ t \in AllThreads /\ "dormant" \notin sched.status[t]
  BY TableFacts, Constants DEF ChangeThreadPriority, Dormant, Has
<1> DEFINE status == IF "running" \in sched.status[t] THEN (sched.status[t] \ {"running"}) \cup {"ready"}
                     ELSE sched.status[t]
<1>1. PICK q, q2 :
        LET taken == [sched EXCEPT !.ready[sched.prio[t]] = q, !.prio[t] = p]
            unrun == [taken EXCEPT !.status[t] = IF "running" \in @ THEN (@ \ {"running"}) \cup {"ready"} ELSE @]
        IN  sched' = unrun \/ sched' = [unrun EXCEPT !.ready[p] = q2]
  BY DEF ChangeThreadPriority
<1>2. /\ IsTable(sched') /\ sched'.threads = sched.threads /\ sched'.wait = sched.wait
      /\ sched'.status = [sched.status EXCEPT ![t] = status]
  <2> DEFINE taken == [sched EXCEPT !.ready[sched.prio[t]] = q, !.prio[t] = p]
             unrun == [taken EXCEPT !.status[t] = IF "running" \in @ THEN (@ \ {"running"}) \cup {"ready"} ELSE @]
             rest == [unrun EXCEPT !.ready[p] = q2]
  <2>1. IsTable(taken) /\ taken.threads = sched.threads /\ taken.wait = sched.wait /\ taken.status = sched.status
    BY <1>0 DEF IsTable
  <2>2. sched' = unrun \/ sched' = rest
    BY <1>1
  <2> HIDE DEF taken
  <2>3. /\ IsTable(unrun) /\ unrun.threads = taken.threads /\ unrun.wait = taken.wait
        /\ unrun.status = [taken.status EXCEPT ![t] = status]
    BY <1>0, <2>1 DEF IsTable
  <2> HIDE DEF unrun
  <2>4. IsTable(rest) /\ rest.threads = unrun.threads /\ rest.wait = unrun.wait /\ rest.status = unrun.status
    BY <2>3 DEF IsTable
  <2> QED
    BY <2>1, <2>2, <2>3, <2>4
<1>3. /\ "suspend" \in sched.status[t] => "suspend" \in status
      /\ "wait" \in status => "wait" \in sched.status[t]
      /\ "dormant" \notin status
  BY <1>0
<1> HIDE DEF status
<1>4. Undisturbed(sched, sched', {})
  <2>1. sched.threads \subseteq sched'.threads
    BY <1>2
  <2> QED
    BY <1>0, <1>2, <1>3, <2>1, StatusUndisturbed
<1> QED
  BY <1>4, UndisturbedContinues DEF ChangeThreadPriority

----------------------------------------------------------------------------
(* The calls that suspend, resume or wake a thread.                        *)
LEMMA WakingContinues ==
    ASSUME ThreadInv, WaitsInStep, NEW t \in Threads, WakeupThread(t) \/ ReleaseWaitThread(t)
    PROVE  WaitsContinue
<1>0. IsTable(sched) /\ t \in AllThreads
  BY TableFacts, Constants
<1>1. sched' \in {sched, Resumed(sched, t)} /\ UNCHANGED waitingThreads
  BY DEF WakeupThread, ReleaseWaitThread
<1> QED
  BY <1>0, <1>1, ResumedUndisturbed, NothingDisturbed, UndisturbedContinues

LEMMA SuspendThreadContinues ==
    ASSUME ThreadInv, WaitsInStep, NEW t \in Threads, SuspendThread(t)
    PROVE  WaitsContinue
<1> DEFINE u == MadeUnready(sched, t)
           r == [u EXCEPT !.status[t] = (@ \ {"ready"}) \cup {"suspend"}]
<1>0. IsTable(sched) /\ t \in AllThreads /\ "dormant" \notin sched.status[t]
  BY TableFacts, Constants DEF SuspendThread, Dormant, Has
<1>1. IsTable(u) /\ u.status = sched.status /\ u.wait = sched.wait /\ u.threads = sched.threads
  BY <1>0, MadeUnreadyUndisturbed
<1>2. sched' = r /\ UNCHANGED waitingThreads
  BY DEF SuspendThread
<1> HIDE DEF u
<1>3. /\ IsTable(r) /\ r.threads = u.threads /\ r.wait = u.wait
      /\ r.status = [u.status EXCEPT ![t] = (u.status[t] \ {"ready"}) \cup {"suspend"}]
  BY <1>1 DEF IsTable
<1> HIDE DEF r
<1>4. Undisturbed(u, r, {})
  BY <1>0, <1>1, <1>3, StatusUndisturbed
<1>5. Undisturbed(sched, sched', {})
  BY <1>1, <1>2, <1>4 DEF Undisturbed, Has
<1> QED
  BY <1>2, <1>5, UndisturbedContinues

LEMMA ResumeThreadContinues ==
    ASSUME ThreadInv, WaitsInStep, NEW t \in Threads, ResumeThread(t)
    PROVE  WaitsContinue
<1> DEFINE u == [sched EXCEPT !.status[t] = @ \ {"suspend"}]
<1>0. IsTable(sched) /\ t \in AllThreads /\ Threads \subseteq AllThreads
  BY TableFacts, Constants
<1>1. /\ IsTable(u) /\ u.threads = sched.threads /\ u.wait = sched.wait
      /\ u.status = [sched.status EXCEPT ![t] = sched.status[t] \ {"suspend"}]
  BY <1>0 DEF IsTable
<1>2. /\ sched' = u \/ (sched' = MadeReady(u, t) /\ u.status[t] = {})
      /\ UNCHANGED waitingThreads
  BY DEF ResumeThread
<1> HIDE DEF u
<1>3. u.status[t] = sched.status[t] \ {"suspend"} /\ \A w \in AllThreads \ {t} : u.status[w] = sched.status[w]
  BY <1>0, <1>1 DEF IsTable
<1>4. u.status[t] = {} => Undisturbed(u, MadeReady(u, t), {})
  BY <1>0, <1>1, MadeReadyUndisturbed DEF Has
<1>5. /\ sched.threads \subseteq sched'.threads
      /\ \A w \in AllThreads :
            /\ Has(sched', w, "wait") => Has(sched, w, "wait") /\ sched'.wait[w] = sched.wait[w]
            /\ Has(sched', w, "dormant") => Has(sched, w, "dormant") /\ sched'.status[w] \subseteq sched.status[w]
            /\ Has(sched, w, "suspend") /\ w # t => Has(sched', w, "suspend")
  BY <1>1, <1>2, <1>3, <1>4 DEF Undisturbed, Has
<1>6. WaitersAreListed'
  <2> SUFFICES ASSUME NEW w \in Threads, NEW v \in Threads, IsWaitingFor(sched', w, "threadend", v)
               PROVE  v \in sched'.threads /\ ~Has(sched', v, "dormant") /\ w \in Seqs!ToSet(waitingThreads[v])
    BY <1>2 DEF WaitersAreListed, Exists, Dormant
  <2>1. IsWaitingFor(sched, w, "threadend", v)
    BY <1>0, <1>5 DEF IsWaitingFor
  <2>2. Exists(v) /\ ~Dormant(v) /\ w \in Seqs!ToSet(waitingThreads[v])
    BY <2>1 DEF WaitsInStep, WaitersAreListed
  <2> QED
    BY <1>0, <1>5, <2>2 DEF Exists, Dormant
<1>7. \A w \in AllThreads : Has(sched', w, "wait") => w \in sched'.threads
  BY <1>5 DEF WaitsInStep, Exists
<1>8. SuspendedStay
  BY <1>0, <1>5 DEF SuspendedStay
<1>9. \A w \in AllThreads : Has(sched', w, "dormant") => sched'.status[w] = {"dormant"}
  BY <1>5 DEF WaitsInStep, Has
<1>10. NoNewWait
  BY <1>5 DEF NoNewWait
<1> QED
  BY <1>6, <1>7, <1>8, <1>9, <1>10 DEF WaitsContinue, WaitsInStep, Exists, NoNewWait

----------------------------------------------------------------------------
(* The calls that wait.                                                    *)
LEMMA WaitingEffect ==
    ASSUME ThreadInv, MayWait, NEW wait, sched' = WaitingCurThread(sched, wait)
    PROVE  /\ sched'.threads = sched.threads /\ current \in sched.threads
           /\ \A t \in AllThreads \ {current} : sched'.status[t] = sched.status[t] /\ sched'.wait[t] = sched.wait[t]
           /\ sched'.wait[current] = wait
           /\ sched'.status[current] = {"wait"} \cup (sched.status[current] \cap {"suspend"})
<1> DEFINE c == sched.current
           u == MadeUnready(sched, c)
           r == [u EXCEPT !.status[c] = {"wait"} \cup (@ \cap {"suspend"}), !.wait[c] = wait]
<1>0. IsTable(sched) /\ c \in AllThreads /\ c = current /\ c \in sched.threads
  BY TableFacts, CallFacts DEF MayWait, OnThread, current
<1>1. sched' = r
  BY DEF MayWait, IsDispatchEnabled, WaitingCurThread
<1>2. IsTable(u) /\ u.status = sched.status /\ u.wait = sched.wait /\ u.threads = sched.threads
  BY <1>0, MadeUnreadyUndisturbed
<1> HIDE DEF c, u
<1>3. /\ r.threads = u.threads /\ r.wait[c] = wait /\ r.status[c] = {"wait"} \cup (u.status[c] \cap {"suspend"})
      /\ \A t \in AllThreads \ {c} : r.status[t] = u.status[t] /\ r.wait[t] = u.wait[t]
  BY <1>0, <1>2 DEF IsTable
<1> QED
  BY <1>0, <1>1, <1>2, <1>3

(* A wait other than for a thread's end, or for one whose list has the     *)
(* current thread by now.                                                  *)
LEMMA WaitingContinues ==
    ASSUME ThreadInv, WaitsInStep, MayWait, WaitCall, NEW wait, sched' = WaitingCurThread(sched, wait),
           \A u \in Threads : Seqs!ToSet(waitingThreads[u]) \subseteq Seqs!ToSet(waitingThreads'[u]),
           wait.type = "threadend" =>
                /\ wait.id \in Threads \ {current} /\ Exists(wait.id) /\ ~Dormant(wait.id)
                /\ current \in Seqs!ToSet(waitingThreads'[wait.id])
    PROVE  WaitsContinue
<1>0. Threads \subseteq AllThreads /\ sched.threads \subseteq AllThreads
  BY TableFacts, Constants
<1>1. /\ sched'.threads = sched.threads /\ current \in sched.threads
      /\ \A t \in AllThreads \ {current} : sched'.status[t] = sched.status[t] /\ sched'.wait[t] = sched.wait[t]
      /\ sched'.wait[current] = wait
      /\ sched'.status[current] = {"wait"} \cup (sched.status[current] \cap {"suspend"})
  BY WaitingEffect
<1>2. WaitersAreListed'
  <2> SUFFICES ASSUME NEW w \in Threads, NEW u \in Threads, IsWaitingFor(sched', w, "threadend", u)
               PROVE  u \in sched'.threads /\ ~Has(sched', u, "dormant") /\ w \in Seqs!ToSet(waitingThreads'[u])
    BY DEF WaitersAreListed, Exists, Dormant
  <2>1. ~Has(sched, u, "dormant") => ~Has(sched', u, "dormant")
    BY <1>0, <1>1 DEF Has
  <2>2. CASE w = current
    BY <1>1, <2>1, <2>2 DEF IsWaitingFor, Exists, Dormant
  <2>3. CASE w # current
    <3>1. IsWaitingFor(sched, w, "threadend", u)
      BY <1>0, <1>1, <2>3 DEF IsWaitingFor, Has
    <3>2. Exists(u) /\ ~Dormant(u) /\ w \in Seqs!ToSet(waitingThreads[u])
      BY <3>1 DEF WaitsInStep, WaitersAreListed
    <3> QED
      BY <1>1, <2>1, <3>2 DEF Exists, Dormant
  <2> QED
    BY <2>2, <2>3
<1>3. \A t \in AllThreads : Has(sched', t, "wait") => t \in sched'.threads
  BY <1>1 DEF WaitsInStep, Exists, Has
<1>4. SuspendedStay
  BY <1>0, <1>1 DEF SuspendedStay, Has
<1>5. \A t \in AllThreads : Has(sched', t, "dormant") => sched'.status[t] = {"dormant"}
  <2>1. ~Has(sched', current, "dormant")
    BY <1>1 DEF Has
  <2> QED
    BY <1>1, <2>1 DEF WaitsInStep, Has
<1>6. \A t \in AllThreads :
        Has(sched', t, "wait") /\ sched'.wait[t].type = "threadend" => sched'.wait[t].id \in Threads
  BY <1>1 DEF WaitsInStep, Has
<1> QED
  BY <1>2, <1>3, <1>4, <1>5, <1>6 DEF WaitsContinue, WaitsInStep, Exists

LEMMA WaitThreadEndContinues ==
    ASSUME ThreadInv, WaitsInStep, NEW t \in Threads, NEW timed \in BOOLEAN, WaitThreadEnd(t, timed)
    PROVE  WaitsContinue
<1> DEFINE wait == WaitingFor("threadend", t, timed)
           q == waitingThreads[t]
           n == IF current \in Seqs!ToSet(q) THEN q ELSE Append(q, current)
<1>0. /\ waitingThreads \in [AllThreads -> Seq(Threads)] /\ t \in AllThreads /\ Threads \subseteq AllThreads
      /\ MayWait /\ current \in Threads /\ sched \in Schedulers
  BY TableFacts, Constants DEF ThreadInv, ListedOnce, WaitThreadEnd, MayWait, OnThread
<1>1. waitingThreads' = [waitingThreads EXCEPT ![t] = n]
  BY DEF WaitThreadEnd
<1>2. q \in Seq(Threads) /\ Seqs!ToSet(q) = Entries(q)
  BY <1>0 DEF Entries, Seqs!ToSet
<1>3. current \notin Entries(q) => Entries(Append(q, current)) = Entries(q) \cup {current} /\ Append(q, current) \in Seq(Threads)
  BY <1>0, <1>2, AppendEntries DEF ThreadInv, ListedOnce
<1>4. Entries(q) \subseteq Seqs!ToSet(n) /\ current \in Seqs!ToSet(n)
  <2>1. CASE current \in Entries(q)
    BY <1>2, <2>1
  <2>2. CASE current \notin Entries(q)
    <3>1. n = Append(q, current)
      BY <1>2, <2>2
    <3> HIDE DEF n, q
    <3>2. Seqs!ToSet(n) = Entries(n)
      BY DEF Entries, Seqs!ToSet
    <3> QED
      BY <1>3, <2>2, <3>1, <3>2
  <2> QED
    BY <2>1, <2>2
<1> HIDE DEF n
<1>5. \A u \in Threads : Seqs!ToSet(waitingThreads[u]) \subseteq Seqs!ToSet(waitingThreads'[u])
  BY <1>0, <1>1, <1>2, <1>4
<1>6. current \in Seqs!ToSet(waitingThreads'[t])
  BY <1>0, <1>1, <1>4
<1>7. Exists(t) /\ t # current /\ ~Dormant(t)
  <2>1. Exists(t) /\ t # current /\ sched.status[t] # {"dormant"}
    BY DEF WaitThreadEnd, Other
  <2>2. Dormant(t) => sched.status[t] = {"dormant"}
    BY <1>0 DEF Dormant, WaitsInStep
  <2> QED
    BY <2>1, <2>2
<1>8. wait.type = "threadend" /\ wait.id = t /\ sched' = WaitingCurThread(sched, wait)
  BY DEF WaitingFor, WaitThreadEnd
<1> HIDE DEF wait
<1> QED
  BY <1>0, <1>5, <1>6, <1>7, <1>8, WaitingContinues DEF WaitCall

----------------------------------------------------------------------------
(* All steps of the threads.                                               *)
LEMMA ThreadCallContinues ==
    ASSUME ThreadInv, WaitsInStep, NEW t \in Threads, ThreadCall(t)
    PROVE  WaitsContinue
<1>1. CASE TerminateThread(t) \/ TerminateDeleteThread(t) \/ DeleteThread(t)
  BY <1>1, StoppingContinues DEF TerminateThread, TerminateDeleteThread, DeleteThread, Other
<1>2. CASE CancelWakeupThread(t)
  BY <1>2, TableFacts, NothingDisturbed, UndisturbedContinues DEF CancelWakeupThread
<1> QED
  BY <1>1, <1>2, CreateThreadContinues, StartThreadContinues, ChangePriorityContinues, WakingContinues,
     SuspendThreadContinues, ResumeThreadContinues, WaitThreadEndContinues DEF ThreadCall

LEMMA OwnCallContinues ==
    ASSUME ThreadInv, WaitsInStep, OwnCall
    PROVE  WaitsContinue
<1>0. IsTable(sched)
  BY TableFacts
<1>1. CASE ExitThread \/ ExitDeleteThread
  <2>1. current \in Threads /\ Exists(current)
    BY <1>1, CallFacts DEF ExitThread, ExitDeleteThread, OnThread, Exists
  <2> QED
    BY <1>1, <2>1, StoppingContinues DEF ExitThread, ExitDeleteThread
<1>2. CASE DelayThread \/ SleepThread
  <2>1. UNCHANGED waitingThreads /\ MayWait /\ WaitCall
    BY <1>2 DEF DelayThread, SleepThread, WaitCall
  <2>2. CASE UNCHANGED sched
    BY <1>0, <2>1, <2>2, NothingDisturbed, UndisturbedContinues
  <2>3. ASSUME NEW wait, wait.type # "threadend", sched' = WaitingCurThread(sched, wait)
        PROVE  WaitsContinue
    BY <2>1, <2>3, WaitingContinues
  <2>4. /\ WaitingFor("delay", current, TRUE).type # "threadend"
        /\ WaitingFor("sleep", NoThread, FALSE).type # "threadend"
    BY DEF WaitingFor
  <2> QED
    BY <1>2, <2>2, <2>3, <2>4 DEF DelayThread, SleepThread
<1>3. CASE SuspendDispatchThread \/ \E enabled \in BOOLEAN : ResumeDispatchThread(enabled)
  <2>1. PICK enabled : sched' = [sched EXCEPT !.dispatchEnabled = enabled] /\ UNCHANGED waitingThreads
    BY <1>3 DEF SuspendDispatchThread, ResumeDispatchThread
  <2>2. IsTable(sched') /\ sched'.threads = sched.threads /\ sched'.status = sched.status /\ sched'.wait = sched.wait
    BY <1>0, <2>1 DEF IsTable
  <2>3. Undisturbed(sched, sched', {})
    BY <2>2 DEF Undisturbed, Has
  <2> QED
    BY <2>1, <2>3, UndisturbedContinues
<1>4. ASSUME NEW p \in 0 .. UserPriorities - 1, RotateThreadReadyQueue(p) PROVE WaitsContinue
  <2>1. UNCHANGED waitingThreads
    BY <1>4 DEF RotateThreadReadyQueue
  <2>2. Undisturbed(sched, sched', {})
    <3>1. CASE UNCHANGED sched
      BY <1>0, <3>1, NothingDisturbed
    <3>2. ASSUME NEW q, sched' = [sched EXCEPT !.ready[p] = q,
                                      !.status[current] = (@ \ {"running"}) \cup {"ready"}]
          PROVE  Undisturbed(sched, sched', {})
      <4> DEFINE status == (sched.status[current] \ {"running"}) \cup {"ready"}
      <4>1. current \in AllThreads /\ "dormant" \notin status
            /\ ("wait" \in status => "wait" \in sched.status[current])
            /\ ("suspend" \in sched.status[current] => "suspend" \in status)
        BY <1>4, CallFacts DEF RotateThreadReadyQueue, Calling, CurrentRuns, current
      <4>2. /\ IsTable(sched') /\ sched'.threads = sched.threads /\ sched'.wait = sched.wait
            /\ sched'.status = [sched.status EXCEPT ![current] = status]
        BY <1>0, <3>2, <4>1 DEF IsTable
      <4> HIDE DEF status
      <4>3. sched.threads \subseteq sched'.threads
        BY <4>2
      <4> QED
        BY <1>0, <4>1, <4>2, <4>3, StatusUndisturbed
    <3>3. ASSUME NEW q, sched' = [sched EXCEPT !.ready[p] = q]
          PROVE  Undisturbed(sched, sched', {})
      <4>1. IsTable(sched') /\ sched'.threads = sched.threads /\ sched'.status = sched.status /\ sched'.wait = sched.wait
        BY <1>0, <3>3 DEF IsTable
      <4> QED
        BY <4>1 DEF Undisturbed, Has
    <3> QED
      BY <1>4, <3>1, <3>2, <3>3 DEF RotateThreadReadyQueue
  <2> QED
    BY <2>1, <2>2, UndisturbedContinues
<1> QED
  BY <1>1, <1>2, <1>3, <1>4 DEF OwnCall

LEMMA SchedulingContinues ==
    ASSUME ThreadInv, WaitsInStep, Event \/ Idle \/ FinishSyscall
    PROVE  WaitsContinue
<1>0. IsTable(sched) /\ InStep(sched, {}) /\ UNCHANGED waitingThreads
  BY TableFacts DEF ThreadInv, Event, ScheduledWakeup, ThreadEndTimeout, Idle, FinishSyscall
<1>1. Undisturbed(sched, sched', {})
  <2>1. CASE Idle \/ FinishSyscall
    BY <1>0, <2>1, ReScheduledUndisturbed DEF Idle, FinishSyscall
  <2>2. ASSUME NEW t \in Threads, ScheduledWakeup(t) \/ ThreadEndTimeout(t)
        PROVE  Undisturbed(sched, sched', {})
    <3> DEFINE u == Resumed(sched, t)
    <3>1. sched' = sched \/ (t \in sched.threads /\ sched' \in ReScheduled(u))
      BY <2>2 DEF ScheduledWakeup, ThreadEndTimeout, VerifyWait
    <3>2. t \in AllThreads
      BY Constants
    <3>3. t \in sched.threads => InStep(u, {})
      BY <1>0, ResumedInStep
    <3>4. Undisturbed(sched, u, {})
      BY <1>0, <3>2, ResumedUndisturbed
    <3> HIDE DEF u
    <3> QED
      BY <1>0, <3>1, <3>3, <3>4, NothingDisturbed, ReScheduledUndisturbed, UndisturbedTwice
  <2> QED
    BY <2>1, <2>2 DEF Event
<1> QED
  BY <1>0, <1>1, UndisturbedContinues

LEMMA ThreadStepContinues ==
    ASSUME ThreadInv, WaitsInStep, ThreadNext
    PROVE  WaitsContinue
BY ThreadCallContinues, OwnCallContinues, SchedulingContinues DEF ThreadNext

LEMMA InitialWaits == Init => WaitsInStep
<1> SUFFICES ASSUME Init PROVE WaitsInStep
  OBVIOUS
<1>1. \A t \in AllThreads : sched.status[t] \in {{"running"}, {"ready"}, {"dormant"}}
  BY DEF Init, InitialSched
<1>2. \A t \in AllThreads : ~Has(sched, t, "wait")
  BY <1>1 DEF Has
<1> QED
  BY <1>1, <1>2, Constants DEF WaitsInStep, WaitersAreListed, IsWaitingFor, Has

----------------------------------------------------------------------------
(* Timers.                                                                 *)
LEMMA TimersUnchanged ==
    ASSUME ThreadInv, TimedWaitHasTimer, NoNewWait, UNCHANGED timers
    PROVE  TimedWaitHasTimer'
BY Constants DEF TimedWaitHasTimer, NoNewWait, IsWaitingFor, timers

LEMMA StopTimersContinue ==
    ASSUME ThreadInv, TimedWaitHasTimer, NoNewWait, NEW t \in Threads, Exists(t), StopTimers(t),
           \/ sched' = Stopped(t)
           \/ sched' = [Stopped(t) EXCEPT !.prio[t] = InitialPriority[t]]
           \/ sched' = Deleted(t)
    PROVE  TimedWaitHasTimer'
<1> DEFINE a == Stopped(t)
<1>0. Threads \subseteq AllThreads /\ wakeups \in [Threads -> Nat]
  BY Constants DEF ThreadInv, Counted
<1>1. /\ Undisturbed(sched, a, {t}) /\ a.status[t] = {"dormant"}
      /\ \A w \in AllThreads \cap Seqs!ToSet(EndWaiters(t)) : ~Has(a, w, "wait")
  BY StoppedUndisturbed
<1>2. sched'.status = a.status
  <2>1. ASSUME sched' = [a EXCEPT !.prio[t] = InitialPriority[t]]
        PROVE  sched'.status = a.status
    BY <1>1, <2>1 DEF Undisturbed, IsTable
  <2>2. ASSUME sched' = Deleted(t)
        PROVE  sched'.status = a.status
    <3>1. PICK q : sched' = [a EXCEPT !.ready[sched.prio[t]] = q, !.threads = @ \ {t},
                                      !.current = IF @ = t THEN NoThread ELSE @]
      BY <2>2 DEF Deleted
    <3> HIDE DEF a
    <3> QED
      BY <1>1, <3>1 DEF Undisturbed, IsTable
  <2> QED
    BY <2>1, <2>2
<1> HIDE DEF a
<1>3. \A w \in Threads : Has(sched', w, "wait") => w # t /\ w \notin Seqs!ToSet(EndWaiters(t))
  BY <1>0, <1>1, <1>2 DEF Has
<1>4. \A w \in Threads : Has(sched', w, "wait") => wakeups'[w] = wakeups[w] /\ endTimeouts'[w] = endTimeouts[w]
  BY <1>0, <1>3 DEF StopTimers
<1> QED
  BY <1>0, <1>4 DEF TimedWaitHasTimer, NoNewWait, IsWaitingFor

LEMMA WaitCallTimers ==
    ASSUME ThreadInv, TimedWaitHasTimer, WaitCall
    PROVE  TimedWaitHasTimer'
<1>0. /\ Threads \subseteq AllThreads /\ wakeups \in [Threads -> Nat] /\ endTimeouts \in [Threads -> Nat]
      /\ MayWait /\ current \in Threads
  BY Constants DEF ThreadInv, Counted, WaitCall, DelayThread, SleepThread, WaitThreadEnd, MayWait, OnThread
<1>1. ASSUME NEW wait, sched' = WaitingCurThread(sched, wait),
             \A t \in Threads : wakeups'[t] >= wakeups[t] /\ endTimeouts'[t] >= endTimeouts[t],
             wakeups' \in [Threads -> Nat], endTimeouts' \in [Threads -> Nat],
             wait.type = "delay" => wakeups'[current] > 0,
             wait.type = "threadend" /\ wait.timed => endTimeouts'[current] > 0
      PROVE  TimedWaitHasTimer'
  <2>1. /\ \A t \in AllThreads \ {current} : sched'.status[t] = sched.status[t] /\ sched'.wait[t] = sched.wait[t]
        /\ sched'.wait[current] = wait
    BY <1>0, <1>1, WaitingEffect
  <2> SUFFICES ASSUME NEW t \in Threads
               PROVE  /\ IsWaitingFor(sched', t, "delay", t) => wakeups'[t] > 0
                      /\ Has(sched', t, "wait") /\ sched'.wait[t].type = "threadend" /\ sched'.wait[t].timed
                            => endTimeouts'[t] > 0
    BY DEF TimedWaitHasTimer
  <2>2. CASE t = current
    BY <1>1, <2>1, <2>2 DEF IsWaitingFor
  <2>3. CASE t # current
    <3>1. /\ IsWaitingFor(sched', t, "delay", t) => wakeups[t] > 0
          /\ Has(sched', t, "wait") /\ sched'.wait[t].type = "threadend" /\ sched'.wait[t].timed => endTimeouts[t] > 0
      BY <1>0, <2>1, <2>3 DEF TimedWaitHasTimer, IsWaitingFor, Has
    <3>2. /\ wakeups[t] \in Nat /\ wakeups'[t] \in Nat /\ endTimeouts[t] \in Nat /\ endTimeouts'[t] \in Nat
          /\ wakeups'[t] >= wakeups[t] /\ endTimeouts'[t] >= endTimeouts[t]
      BY <1>0, <1>1
    <3> QED
      BY <3>1, <3>2
  <2> QED
    BY <2>2, <2>3
<1>2. CASE UNCHANGED <<sched, timers>>
  BY <1>2 DEF TimedWaitHasTimer, timers
<1>3. CASE DelayThread
  <2>1. CASE UNCHANGED <<sched, timers>>
    BY <1>2, <2>1
  <2>2. CASE /\ wakeups' = [wakeups EXCEPT ![current] = @ + 1] /\ endTimeouts' = endTimeouts
             /\ sched' = WaitingCurThread(sched, WaitingFor("delay", current, TRUE))
    <3>1. /\ wakeups' \in [Threads -> Nat] /\ wakeups'[current] > 0
          /\ \A t \in Threads : wakeups'[t] >= wakeups[t] /\ endTimeouts'[t] >= endTimeouts[t]
      BY <1>0, <2>2
    <3>2. WaitingFor("delay", current, TRUE).type = "delay"
      BY DEF WaitingFor
    <3> QED
      BY <1>0, <1>1, <2>2, <3>1, <3>2
  <2> QED
    BY <1>3, <2>1, <2>2 DEF DelayThread, timers
<1>4. CASE SleepThread
  <2>1. CASE UNCHANGED <<sched, timers>>
    BY <1>2, <2>1
  <2>2. CASE UNCHANGED timers /\ sched' = WaitingCurThread(sched, WaitingFor("sleep", NoThread, FALSE))
    <3>1. WaitingFor("sleep", NoThread, FALSE).type = "sleep"
      BY DEF WaitingFor
    <3>2. \A t \in Threads : wakeups'[t] >= wakeups[t] /\ endTimeouts'[t] >= endTimeouts[t]
      BY <1>0, <2>2 DEF timers
    <3> QED
      BY <1>0, <1>1, <2>2, <3>1, <3>2 DEF timers
  <2> QED
    BY <1>4, <2>1, <2>2 DEF SleepThread, timers
<1>5. ASSUME NEW t \in Threads, NEW timed \in BOOLEAN, WaitThreadEnd(t, timed)
      PROVE  TimedWaitHasTimer'
  <2>1. /\ wakeups' = wakeups /\ sched' = WaitingCurThread(sched, WaitingFor("threadend", t, timed))
        /\ endTimeouts' = IF timed THEN [endTimeouts EXCEPT ![current] = @ + 1] ELSE endTimeouts
    BY <1>5 DEF WaitThreadEnd
  <2>2. /\ WaitingFor("threadend", t, timed).type = "threadend"
        /\ WaitingFor("threadend", t, timed).timed = timed
    BY DEF WaitingFor
  <2>3. /\ endTimeouts' \in [Threads -> Nat] /\ (timed => endTimeouts'[current] > 0)
        /\ \A u \in Threads : wakeups'[u] >= wakeups[u] /\ endTimeouts'[u] >= endTimeouts[u]
    BY <1>0, <2>1
  <2> QED
    BY <1>0, <1>1, <2>1, <2>2, <2>3
<1> QED
  BY <1>3, <1>4, <1>5 DEF WaitCall

(* An event that ends no wait is not that of the wait under way.           *)
LEMMA EventTimers ==
    ASSUME ThreadInv, WaitsInStep, TimedWaitHasTimer, NoNewWait,
           NEW t \in Threads, ScheduledWakeup(t) \/ ThreadEndTimeout(t)
    PROVE  TimedWaitHasTimer'
<1>0. /\ Threads \subseteq AllThreads /\ wakeups \in [Threads -> Nat] /\ endTimeouts \in [Threads -> Nat]
      /\ InStep(sched, {}) /\ IsTable(sched)
  BY Constants, TableFacts DEF ThreadInv, Counted
<1>1. ASSUME t \in sched.threads, sched' \in ReScheduled(Resumed(sched, t)) PROVE ~Has(sched', t, "wait")
  <2> DEFINE w == [sched EXCEPT !.status[t] = @ \ {"wait"}]
             u == Resumed(sched, t)
  <2>1. IsTable(w) /\ ~Has(w, t, "wait")
    BY <1>0 DEF IsTable, Has
  <2>2. u = w \/ (u = MadeReady(w, t) /\ w.status[t] \cap {"suspend", "dormant"} = {})
    BY DEF Resumed
  <2> HIDE DEF w
  <2>3. w.status[t] \cap {"suspend", "dormant"} = {} => Undisturbed(w, MadeReady(w, t), {})
    BY <1>0, <2>1, MadeReadyUndisturbed DEF Has
  <2>4. ~Has(u, t, "wait")
    BY <1>0, <2>1, <2>2, <2>3 DEF Undisturbed
  <2>5. InStep(u, {})
    BY <1>0, <1>1, ResumedInStep
  <2> HIDE DEF u
  <2>6. Undisturbed(u, sched', {})
    BY <1>1, <2>5, ReScheduledUndisturbed DEF u
  <2> QED
    BY <1>0, <2>4, <2>6 DEF Undisturbed
<1>2. CASE ScheduledWakeup(t)
  <2>1. /\ endTimeouts' = endTimeouts /\ \A w \in Threads \ {t} : wakeups'[w] = wakeups[w]
    BY <1>0, <1>2 DEF ScheduledWakeup
  <2>2. ~IsWaitingFor(sched', t, "delay", t)
    <3> SUFFICES ASSUME IsWaitingFor(sched', t, "delay", t) PROVE FALSE
      OBVIOUS
    <3>1. t \in sched.threads /\ sched.wait[t].type = "delay" /\ sched.wait[t].id = t
      BY <1>0 DEF IsWaitingFor, NoNewWait, WaitsInStep, Exists
    <3>2. sched' \in ReScheduled(Resumed(sched, t))
      BY <1>2, <3>1 DEF ScheduledWakeup, VerifyWait
    <3> QED
      BY <1>1, <3>1, <3>2 DEF IsWaitingFor
  <2>3. \A w \in Threads : IsWaitingFor(sched', w, "delay", w) => IsWaitingFor(sched, w, "delay", w)
    BY <1>0 DEF IsWaitingFor, NoNewWait
  <2>4. \A w \in Threads : Has(sched', w, "wait") => Has(sched, w, "wait") /\ sched'.wait[w] = sched.wait[w]
    BY <1>0 DEF NoNewWait
  <2> QED
    BY <2>1, <2>2, <2>3, <2>4 DEF TimedWaitHasTimer
<1>3. CASE ThreadEndTimeout(t)
  <2>1. wakeups' = wakeups /\ \A w \in Threads \ {t} : endTimeouts'[w] = endTimeouts[w]
    BY <1>0, <1>3 DEF ThreadEndTimeout
  <2>2. ~(Has(sched', t, "wait") /\ sched'.wait[t].type = "threadend")
    <3> SUFFICES ASSUME Has(sched', t, "wait"), sched'.wait[t].type = "threadend" PROVE FALSE
      OBVIOUS
    <3> DEFINE v == sched.wait[t].id
    <3>1. Has(sched, t, "wait") /\ sched.wait[t].type = "threadend" /\ v \in Threads
      BY <1>0 DEF NoNewWait, WaitsInStep
    <3>2. t \in sched.threads /\ v \in sched.threads
      BY <1>0, <3>1 DEF WaitsInStep, WaitersAreListed, IsWaitingFor, Exists
    <3>3. sched' \in ReScheduled(Resumed(sched, t))
      BY <1>3, <3>1, <3>2 DEF ThreadEndTimeout, VerifyWait
    <3> QED
      BY <1>1, <3>2, <3>3
  <2>3. \A w \in Threads : Has(sched', w, "wait") => Has(sched, w, "wait") /\ sched'.wait[w] = sched.wait[w]
    BY <1>0 DEF NoNewWait
  <2> QED
    BY <2>1, <2>2, <2>3 DEF TimedWaitHasTimer, IsWaitingFor
<1> QED
  BY <1>2, <1>3

LEMMA TimersStep ==
    ASSUME ThreadInv, WaitsInStep, TimedWaitHasTimer, ThreadNext
    PROVE  TimedWaitHasTimer'
<1>1. CASE WaitCall
  BY <1>1, WaitCallTimers
<1>2. CASE ~WaitCall
  <2>0. NoNewWait
    BY <1>2, ThreadStepContinues DEF WaitsContinue
  <2>1. CASE UNCHANGED timers
    BY <2>0, <2>1, TimersUnchanged
  <2>2. ASSUME NEW t \in Threads, TerminateThread(t) \/ TerminateDeleteThread(t) \/ DeleteThread(t)
        PROVE  TimedWaitHasTimer'
    BY <2>0, <2>2, StopTimersContinue DEF TerminateThread, TerminateDeleteThread, DeleteThread, Other
  <2>3. ASSUME NEW t \in Threads, ThreadCall(t) PROVE TimedWaitHasTimer'
    BY <1>2, <2>1, <2>2, <2>3 DEF ThreadCall, WaitCall, CreateThread, StartThread, WakeupThread, CancelWakeupThread,
        ReleaseWaitThread, SuspendThread, ResumeThread, ChangeThreadPriority
  <2>4. CASE ExitThread \/ ExitDeleteThread
    <3>1. current \in Threads /\ Exists(current)
      BY <2>4, CallFacts DEF ExitThread, ExitDeleteThread, OnThread, Exists
    <3> QED
      BY <2>0, <2>4, <3>1, StopTimersContinue DEF ExitThread, ExitDeleteThread
  <2>5. CASE OwnCall
    BY <1>2, <2>1, <2>4, <2>5 DEF OwnCall, WaitCall, SuspendDispatchThread, ResumeDispatchThread,
        RotateThreadReadyQueue
  <2>6. CASE Event
    BY <2>0, <2>6, EventTimers DEF Event
  <2>7. CASE Idle \/ FinishSyscall
    BY <2>1, <2>7 DEF Idle, FinishSyscall
  <2> QED
    BY <2>3, <2>5, <2>6, <2>7 DEF ThreadNext
<1> QED
  BY <1>1, <1>2

----------------------------------------------------------------------------
LEMMA WaitsSpecInv ==
    ASSUME ~CarelessGuest
    PROVE  Spec => [](ThreadInv /\ WaitsInStep)
<1>1. ThreadInv /\ WaitsInStep /\ [Next]_vars => WaitsInStep'
  <2> SUFFICES ASSUME ThreadInv, WaitsInStep, [Next]_vars PROVE WaitsInStep'
    OBVIOUS
  <2>1. CASE Next
    BY <2>1, ThreadStepContinues DEF Next, Syscall, OwnCall, ThreadNext, WaitsContinue
  <2>2. CASE UNCHANGED vars
    BY <2>2 DEF vars, WaitsInStep, WaitersAreListed, Exists, Dormant
  <2> QED
    BY <2>1, <2>2
<1> QED
  BY <1>1, InitialWaits, SpecInv, PTL DEF Spec

(* Whoever waits for the end of a thread waits for one that has yet to     *)
(* end, and is on its list, so that __KernelStopThread finds it: whatever  *)
(* ended earlier waits, and whichever of its entries are still on lists.   *)
THEOREM WaitersTheorem ==
    ASSUME ~CarelessGuest
    PROVE  Spec => []WaitersAreListed
BY WaitsSpecInv, PTL DEF WaitsInStep

(* A suspended thread stays suspended, whatever it waits for comes about,  *)
(* until it is resumed or stopped.                                         *)
THEOREM SuspensionTheorem ==
    ASSUME ~CarelessGuest
    PROVE  Spec => SuspendedUntilResumed
<1>1. ThreadInv /\ WaitsInStep /\ [Next]_vars
        => [\A t \in Threads : Has(sched, t, "suspend") =>
                Has(sched', t, "suspend") \/ Has(sched', t, "dormant") \/ ResumeThread(t)]_vars
  <2> SUFFICES ASSUME ThreadInv, WaitsInStep, Next PROVE SuspendedStay
    BY DEF SuspendedStay
  <2> QED
    BY ThreadStepContinues DEF Next, Syscall, OwnCall, ThreadNext, WaitsContinue
<1> QED
  BY <1>1, WaitsSpecInv, PTL DEF Spec, SuspendedUntilResumed

(* A thread whose wait has a time limit has an event scheduled that will   *)
(* end it: no wait with a timeout is forgotten, however stopped, released  *)
(* and suspended threads and their late events come together.              *)
THEOREM TimersTheorem ==
    ASSUME ~CarelessGuest
    PROVE  Spec => []TimedWaitHasTimer
<1>1. Init => TimedWaitHasTimer
  <2> SUFFICES ASSUME Init PROVE TimedWaitHasTimer
    OBVIOUS
  <2>1. \A t \in AllThreads : sched.status[t] \in {{"running"}, {"ready"}, {"dormant"}}
    BY DEF Init, InitialSched
  <2>2. \A t \in AllThreads : ~Has(sched, t, "wait")
    BY <2>1 DEF Has
  <2> QED
    BY <2>2, Constants DEF TimedWaitHasTimer, IsWaitingFor
<1>2. ThreadInv /\ WaitsInStep /\ TimedWaitHasTimer /\ [Next]_vars => TimedWaitHasTimer'
  <2> SUFFICES ASSUME ThreadInv, WaitsInStep, TimedWaitHasTimer, [Next]_vars
               PROVE  TimedWaitHasTimer'
    OBVIOUS
  <2>1. CASE Next
    BY <2>1, TimersStep DEF Next, Syscall, OwnCall, ThreadNext
  <2>2. CASE UNCHANGED vars
    BY <2>2 DEF vars, TimedWaitHasTimer, IsWaitingFor
  <2> QED
    BY <2>1, <2>2
<1> QED
  BY <1>1, <1>2, WaitsSpecInv, PTL DEF Spec

=============================================================================
