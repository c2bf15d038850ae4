-------------------------- MODULE GPUCommon_proofs --------------------------
(***************************************************************************)
(* Proof that Execute_End ends the list it was read from, that no list is  *)
(* stranded until one comes too late for the last look at the queue, and   *)
(* that who waits for a list or for the end of drawing is woken: whatever  *)
(* the programs and stall addresses, with the GPU as a thread or not, and  *)
(* wherever that thread is when a list is enqueued, for careful guests.    *)
(* And that no list goes on before its interrupt has been handled, or gets *)
(* the interrupt of another one, where a list stops at each of its         *)
(* interrupts.                                                             *)
(***************************************************************************)
EXTENDS GPUCommon, Queues_proofs

LOCAL Sets == INSTANCE FiniteSetsExt
LOCAL Seqs == INSTANCE SequencesExt

----------------------------------------------------------------------------
(* Sequences that may hold an element more than once.                      *)
LEMMA AppendMember ==
    ASSUME NEW T, NEW q \in Seq(T), NEW x \in T
    PROVE  /\ Append(q, x) \in Seq(T) /\ Append(q, x) # << >>
           /\ Entries(Append(q, x)) = Entries(q) \cup {x}
           /\ q # << >> => Head(Append(q, x)) = Head(q)
           /\ q = << >> => Head(Append(q, x)) = x
<1>1. Append(q, x) \in Seq(T) /\ Len(Append(q, x)) = Len(q) + 1 /\ Len(q) \in Nat
  OBVIOUS
<1>2. \A i \in 1 .. Len(q) : Append(q, x)[i] = q[i]
  OBVIOUS
<1>3. Append(q, x)[Len(q) + 1] = x
  OBVIOUS
<1>4. DOMAIN Append(q, x) = 1 .. Len(q) + 1 /\ DOMAIN q = 1 .. Len(q)
  BY <1>1
<1>5. Entries(Append(q, x)) = Entries(q) \cup {x}
  BY <1>1, <1>2, <1>3, <1>4 DEF Entries
<1>6. Append(q, x) # << >> /\ Head(Append(q, x)) = Append(q, x)[1]
  BY <1>1
<1>7. q # << >> => Head(q) = q[1] /\ 1 \in 1 .. Len(q)
  OBVIOUS
<1> QED
  BY <1>1, <1>2, <1>3, <1>5, <1>6, <1>7

LEMMA TailMember ==
    ASSUME NEW T, NEW q \in Seq(T), q # << >>
    PROVE  /\ Tail(q) \in Seq(T) /\ Head(q) \in T
           /\ Entries(q) = Entries(Tail(q)) \cup {Head(q)}
<1>1. /\ Tail(q) \in Seq(T) /\ Len(Tail(q)) = Len(q) - 1 /\ Len(q) \in Nat \ {0}
      /\ Head(q) = q[1] /\ 1 \in DOMAIN q
  OBVIOUS
<1>2. \A i \in 1 .. Len(q) - 1 : Tail(q)[i] = q[i + 1]
  OBVIOUS
<1>3. DOMAIN q = 1 .. Len(q) /\ DOMAIN Tail(q) = 1 .. Len(q) - 1
  BY <1>1
<1>4. ASSUME NEW i \in DOMAIN q PROVE q[i] \in Entries(Tail(q)) \cup {Head(q)}
  <2>1. CASE i = 1
    BY <1>1, <2>1
  <2>2. CASE i # 1
    <3>1. i - 1 \in DOMAIN Tail(q) /\ Tail(q)[i - 1] = q[i]
      BY <1>1, <1>2, <1>3, <2>2
    <3> QED
      BY <3>1 DEF Entries
  <2> QED
    BY <2>1, <2>2
<1>5. ASSUME NEW i \in DOMAIN Tail(q) PROVE Tail(q)[i] \in Entries(q)
  BY <1>1, <1>2, <1>3 DEF Entries
<1>6. Head(q) \in T
  BY <1>1
<1> QED
  BY <1>1, <1>4, <1>5, <1>6 DEF Entries

LEMMA HeadMember ==
    ASSUME NEW T, NEW q \in Seq(T), q # << >>
    PROVE  Head(q) \in T /\ Head(q) \in Entries(q)
BY TailMember

LEMMA ConsMember ==
    ASSUME NEW T, NEW q \in Seq(T), NEW x \in T
    PROVE  /\ <<x>> \o q \in Seq(T) /\ <<x>> \o q # << >> /\ Head(<<x>> \o q) = x
           /\ Entries(<<x>> \o q) = Entries(q) \cup {x}
<1> DEFINE r == <<x>> \o q
<1>1. r \in Seq(T) /\ Len(r) = Len(q) + 1 /\ Len(q) \in Nat /\ r[1] = x
  OBVIOUS
<1>2. \A i \in 2 .. Len(q) + 1 : r[i] = q[i - 1]
  OBVIOUS
<1> HIDE DEF r
<1>3. DOMAIN r = 1 .. Len(q) + 1 /\ DOMAIN q = 1 .. Len(q)
  BY <1>1
<1>4. ASSUME NEW i \in DOMAIN q PROVE q[i] \in Entries(r)
  <2>1. i + 1 \in DOMAIN r /\ r[i + 1] = q[i]
    BY <1>1, <1>2, <1>3
  <2> QED
    BY <2>1 DEF Entries
<1>5. ASSUME NEW i \in DOMAIN r PROVE r[i] \in Entries(q) \cup {x}
  <2>1. CASE i = 1
    BY <1>1, <2>1
  <2>2. CASE i # 1
    <3>1. i - 1 \in DOMAIN q /\ r[i] = q[i - 1]
      BY <1>1, <1>2, <1>3, <2>2
    <3> QED
      BY <3>1 DEF Entries
  <2> QED
    BY <2>1, <2>2
<1>6. x \in Entries(r)
  BY <1>1, <1>3 DEF Entries
<1>7. Entries(r) = Entries(q) \cup {x}
  BY <1>4, <1>5, <1>6 DEF Entries
<1>8. r # << >> /\ Head(r) = r[1]
  BY <1>1
<1> QED
  BY <1>1, <1>7, <1>8 DEF r

LEMMA WithoutMember ==
    ASSUME NEW q \in Seq(Lists), NEW l
    PROVE  /\ Without(q, l) \in Seq(Lists) /\ Entries(Without(q, l)) = Entries(q) \ {l}
           /\ q # << >> /\ Head(q) # l => Without(q, l) # << >> /\ Head(Without(q, l)) = Head(q)
<1>1. Entries(q) \subseteq Lists
  BY DEF Entries
<1>2. q # << >> => Head(q) \in Lists
  BY TailMember
<1> QED
  BY <1>1, <1>2, SelectedEntries, SelectedHead DEF Without

LEMMA EmptyMember ==
    ASSUME NEW T, NEW q \in Seq(T)
    PROVE  q = << >> <=> Entries(q) = {}
<1>1. q # << >> => q[1] \in Entries(q)
  BY DEF Entries
<1> QED
  BY <1>1, NoEntry

----------------------------------------------------------------------------
(* A list keeps its fields, whatever is written to some of them.           *)
States == {"none", "queued", "running", "completed", "paused"}
Signals == Commands \cup {"none"}

LEMMA DisplayLists ==
    DisplayList = [state : States, signal : Signals, program : Programs \cup {<< >>}, pc : Nat \ {0}, stall : Nat,
                   pendingInterrupt : BOOLEAN, started : BOOLEAN, done : BOOLEAN]
BY DEF DisplayList, States, Signals

LEMMA StatesAndSignals ==
    /\ "none" \in States /\ "queued" \in States /\ "running" \in States /\ "completed" \in States
    /\ "paused" \in States
    /\ "none" \in Signals /\ Commands \subseteq Signals /\ "suspend" \in Signals
BY DEF States, Signals, Commands

LEMMA Fields ==
    ASSUME NEW d \in DisplayList
    PROVE  /\ d.state \in States /\ d.signal \in Signals /\ d.program \in Programs \cup {<< >>}
           /\ d.pc \in Nat \ {0} /\ d.pc + 1 \in Nat \ {0} /\ d.stall \in Nat
           /\ d.pendingInterrupt \in BOOLEAN /\ d.started \in BOOLEAN /\ d.done \in BOOLEAN
BY DEF DisplayList, States, Signals

----------------------------------------------------------------------------
LEMMA Numbers ==
    /\ DisplayListMaxCount \in Nat \ {0} /\ NoList \notin Lists
    /\ Lists \subseteq Nat /\ \A n \in Nat : n % DisplayListMaxCount \in Lists
<1>1. DisplayListMaxCount \in Nat \ {0}
  BY GPUCommonAssumption
<1>3. NoList \notin Lists
  BY GPUCommonAssumption DEF Lists
<1>4. Lists \subseteq Nat
  BY <1>1 DEF Lists
<1>2. ASSUME NEW n \in Nat PROVE n % DisplayListMaxCount \in 0 .. DisplayListMaxCount - 1
  BY <1>1
<1> QED
  BY <1>1, <1>2, <1>3, <1>4 DEF Lists

(* The types, of which those of TypeOK are a part.                         *)
Stages == {"idle", "next", "interpret", "run", "done", "drawn"}

Types ==
    /\ TypeOK
    /\ nextListID \in Nat /\ inHandler \in BOOLEAN
    /\ gpu \in [at : Stages, list : Lists \cup {NoList}]
    /\ gpu.at \in {"interpret", "run", "done"} => gpu.list \in Lists
    /\ inHandler => ge_pending_cb # << >>
    /\ overtaken \in BOOLEAN

(* The number that is found is free: no interrupt of it is pending, it is  *)
(* not used, or was executed and awaited.                                  *)
IsFree(l) ==
    /\ l \in Lists /\ ~dls[l].pendingInterrupt
    /\ dls[l].state = "none" \/ (dls[l].state = "completed" /\ dls[l].done)

LEMMA FreeListIsFree ==
    ASSUME Types, FreeList # NoList
    PROVE  IsFree(FreeList)
<1> DEFINE id(i) == (nextListID + i) % DisplayListMaxCount
           free(state) == {i \in Lists : dls[id(i)].state = state /\ ~dls[id(i)].pendingInterrupt}
           complete == {i \in free("completed") : dls[id(i)].done}
<1>1. ASSUME NEW i \in Lists PROVE id(i) \in Lists
  <2>1. nextListID + i \in Nat
    BY Numbers DEF Types
  <2> QED
    BY <2>1, Numbers
<1>2. free("none") # {} => Sets!Min(free("none")) \in free("none")
  <2>1. free("none") \subseteq Nat
    BY Numbers
  <2> HIDE DEF free
  <2> QED
    BY <2>1, Least DEF Sets!Min
<1>3. complete # {} => Sets!Max(complete) \in complete
  <2>1. complete \subseteq Lists
    OBVIOUS
  <2> HIDE DEF complete
  <2> SUFFICES ASSUME complete # {} PROVE \E x \in complete : \A y \in complete : x >= y
    BY DEF Sets!Max
  <2> DEFINE m == DisplayListMaxCount - 1
             mirrored == {m - x : x \in complete}
  <2>2. mirrored \subseteq Nat /\ mirrored # {}
    <3>1. \A x \in complete : m - x \in Nat
      BY <2>1, Numbers DEF Lists
    <3> QED
      BY <3>1
  <2>3. PICK z \in mirrored : \A y \in mirrored : z <= y
    BY <2>2, Least
  <2>4. PICK x \in complete : z = m - x
    OBVIOUS
  <2>5. ASSUME NEW y \in complete PROVE x >= y
    <3>1. m - x <= m - y
      BY <2>3, <2>4
    <3>2. x \in Nat /\ y \in Nat /\ m \in Nat
      BY <2>1, Numbers DEF Lists
    <3> QED
      BY <3>1, <3>2
  <2> QED
    BY <2>5
<1>4. FreeList = IF free("none") # {} THEN id(Sets!Min(free("none")))
                 ELSE IF complete # {} THEN id(Sets!Max(complete)) ELSE NoList
  BY DEF FreeList
<1>5. CASE free("none") # {}
  <2>1. PICK i \in free("none") : FreeList = id(i)
    BY <1>2, <1>4, <1>5
  <2> QED
    BY <1>1, <2>1 DEF IsFree
<1>6. CASE free("none") = {}
  <2>1. PICK i \in complete : FreeList = id(i)
    BY <1>3, <1>4, <1>6
  <2> QED
    BY <1>1, <2>1 DEF IsFree
<1> QED
  BY <1>5, <1>6

(* A number gets a new list.                                               *)
LEMMA WrittenList ==
    ASSUME Types, NEW l \in Lists, NEW program \in Programs, NEW stall \in Stalls, NEW state \in States
    PROVE  LET w == Written(l, program, stall, state) IN
           /\ w \in [Lists -> DisplayList]
           /\ \A k \in Lists \ {l} : w[k] = dls[k]
           /\ w[l].state = state /\ w[l].signal = "none" /\ ~w[l].started /\ ~w[l].done
           /\ w[l].pendingInterrupt = dls[l].pendingInterrupt
<1>1. dls \in [Lists -> DisplayList] /\ stall \in Nat
  BY GPUCommonAssumption DEF Types, TypeOK
<1> DEFINE new == [dls[l] EXCEPT !.program = program, !.pc = 1, !.stall = stall, !.signal = "none",
                                 !.started = FALSE, !.done = FALSE, !.state = state]
<1>2. new \in DisplayList
  <2>1. 1 \in Nat \ {0} /\ FALSE \in BOOLEAN
    OBVIOUS
  <2> QED
    BY <1>1, <2>1, DisplayLists, StatesAndSignals
<1>3. /\ new.state = state /\ new.signal = "none" /\ ~new.started /\ ~new.done
      /\ new.pendingInterrupt = dls[l].pendingInterrupt
  BY <1>1 DEF DisplayList
<1>4. Written(l, program, stall, state) = [dls EXCEPT ![l] = new]
  BY DEF Written
<1> HIDE DEF new
<1> QED
  BY <1>1, <1>2, <1>3, <1>4

----------------------------------------------------------------------------
(* The invariant.                                                          *)
Front(l) == dlQueue # << >> /\ Head(dlQueue) = l

(* What the GPU works on is in the queue, unless it is paused.             *)
GpuInQueue ==
    /\ gpu.at \in {"run", "done"} =>
        gpu.list \in Entries(dlQueue) /\ currentList = gpu.list /\ dls[gpu.list].state # "paused"
    /\ gpu.at = "interpret" => gpu.list \in Entries(dlQueue)

(* Until a list comes too late for the last look at the queue, it is also  *)
(* in front, and there is a current list while there is a queue.           *)
QueueInOrder ==
    /\ currentList = NoList => dlQueue = << >>
    /\ gpu.at \in {"run", "done", "interpret"} => Front(gpu.list)
    /\ gpu.at = "idle" => (dlQueue = << >> /\ currentList = NoList) \/ Front(currentList)

PausedInFront ==
    /\ currentList # NoList /\ dls[currentList].state = "paused" => Front(currentList)
    /\ \A l \in Entries(dlQueue) : l # currentList => dls[l].state # "paused"

QueueInStep == GpuInQueue /\ (~overtaken => QueueInOrder)
PausedInStep == ~overtaken => PausedInFront

GoesOn == gpu.at = "run" => dls[gpu.list].state = "running" \/ queued > 0 \/ ge_pending_cb # << >>

(* Until drawing ends, there is a list, or the event is still to come.     *)
DrawingIsAwaited ==
    /\ drawComplete = "due" => drawSyncs > 0
    /\ drawComplete = "never" => dlQueue # << >> \/ UnderWay
    /\ drawWaitingThreads # {} => dlQueue # << >> \/ UnderWay \/ drawSyncs > 0

(* A list that has not ended stays in the queue, or the interrupt is still *)
(* to come that ends it; with the handler of its interrupt running, it is  *)
(* completed already.                                                      *)
Kept(l) == l \in Entries(dlQueue) /\ (gpu.at = "done" /\ gpu.list = l => dls[l].state = "queued")
EndsIt(l, i) ==
    ge_pending_cb[i] = [list |-> l, cmd |-> "finish"] /\ (i = 1 /\ inHandler => dls[l].state \in {"completed", "none"})
Ending(l) == dls[l].signal # "pause" /\ \E i \in DOMAIN ge_pending_cb : EndsIt(l, i)

ListsEnd ==
    /\ gpu.at = "done" => dls[gpu.list].signal # "pause"
    /\ \A l \in Lists : dls[l].done \/ Kept(l) \/ Ending(l)
    /\ \A l \in Lists : listWaitingThreads[l] # {} => ~dls[l].done

IInv ==
    /\ Types /\ QueueInStep /\ PausedInStep /\ GoesOn /\ DrawingIsAwaited /\ ListsEnd /\ NoListStranded

LEMMA InitialInvariant == Init => IInv
<1> SUFFICES ASSUME Init PROVE IInv
  OBVIOUS
<1>1. NoneList \in DisplayList
  BY DEF NoneList, DisplayList
<1>2. dls \in [Lists -> DisplayList] /\ \A l \in Lists : dls[l].done
  BY <1>1 DEF Init, NoneList
<1>3. Types
  <2>1. << >> \in Seq(Lists) /\ << >> \in Seq([list : Lists, cmd : {"signal", "finish"}])
    OBVIOUS
  <2>2. Idle \in [at : Stages, list : Lists \cup {NoList}] /\ Idle.at = "idle"
    BY DEF Idle, Stages
  <2>3. listWaitingThreads \in [Lists -> SUBSET Threads] /\ drawWaitingThreads \subseteq Threads
    BY DEF Init
  <2>4. TypeOK
    BY <1>2, <2>1, <2>3 DEF Init, TypeOK
  <2>5. gpu = Idle /\ nextListID = 0 /\ inHandler = FALSE /\ overtaken = FALSE
    BY DEF Init
  <2> QED
    BY <2>2, <2>4, <2>5 DEF Types
<1>4. Entries(dlQueue) = {}
  BY NoEntry DEF Init
<1>5. QueueInStep /\ PausedInStep /\ GoesOn /\ DrawingIsAwaited /\ NoListStranded
  BY <1>4 DEF Init, QueueInStep, GpuInQueue, QueueInOrder, PausedInStep, PausedInFront, GoesOn, DrawingIsAwaited, NoListStranded, Idle
<1>6. ListsEnd
  BY <1>2 DEF Init, ListsEnd, Idle
<1> QED
  BY <1>3, <1>5, <1>6 DEF IInv

LEMMA InFront ==
    ASSUME Types
    PROVE  /\ Entries(dlQueue) \subseteq Lists
           /\ dlQueue # << >> => Head(dlQueue) \in Entries(dlQueue) /\ Head(dlQueue) \in Lists
<1>1. dlQueue \in Seq(Lists)
  BY DEF Types, TypeOK
<1> QED
  BY <1>1, TailMember DEF Entries

----------------------------------------------------------------------------
(* The steps of the GPU                                                    *)
LEMMA StartKeeps ==
    ASSUME IInv, StartProcessing, UNCHANGED overtaken
    PROVE  IInv'
<1> USE DEF StartProcessing, At, cpuVars, waiting
<1>1. gpu' = [at |-> "next", list |-> NoList] /\ queued \in Nat /\ queued > 0 /\ queued' = queued - 1
  BY DEF IInv, Types, TypeOK
<1>2. Types'
  BY <1>1 DEF IInv, Types, TypeOK, Stages
<1>3. QueueInStep' /\ PausedInStep' /\ GoesOn'
  BY <1>1 DEF IInv, QueueInStep, GpuInQueue, QueueInOrder, PausedInStep, PausedInFront, GoesOn, Front
<1>4. DrawingIsAwaited' /\ NoListStranded'
  BY <1>1 DEF IInv, DrawingIsAwaited, NoListStranded, UnderWay
<1>5. ListsEnd'
  BY <1>1 DEF IInv, ListsEnd, Kept, Ending, EndsIt
<1> QED
  BY <1>2, <1>3, <1>4, <1>5 DEF IInv

LEMMA GetNextKeeps ==
    ASSUME IInv, GetNextListIndex, UNCHANGED overtaken
    PROVE  IInv'
<1> USE DEF GetNextListIndex, At, cpuVars, waiting
<1>1. \/ dlQueue = << >> /\ gpu' = [at |-> "drawn", list |-> NoList]
      \/ Front(Head(dlQueue)) /\ gpu' = [at |-> "interpret", list |-> Head(dlQueue)] /\ Head(dlQueue) \in Lists
  BY InFront DEF IInv, Front
<1>2. Types'
  BY <1>1 DEF IInv, Types, TypeOK, Stages
<1>3. QueueInStep' /\ PausedInStep' /\ GoesOn'
  BY <1>1, InFront DEF IInv, QueueInStep, GpuInQueue, QueueInOrder, PausedInStep, PausedInFront, GoesOn, Front
<1>4. DrawingIsAwaited' /\ NoListStranded'
  BY <1>1 DEF IInv, DrawingIsAwaited, NoListStranded, UnderWay
<1>5. ListsEnd'
  BY <1>1 DEF IInv, ListsEnd, Kept, Ending, EndsIt
<1> QED
  BY <1>2, <1>3, <1>4, <1>5 DEF IInv

LEMMA InterpretKeeps ==
    ASSUME IInv, InterpretList, UNCHANGED overtaken
    PROVE  IInv'
<1> DEFINE l == gpu.list
           new == [dls[l] EXCEPT !.started = TRUE, !.state = "running"]
<1>0. /\ l \in Lists /\ dls \in [Lists -> DisplayList] /\ dls[l] \in DisplayList /\ l \in Entries(dlQueue) /\ l # NoList
      /\ ~overtaken => Front(l)
  BY Numbers DEF IInv, Types, TypeOK, QueueInStep, GpuInQueue, QueueInOrder, InterpretList
<1>1. CASE dls[l].state = "paused"
  <2>1. gpu' = [at |-> "idle", list |-> NoList] /\ UNCHANGED <<dls, currentList>>
    BY <1>1 DEF InterpretList, Idle
  <2>2. ~overtaken => Front(currentList) /\ Head(dlQueue) = currentList
    BY <1>0, <1>1 DEF IInv, PausedInStep, PausedInFront, Front
  <2> USE DEF InterpretList, cpuVars, waiting
  <2>3. Types'
    BY <2>1 DEF IInv, Types, TypeOK, Stages
  <2>4. QueueInStep' /\ PausedInStep' /\ GoesOn'
    BY <2>1, <2>2 DEF IInv, QueueInStep, GpuInQueue, QueueInOrder, PausedInStep, PausedInFront, GoesOn, Front
  <2>5. DrawingIsAwaited' /\ NoListStranded'
    BY <2>1, <2>2, <1>0, <1>1, NoEntry DEF IInv, DrawingIsAwaited, NoListStranded, UnderWay, Front, HeldByGuest
  <2>6. ListsEnd'
    BY <2>1 DEF IInv, ListsEnd, Kept, Ending, EndsIt, InterpretList
  <2> QED
    BY <2>3, <2>4, <2>5, <2>6 DEF IInv
<1>2. CASE dls[l].state # "paused"
  <2>1. /\ gpu' = [at |-> "run", list |-> l] /\ currentList' = l
        /\ dls' = [dls EXCEPT ![l] = new]
    BY <1>0, <1>2 DEF InterpretList, At
  <2>2. new \in DisplayList
    BY <1>0, DisplayLists, StatesAndSignals
  <2>3. new.state = "running" /\ new.signal = dls[l].signal /\ new.done = dls[l].done
    BY <1>0 DEF DisplayList
  <2> HIDE DEF new
  <2>4. /\ dls' \in [Lists -> DisplayList] /\ dls'[l] = new
        /\ \A k \in Lists : k # l => dls'[k] = dls[k]
    BY <1>0, <2>1, <2>2
  <2> USE DEF InterpretList, cpuVars, waiting
  <2>5. Types'
    BY <1>0, <2>1, <2>4 DEF IInv, Types, TypeOK, Stages
  <2>6. QueueInStep'
    BY <1>0, <2>1, <2>3, <2>4 DEF IInv, QueueInStep, GpuInQueue, QueueInOrder, Front
  <2>7. PausedInStep' /\ GoesOn'
    <3>1. GoesOn'
      BY <1>0, <2>1, <2>3, <2>4 DEF GoesOn
    <3> SUFFICES ASSUME ~overtaken PROVE PausedInFront'
      BY <3>1 DEF PausedInStep
    <3>2. currentList # NoList /\ currentList # l => dls[currentList].state # "paused"
      BY <1>0 DEF IInv, PausedInStep, PausedInFront, Front
    <3>3. ASSUME NEW k \in Entries(dlQueue), k # l PROVE dls[k].state # "paused" /\ k \in Lists
      <4>1. k \in Lists
        BY InFront DEF IInv
      <4> QED
        BY <3>2, <3>3, <4>1, Numbers DEF IInv, PausedInStep, PausedInFront
    <3> QED
      BY <1>0, <2>1, <2>3, <2>4, <3>3 DEF PausedInFront, Front
  <2>8. DrawingIsAwaited' /\ NoListStranded'
    BY <1>0, <2>1 DEF IInv, DrawingIsAwaited, NoListStranded, UnderWay, Front
  <2>9. ListsEnd'
    <3>1. l \in Entries(dlQueue)
      BY <1>0
    <3> QED
      BY <1>0, <2>1, <2>3, <2>4, <3>1 DEF IInv, ListsEnd, Kept, Ending, EndsIt
  <2> QED
    BY <2>5, <2>6, <2>7, <2>8, <2>9 DEF IInv
<1> QED
  BY <1>1, <1>2

LEMMA Running ==
    ASSUME IInv, gpu.at = "run"
    PROVE  /\ currentList = gpu.list /\ gpu.list \in Lists /\ gpu.list # NoList
           /\ gpu.list \in Entries(dlQueue) /\ (~overtaken => Front(gpu.list))
           /\ dls \in [Lists -> DisplayList] /\ dls[gpu.list] \in DisplayList /\ list = dls[gpu.list]
           /\ dls[gpu.list].state # "paused"
BY Numbers DEF IInv, Types, TypeOK, QueueInStep, GpuInQueue, QueueInOrder, list

LEMMA StallKeeps ==
    ASSUME IInv, Stall, UNCHANGED overtaken
    PROVE  IInv'
<1> USE DEF Stall, cpuVars, waiting
<1>1. gpu' = [at |-> "idle", list |-> NoList] /\ gpu.at = "run" /\ dls[gpu.list].pc = dls[gpu.list].stall
  BY DEF Idle, list
<1>2. Types'
  BY <1>1 DEF IInv, Types, TypeOK, Stages
<1>3. QueueInStep' /\ PausedInStep' /\ GoesOn'
  BY <1>1 DEF IInv, QueueInStep, GpuInQueue, QueueInOrder, PausedInStep, PausedInFront, GoesOn, Front
<1>4. DrawingIsAwaited' /\ NoListStranded'
  <2>1. ~overtaken => Head(dlQueue) = gpu.list
    BY <1>1, Running DEF Front
  <2>2. dls[gpu.list].state = "running" \/ queued > 0 \/ ge_pending_cb # << >>
    BY <1>1 DEF IInv, GoesOn
  <2>3. NoListStranded'
    <3> SUFFICES ASSUME ~overtaken, queued = 0, ge_pending_cb = << >> PROVE HeldByGuest'
      BY DEF NoListStranded, UnderWay, IInv, Types, TypeOK
    <3> QED
      BY <1>1, <2>1, <2>2 DEF HeldByGuest
  <2>4. dlQueue # << >>
    BY <1>1, Running, NoEntry
  <2> QED
    BY <1>1, <2>3, <2>4 DEF IInv, DrawingIsAwaited, UnderWay
<1>5. ListsEnd'
  BY <1>1 DEF IInv, ListsEnd, Kept, Ending, EndsIt
<1> QED
  BY <1>2, <1>3, <1>4, <1>5 DEF IInv

LEMMA RemoveDoneKeeps ==
    ASSUME IInv, RemoveDone, UNCHANGED overtaken
    PROVE  IInv'
<1> USE DEF RemoveDone, At, cpuVars, waiting
<1>1. /\ gpu' = [at |-> "next", list |-> NoList] /\ gpu.at = "done" /\ dlQueue \in Seq(Lists)
      /\ currentList = gpu.list /\ dls[gpu.list].state # "paused"
      /\ gpu.list \in Lists /\ gpu.list # NoList
  BY Numbers DEF IInv, Types, TypeOK, QueueInStep, GpuInQueue, QueueInOrder
<1>2. /\ dlQueue' \in Seq(Lists)
      /\ Entries(dlQueue') = IF dls[gpu.list].state = "queued" THEN Entries(dlQueue) ELSE Entries(dlQueue) \ {gpu.list}
  BY <1>1, WithoutMember DEF list
<1>3. Types'
  BY <1>1, <1>2 DEF IInv, Types, TypeOK, Stages
<1>4. QueueInStep' /\ PausedInStep' /\ GoesOn'
  BY <1>1, <1>2 DEF IInv, QueueInStep, GpuInQueue, QueueInOrder, PausedInStep, PausedInFront, GoesOn, Front
<1>5. DrawingIsAwaited' /\ NoListStranded'
  BY <1>1 DEF IInv, DrawingIsAwaited, NoListStranded, UnderWay
<1>6. ListsEnd'
  BY <1>1, <1>2 DEF IInv, ListsEnd, Kept, Ending, EndsIt
<1> QED
  BY <1>3, <1>4, <1>5, <1>6 DEF IInv

LEMMA DrawingEndsKeeps ==
    ASSUME IInv, DrawingEnds
    PROVE  IInv'
<1> USE DEF DrawingEnds, cpuVars, waiting
<1>1. /\ gpu' = [at |-> "idle", list |-> NoList] /\ gpu.at = "drawn" /\ overtaken' \in BOOLEAN
      /\ ~overtaken' => dlQueue = << >> /\ Entries(dlQueue) = {}
  BY NoEntry DEF Idle
<1>2. Types'
  BY <1>1 DEF IInv, Types, TypeOK, Stages
<1>3. QueueInStep' /\ PausedInStep' /\ GoesOn'
  BY <1>1 DEF IInv, QueueInStep, GpuInQueue, QueueInOrder, PausedInStep, PausedInFront, GoesOn, Front
<1>4. DrawingIsAwaited' /\ NoListStranded'
  BY <1>1 DEF IInv, DrawingIsAwaited, NoListStranded, UnderWay
<1>5. ListsEnd'
  BY <1>1 DEF IInv, ListsEnd, Kept, Ending, EndsIt
<1> QED
  BY <1>2, <1>3, <1>4, <1>5 DEF IInv

(* What a SIGNAL or FINISH changes: the list that runs and, with an        *)
(* interrupt, ge_pending_cb.                                               *)
Requests == [list : Lists, cmd : {"signal", "finish"}]

LEMMA TriggeredAt ==
    ASSUME Types, NEW e \in Requests
    PROVE  LET p == Append(ge_pending_cb, e) IN
           /\ p \in Seq(Requests) /\ p # << >> /\ DOMAIN p = 1 .. Len(ge_pending_cb) + 1
           /\ \A i \in DOMAIN ge_pending_cb : i \in DOMAIN p /\ p[i] = ge_pending_cb[i]
           /\ Len(ge_pending_cb) + 1 \in DOMAIN p /\ p[Len(ge_pending_cb) + 1] = e
           /\ inHandler => Len(ge_pending_cb) + 1 # 1
<1>1. ge_pending_cb \in Seq(Requests)
  BY DEF Types, TypeOK, Requests
<1>2. inHandler => Len(ge_pending_cb) # 0
  BY <1>1 DEF Types
<1> QED
  BY <1>1, <1>2

LEMMA EndingStill ==
    ASSUME Types, NEW e \in Requests, ge_pending_cb' = Append(ge_pending_cb, e), inHandler' = inHandler,
           NEW k, dls'[k].state = dls[k].state, dls'[k].signal = dls[k].signal, Ending(k)
    PROVE  Ending(k)'
<1>1. PICK i \in DOMAIN ge_pending_cb : EndsIt(k, i)
  BY DEF Ending
<1>2. i \in DOMAIN ge_pending_cb' /\ ge_pending_cb'[i] = ge_pending_cb[i]
  BY TriggeredAt
<1>3. EndsIt(k, i)'
  BY <1>1, <1>2 DEF EndsIt
<1> QED
  BY <1>2, <1>3 DEF Ending

LEMMA DrawKeeps ==
    ASSUME IInv, Draw, UNCHANGED overtaken
    PROVE  IInv'
<1> DEFINE l == gpu.list
           new == [dls[l] EXCEPT !.pc = dls[l].pc + 1]
<1>0. gpu.at = "run"
  BY DEF Draw, Runs
<1>1. dls' = [dls EXCEPT ![l] = new]
  BY DEF Draw
<1>2. new \in DisplayList
  BY <1>0, Running, Fields, DisplayLists
<1>3. new.state = dls[l].state /\ new.signal = dls[l].signal /\ new.done = dls[l].done
  BY <1>0, Running DEF DisplayList
<1> HIDE DEF new
<1>4. /\ dls' \in [Lists -> DisplayList] /\ dls'[l] = new
      /\ \A k \in Lists : k # l => dls'[k] = dls[k]
  BY <1>0, <1>1, <1>2, Running
<1>5. \A k \in Lists : dls'[k].state = dls[k].state /\ dls'[k].signal = dls[k].signal /\ dls'[k].done = dls[k].done
  BY <1>3, <1>4
<1> HIDE DEF l
<1> USE DEF Draw, cpuVars, waiting
<1>6. Types'
  BY <1>4 DEF IInv, Types, TypeOK
<1>7. QueueInStep' /\ GoesOn'
  BY <1>0, <1>5, Running DEF IInv, QueueInStep, GpuInQueue, QueueInOrder, Front, GoesOn
<1>8. PausedInStep'
  BY <1>0, <1>5, Running, InFront DEF IInv, PausedInStep, PausedInFront, Front
<1>9. DrawingIsAwaited' /\ NoListStranded'
  BY <1>0 DEF IInv, DrawingIsAwaited, NoListStranded, UnderWay
<1>10. ListsEnd'
  BY <1>0, <1>5, Running DEF IInv, ListsEnd, Kept, Ending, EndsIt
<1> QED
  BY <1>6, <1>7, <1>8, <1>9, <1>10 DEF IInv

LEMMA SignalKeeps ==
    ASSUME IInv, Signal, UNCHANGED overtaken
    PROVE  IInv'
<1> DEFINE l == gpu.list
           triggers == Command \in {"suspend", "continue"}
           e == [list |-> l, cmd |-> "signal"]
           state == IF Command = "suspend" /\ ~NewSdk THEN "paused" ELSE dls[l].state
           new == [dls[l] EXCEPT !.pc = dls[l].pc + 1, !.signal = Command, !.state = state,
                                 !.pendingInterrupt = dls[l].pendingInterrupt \/ triggers]
<1>0. gpu.at = "run" /\ Command \in Signals /\ (state = "paused" => triggers)
  BY Running, StatesAndSignals DEF Signal, Runs, Commands
<1>1. /\ dls' = [dls EXCEPT ![l] = new]
      /\ IF triggers THEN ge_pending_cb' = Append(ge_pending_cb, e) /\ gpu' = [at |-> "idle", list |-> NoList]
                     ELSE UNCHANGED <<ge_pending_cb, gpu>>
  BY <1>0, Running DEF Signal, TriggerInterrupt, Idle
<1>2. new \in DisplayList
  <2>1. state \in States
    BY <1>0, Running, Fields, StatesAndSignals
  <2>2. (dls[l].pendingInterrupt \/ triggers) \in BOOLEAN
    OBVIOUS
  <2> HIDE DEF state, triggers
  <2> QED
    BY <1>0, <2>1, <2>2, Running, Fields, DisplayLists
<1>3. new.state = state /\ new.done = dls[l].done
  BY <1>0, Running DEF DisplayList
<1>4. e \in Requests
  BY <1>0, Running DEF Requests
<1> HIDE DEF new, state, e, triggers
<1>5. /\ dls' \in [Lists -> DisplayList] /\ dls'[l] = new
      /\ \A k \in Lists : k # l => dls'[k] = dls[k]
  BY <1>0, <1>1, <1>2, Running
<1>6. state = "paused" \/ state = dls[l].state
  BY DEF state
<1> USE DEF Signal, cpuVars, waiting
<1>7. Types'
  <2>1. ge_pending_cb' \in Seq(Requests) /\ (inHandler => ge_pending_cb' # << >>)
    BY <1>1, <1>4, TriggeredAt DEF IInv, Types, TypeOK, Requests
  <2>2. TypeOK'
    BY <1>5, <2>1 DEF IInv, Types, TypeOK, Requests
  <2> QED
    BY <1>1, <2>1, <2>2 DEF IInv, Types, Stages
<1>8. QueueInStep' /\ GoesOn'
  <2>1. CASE triggers
    BY <1>1, <2>1, <1>0, Running DEF QueueInStep, GpuInQueue, QueueInOrder, Front, GoesOn
  <2>2. CASE ~triggers
    <3>1. dls'[l].state = dls[l].state /\ UNCHANGED gpu
      BY <1>0, <1>1, <1>3, <1>5, <1>6, <2>2
    <3> QED
      BY <1>0, <1>1, <2>2, <3>1, Running DEF IInv, QueueInStep, GpuInQueue, QueueInOrder, Front, GoesOn
  <2> QED
    BY <2>1, <2>2
<1>9. PausedInStep'
  BY <1>0, <1>5, Running, InFront DEF IInv, PausedInStep, PausedInFront, Front
<1>10. DrawingIsAwaited' /\ NoListStranded'
  BY <1>0, <1>1, <1>4, TriggeredAt DEF IInv, DrawingIsAwaited, NoListStranded, UnderWay
<1>11. ListsEnd'
  <2>1. ASSUME NEW k \in Lists PROVE dls'[k].done \/ Kept(k)' \/ Ending(k)'
    <3>1. CASE k = l
      BY <1>0, <1>1, <3>1, Running DEF Kept
    <3>2. CASE k # l
      <4>1. Kept(k) => Kept(k)'
        BY <1>0, <1>1, <1>5, <3>2 DEF Kept
      <4>2. Ending(k) => Ending(k)'
        <5>1. CASE triggers
          BY <1>1, <1>4, <1>5, <3>2, <5>1, EndingStill DEF IInv
        <5>2. CASE ~triggers
          BY <1>1, <1>5, <3>2, <5>2 DEF Ending, EndsIt
        <5> QED
          BY <5>1, <5>2
      <4> QED
        BY <1>5, <3>2, <4>1, <4>2 DEF IInv, ListsEnd
    <3> QED
      BY <3>1, <3>2
  <2> QED
    BY <1>0, <1>1, <1>3, <1>5, <2>1, Running DEF IInv, ListsEnd
<1> QED
  BY <1>7, <1>8, <1>9, <1>10, <1>11 DEF IInv

LEMMA FinishKeeps ==
    ASSUME IInv, Finish, UNCHANGED overtaken
    PROVE  IInv'
<1> DEFINE l == gpu.list
           signal == dls[l].signal
           e == [list |-> l, cmd |-> "finish"]
           synced == [dls[l] EXCEPT !.pc = dls[l].pc + 1, !.signal = "none"]
           paused == [dls[l] EXCEPT !.pc = dls[l].pc + 1, !.state = "paused", !.pendingInterrupt = TRUE]
           ended == [dls[l] EXCEPT !.pc = dls[l].pc + 1, !.pendingInterrupt = TRUE]
<1>0. gpu.at = "run" /\ e \in Requests
  BY Running DEF Finish, Runs, Requests
<1> DEFINE new == IF signal = "sync" THEN synced ELSE IF signal = "pause" THEN paused ELSE ended
<1>1. /\ dls' = [dls EXCEPT ![l] = new]
      /\ \/ new = synced /\ UNCHANGED <<ge_pending_cb, gpu>>
         \/ new = paused /\ ge_pending_cb' = Append(ge_pending_cb, e) /\ gpu' = [at |-> "idle", list |-> NoList]
         \/ /\ new = ended /\ signal # "pause" /\ ge_pending_cb' = Append(ge_pending_cb, e)
            /\ gpu' = [at |-> "done", list |-> l]
  <2>1. CASE signal = "sync"
    BY <1>0, <2>1, Running DEF Finish
  <2>2. CASE signal = "pause"
    BY <1>0, <2>2, Running DEF Finish, TriggerInterrupt, Idle
  <2>3. CASE signal \notin {"sync", "pause"}
    BY <1>0, <2>3, Running DEF Finish, TriggerInterrupt, At
  <2> QED
    BY <2>1, <2>2, <2>3
<1>2. new \in DisplayList
  <2>1. synced \in DisplayList
    BY <1>0, Running, Fields, DisplayLists, StatesAndSignals
  <2>2. paused \in DisplayList
    BY <1>0, Running, Fields, DisplayLists, StatesAndSignals
  <2>3. ended \in DisplayList
    BY <1>0, Running, Fields, DisplayLists
  <2> HIDE DEF synced, paused, ended
  <2> QED
    BY <2>1, <2>2, <2>3
<1>3. /\ synced.state = dls[l].state /\ synced.done = dls[l].done
      /\ paused.done = dls[l].done
      /\ ended.state = dls[l].state /\ ended.done = dls[l].done /\ ended.signal = signal
  BY <1>0, Running DEF DisplayList
<1>4. new \in {synced, paused, ended}
  OBVIOUS
<1> HIDE DEF synced, paused, ended, new, e
<1>5. /\ dls' \in [Lists -> DisplayList] /\ dls'[l] = new
      /\ \A k \in Lists : k # l => dls'[k] = dls[k]
  BY <1>0, <1>1, <1>2, Running
<1> USE DEF Finish, cpuVars, waiting
<1>7. Types'
  <2>1. ge_pending_cb' \in Seq(Requests) /\ (inHandler => ge_pending_cb' # << >>)
    BY <1>0, <1>1, TriggeredAt DEF IInv, Types, TypeOK, Requests
  <2>2. TypeOK'
    BY <1>5, <2>1 DEF IInv, Types, TypeOK, Requests
  <2>3. gpu' \in [at : Stages, list : Lists \cup {NoList}] /\ (gpu'.at \in {"interpret", "run", "done"} => gpu'.list \in Lists)
    BY <1>0, <1>1, Running DEF IInv, Types, Stages
  <2> QED
    BY <1>1, <2>1, <2>2, <2>3 DEF IInv, Types
<1>8. QueueInStep' /\ GoesOn'
  <2>1. CASE new = synced /\ UNCHANGED <<ge_pending_cb, gpu>>
    BY <1>0, <1>3, <1>5, <2>1, Running DEF IInv, QueueInStep, GpuInQueue, QueueInOrder, Front, GoesOn
  <2>2. CASE gpu' = [at |-> "idle", list |-> NoList]
    BY <1>0, <2>2, Running DEF QueueInStep, GpuInQueue, QueueInOrder, Front, GoesOn
  <2>3. CASE new = ended /\ gpu' = [at |-> "done", list |-> l]
    BY <1>0, <1>3, <1>5, <2>3, Running DEF QueueInStep, GpuInQueue, QueueInOrder, Front, GoesOn
  <2> QED
    BY <1>1, <2>1, <2>2, <2>3
<1>9. PausedInStep'
  BY <1>0, <1>5, Running, InFront DEF IInv, PausedInStep, PausedInFront, Front
<1>10. DrawingIsAwaited' /\ NoListStranded'
  BY <1>0, <1>1, TriggeredAt DEF IInv, DrawingIsAwaited, NoListStranded, UnderWay
<1>11. ListsEnd'
  <2>1. ASSUME NEW k \in Lists, k # l PROVE dls'[k].done \/ Kept(k)' \/ Ending(k)'
    <3>1. Kept(k) => Kept(k)'
      BY <1>0, <1>1, <1>5, <2>1 DEF Kept
    <3>2. Ending(k) => Ending(k)'
      <4>1. CASE ge_pending_cb' = Append(ge_pending_cb, e)
        BY <1>0, <1>5, <2>1, <4>1, EndingStill DEF IInv
      <4>2. CASE UNCHANGED ge_pending_cb
        BY <1>5, <2>1, <4>2 DEF Ending, EndsIt
      <4> QED
        BY <1>1, <4>1, <4>2
    <3> QED
      BY <1>5, <2>1, <3>1, <3>2 DEF IInv, ListsEnd
  <2>2. ASSUME NEW k \in Lists, k = l PROVE Kept(k)' \/ Ending(k)'
    <3>1. CASE gpu'.at # "done"
      BY <1>0, <2>2, <3>1, Running DEF Kept
    <3>2. CASE gpu'.at = "done"
      <4>1. new = ended /\ ge_pending_cb' = Append(ge_pending_cb, e) /\ signal # "pause"
        BY <1>0, <1>1, <3>2
      <4> PICK m : m = Len(ge_pending_cb) + 1
        OBVIOUS
      <4>3. m \in DOMAIN ge_pending_cb' /\ ge_pending_cb'[m] = e /\ (inHandler => m # 1)
        BY <1>0, <4>1, TriggeredAt DEF IInv
      <4>2. EndsIt(k, m)'
        BY <2>2, <4>3 DEF EndsIt, e
      <4> QED
        BY <1>3, <1>5, <2>2, <4>1, <4>2, <4>3 DEF Ending
    <3> QED
      BY <3>1, <3>2
  <2>3. gpu'.at = "done" => dls'[gpu'.list].signal # "pause"
    BY <1>0, <1>1, <1>3, <1>5
  <2>4. \A k \in Lists : dls'[k].done = dls[k].done
    BY <1>1, <1>3, <1>5
  <2>5. \A k \in Lists : dls'[k].done \/ Kept(k)' \/ Ending(k)'
    BY <2>1, <2>2
  <2> QED
    BY <2>3, <2>4, <2>5 DEF IInv, ListsEnd
<1> QED
  BY <1>7, <1>8, <1>9, <1>10, <1>11 DEF IInv

----------------------------------------------------------------------------
(* The calls of the guest                                                  *)
LEMMA EnqueueKeeps ==
    ASSUME IInv, Careless = {}, NEW program \in Programs, NEW stall \in Stalls, EnqueueList(program, stall)
    PROVE  IInv'
<1> PICK l : l = FreeList
  OBVIOUS
<1>0. /\ l \in Lists /\ l # NoList /\ l + 1 \in Nat /\ nextListID' = l + 1
      /\ dls[l].state \in {"none", "completed"}
  <2>1. FreeList # NoList /\ nextListID' = l + 1
    BY DEF EnqueueList
  <2>2. IsFree(l)
    BY <2>1, FreeListIsFree DEF IInv
  <2> QED
    BY <2>1, <2>2, Numbers DEF IsFree
<1>1. dlQueue \in Seq(Lists) /\ dls \in [Lists -> DisplayList]
  BY DEF IInv, Types, TypeOK
<1>4. UNCHANGED <<separate, overtaken, ge_pending_cb, inHandler, gpu, drawSyncs, listWaitingThreads, drawWaitingThreads>>
  BY DEF EnqueueList, gpuVars, waiting
<1>2. CASE currentList # NoList
  <2>1. /\ dls' = Written(l, program, stall, "queued") /\ dlQueue' = Append(dlQueue, l)
        /\ UNCHANGED <<currentList, drawComplete, queued>>
    BY <1>2 DEF EnqueueList
  <2>2. /\ dls' \in [Lists -> DisplayList] /\ \A k \in Lists : k # l => dls'[k] = dls[k]
        /\ dls'[l].state = "queued" /\ dls'[l].signal = "none" /\ ~dls'[l].done
    BY <1>0, <2>1, WrittenList, StatesAndSignals DEF IInv
  <2>3. /\ dlQueue' \in Seq(Lists) /\ dlQueue' # << >> /\ Entries(dlQueue') = Entries(dlQueue) \cup {l}
        /\ dlQueue # << >> => Head(dlQueue') = Head(dlQueue)
    BY <1>0, <1>1, <2>1, AppendMember
  <2>4. Types'
    BY <1>4, <1>0, <2>1, <2>2, <2>3 DEF IInv, Types, TypeOK
  <2>5. QueueInStep'
    BY <1>4, <1>1, <1>2, <2>1, <2>2, <2>3 DEF IInv, QueueInStep, GpuInQueue, QueueInOrder, Front, Types
  <2>6. PausedInStep' /\ GoesOn'
    <3>1. \A k \in Entries(dlQueue) : k \in Lists
      BY InFront DEF IInv
    <3>2. PausedInStep'
      <4> SUFFICES ASSUME ~overtaken PROVE PausedInFront'
        BY <1>4 DEF PausedInStep
      <4>1. currentList \in Lists
        BY <1>2 DEF IInv, Types, TypeOK
      <4>2. dls'[currentList].state = "paused" => Front(currentList)
        BY <2>2, <4>1, <1>2 DEF IInv, PausedInStep, PausedInFront
      <4> QED
        BY <2>1, <2>2, <2>3, <3>1, <4>2 DEF IInv, PausedInStep, PausedInFront, Front
    <3>3. GoesOn'
      <4> SUFFICES ASSUME gpu.at = "run", queued = 0, ge_pending_cb = << >> PROVE dls'[gpu.list].state = "running"
        BY <1>4, <2>1 DEF GoesOn, IInv, Types, TypeOK
      <4>1. dls[gpu.list].state = "running" /\ gpu.list \in Lists
        BY DEF IInv, GoesOn, Types
      <4> QED
        BY <1>0, <2>2, <4>1
    <3> QED
      BY <3>2, <3>3
  <2>7. DrawingIsAwaited'
    BY <1>4, <2>1, <2>3 DEF IInv, DrawingIsAwaited, UnderWay
  <2>8. NoListStranded'
    <3> SUFFICES ASSUME ~overtaken, ~UnderWay' PROVE HeldByGuest'
      BY <1>4 DEF NoListStranded
    <3>1. ~UnderWay /\ gpu.at = "idle"
      BY <1>4, <2>1 DEF UnderWay
    <3>2. dlQueue # << >> /\ HeldByGuest /\ Head(dlQueue) = Head(dlQueue') /\ Head(dlQueue) \in Lists
      BY <1>2, <2>3, <3>1, InFront DEF IInv, QueueInStep, GpuInQueue, QueueInOrder, Front, NoListStranded
    <3>3. dls'[Head(dlQueue)] = dls[Head(dlQueue)]
      <4>1. dls[Head(dlQueue)].state \in {"paused", "running"}
        BY <3>2 DEF HeldByGuest
      <4> QED
        BY <1>0, <2>2, <3>2, <4>1
    <3> QED
      BY <2>1, <3>2, <3>3 DEF HeldByGuest
  <2>9. ListsEnd'
    <3>1. ASSUME NEW k \in Lists, k # l PROVE dls'[k].done \/ Kept(k)' \/ Ending(k)'
      <4>1. Kept(k) => Kept(k)'
        BY <1>4, <2>2, <2>3, <3>1 DEF Kept
      <4>2. Ending(k) => Ending(k)'
        BY <1>4, <2>2, <3>1 DEF Ending, EndsIt
      <4> QED
        BY <2>2, <3>1, <4>1, <4>2 DEF IInv, ListsEnd
    <3>2. ASSUME NEW k \in Lists, k = l PROVE Kept(k)'
      BY <2>2, <2>3, <3>2 DEF Kept
    <3>3. \A k \in Lists : listWaitingThreads'[k] # {} => ~dls'[k].done
      BY <1>4, <2>2 DEF IInv, ListsEnd
    <3>4. gpu'.at = "done" => dls'[gpu'.list].signal # "pause"
      BY <1>4, <2>2 DEF IInv, ListsEnd, Types
    <3> QED
      BY <3>1, <3>2, <3>3, <3>4 DEF ListsEnd
  <2> QED
    BY <2>4, <2>5, <2>6, <2>7, <2>8, <2>9 DEF IInv
<1>3. CASE currentList = NoList
  <2>1. /\ dls' = Written(l, program, stall, "running") /\ dlQueue' = <<l>> \o dlQueue
        /\ currentList' = l /\ drawComplete' = "never" /\ queued' = queued + 1
    BY <1>3 DEF EnqueueList
  <2>2. /\ dls' \in [Lists -> DisplayList] /\ \A k \in Lists : k # l => dls'[k] = dls[k]
        /\ dls'[l].state = "running" /\ dls'[l].signal = "none" /\ ~dls'[l].done
    BY <1>0, <2>1, WrittenList, StatesAndSignals DEF IInv
  <2>3. /\ dlQueue' \in Seq(Lists) /\ dlQueue' # << >> /\ Entries(dlQueue') = Entries(dlQueue) \cup {l}
        /\ Head(dlQueue') = l /\ (~overtaken => Entries(dlQueue) = {})
    <3>1. ~overtaken => dlQueue = << >> /\ Entries(dlQueue) = {}
      BY <1>3, NoEntry DEF IInv, QueueInStep, GpuInQueue, QueueInOrder
    <3>2. /\ dlQueue' \in Seq(Lists) /\ dlQueue' # << >> /\ Entries(dlQueue') = Entries(dlQueue) \cup {l}
          /\ Head(dlQueue') = l
      BY <1>0, <1>1, <2>1, ConsMember
    <3> QED
      BY <3>1, <3>2
  <2>4. gpu.at \notin {"run", "done"} /\ queued' > 0 /\ (gpu.at = "interpret" => overtaken)
    <3>1. queued' > 0
      BY <2>1 DEF IInv, Types, TypeOK
    <3>2. gpu.at \in {"run", "done"} => gpu.list = NoList /\ gpu.list \in Lists
      BY <1>3 DEF IInv, QueueInStep, GpuInQueue, Types
    <3>3. gpu.at = "interpret" => gpu.list \in Entries(dlQueue)
      BY DEF IInv, QueueInStep, GpuInQueue
    <3> QED
      BY <2>3, <3>1, <3>2, <3>3, Numbers
  <2>5. Types'
    BY <1>4, <1>0, <2>1, <2>2, <2>3 DEF IInv, Types, TypeOK
  <2>6. QueueInStep' /\ PausedInStep' /\ GoesOn'
    BY <1>4, <1>0, <2>1, <2>2, <2>3, <2>4 DEF IInv, QueueInStep, GpuInQueue, QueueInOrder, PausedInStep, PausedInFront, GoesOn, Front
  <2>7. DrawingIsAwaited' /\ NoListStranded'
    BY <1>4, <2>1, <2>3, <2>4 DEF DrawingIsAwaited, NoListStranded, UnderWay
  <2>9. ListsEnd'
    BY <1>4, <1>0, <2>1, <2>2, <2>3, <2>4 DEF IInv, ListsEnd, Kept, Ending, EndsIt
  <2> QED
    BY <2>5, <2>6, <2>7, <2>9 DEF IInv
<1> QED
  BY <1>2, <1>3

LEMMA EnqueueHeadKeeps ==
    ASSUME IInv, Careless = {}, NEW program \in Programs, NEW stall \in Stalls, EnqueueHead(program, stall)
    PROVE  IInv'
<1> PICK l : l = FreeList
  OBVIOUS
<1> PICK c : c = currentList
  OBVIOUS
<1>0. /\ l \in Lists /\ l # NoList /\ l + 1 \in Nat /\ nextListID' = l + 1
      /\ dls[l].state \in {"none", "completed"}
  BY FreeListIsFree, Numbers DEF EnqueueHead, IInv, IsFree
<1>1. gpu.at = "idle" /\ dlQueue \in Seq(Lists) /\ dls \in [Lists -> DisplayList]
  BY DEF EnqueueHead, MayReorder, AtRest, IInv, Types, TypeOK
<1>2. /\ c # NoList => dls[c].state = "paused" /\ c \in Lists /\ c # l
      /\ ~overtaken /\ c = NoList => dlQueue = << >> /\ Entries(dlQueue) = {}
      /\ \A k \in Lists : k # NoList
  BY <1>0, NoEntry, Numbers DEF EnqueueHead, IInv, Types, TypeOK, PausedInStep, PausedInFront, QueueInStep, GpuInQueue, QueueInOrder
<1>3. gpu.at \notin {"run", "done", "interpret"}
  BY <1>1
<1> DEFINE written == Written(l, program, stall, "paused")
<1>4. /\ dls' = IF c = NoList THEN written ELSE [written EXCEPT ![c].state = "queued"]
      /\ currentList' = l /\ dlQueue' = <<l>> \o dlQueue /\ queued' = queued /\ drawComplete' = drawComplete
  BY <1>2 DEF EnqueueHead
<1>5. /\ written \in [Lists -> DisplayList] /\ \A k \in Lists : k # l => written[k] = dls[k]
      /\ written[l].state = "paused" /\ written[l].signal = "none" /\ ~written[l].done
  BY <1>0, WrittenList, StatesAndSignals DEF IInv
<1> HIDE DEF written
<1> DEFINE behind == [dls[c] EXCEPT !.state = "queued"]
<1>6. /\ dls' \in [Lists -> DisplayList] /\ \A k \in Lists : k # l /\ k # c => dls'[k] = dls[k]
      /\ dls'[l].state = "paused" /\ dls'[l].signal = "none" /\ ~dls'[l].done
      /\ c # NoList => dls'[c].state = "queued" /\ dls'[c].signal = dls[c].signal /\ dls'[c].done = dls[c].done
  <2>1. CASE c = NoList
    BY <1>4, <1>5, <2>1
  <2>2. CASE c # NoList
    <3>1. behind \in DisplayList /\ c \in Lists /\ c # l
      BY <1>1, <1>2, <2>2, DisplayLists, StatesAndSignals
    <3>2. behind.state = "queued" /\ behind.signal = dls[c].signal /\ behind.done = dls[c].done
      BY <1>1, <3>1 DEF DisplayList
    <3>3. dls' = [written EXCEPT ![c] = behind]
      BY <1>4, <1>5, <2>2, <3>1
    <3> HIDE DEF behind
    <3> QED
      BY <1>5, <3>1, <3>2, <3>3
  <2> QED
    BY <2>1, <2>2
<1>7. /\ dlQueue' \in Seq(Lists) /\ dlQueue' # << >> /\ Entries(dlQueue') = Entries(dlQueue) \cup {l}
      /\ Head(dlQueue') = l
  BY <1>0, <1>1, <1>4, ConsMember
<1> HIDE DEF behind
<1>8. \A k \in Entries(dlQueue) : k \in Lists /\ (~overtaken /\ k # c => dls[k].state # "paused")
  BY InFront DEF IInv, PausedInStep, PausedInFront
<1>15. UNCHANGED <<separate, overtaken, ge_pending_cb, inHandler, gpu, drawSyncs, listWaitingThreads, drawWaitingThreads>>
  BY DEF EnqueueHead, gpuVars, waiting
<1>9. Types'
  BY <1>15, <1>0, <1>4, <1>6, <1>7 DEF IInv, Types, TypeOK
<1>10. QueueInStep' /\ GoesOn'
  BY <1>15, <1>0, <1>1, <1>3, <1>4, <1>7 DEF QueueInStep, GpuInQueue, QueueInOrder, GoesOn, Front
<1>11. PausedInStep'
  BY <1>15, <1>0, <1>2, <1>4, <1>6, <1>7, <1>8 DEF PausedInStep, PausedInFront, Front
<1>12. DrawingIsAwaited'
  BY <1>15, <1>4, <1>7 DEF IInv, DrawingIsAwaited
<1>13. NoListStranded'
  BY <1>4, <1>6, <1>7 DEF NoListStranded, HeldByGuest
<1>14. ListsEnd'
  <2>1. ASSUME NEW k \in Lists, k # l PROVE dls'[k].done \/ Kept(k)' \/ Ending(k)'
    <3>1. Kept(k) => Kept(k)'
      BY <1>15, <1>3, <1>7 DEF Kept
    <3>2. Ending(k) => Ending(k)'
      BY <1>15, <1>2, <1>6, <2>1 DEF Ending, EndsIt
    <3> QED
      <4>1. dls'[k].done = dls[k].done
        BY <1>2, <1>6, <2>1
      <4> QED
        BY <3>1, <3>2, <4>1 DEF IInv, ListsEnd
  <2>2. ASSUME NEW k \in Lists, k = l PROVE Kept(k)'
    BY <1>15, <1>3, <1>7, <2>2 DEF Kept
  <2>3. \A k \in Lists : listWaitingThreads'[k] # {} => ~dls'[k].done
    BY <1>15, <1>2, <1>6 DEF IInv, ListsEnd
  <2> QED
    BY <1>15, <1>3, <2>1, <2>2, <2>3 DEF ListsEnd
<1> QED
  BY <1>9, <1>10, <1>11, <1>12, <1>13, <1>14 DEF IInv

LEMMA DequeueKeeps ==
    ASSUME IInv, Careless = {}, NEW l \in Lists, DequeueList(l)
    PROVE  IInv'
<1> PICK c : c = currentList
  OBVIOUS
<1> DEFINE new == [dls[l] EXCEPT !.state = "none", !.done = TRUE]
           dequeued == [dls EXCEPT ![l].state = "none", ![l].done = TRUE]
<1>0. /\ dlQueue # << >> /\ gpu.at = "idle" /\ l # c /\ l # Head(dlQueue)
      /\ dlQueue \in Seq(Lists) /\ dls \in [Lists -> DisplayList]
  BY DEF DequeueList, MayReorder, AtRest, IInv, Types, TypeOK
<1>1. new \in DisplayList /\ new.state = "none" /\ new.done /\ new.signal = dls[l].signal
  <2>1. new \in DisplayList
    BY <1>0, DisplayLists, StatesAndSignals
  <2>2. new.state = "none" /\ new.done /\ new.signal = dls[l].signal
    BY <1>0 DEF DisplayList
  <2> QED
    BY <2>1, <2>2
<1>2. dequeued = [dls EXCEPT ![l] = new]
  BY <1>0
<1> HIDE DEF new
<1>3. /\ dequeued \in [Lists -> DisplayList] /\ dequeued[l] = new
      /\ \A k \in Lists : k # l => dequeued[k] = dls[k]
  BY <1>0, <1>1, <1>2
<1> HIDE DEF dequeued
<1>4. /\ UNCHANGED <<separate, overtaken, ge_pending_cb, inHandler, gpu, nextListID, drawComplete, drawSyncs,
                     drawWaitingThreads, queued>>
      /\ listWaitingThreads' = [listWaitingThreads EXCEPT ![l] = {}]
  BY DEF DequeueList, gpuVars, Woken
<1>5. listWaitingThreads \in [Lists -> SUBSET Threads] /\ nextListID \in Nat
  BY DEF IInv, Types, TypeOK
<1>6. /\ dlQueue' = Without(dlQueue, l) /\ currentList' = currentList
      /\ Without(dlQueue, l) # << >> => dls' = dequeued
  BY <1>0 DEF DequeueList, dequeued
<1>7. /\ dlQueue' \in Seq(Lists) /\ dlQueue' # << >> /\ Entries(dlQueue') = Entries(dlQueue) \ {l}
      /\ Head(dlQueue') = Head(dlQueue)
  BY <1>0, <1>6, WithoutMember
<1>8. dls' = dequeued
  BY <1>6, <1>7
<1>9. Types'
  BY <1>3, <1>4, <1>5, <1>6, <1>7, <1>8 DEF IInv, Types, TypeOK
<1>10. QueueInStep'
  BY <1>0, <1>3, <1>4, <1>6, <1>7, <1>8 DEF IInv, QueueInStep, GpuInQueue, QueueInOrder, Front, Types
<1>11. PausedInStep'
  <2> SUFFICES ASSUME ~overtaken PROVE PausedInFront'
    BY <1>4 DEF PausedInStep
  <2>1. currentList # NoList => currentList \in Lists /\ dls'[currentList] = dls[currentList]
    BY <1>0, <1>3, <1>8 DEF IInv, Types, TypeOK
  <2>2. \A k \in Entries(dlQueue) : k # l => dls'[k] = dls[k]
    BY <1>3, <1>8, InFront DEF IInv
  <2> QED
    BY <1>0, <1>6, <1>7, <2>1, <2>2 DEF IInv, PausedInStep, PausedInFront, Front
<1>12. GoesOn'
  BY <1>0, <1>3, <1>4, <1>8 DEF IInv, QueueInStep, GpuInQueue, QueueInOrder, GoesOn, Front, Types
<1>13. DrawingIsAwaited'
  BY <1>4, <1>7 DEF IInv, DrawingIsAwaited
<1>14. NoListStranded'
  <2> SUFFICES ASSUME ~overtaken, ~UnderWay PROVE HeldByGuest'
    BY <1>4 DEF NoListStranded, UnderWay
  <2>1. HeldByGuest /\ Head(dlQueue) \in Lists
    BY <1>0, InFront DEF IInv, NoListStranded
  <2> QED
    BY <1>0, <1>3, <1>6, <1>7, <1>8, <2>1 DEF HeldByGuest
<1>15. ListsEnd'
  <2>1. ASSUME NEW k \in Lists, k # l PROVE dls'[k].done \/ Kept(k)' \/ Ending(k)'
    <3>1. Kept(k) => Kept(k)'
      BY <1>3, <1>4, <1>7, <1>8, <2>1 DEF Kept
    <3>2. Ending(k) => Ending(k)'
      BY <1>3, <1>4, <1>8, <2>1 DEF Ending, EndsIt
    <3> QED
      BY <1>3, <1>8, <2>1, <3>1, <3>2 DEF IInv, ListsEnd
  <2>2. dls'[l].done /\ listWaitingThreads'[l] = {}
    BY <1>1, <1>3, <1>4, <1>5, <1>8
  <2>3. \A k \in Lists : listWaitingThreads'[k] # {} => ~dls'[k].done
    BY <1>3, <1>4, <1>5, <1>8, <2>2 DEF IInv, ListsEnd
  <2>4. gpu'.at = "done" => dls'[gpu'.list].signal # "pause"
    BY <1>1, <1>3, <1>4, <1>8 DEF IInv, ListsEnd, Types
  <2> QED
    BY <2>1, <2>2, <2>3, <2>4 DEF ListsEnd
<1> QED
  BY <1>9, <1>10, <1>11, <1>12, <1>13, <1>14, <1>15 DEF IInv

LEMMA UpdateStallKeeps ==
    ASSUME IInv, NEW l \in Lists, NEW stall \in Stalls, UpdateStall(l, stall)
    PROVE  IInv'
<1> DEFINE new == [dls[l] EXCEPT !.stall = stall]
<1>0. dls \in [Lists -> DisplayList] /\ queued \in Nat /\ stall \in Nat
  BY GPUCommonAssumption DEF IInv, Types, TypeOK
<1>1. /\ dls' = [dls EXCEPT ![l] = new] /\ queued' = queued + 1
      /\ UNCHANGED <<separate, overtaken, ge_pending_cb, inHandler, gpu, dlQueue, currentList, nextListID, drawComplete,
                     drawSyncs, listWaitingThreads, drawWaitingThreads>>
  BY DEF UpdateStall, gpuVars, waiting
<1>2. new \in DisplayList
  BY <1>0, DisplayLists
<1>3. new.state = dls[l].state /\ new.signal = dls[l].signal /\ new.done = dls[l].done
  BY <1>0 DEF DisplayList
<1> HIDE DEF new
<1>4. dls' \in [Lists -> DisplayList] /\ queued' > 0
  BY <1>0, <1>1, <1>2
<1>5. \A k \in Lists : dls'[k].state = dls[k].state /\ dls'[k].signal = dls[k].signal /\ dls'[k].done = dls[k].done
  BY <1>0, <1>1, <1>3
<1>6. Types'
  BY <1>0, <1>1, <1>4 DEF IInv, Types, TypeOK
<1>7. QueueInStep' /\ GoesOn'
  BY <1>1, <1>4, <1>5 DEF IInv, QueueInStep, GpuInQueue, QueueInOrder, Front, GoesOn, Types
<1>8. PausedInStep'
  BY <1>1, <1>5, InFront DEF IInv, PausedInStep, PausedInFront, Front, Types, TypeOK
<1>9. DrawingIsAwaited' /\ NoListStranded'
  BY <1>1, <1>4 DEF IInv, DrawingIsAwaited, NoListStranded, UnderWay
<1>10. ListsEnd'
  BY <1>1, <1>5 DEF IInv, ListsEnd, Kept, Ending, EndsIt, Types
<1> QED
  BY <1>6, <1>7, <1>8, <1>9, <1>10 DEF IInv

LEMMA ContinueKeeps ==
    ASSUME IInv, Careless = {}, Continue
    PROVE  IInv'
<1> PICK c : c = currentList
  OBVIOUS
<1> DEFINE new == IF isbreak THEN [dls[c] EXCEPT !.state = "queued"]
                             ELSE [dls[c] EXCEPT !.state = "running", !.signal = "none"]
<1>0. /\ dls \in [Lists -> DisplayList] /\ queued \in Nat /\ c \in Lists /\ c # NoList
      /\ dls[c].state = "paused" /\ (~overtaken => Front(c))
  BY DEF Continue, IInv, Types, TypeOK, PausedInStep, PausedInFront
<1>1. /\ dls' = [dls EXCEPT ![c] = new] /\ queued' = queued + 1
      /\ drawComplete' = drawComplete \/ drawComplete' = "never"
      /\ UNCHANGED <<separate, overtaken, ge_pending_cb, inHandler, gpu, dlQueue, currentList, nextListID,
                     drawSyncs, listWaitingThreads, drawWaitingThreads>>
  <2>1. CASE isbreak
    BY <1>0, <2>1 DEF Continue, gpuVars, waiting
  <2>2. CASE ~isbreak
    BY <1>0, <2>2 DEF Continue, gpuVars, waiting
  <2> QED
    BY <2>1, <2>2
<1>2. new \in DisplayList
  <2>1. [dls[c] EXCEPT !.state = "queued"] \in DisplayList
    BY <1>0, DisplayLists, StatesAndSignals
  <2>2. [dls[c] EXCEPT !.state = "running", !.signal = "none"] \in DisplayList
    BY <1>0, DisplayLists, StatesAndSignals
  <2> QED
    BY <2>1, <2>2
<1>3. new.state \in {"queued", "running"} /\ new.done = dls[c].done /\ new.signal \in {"none", dls[c].signal}
  BY <1>0 DEF DisplayList
<1> HIDE DEF new
<1>4. dls' \in [Lists -> DisplayList] /\ queued' > 0
  BY <1>0, <1>1, <1>2
<1>5. /\ dls'[c] = new
      /\ \A k \in Lists : k # c => dls'[k] = dls[k]
  BY <1>0, <1>1
<1>6. gpu.at \notin {"run", "done"}
  BY <1>0 DEF IInv, QueueInStep, GpuInQueue
<1>7. Types'
  BY <1>0, <1>1, <1>4 DEF IInv, Types, TypeOK
<1>8. QueueInStep' /\ GoesOn'
  BY <1>1, <1>6 DEF IInv, QueueInStep, GpuInQueue, QueueInOrder, Front, GoesOn
<1>9. PausedInStep'
  BY <1>0, <1>1, <1>3, <1>5, InFront DEF IInv, PausedInStep, PausedInFront, Front, Types, TypeOK
<1>10. DrawingIsAwaited' /\ NoListStranded'
  BY <1>1, <1>4 DEF IInv, DrawingIsAwaited, NoListStranded, UnderWay
<1>11. ListsEnd'
  <2>1. ASSUME NEW k \in Lists, k # c PROVE dls'[k].done \/ Kept(k)' \/ Ending(k)'
    <3>1. (Kept(k) => Kept(k)') /\ (Ending(k) => Ending(k)')
      BY <1>1, <1>5, <2>1 DEF Kept, Ending, EndsIt
    <3> QED
      BY <1>5, <2>1, <3>1 DEF IInv, ListsEnd
  <2>2. dls'[c].done \/ Kept(c)' \/ Ending(c)'
    <3>1. Kept(c) => Kept(c)'
      BY <1>1, <1>6 DEF Kept
    <3>2. Ending(c) => Ending(c)'
      BY <1>0, <1>1, <1>3, <1>5 DEF Ending, EndsIt
    <3> QED
      BY <1>0, <1>3, <1>5, <3>1, <3>2 DEF IInv, ListsEnd
  <2>3. \A k \in Lists : dls'[k].done = dls[k].done
    BY <1>3, <1>5
  <2> QED
    BY <1>1, <1>6, <2>1, <2>2, <2>3 DEF IInv, ListsEnd
<1> QED
  BY <1>7, <1>8, <1>9, <1>10, <1>11 DEF IInv

LEMMA BreakKeeps ==
    ASSUME IInv, Careless = {}, NEW mode \in {0, 1}, Break(mode)
    PROVE  IInv'
<1> PICK c : c = currentList
  OBVIOUS
<1>0. /\ dls \in [Lists -> DisplayList] /\ c \in Lists /\ c # NoList /\ gpu.at = "idle" /\ mode = 0
      /\ ~overtaken => Front(c)
      /\ dls[c].state \in {"queued", "running"}
  <2>1. Careless = {} => ~("break all" \in Careless)
    OBVIOUS
  <2>2. mode = 0 /\ gpu.at = "idle" /\ c # NoList /\ dls[c].state \in {"queued", "running"}
    <3>1. mode = 0 /\ c # NoList
      BY <2>1 DEF Break
    <3>2. gpu.at = "idle"
      BY <3>1 DEF Break, MayReorder, AtRest
    <3>3. dls[c].state \in {"queued", "running"}
      BY <3>1 DEF Break
    <3> QED
      BY <3>1, <3>2, <3>3
  <2>3. dls \in [Lists -> DisplayList] /\ c \in Lists
    BY <2>2 DEF IInv, Types, TypeOK
  <2>4. ~overtaken => Front(c)
    BY <2>2 DEF IInv, QueueInStep, QueueInOrder
  <2> QED
    BY <2>2, <2>3, <2>4
<1> DEFINE pc == IF dls[c].signal = "sync" THEN dls[c].pc + 1 ELSE dls[c].pc
           new == IF dls[c].state = "queued" THEN [dls[c] EXCEPT !.state = "paused"]
                  ELSE [dls[c] EXCEPT !.pc = pc, !.state = "paused", !.signal = "suspend"]
<1>1. /\ dls' = [dls EXCEPT ![c] = new]
      /\ UNCHANGED <<separate, overtaken, ge_pending_cb, inHandler, gpu, dlQueue, currentList, nextListID, drawComplete,
                     drawSyncs, listWaitingThreads, drawWaitingThreads, queued>>
  <2>1. CASE dls[c].state = "queued"
    <3>1. dls' = [dls EXCEPT ![currentList].state = "paused"]
      BY <1>0, <2>1 DEF Break
    <3>2. UNCHANGED <<dlQueue, currentList, nextListID>>
      BY <1>0, <2>1 DEF Break
    <3> QED
      BY <1>0, <2>1, <3>1, <3>2 DEF Break, gpuVars, waiting
  <2>2. CASE dls[c].state # "queued"
    <3>1. dls' = [dls EXCEPT ![c] =
                    [dls[c] EXCEPT !.pc = IF dls[c].signal = "sync" THEN @ + 1 ELSE @,
                                   !.state = "paused", !.signal = "suspend"]]
      BY <1>0, <2>2 DEF Break
    <3>2. UNCHANGED <<dlQueue, currentList, nextListID>>
      BY <1>0, <2>2 DEF Break
    <3>3. dls' = [dls EXCEPT ![c] = new]
      <4>1. new = [dls[c] EXCEPT !.pc = pc, !.state = "paused", !.signal = "suspend"]
        BY <2>2
      <4> HIDE DEF new
      <4>2. dls' = [dls EXCEPT ![c] = [dls[c] EXCEPT !.pc = pc, !.state = "paused", !.signal = "suspend"]]
        BY <3>1
      <4> QED
        BY <4>1, <4>2
    <3> QED
      BY <3>2, <3>3 DEF Break, gpuVars, waiting
  <2> QED
    BY <2>1, <2>2
<1>2. new \in DisplayList
  <2>1. [dls[c] EXCEPT !.state = "paused"] \in DisplayList
    BY <1>0, DisplayLists, StatesAndSignals
  <2>2. pc \in Nat \ {0}
    BY <1>0, Fields
  <2> HIDE DEF pc
  <2>3. [dls[c] EXCEPT !.pc = pc, !.state = "paused", !.signal = "suspend"] \in DisplayList
    BY <1>0, <2>2, DisplayLists, StatesAndSignals
  <2> QED
    BY <2>1, <2>3
<1>3. new.state = "paused" /\ new.done = dls[c].done /\ new.signal \in {"suspend", dls[c].signal}
  <2> HIDE DEF pc
  <2> QED
    BY <1>0 DEF DisplayList
<1> HIDE DEF new
<1>4. dls' \in [Lists -> DisplayList]
  BY <1>0, <1>1, <1>2
<1>5. /\ dls'[c] = new
      /\ \A k \in Lists : k # c => dls'[k] = dls[k]
  BY <1>0, <1>1
<1>7. Types'
  BY <1>0, <1>1, <1>4 DEF IInv, Types, TypeOK
<1>8. QueueInStep' /\ GoesOn'
  BY <1>0, <1>1 DEF IInv, QueueInStep, GpuInQueue, QueueInOrder, Front, GoesOn
<1>9. PausedInStep'
  BY <1>0, <1>1, <1>5, InFront DEF IInv, PausedInStep, PausedInFront, Front, Types, TypeOK
<1>10. DrawingIsAwaited' /\ NoListStranded'
  BY <1>0, <1>1, <1>3, <1>5 DEF IInv, DrawingIsAwaited, NoListStranded, UnderWay, Front, HeldByGuest
<1>11. ListsEnd'
  <2>1. ASSUME NEW k \in Lists, k # c PROVE dls'[k].done \/ Kept(k)' \/ Ending(k)'
    <3>1. (Kept(k) => Kept(k)') /\ (Ending(k) => Ending(k)')
      BY <1>1, <1>5, <2>1 DEF Kept, Ending, EndsIt
    <3> QED
      BY <1>5, <2>1, <3>1 DEF IInv, ListsEnd
  <2>2. dls'[c].done \/ Kept(c)' \/ Ending(c)'
    <3>1. Kept(c) => Kept(c)'
      BY <1>0, <1>1 DEF Kept
    <3>2. Ending(c) => Ending(c)'
      BY <1>0, <1>1, <1>3, <1>5 DEF Ending, EndsIt
    <3> QED
      BY <1>0, <1>3, <1>5, <3>1, <3>2 DEF IInv, ListsEnd
  <2>3. \A k \in Lists : dls'[k].done = dls[k].done
    BY <1>3, <1>5
  <2> QED
    BY <1>0, <1>1, <2>1, <2>2, <2>3 DEF IInv, ListsEnd
<1> QED
  BY <1>7, <1>8, <1>9, <1>10, <1>11 DEF IInv

(* DrawSync and the end of drawing forget the lists that are complete.     *)
LEMMA ForgottenLists ==
    ASSUME Types
    PROVE  /\ Forgotten \in [Lists -> DisplayList]
           /\ \A k \in Lists :
                /\ Forgotten[k].state = IF dls[k].state = "completed" THEN "none" ELSE dls[k].state
                /\ Forgotten[k].signal = dls[k].signal /\ Forgotten[k].done = dls[k].done
                /\ Forgotten[k].pc = dls[k].pc /\ Forgotten[k].stall = dls[k].stall
                /\ Forgotten[k].pendingInterrupt = dls[k].pendingInterrupt
                /\ Forgotten[k].started = dls[k].started
<1>0. dls \in [Lists -> DisplayList]
  BY DEF Types, TypeOK
<1> DEFINE state(k) == IF dls[k].state = "completed" THEN "none" ELSE dls[k].state
           new(k) == [dls[k] EXCEPT !.state = state(k)]
<1>1. Forgotten = [k \in Lists |-> new(k)]
  BY DEF Forgotten
<1>2. ASSUME NEW k \in Lists
      PROVE  /\ new(k) \in DisplayList /\ new(k).state = state(k)
             /\ new(k).signal = dls[k].signal /\ new(k).done = dls[k].done
             /\ new(k).pc = dls[k].pc /\ new(k).stall = dls[k].stall
             /\ new(k).pendingInterrupt = dls[k].pendingInterrupt /\ new(k).started = dls[k].started
  <2>1. state(k) \in States /\ dls[k] \in DisplayList
    BY <1>0, Fields, StatesAndSignals
  <2> HIDE DEF state
  <2>2. new(k) \in DisplayList
    BY <2>1, DisplayLists
  <2> QED
    BY <2>1, <2>2 DEF DisplayList
<1> HIDE DEF new
<1> QED
  BY <1>1, <1>2

LEMMA SyncKeeps ==
    ASSUME IInv, UNCHANGED dls \/ dls' = Forgotten,
           UNCHANGED <<separate, overtaken, ge_pending_cb, inHandler, gpu, dlQueue, currentList, nextListID, queued>>
    PROVE  /\ dls' \in [Lists -> DisplayList] /\ \A l \in Lists : dls'[l].done = dls[l].done
           /\ QueueInStep' /\ PausedInStep' /\ GoesOn' /\ NoListStranded'
           /\ gpu.at = "done" => dls'[gpu.list].signal # "pause"
           /\ \A l \in Lists : dls'[l].done \/ Kept(l)' \/ Ending(l)'
<1>0. Types
  BY DEF IInv
<1>1. /\ dls' \in [Lists -> DisplayList]
      /\ \A k \in Lists :
            /\ dls'[k].state = dls[k].state \/ (dls[k].state = "completed" /\ dls'[k].state = "none")
            /\ dls'[k].signal = dls[k].signal /\ dls'[k].done = dls[k].done
            /\ dls'[k].pc = dls[k].pc /\ dls'[k].stall = dls[k].stall
  <2>1. CASE UNCHANGED dls
    BY <1>0, <2>1 DEF Types, TypeOK
  <2>2. CASE dls' = Forgotten
    BY <1>0, <2>2, ForgottenLists
  <2> QED
    BY <2>1, <2>2
<1>2. QueueInStep' /\ GoesOn'
  BY <1>0, <1>1 DEF IInv, QueueInStep, GpuInQueue, QueueInOrder, GoesOn, Front, Types
<1>3. PausedInStep'
  BY <1>0, <1>1, InFront DEF IInv, PausedInStep, PausedInFront, Front, Types, TypeOK
<1>4. NoListStranded'
  BY <1>0, <1>1, InFront DEF IInv, NoListStranded, UnderWay, HeldByGuest
<1>5. ASSUME NEW k \in Lists PROVE dls'[k].done \/ Kept(k)' \/ Ending(k)'
  <2>1. (Kept(k) => Kept(k)') /\ (Ending(k) => Ending(k)')
    BY <1>1 DEF Kept, Ending, EndsIt
  <2> QED
    BY <1>1, <2>1 DEF IInv, ListsEnd
<1>6. gpu.at = "done" => dls'[gpu.list].signal # "pause"
  BY <1>0, <1>1 DEF IInv, ListsEnd, Types
<1> QED
  BY <1>1, <1>2, <1>3, <1>4, <1>5, <1>6

LEMMA DrawSyncKeeps ==
    ASSUME IInv, NEW t \in Threads, DrawSync(t)
    PROVE  IInv'
<1>1. /\ UNCHANGED dls \/ dls' = Forgotten
      /\ drawWaitingThreads' = drawWaitingThreads \/ (drawComplete # "past" /\ drawWaitingThreads' = drawWaitingThreads \cup {t})
  BY DEF DrawSync
<1>2. UNCHANGED <<separate, overtaken, ge_pending_cb, inHandler, gpu, dlQueue, currentList, nextListID, queued,
                  drawComplete, drawSyncs, listWaitingThreads>>
  BY DEF DrawSync, gpuVars
<1>3. /\ dls' \in [Lists -> DisplayList] /\ \A l \in Lists : dls'[l].done = dls[l].done
      /\ QueueInStep' /\ PausedInStep' /\ GoesOn' /\ NoListStranded'
      /\ gpu.at = "done" => dls'[gpu.list].signal # "pause"
      /\ \A l \in Lists : dls'[l].done \/ Kept(l)' \/ Ending(l)'
  BY <1>1, <1>2, SyncKeeps
<1>4. Types'
  BY <1>1, <1>2, <1>3 DEF IInv, Types, TypeOK
<1>5. DrawingIsAwaited'
  BY <1>1, <1>2 DEF IInv, DrawingIsAwaited, UnderWay, Types, TypeOK
<1>6. ListsEnd'
  BY <1>2, <1>3 DEF IInv, ListsEnd
<1> QED
  BY <1>3, <1>4, <1>5, <1>6 DEF IInv

LEMMA ListSyncKeeps ==
    ASSUME IInv, NEW t \in Threads, NEW l \in Lists, ListSync(t, l)
    PROVE  IInv'
<1>1. UNCHANGED <<separate, overtaken, ge_pending_cb, inHandler, gpu, dls, dlQueue, currentList, nextListID, queued,
                  drawComplete, drawSyncs, drawWaitingThreads>>
  BY DEF ListSync, gpuVars, lists
<1>2. /\ listWaitingThreads' = [listWaitingThreads EXCEPT ![l] = listWaitingThreads[l] \cup {t}]
      /\ listWaitingThreads \in [Lists -> SUBSET Threads] /\ ~dls[l].done
  BY DEF ListSync, IInv, Types, TypeOK
<1>3. listWaitingThreads' \in [Lists -> SUBSET Threads]
  BY <1>2
<1>4. Types'
  BY <1>1, <1>3 DEF IInv, Types, TypeOK
<1>5. QueueInStep' /\ PausedInStep' /\ GoesOn'
  BY <1>1 DEF IInv, QueueInStep, GpuInQueue, QueueInOrder, PausedInStep, PausedInFront, GoesOn, Front
<1>6. DrawingIsAwaited' /\ NoListStranded'
  BY <1>1 DEF IInv, DrawingIsAwaited, NoListStranded, UnderWay, HeldByGuest
<1>7. ListsEnd'
  <2>1. \A k \in Lists : Kept(k)' = Kept(k) /\ Ending(k)' = Ending(k)
    BY <1>1 DEF Kept, Ending, EndsIt
  <2> QED
    BY <1>1, <1>2, <2>1 DEF IInv, ListsEnd
<1> QED
  BY <1>4, <1>5, <1>6, <1>7 DEF IInv

LEMMA DoStateKeeps ==
    ASSUME IInv, Careless = {}, DoState
    PROVE  IInv'
<1>1. UNCHANGED <<separate, overtaken, ge_pending_cb, inHandler, gpu, dls, dlQueue, currentList, nextListID, queued,
                  drawComplete, drawSyncs, drawWaitingThreads, listWaitingThreads>>
  BY DEF DoState, gpuVars, waiting
<1>2. Types'
  BY <1>1 DEF IInv, Types, TypeOK
<1>3. QueueInStep' /\ PausedInStep' /\ GoesOn'
  BY <1>1 DEF IInv, QueueInStep, GpuInQueue, QueueInOrder, PausedInStep, PausedInFront, GoesOn, Front
<1>4. DrawingIsAwaited' /\ NoListStranded'
  BY <1>1 DEF IInv, DrawingIsAwaited, NoListStranded, UnderWay, HeldByGuest
<1>5. ListsEnd'
  BY <1>1 DEF IInv, ListsEnd, Kept, Ending, EndsIt
<1> QED
  BY <1>2, <1>3, <1>4, <1>5 DEF IInv

----------------------------------------------------------------------------
(* Events and interrupts                                                   *)
LEMMA TimePassesKeeps ==
    ASSUME IInv, TimePasses
    PROVE  IInv'
<1>1. UNCHANGED <<separate, overtaken, ge_pending_cb, inHandler, gpu, dls, dlQueue, currentList, nextListID, queued,
                  drawSyncs, drawWaitingThreads, listWaitingThreads>>
  BY DEF TimePasses, gpuVars, lists, waiting
<1>2. drawComplete' = "past"
  BY DEF TimePasses
<1>3. Types'
  BY <1>1, <1>2 DEF IInv, Types, TypeOK
<1>4. QueueInStep' /\ PausedInStep' /\ GoesOn'
  BY <1>1 DEF IInv, QueueInStep, GpuInQueue, QueueInOrder, PausedInStep, PausedInFront, GoesOn, Front
<1>5. DrawingIsAwaited' /\ NoListStranded'
  BY <1>1, <1>2 DEF IInv, DrawingIsAwaited, NoListStranded, UnderWay, HeldByGuest
<1>6. ListsEnd'
  BY <1>1 DEF IInv, ListsEnd, Kept, Ending, EndsIt
<1> QED
  BY <1>3, <1>4, <1>5, <1>6 DEF IInv

LEMMA GeExecuteSyncKeeps ==
    ASSUME IInv, GeExecuteSync
    PROVE  IInv'
<1>1. /\ UNCHANGED dls \/ dls' = Forgotten
      /\ drawWaitingThreads' = {} /\ drawSyncs > 0 /\ drawSyncs' = drawSyncs - 1
      /\ drawComplete' = IF drawSyncs = 1 /\ drawComplete = "due" THEN "past" ELSE drawComplete
  BY DEF GeExecuteSync
<1>2. UNCHANGED <<separate, overtaken, ge_pending_cb, inHandler, gpu, dlQueue, currentList, nextListID, queued,
                  listWaitingThreads>>
  BY DEF GeExecuteSync, gpuVars
<1>3. /\ dls' \in [Lists -> DisplayList] /\ \A l \in Lists : dls'[l].done = dls[l].done
      /\ QueueInStep' /\ PausedInStep' /\ GoesOn' /\ NoListStranded'
      /\ gpu.at = "done" => dls'[gpu.list].signal # "pause"
      /\ \A l \in Lists : dls'[l].done \/ Kept(l)' \/ Ending(l)'
  BY <1>1, <1>2, SyncKeeps
<1>4. Types'
  BY <1>1, <1>2, <1>3 DEF IInv, Types, TypeOK
<1>5. DrawingIsAwaited'
  BY <1>1, <1>2 DEF IInv, DrawingIsAwaited, UnderWay, Types, TypeOK
<1>6. ListsEnd'
  BY <1>2, <1>3 DEF IInv, ListsEnd
<1> QED
  BY <1>3, <1>4, <1>5, <1>6 DEF IInv

LEMMA ResumedList ==
    ASSUME NEW x \in DisplayList
    PROVE  /\ Resumed(x) \in DisplayList /\ Resumed(x).signal = x.signal /\ Resumed(x).done = x.done
           /\ Resumed(x).pc = x.pc /\ Resumed(x).started = x.started
           /\ Resumed(x).state = x.state \/ (Resumed(x).state = "queued" /\ x.state \notin {"none", "completed"})
<1> DEFINE r == [x EXCEPT !.state = "queued"]
<1>1. r \in DisplayList
  BY DisplayLists, StatesAndSignals
<1>2. /\ r.state = "queued" /\ r.signal = x.signal /\ r.done = x.done /\ r.pc = x.pc /\ r.started = x.started
  BY DEF DisplayList
<1>3. \/ Resumed(x) = r /\ x.state \notin {"none", "completed"}
      \/ Resumed(x) = x
  BY DEF Resumed
<1> HIDE DEF r
<1> QED
  BY <1>1, <1>2, <1>3

LEMMA HandledAt ==
    ASSUME Types, ge_pending_cb # << >>
    PROVE  /\ Tail(ge_pending_cb) \in Seq(Requests) /\ Head(ge_pending_cb) \in Requests
           /\ Head(ge_pending_cb) = ge_pending_cb[1] /\ Head(ge_pending_cb).list \in Lists
           /\ 1 \in DOMAIN ge_pending_cb
           /\ \A i \in DOMAIN ge_pending_cb : i # 1 =>
                i - 1 \in DOMAIN Tail(ge_pending_cb) /\ Tail(ge_pending_cb)[i - 1] = ge_pending_cb[i]
           /\ \A i \in DOMAIN Tail(ge_pending_cb) :
                i + 1 \in DOMAIN ge_pending_cb /\ i + 1 # 1 /\ Tail(ge_pending_cb)[i] = ge_pending_cb[i + 1]
<1>1. ge_pending_cb \in Seq(Requests)
  BY DEF Types, TypeOK, Requests
<1>2. Head(ge_pending_cb).list \in Lists
  <2>1. Head(ge_pending_cb) \in Requests
    BY <1>1
  <2> QED
    BY <2>1 DEF Requests
<1> QED
  BY <1>1, <1>2

(* x is what the start of the interrupt has made of its list.              *)
LEMMA InterruptEndKeeps ==
    ASSUME IInv, ge_pending_cb # << >>, NEW l, l = Head(ge_pending_cb).list,
           NEW x \in DisplayList, x.signal = dls[l].signal, x.done = dls[l].done,
           x.state \in {dls[l].state, "completed"},
           Ending(l) /\ EndsIt(l, 1) => x.state \in {"completed", "none"},
           InterruptEnd(l, Resumed(x)), inHandler' = FALSE,
           UNCHANGED <<separate, overtaken, gpu, dlQueue, currentList, nextListID, drawComplete, drawSyncs>>
    PROVE  IInv'
<1> DEFINE after == Resumed(x)
           ended == after.state \in {"completed", "none"}
           new == [after EXCEPT !.pendingInterrupt = FALSE, !.done = after.done \/ ended]
<1>0. /\ dls \in [Lists -> DisplayList] /\ l \in Lists /\ queued \in Nat
      /\ listWaitingThreads \in [Lists -> SUBSET Threads]
  BY HandledAt DEF IInv, Types, TypeOK
<1>1. /\ after \in DisplayList /\ after.signal = dls[l].signal /\ after.done = dls[l].done
      /\ after.state \in {dls[l].state, "completed", "queued"} /\ (ended <=> x.state \in {"completed", "none"})
      /\ ~ended => after.state = dls[l].state \/ after.state = "queued"
  BY ResumedList
<1>2. /\ dls' = [dls EXCEPT ![l] = new]
      /\ IF ended THEN listWaitingThreads' = [listWaitingThreads EXCEPT ![l] = {}] ELSE UNCHANGED listWaitingThreads
      /\ UNCHANGED drawWaitingThreads
      /\ ge_pending_cb' = Tail(ge_pending_cb) /\ queued' = queued + 1
  BY DEF InterruptEnd, Woken, waiting
<1> HIDE DEF after
<1>3. new \in DisplayList
  <2>1. FALSE \in BOOLEAN /\ (after.done \/ ended) \in BOOLEAN
    OBVIOUS
  <2> HIDE DEF ended
  <2> QED
    BY <1>1, <2>1, DisplayLists
<1>4. /\ new.state = after.state /\ new.signal = dls[l].signal /\ (new.done <=> dls[l].done \/ ended)
  <2>1. new.state = after.state /\ new.signal = after.signal
    BY <1>1 DEF DisplayList
  <2>2. new.done = (after.done \/ ended)
    <3> HIDE DEF ended
    <3> QED
      BY <1>1 DEF DisplayList
  <2> QED
    BY <1>1, <2>1, <2>2
<1> HIDE DEF new, ended
<1>5. /\ dls' \in [Lists -> DisplayList] /\ dls'[l] = new
      /\ \A k \in Lists : k # l => dls'[k] = dls[k]
  BY <1>0, <1>2, <1>3
<1>6. queued' \in Nat /\ queued' > 0
  BY <1>0, <1>2
<1>7. Types'
  <2>1. listWaitingThreads' \in [Lists -> SUBSET Threads]
    BY <1>0, <1>2
  <2>2. TypeOK'
    BY <1>2, <1>5, <1>6, <2>1, HandledAt DEF IInv, Types, TypeOK, Requests
  <2> QED
    BY <2>2 DEF IInv, Types
<1>8. \A k \in Lists : dls'[k].state = "paused" => dls[k].state = "paused"
  BY <1>1, <1>4, <1>5
<1>9. QueueInStep' /\ PausedInStep' /\ GoesOn'
  <2>1. QueueInStep' /\ GoesOn'
    BY <1>6, <1>8 DEF IInv, QueueInStep, GpuInQueue, QueueInOrder, GoesOn, Front, Types
  <2>2. PausedInStep'
    BY <1>8, InFront DEF IInv, PausedInStep, PausedInFront, Front, Types, TypeOK
  <2> QED
    BY <2>1, <2>2
<1>10. DrawingIsAwaited' /\ NoListStranded'
  BY <1>2, <1>6 DEF IInv, DrawingIsAwaited, NoListStranded, UnderWay
<1>11. ListsEnd'
  <2>1. ASSUME NEW k \in Lists, Ending(k), k # l \/ ~ended PROVE Ending(k)'
    <3>1. PICK i \in DOMAIN ge_pending_cb : EndsIt(k, i)
      BY <2>1 DEF Ending
    <3>2. i # 1
      <4>1. k # l => ge_pending_cb[1].list # k
        BY HandledAt DEF IInv
      <4>2. CASE k = l
        BY <1>1, <2>1, <3>1, <4>2
      <4> QED
        BY <3>1, <4>1, <4>2 DEF EndsIt
    <3> PICK j : j = i - 1
      OBVIOUS
    <3>3. j \in DOMAIN ge_pending_cb' /\ ge_pending_cb'[j] = ge_pending_cb[i]
      BY <1>2, <3>2, HandledAt DEF IInv
    <3>4. EndsIt(k, j)'
      BY <3>1, <3>3 DEF EndsIt
    <3>5. dls'[k].signal = dls[k].signal
      BY <1>4, <1>5
    <3> QED
      BY <2>1, <3>3, <3>4, <3>5 DEF Ending
  <2>2. ASSUME NEW k \in Lists PROVE dls'[k].done \/ Kept(k)' \/ Ending(k)'
    <3>1. CASE k = l /\ ended
      BY <1>4, <1>5, <3>1
    <3>2. CASE k # l \/ ~ended
      <4>1. Kept(k) => Kept(k)'
        BY <1>1, <1>4, <1>5, <3>2 DEF Kept
      <4>2. dls[k].done => dls'[k].done
        BY <1>4, <1>5
      <4> QED
        BY <2>1, <3>2, <4>1, <4>2 DEF IInv, ListsEnd
    <3> QED
      BY <3>1, <3>2
  <2>3. ASSUME NEW k \in Lists, listWaitingThreads'[k] # {} PROVE ~dls'[k].done
    <3>1. k # l \/ ~ended
      BY <1>0, <1>2, <2>3
    <3>2. listWaitingThreads[k] # {} /\ (dls'[k].done <=> dls[k].done)
      BY <1>0, <1>2, <1>4, <1>5, <2>3, <3>1
    <3> QED
      BY <3>2 DEF IInv, ListsEnd
  <2>4. gpu'.at = "done" => dls'[gpu'.list].signal # "pause"
    BY <1>4, <1>5 DEF IInv, ListsEnd, Types
  <2> QED
    BY <2>2, <2>3, <2>4 DEF ListsEnd
<1> QED
  BY <1>7, <1>9, <1>10, <1>11 DEF IInv

LEMMA HandlerReturnsKeeps ==
    ASSUME IInv, HandlerReturns
    PROVE  IInv'
<1> PICK l : l = Head(ge_pending_cb).list
  OBVIOUS
<1>1. /\ inHandler /\ ge_pending_cb # << >> /\ l \in Lists /\ dls[l] \in DisplayList
      /\ InterruptEnd(l, Resumed(dls[l])) /\ inHandler' = FALSE
  BY HandledAt DEF HandlerReturns, IInv, Types, TypeOK
<1>2. Ending(l) /\ EndsIt(l, 1) => dls[l].state \in {"completed", "none"}
  BY <1>1 DEF EndsIt
<1>3. UNCHANGED <<separate, overtaken, gpu, dlQueue, currentList, nextListID, drawComplete, drawSyncs>>
  BY DEF HandlerReturns
<1> QED
  BY <1>1, <1>2, <1>3, InterruptEndKeeps

LEMMA GeInterruptKeeps ==
    ASSUME IInv, NEW handled \in BOOLEAN, GeInterrupt(handled)
    PROVE  IInv'
<1> PICK e : e = Head(ge_pending_cb)
  OBVIOUS
<1> PICK l : l = e.list
  OBVIOUS
<1> DEFINE completes == dls[l].signal # "pause" /\ e.cmd = "finish"
           entered == IF completes THEN [dls[l] EXCEPT !.state = "completed"] ELSE dls[l]
<1>1. /\ ~inHandler /\ inHandler = FALSE /\ ge_pending_cb # << >> /\ e \in Requests /\ l \in Lists
      /\ dls \in [Lists -> DisplayList] /\ dls[l] \in DisplayList /\ e = ge_pending_cb[1]
  BY HandledAt DEF GeInterrupt, IInv, Types, TypeOK
<1>2. UNCHANGED <<separate, overtaken, gpu, dlQueue, currentList, nextListID, drawComplete, drawSyncs>>
  BY DEF GeInterrupt
<1>3. \/ /\ dls' = [dls EXCEPT ![l] = entered] /\ inHandler' = TRUE
         /\ UNCHANGED <<listWaitingThreads, drawWaitingThreads, ge_pending_cb, queued>>
      \/ InterruptEnd(l, Resumed(entered)) /\ inHandler' = FALSE
  BY <1>1 DEF GeInterrupt, waiting
<1>4. entered \in DisplayList
  <2>1. [dls[l] EXCEPT !.state = "completed"] \in DisplayList
    BY <1>1, DisplayLists, StatesAndSignals
  <2> QED
    BY <1>1, <2>1
<1>5. /\ entered.signal = dls[l].signal /\ entered.done = dls[l].done
      /\ entered.state = IF completes THEN "completed" ELSE dls[l].state
  BY <1>1 DEF DisplayList
<1>6. Ending(l) /\ EndsIt(l, 1) => completes
  BY <1>1 DEF Ending, EndsIt
<1> HIDE DEF entered, completes
<1>7. CASE InterruptEnd(l, Resumed(entered)) /\ inHandler' = FALSE
  <2>1. entered.state \in {dls[l].state, "completed"}
    BY <1>5
  <2>2. Ending(l) /\ EndsIt(l, 1) => entered.state \in {"completed", "none"}
    BY <1>5, <1>6
  <2> QED
    BY <1>1, <1>2, <1>4, <1>5, <1>7, <2>1, <2>2, InterruptEndKeeps
<1>8. CASE /\ dls' = [dls EXCEPT ![l] = entered] /\ inHandler' = TRUE
           /\ UNCHANGED <<listWaitingThreads, drawWaitingThreads, ge_pending_cb, queued>>
  <2>1. /\ dls' \in [Lists -> DisplayList] /\ dls'[l] = entered
        /\ \A k \in Lists : k # l => dls'[k] = dls[k]
    BY <1>1, <1>4, <1>8
  <2>2. Types'
    BY <1>1, <1>2, <1>8, <2>1 DEF IInv, Types, TypeOK
  <2>3. \A k \in Lists : dls'[k].state = "paused" => dls[k].state = "paused"
    BY <1>5, <2>1
  <2>4. QueueInStep'
    BY <1>2, <2>3 DEF IInv, QueueInStep, GpuInQueue, QueueInOrder, Front, Types
  <2>5. GoesOn' /\ DrawingIsAwaited' /\ NoListStranded'
    BY <1>1, <1>2, <1>8 DEF IInv, GoesOn, DrawingIsAwaited, NoListStranded, UnderWay
  <2>6. PausedInStep'
    BY <1>2, <2>3, InFront DEF IInv, PausedInStep, PausedInFront, Front, Types, TypeOK
  <2>7. ListsEnd'
    <3>1. ASSUME NEW k \in Lists, Ending(k) PROVE Ending(k)'
      <4>1. PICK i \in DOMAIN ge_pending_cb : EndsIt(k, i)
        BY <3>1 DEF Ending
      <4>2. dls'[k].signal = dls[k].signal
        BY <1>5, <2>1
      <4>3. i = 1 => dls'[k].state \in {"completed", "none"}
        <5>1. CASE i = 1
          <6>1. k = l
            BY <1>1, <4>1, <5>1 DEF EndsIt
          <6> QED
            BY <1>5, <1>6, <2>1, <3>1, <4>1, <5>1, <6>1
        <5> QED
          BY <5>1
      <4>4. EndsIt(k, i)'
        BY <1>8, <4>1, <4>3 DEF EndsIt
      <4> QED
        BY <1>8, <3>1, <4>2, <4>4 DEF Ending
    <3>2. ASSUME NEW k \in Lists, Kept(k) PROVE Kept(k)' \/ Ending(k)'
      <4>1. CASE k = l /\ completes
        <5>1. dls'[k].signal # "pause" /\ EndsIt(k, 1)' /\ 1 \in DOMAIN ge_pending_cb'
          BY <1>1, <1>5, <1>8, <2>1, <4>1, HandledAt DEF EndsIt, completes, IInv, Requests
        <5> QED
          BY <5>1 DEF Ending
      <4>2. CASE ~(k = l /\ completes)
        <5>1. dls'[k].state = dls[k].state
          BY <1>5, <2>1, <4>2
        <5> QED
          BY <1>2, <3>2, <5>1 DEF Kept
      <4> QED
        BY <4>1, <4>2
    <3>3. \A k \in Lists : dls'[k].done = dls[k].done
      BY <1>5, <2>1
    <3>4. gpu'.at = "done" => dls'[gpu'.list].signal # "pause"
      BY <1>2, <1>5, <2>1 DEF IInv, ListsEnd, Types
    <3> QED
      BY <1>8, <3>1, <3>2, <3>3, <3>4 DEF IInv, ListsEnd
  <2> QED
    BY <2>2, <2>4, <2>5, <2>6, <2>7 DEF IInv
<1> QED
  BY <1>3, <1>7, <1>8

----------------------------------------------------------------------------
LEMMA StepKeeps ==
    ASSUME Careless = {}, IInv, [Next]_vars
    PROVE  IInv'
<1>1. CASE UNCHANGED vars
  <2>1. UNCHANGED <<separate, overtaken, ge_pending_cb, inHandler, gpu, dls, dlQueue, currentList, nextListID, queued,
                    drawComplete, drawSyncs, drawWaitingThreads, listWaitingThreads>>
    BY <1>1 DEF vars, lists, waiting
  <2>2. Types'
    BY <2>1 DEF IInv, Types, TypeOK
  <2>3. QueueInStep' /\ PausedInStep' /\ GoesOn'
    BY <2>1 DEF IInv, QueueInStep, GpuInQueue, QueueInOrder, PausedInStep, PausedInFront, GoesOn, Front
  <2>4. DrawingIsAwaited' /\ NoListStranded'
    BY <2>1 DEF IInv, DrawingIsAwaited, NoListStranded, UnderWay, HeldByGuest
  <2>5. ListsEnd'
    BY <2>1 DEF IInv, ListsEnd, Kept, Ending, EndsIt
  <2> QED
    BY <2>2, <2>3, <2>4, <2>5 DEF IInv
<1>2. CASE GPUStep
  BY <1>2, StartKeeps, GetNextKeeps, InterpretKeeps, StallKeeps, DrawKeeps, SignalKeeps, FinishKeeps,
     RemoveDoneKeeps, DrawingEndsKeeps DEF GPUStep, Processing
<1>3. CASE GuestStep
  BY <1>3, EnqueueKeeps, EnqueueHeadKeeps, DequeueKeeps, UpdateStallKeeps, ContinueKeeps, BreakKeeps,
     DrawSyncKeeps, ListSyncKeeps, DoStateKeeps DEF GuestStep
<1>4. CASE TimePasses
  BY <1>4, TimePassesKeeps
<1>5. CASE GeExecuteSync
  BY <1>5, GeExecuteSyncKeeps
<1>6. CASE Interrupts
  BY <1>6, GeInterruptKeeps, HandlerReturnsKeeps DEF Interrupts
<1> QED
  BY <1>1, <1>2, <1>3, <1>4, <1>5, <1>6 DEF Next

LEMMA InvariantHolds ==
    ASSUME Careless = {}
    PROVE  Spec => []IInv
<1>1. IInv /\ [Next]_vars => IInv'
  BY StepKeeps
<1> QED
  BY <1>1, InitialInvariant, PTL DEF Spec

(* The state of the display lists, of their queue, of the interrupts and   *)
(* of who waits stays within its types: a list that is executed has a      *)
(* number, and each number a list.                                         *)
THEOREM TypeCorrect ==
    ASSUME Careless = {}
    PROVE  Spec => []TypeOK
<1>1. IInv => TypeOK
  BY DEF IInv, Types
<1> QED
  BY <1>1, InvariantHolds, PTL

(* The list that is executed is the current one, and in the queue:         *)
(* Execute_End, which goes by currentList (GPUCommon.cpp), ends the list   *)
(* it was read from, even after a list came too late for the last look at  *)
(* the queue.  Until then the list is also in front of the queue.          *)
THEOREM CurrentListTheorem ==
    ASSUME Careless = {}
    PROVE  Spec => []CurrentListInStep
<1>1. IInv => CurrentListInStep
  BY DEF IInv, Types, TypeOK, QueueInStep, GpuInQueue, QueueInOrder, CurrentListInStep, Front, Entries, Seqs!ToSet
<1> QED
  BY <1>1, InvariantHolds, PTL

(* When the GPU is idle, was told nothing and no interrupt is to come, the *)
(* list in front of the queue waits for the guest: as long as no list came *)
(* between the last look at the queue and the end of drawing, where        *)
(* NoListStranded promises nothing.                                        *)
THEOREM NoListStrandedTheorem ==
    ASSUME Careless = {}
    PROVE  Spec => []NoListStranded
<1>1. IInv => NoListStranded
  BY DEF IInv
<1> QED
  BY <1>1, InvariantHolds, PTL

(* Whoever waits for a list, or for the end of drawing, is still to be     *)
(* woken: the list is queued or its interrupt to come, there is a list or  *)
(* the event of the end of drawing is to come.                             *)
THEOREM WaitersAreServedTheorem ==
    ASSUME Careless = {}
    PROVE  Spec => []WaitersAreServed
<1>1. IInv => WaitersAreServed
  <2> SUFFICES ASSUME IInv PROVE WaitersAreServed
    OBVIOUS
  <2>1. ASSUME NEW l \in Lists, listWaitingThreads[l] # {}
        PROVE  l \in Seqs!ToSet(dlQueue) \/ InterruptPending(l)
    <3>1. Kept(l) \/ Ending(l)
      BY <2>1 DEF IInv, ListsEnd
    <3>2. Kept(l) => l \in Seqs!ToSet(dlQueue)
      BY DEF Kept, Entries, Seqs!ToSet
    <3>3. Ending(l) => InterruptPending(l)
      BY DEF Ending, EndsIt, InterruptPending
    <3> QED
      BY <3>1, <3>2, <3>3
  <2>2. drawWaitingThreads # {} => dlQueue # << >> \/ UnderWay \/ drawSyncs > 0
    BY DEF IInv, DrawingIsAwaited
  <2> QED
    BY <2>1, <2>2 DEF WaitersAreServed
<1> QED
  BY <1>1, InvariantHolds, PTL

----------------------------------------------------------------------------
(* Lists that stop at each of their interrupts.  Where no SIGNAL goes on,  *)
(* and the SDK is old, a list has one interrupt to come at most, it does   *)
(* not run meanwhile, and nothing but the interrupt's end touches it.      *)
AtDone(l) == gpu.at = "done" /\ gpu.list = l

Awaits(l, cmd) ==
    /\ dls[l].started
    /\ l \in Entries(dlQueue) /\ ~AtDone(l) => dls[l].state = "paused" /\ (cmd = "finish" => dls[l].signal = "pause")
    /\ AtDone(l) => dls[l].state # "queued" /\ cmd = "finish"

OneInterrupt ==
    /\ \A i, j \in DOMAIN ge_pending_cb : ge_pending_cb[i].list = ge_pending_cb[j].list => i = j
    /\ \A l \in Lists : dls[l].pendingInterrupt <=> InterruptPending(l)
    /\ \A i \in DOMAIN ge_pending_cb : Awaits(ge_pending_cb[i].list, ge_pending_cb[i].cmd)

RunsOn == gpu.at = "run" => dls[gpu.list].state = "running" /\ dls[gpu.list].started

JInv == IInv /\ OneInterrupt /\ RunsOn

(* What the two action properties say of a step.                           *)
OldStaysStarted ==
    \A i \in DOMAIN ge_pending_cb :
        dls[ge_pending_cb[i].list].started => dls'[ge_pending_cb[i].list].started
SuspendedStays ==
    \A l \in Lists : dls[l].signal = "suspend" /\ dls[l].pendingInterrupt /\ dls'[l].pendingInterrupt
        => dls'[l].pc = dls[l].pc

LEMMA PendingList ==
    ASSUME IInv, OneInterrupt, NEW i \in DOMAIN ge_pending_cb
    PROVE  LET l == ge_pending_cb[i].list IN l \in Lists /\ dls[l].pendingInterrupt /\ dls[l].started
<1>1. ge_pending_cb \in Seq(Requests)
  BY DEF IInv, Types, TypeOK, Requests
<1>2. ge_pending_cb[i] \in Requests
  BY <1>1
<1>3. ge_pending_cb[i].list \in Lists
  BY <1>2 DEF Requests
<1> QED
  BY <1>3 DEF OneInterrupt, InterruptPending, Awaits

(* A list of the queue that is not paused has no interrupt to come.        *)
LEMMA NonePending ==
    ASSUME IInv, OneInterrupt, NEW l \in Entries(dlQueue), ~AtDone(l), dls[l].state # "paused"
    PROVE  l \in Lists /\ ~dls[l].pendingInterrupt
<1>1. l \in Lists
  BY InFront DEF IInv
<1> QED
  BY <1>1 DEF OneInterrupt, InterruptPending, Awaits

(* A step that neither triggers an interrupt nor ends one: it touches only *)
(* lists that have none to come.                                           *)
Undisturbed(l) ==
    /\ dls'[l].started = dls[l].started /\ (dls[l].signal = "suspend" => dls'[l].pc = dls[l].pc)
    /\ dls'[l].pendingInterrupt = dls[l].pendingInterrupt
    /\ AtDone(l)' => AtDone(l) /\ (dls[l].state # "queued" => dls'[l].state # "queued")
    /\ l \in Entries(dlQueue') /\ ~AtDone(l)' =>
        l \in Entries(dlQueue) /\ ~AtDone(l) /\ dls'[l].state = dls[l].state /\ dls'[l].signal = dls[l].signal

Orderly == JInv' /\ OldStaysStarted /\ SuspendedStays

Gentle == \A l \in Lists : IF dls[l].pendingInterrupt THEN Undisturbed(l) ELSE ~dls'[l].pendingInterrupt

LEMMA QuietStep ==
    ASSUME JInv, IInv', UNCHANGED ge_pending_cb, Gentle, RunsOn'
    PROVE  Orderly
<1>1. ASSUME NEW i \in DOMAIN ge_pending_cb
      PROVE  LET l == ge_pending_cb[i].list IN
             l \in Lists /\ dls[l].started /\ dls[l].pendingInterrupt /\ Undisturbed(l)
  BY PendingList DEF JInv, Gentle
<1>2. OldStaysStarted
  BY <1>1 DEF OldStaysStarted, Undisturbed
<1>3. SuspendedStays
  BY DEF SuspendedStays, Undisturbed, Gentle
<1>4. \A l \in Lists : dls'[l].pendingInterrupt <=> dls[l].pendingInterrupt
  BY DEF Gentle, Undisturbed
<1>5. ASSUME NEW i \in DOMAIN ge_pending_cb
      PROVE  Awaits(ge_pending_cb[i].list, ge_pending_cb[i].cmd)'
  <2> PICK l, cmd : l = ge_pending_cb[i].list /\ cmd = ge_pending_cb[i].cmd
    OBVIOUS
  <2>1. Awaits(l, cmd) /\ Undisturbed(l)
    BY <1>1 DEF JInv, OneInterrupt
  <2>2. Awaits(l, cmd)'
    BY <2>1 DEF Awaits, Undisturbed
  <2> QED
    BY <2>2
<1>6. OneInterrupt'
  BY <1>4, <1>5 DEF JInv, OneInterrupt, InterruptPending
<1> QED
  BY <1>2, <1>3, <1>6 DEF JInv, Orderly

(* No list changes.                                                        *)
LEMMA NoListChanges ==
    ASSUME JInv, IInv', UNCHANGED <<ge_pending_cb, dls, dlQueue>>,
           UNCHANGED gpu \/ (gpu.at # "done" /\ gpu'.at \notin {"run", "done"})
    PROVE  Orderly
<1>1. Gentle
  BY DEF Gentle, Undisturbed, AtDone
<1>2. RunsOn'
  BY DEF JInv, RunsOn
<1> QED
  BY <1>1, <1>2, QuietStep

(* One list changes, which has no interrupt to come.                       *)
LEMMA OneListChanges ==
    ASSUME JInv, IInv', UNCHANGED ge_pending_cb,
           NEW l \in Lists, ~dls[l].pendingInterrupt, ~dls'[l].pendingInterrupt,
           \A k \in Lists : k # l => dls'[k] = dls[k],
           Entries(dlQueue') \subseteq Entries(dlQueue) \cup {l},
           UNCHANGED gpu \/ (gpu.at # "done" /\ gpu'.at # "done"),
           RunsOn'
    PROVE  Orderly
<1>1. Gentle
  BY DEF Gentle, Undisturbed, AtDone
<1> QED
  BY <1>1, QuietStep

(* A list gets an interrupt.                                               *)
LEMMA ListTriggers ==
    ASSUME JInv, IInv', NEW l \in Lists, NEW cmd \in {"signal", "finish"},
           ge_pending_cb' = Append(ge_pending_cb, [list |-> l, cmd |-> cmd]),
           ~dls[l].pendingInterrupt, dls'[l].pendingInterrupt, Awaits(l, cmd)',
           \A k \in Lists : k # l => dls'[k] = dls[k],
           UNCHANGED dlQueue, gpu.at # "done", gpu'.at # "run", gpu'.at = "done" => gpu'.list = l
    PROVE  Orderly
<1> DEFINE e == [list |-> l, cmd |-> cmd]
           n == Len(ge_pending_cb) + 1
<1>1. /\ ge_pending_cb \in Seq(Requests) /\ e \in Requests /\ Types
  BY DEF JInv, IInv, Types, TypeOK, Requests
<1>2. /\ \A i \in DOMAIN ge_pending_cb : i \in DOMAIN ge_pending_cb' /\ ge_pending_cb'[i] = ge_pending_cb[i]
      /\ n \in DOMAIN ge_pending_cb' /\ ge_pending_cb'[n] = e
      /\ \A i \in DOMAIN ge_pending_cb' : i \in DOMAIN ge_pending_cb \/ i = n
      /\ \A i \in DOMAIN ge_pending_cb : i # n
  BY <1>1, TriggeredAt
<1>3. \A i \in DOMAIN ge_pending_cb : LET k == ge_pending_cb[i].list IN k \in Lists /\ k # l /\ dls[k].started
  BY PendingList DEF JInv
<1>4. e.list = l /\ e.cmd = cmd
  OBVIOUS
<1> HIDE DEF e, n
<1>5. \A i, j \in DOMAIN ge_pending_cb' : ge_pending_cb'[i].list = ge_pending_cb'[j].list => i = j
  BY <1>2, <1>3, <1>4 DEF JInv, OneInterrupt
<1>6. ASSUME NEW k \in Lists PROVE dls'[k].pendingInterrupt <=> InterruptPending(k)'
  <2>1. CASE k = l
    <3>1. InterruptPending(k)'
      BY <1>2, <1>4, <2>1 DEF InterruptPending
    <3> QED
      BY <2>1, <3>1
  <2>2. CASE k # l
    <3>1. InterruptPending(k)' <=> InterruptPending(k)
      BY <1>2, <1>4, <2>2 DEF InterruptPending
    <3> QED
      BY <2>2, <3>1 DEF JInv, OneInterrupt
  <2> QED
    BY <2>1, <2>2
<1>7. ASSUME NEW i \in DOMAIN ge_pending_cb' PROVE Awaits(ge_pending_cb[i].list, ge_pending_cb[i].cmd)'
  <2>1. CASE i = n
    BY <1>2, <1>4, <2>1
  <2>2. CASE i \in DOMAIN ge_pending_cb
    <3> PICK k, c : k = ge_pending_cb[i].list /\ c = ge_pending_cb[i].cmd
      OBVIOUS
    <3>1. Awaits(k, c) /\ k \in Lists /\ k # l
      BY <1>3, <2>2 DEF JInv, OneInterrupt
    <3>2. Awaits(k, c)'
      BY <3>1 DEF Awaits, AtDone
    <3> QED
      BY <1>2, <2>2, <3>2
  <2> QED
    BY <1>2, <2>1, <2>2
<1>8. OneInterrupt' /\ RunsOn'
  BY <1>5, <1>6, <1>7 DEF OneInterrupt, RunsOn
<1>9. OldStaysStarted
  BY <1>3 DEF OldStaysStarted
<1>10. SuspendedStays
  BY DEF SuspendedStays
<1> QED
  BY <1>8, <1>9, <1>10 DEF JInv, Orderly

(* An interrupt ends.                                                      *)
LEMMA InterruptEndOrderly ==
    ASSUME JInv, IInv', ge_pending_cb # << >>, NEW l, l = Head(ge_pending_cb).list,
           NEW x \in DisplayList, x.started = dls[l].started, x.pc = dls[l].pc,
           InterruptEnd(l, Resumed(x)),
           UNCHANGED <<gpu, dlQueue>>
    PROVE  Orderly
<1> DEFINE after == Resumed(x)
           ended == after.state \in {"completed", "none"}
           new == [after EXCEPT !.pendingInterrupt = FALSE, !.done = after.done \/ ended]
<1>0. dls \in [Lists -> DisplayList] /\ l \in Lists /\ Types
  BY HandledAt DEF JInv, IInv, Types, TypeOK
<1>1. after \in DisplayList /\ after.started = dls[l].started /\ after.pc = dls[l].pc
  BY ResumedList
<1>2. dls' = [dls EXCEPT ![l] = new] /\ ge_pending_cb' = Tail(ge_pending_cb)
  BY DEF InterruptEnd
<1> HIDE DEF after, ended
<1>3. ~new.pendingInterrupt /\ new.started = dls[l].started /\ new.pc = dls[l].pc
  BY <1>1 DEF DisplayList
<1> HIDE DEF new
<1>4. dls'[l] = new /\ \A k \in Lists : k # l => dls'[k] = dls[k]
  BY <1>0, <1>2
<1>5. /\ \A i \in DOMAIN ge_pending_cb : i # 1 =>
            i - 1 \in DOMAIN ge_pending_cb' /\ ge_pending_cb'[i - 1] = ge_pending_cb[i]
      /\ \A i \in DOMAIN ge_pending_cb' :
            i + 1 \in DOMAIN ge_pending_cb /\ i + 1 # 1 /\ ge_pending_cb'[i] = ge_pending_cb[i + 1]
      /\ ge_pending_cb[1].list = l /\ 1 \in DOMAIN ge_pending_cb
  BY <1>0, <1>2, HandledAt
<1>6. \A i \in DOMAIN ge_pending_cb : i # 1 => ge_pending_cb[i].list # l
  BY <1>5 DEF JInv, OneInterrupt
<1>7. \A i, j \in DOMAIN ge_pending_cb' : ge_pending_cb'[i].list = ge_pending_cb'[j].list => i = j
  <2> SUFFICES ASSUME NEW i \in DOMAIN ge_pending_cb', NEW j \in DOMAIN ge_pending_cb',
                      ge_pending_cb'[i].list = ge_pending_cb'[j].list
               PROVE  i = j
    OBVIOUS
  <2>1. i + 1 = j + 1
    BY <1>5 DEF JInv, OneInterrupt
  <2>2. i \in Nat /\ j \in Nat
    <3>1. ge_pending_cb' \in Seq(Requests)
      BY DEF IInv, Types, TypeOK, Requests
    <3> QED
      BY <3>1
  <2> QED
    BY <2>1, <2>2
<1>8. ASSUME NEW k \in Lists PROVE dls'[k].pendingInterrupt <=> InterruptPending(k)'
  <2>1. CASE k = l
    <3>1. ~InterruptPending(k)'
      BY <1>5, <1>6, <2>1 DEF InterruptPending
    <3> QED
      BY <1>3, <1>4, <2>1, <3>1
  <2>2. CASE k # l
    <3>1. InterruptPending(k) => InterruptPending(k)'
      <4> SUFFICES ASSUME InterruptPending(k) PROVE InterruptPending(k)'
        OBVIOUS
      <4>1. PICK i \in DOMAIN ge_pending_cb : ge_pending_cb[i].list = k
        BY DEF InterruptPending
      <4>2. i # 1
        BY <1>5, <2>2, <4>1
      <4> PICK j : j = i - 1
        OBVIOUS
      <4>3. j \in DOMAIN ge_pending_cb' /\ ge_pending_cb'[j].list = k
        BY <1>5, <4>1, <4>2
      <4> QED
        BY <4>3 DEF InterruptPending
    <3>2. InterruptPending(k)' => InterruptPending(k)
      BY <1>5 DEF InterruptPending
    <3> QED
      BY <1>4, <2>2, <3>1, <3>2 DEF JInv, OneInterrupt
  <2> QED
    BY <2>1, <2>2
<1>9. ASSUME NEW i \in DOMAIN ge_pending_cb' PROVE Awaits(ge_pending_cb[i].list, ge_pending_cb[i].cmd)'
  <2> PICK k, c : k = ge_pending_cb'[i].list /\ c = ge_pending_cb'[i].cmd
    OBVIOUS
  <2>1. Awaits(k, c) /\ k # l /\ k \in Lists
    <3> PICK j : j = i + 1
      OBVIOUS
    <3>1. j \in DOMAIN ge_pending_cb /\ j # 1 /\ ge_pending_cb[j].list = k /\ ge_pending_cb[j].cmd = c
      BY <1>5
    <3> QED
      BY <1>6, <3>1, PendingList DEF JInv, OneInterrupt
  <2>2. Awaits(k, c)'
    BY <1>4, <2>1 DEF Awaits, AtDone
  <2> QED
    BY <2>2
<1>10. OneInterrupt'
  BY <1>7, <1>8, <1>9 DEF OneInterrupt
<1>11. RunsOn'
  <2> SUFFICES ASSUME gpu.at = "run" PROVE dls'[gpu.list].state = "running" /\ dls'[gpu.list].started
    BY DEF RunsOn
  <2>1. ~dls[gpu.list].pendingInterrupt /\ gpu.list \in Lists
    BY NonePending, Running DEF JInv, RunsOn, AtDone
  <2>2. dls[l].pendingInterrupt
    BY <1>5, PendingList DEF JInv
  <2> QED
    BY <1>4, <2>1, <2>2 DEF JInv, RunsOn
<1>12. OldStaysStarted
  BY <1>3, <1>4, PendingList DEF OldStaysStarted, JInv
<1>13. SuspendedStays
  BY <1>3, <1>4 DEF SuspendedStays
<1> QED
  BY <1>10, <1>11, <1>12, <1>13 DEF JInv, Orderly

NoneContinues == \A p \in Programs : \A i \in DOMAIN p : p[i] # "continue"

LEMMA RunningFree ==
    ASSUME JInv, gpu.at = "run"
    PROVE  /\ gpu.list \in Lists /\ ~dls[gpu.list].pendingInterrupt
           /\ dls[gpu.list].state = "running" /\ dls[gpu.list].started
BY NonePending, Running DEF JInv, RunsOn, AtDone

LEMMA GpuOrderly ==
    ASSUME JInv, IInv', ~NewSdk, NoneContinues, GPUStep
    PROVE  Orderly
<1> DEFINE l == gpu.list
<1>0. dls \in [Lists -> DisplayList] /\ IInv /\ Types
  BY DEF JInv, IInv, Types, TypeOK
<1>1. CASE StartProcessing \/ GetNextListIndex \/ Stall \/ DrawingEnds
  <2>1. /\ UNCHANGED <<ge_pending_cb, dls, dlQueue>>
        /\ gpu.at # "done" /\ gpu'.at \notin {"run", "done"}
    BY <1>1 DEF StartProcessing, GetNextListIndex, Stall, DrawingEnds, At, Idle
  <2> QED
    BY <2>1, NoListChanges
<1>2. CASE RemoveDone
  <2>1. UNCHANGED <<dls, ge_pending_cb>> /\ gpu.at = "done" /\ gpu'.at = "next"
    BY <1>2 DEF RemoveDone, At
  <2>2. /\ l \in Lists
        /\ Entries(dlQueue') = IF dls[l].state = "queued" THEN Entries(dlQueue) ELSE Entries(dlQueue) \ {l}
    BY <1>0, <1>2, <2>1, WithoutMember DEF RemoveDone, list, Types, TypeOK
  <2>3. dls[l].pendingInterrupt => dls[l].state # "queued"
    BY <2>1, <2>2 DEF JInv, OneInterrupt, InterruptPending, Awaits, AtDone
  <2>4. Gentle
    BY <2>1, <2>2, <2>3 DEF Gentle, Undisturbed, AtDone
  <2> QED
    BY <2>1, <2>4, QuietStep DEF RunsOn
<1>3. CASE InterpretList
  <2>1. CASE dls[l].state = "paused"
    <3>1. UNCHANGED <<ge_pending_cb, dls, dlQueue>> /\ gpu.at # "done" /\ gpu'.at = "idle"
      BY <1>3, <2>1 DEF InterpretList, Idle
    <3> QED
      BY <3>1, NoListChanges
  <2>2. CASE dls[l].state # "paused"
    <3>1. /\ UNCHANGED <<ge_pending_cb, dlQueue>> /\ gpu.at = "interpret" /\ gpu' = [at |-> "run", list |-> l]
          /\ dls' = [dls EXCEPT ![l].started = TRUE, ![l].state = "running"]
      BY <1>3, <2>2 DEF InterpretList, At
    <3>2. l \in Entries(dlQueue) /\ l \in Lists
      BY <1>0, <3>1 DEF IInv, Types, QueueInStep, GpuInQueue
    <3>3. ~dls[l].pendingInterrupt
      BY <1>0, <2>2, <3>1, <3>2, NonePending DEF JInv, AtDone
    <3>4. /\ dls'[l].pendingInterrupt = dls[l].pendingInterrupt /\ dls'[l].state = "running" /\ dls'[l].started
          /\ \A k \in Lists : k # l => dls'[k] = dls[k]
      BY <1>0, <3>1, <3>2 DEF DisplayList
    <3>5. RunsOn'
      BY <3>1, <3>4 DEF RunsOn
    <3> QED
      BY <3>1, <3>2, <3>3, <3>4, <3>5, OneListChanges
  <2> QED
    BY <2>1, <2>2
<1>4. CASE Draw
  <2>1. /\ UNCHANGED <<ge_pending_cb, dlQueue, gpu>> /\ gpu.at = "run"
        /\ dls' = [dls EXCEPT ![l].pc = @ + 1]
    BY <1>4 DEF Draw, Runs
  <2>2. /\ dls'[l].pendingInterrupt = dls[l].pendingInterrupt /\ dls'[l].state = dls[l].state
        /\ dls'[l].started = dls[l].started
        /\ \A k \in Lists : k # l => dls'[k] = dls[k]
    BY <1>0, <2>1, RunningFree DEF DisplayList
  <2>3. RunsOn'
    BY <2>1, <2>2, RunningFree DEF RunsOn
  <2> QED
    BY <2>1, <2>2, <2>3, RunningFree, OneListChanges
<1>5. CASE Signal
  <2> DEFINE triggers == Command \in {"suspend", "continue"}
             state == IF Command = "suspend" /\ ~NewSdk THEN "paused" ELSE dls[l].state
  <2>1. /\ gpu.at = "run" /\ UNCHANGED dlQueue
        /\ dls' = [dls EXCEPT ![l].pc = @ + 1, ![l].signal = Command, ![l].state = state,
                              ![l].pendingInterrupt = @ \/ triggers]
        /\ IF triggers THEN ge_pending_cb' = Append(ge_pending_cb, [list |-> l, cmd |-> "signal"]) /\ gpu' = Idle
                       ELSE UNCHANGED <<ge_pending_cb, gpu>>
        /\ Command \in {"suspend", "continue", "pause", "sync"}
    BY <1>0, <1>5, Running DEF Signal, Runs, TriggerInterrupt
  <2>2. Command # "continue"
    <3>1. /\ list \in DisplayList /\ list.program \in Programs \cup {<< >>} /\ list.pc \in Nat \ {0}
      BY <1>0, <2>1, Running, Fields
    <3>2. CASE list.pc > Len(list.program)
      BY <3>2 DEF Command
    <3>3. CASE ~(list.pc > Len(list.program))
      <4>1. list.program # << >>
        BY <3>1, <3>3
      <4>2. list.program \in Programs /\ list.program \in Seq(Commands)
        BY <3>1, <4>1, GPUCommonAssumption
      <4>3. list.pc \in DOMAIN list.program
        BY <3>1, <3>3, <4>2
      <4> QED
        BY <3>3, <4>2, <4>3 DEF Command, NoneContinues
    <3> QED
      BY <3>2, <3>3
  <2>3. /\ dls'[l].pendingInterrupt = (dls[l].pendingInterrupt \/ triggers) /\ dls'[l].state = state
        /\ dls'[l].started = dls[l].started
        /\ \A k \in Lists : k # l => dls'[k] = dls[k]
    <3> HIDE DEF triggers, state
    <3> QED
      BY <1>0, <2>1, RunningFree DEF DisplayList
  <2>4. CASE triggers
    <3>1. state = "paused"
      BY <2>2, <2>4
    <3>2. UNCHANGED dlQueue /\ gpu'.at = "idle" /\ gpu.at = "run"
      BY <2>1, <2>4 DEF Idle
    <3> HIDE DEF triggers, state
    <3>3. dls'[l].pendingInterrupt /\ dls'[l].state = "paused" /\ dls'[l].started
      BY <2>1, <2>3, <2>4, <3>1, RunningFree
    <3>4. ASSUME NEW k, k = l PROVE Awaits(k, "signal")'
      BY <3>2, <3>3, <3>4 DEF Awaits, AtDone
    <3> QED
      BY <2>1, <2>3, <2>4, <3>2, <3>3, <3>4, RunningFree, ListTriggers
  <2>5. CASE ~triggers
    <3>1. state = dls[l].state /\ UNCHANGED <<ge_pending_cb, gpu, dlQueue>>
      BY <2>1, <2>5
    <3>2. ~dls'[l].pendingInterrupt /\ dls'[l].state = "running" /\ dls'[l].started
      BY <2>1, <2>3, <2>5, <3>1, RunningFree
    <3>3. RunsOn'
      BY <3>1, <3>2 DEF RunsOn
    <3> HIDE DEF triggers, state
    <3> QED
      BY <2>1, <2>3, <3>1, <3>2, <3>3, RunningFree, OneListChanges
  <2> QED
    BY <2>4, <2>5
<1>6. CASE Finish
  <2>1. gpu.at = "run" /\ UNCHANGED dlQueue /\ currentList = l /\ l \in Lists
    BY <1>0, <1>6, Running DEF Finish, Runs
  <2>2. CASE dls[l].signal = "sync"
    <3>1. /\ dls' = [dls EXCEPT ![l].pc = @ + 1, ![l].signal = "none"]
          /\ UNCHANGED <<ge_pending_cb, gpu>>
      BY <1>6, <2>1, <2>2 DEF Finish
    <3>2. /\ dls'[l].pendingInterrupt = dls[l].pendingInterrupt /\ dls'[l].state = dls[l].state
          /\ dls'[l].started = dls[l].started
          /\ \A k \in Lists : k # l => dls'[k] = dls[k]
      BY <1>0, <2>1, <3>1 DEF DisplayList
    <3>3. RunsOn'
      BY <2>1, <3>1, <3>2, RunningFree DEF RunsOn
    <3> QED
      BY <2>1, <3>1, <3>2, <3>3, RunningFree, OneListChanges
  <2>3. CASE dls[l].signal = "pause"
    <3>1. /\ dls' = [dls EXCEPT ![l].pc = @ + 1, ![l].state = "paused", ![l].pendingInterrupt = TRUE]
          /\ ge_pending_cb' = Append(ge_pending_cb, [list |-> l, cmd |-> "finish"]) /\ gpu' = Idle
      BY <1>6, <2>1, <2>3 DEF Finish, TriggerInterrupt
    <3>2. /\ dls'[l].pendingInterrupt /\ dls'[l].state = "paused" /\ dls'[l].signal = dls[l].signal
          /\ dls'[l].started = dls[l].started
          /\ \A k \in Lists : k # l => dls'[k] = dls[k]
      BY <1>0, <2>1, <3>1 DEF DisplayList
    <3>3. gpu'.at = "idle"
      BY <3>1 DEF Idle
    <3>4. ASSUME NEW k, k = l PROVE Awaits(k, "finish")'
      BY <2>1, <2>3, <3>2, <3>3, <3>4, RunningFree DEF Awaits, AtDone
    <3> QED
      BY <2>1, <3>1, <3>2, <3>3, <3>4, RunningFree, ListTriggers
  <2>4. CASE dls[l].signal \notin {"sync", "pause"}
    <3>1. /\ dls' = [dls EXCEPT ![l].pc = @ + 1, ![l].pendingInterrupt = TRUE]
          /\ ge_pending_cb' = Append(ge_pending_cb, [list |-> l, cmd |-> "finish"])
          /\ gpu' = [at |-> "done", list |-> l]
      BY <1>6, <2>1, <2>4 DEF Finish, TriggerInterrupt, At
    <3>2. /\ dls'[l].pendingInterrupt /\ dls'[l].state = dls[l].state
          /\ dls'[l].started = dls[l].started
          /\ \A k \in Lists : k # l => dls'[k] = dls[k]
      BY <1>0, <2>1, <3>1 DEF DisplayList
    <3>3. gpu'.at = "done" /\ gpu'.list = l
      BY <3>1
    <3>4. ASSUME NEW k, k = l PROVE Awaits(k, "finish")'
      BY <2>1, <3>2, <3>3, <3>4, RunningFree DEF Awaits, AtDone
    <3> QED
      BY <2>1, <3>1, <3>2, <3>3, <3>4, RunningFree, ListTriggers
  <2> QED
    BY <2>2, <2>3, <2>4
<1> QED
  BY <1>1, <1>2, <1>3, <1>4, <1>5, <1>6 DEF GPUStep, Processing

LEMMA EnqueueOrderly ==
    ASSUME JInv, IInv', Careless = {}, NEW program \in Programs, NEW stall \in Stalls,
           EnqueueList(program, stall) \/ EnqueueHead(program, stall)
    PROVE  Orderly
<1> PICK l : l = FreeList
  OBVIOUS
<1> PICK c : c = currentList
  OBVIOUS
<1>0. dls \in [Lists -> DisplayList] /\ IInv /\ Types /\ dlQueue \in Seq(Lists)
  BY DEF JInv, IInv, Types, TypeOK
<1>1. l \in Lists /\ ~dls[l].pendingInterrupt /\ dls[l].state \in {"none", "completed"}
  <2>1. FreeList # NoList
    BY DEF EnqueueList, EnqueueHead
  <2>2. IsFree(l)
    BY <1>0, <2>1, FreeListIsFree
  <2> QED
    BY <2>2 DEF IsFree
<1>2. UNCHANGED <<ge_pending_cb, gpu>>
  BY DEF EnqueueList, EnqueueHead, gpuVars
<1>3. gpu.at = "run" => gpu.list # l
  BY <1>1, RunningFree
<1>4. CASE EnqueueList(program, stall)
  <2>1. PICK state \in States :
          /\ dls' = Written(l, program, stall, state)
          /\ dlQueue' = Append(dlQueue, l) \/ dlQueue' = <<l>> \o dlQueue
    BY <1>4, StatesAndSignals DEF EnqueueList
  <2>2. ~dls'[l].pendingInterrupt /\ \A k \in Lists : k # l => dls'[k] = dls[k]
    BY <1>0, <1>1, <2>1, WrittenList
  <2>3. Entries(dlQueue') \subseteq Entries(dlQueue) \cup {l}
    <3>1. CASE dlQueue' = Append(dlQueue, l)
      BY <1>0, <1>1, <3>1, AppendMember
    <3>2. CASE dlQueue' = <<l>> \o dlQueue
      BY <1>0, <1>1, <3>2, ConsMember
    <3> QED
      BY <2>1, <3>1, <3>2
  <2>4. RunsOn'
    BY <1>2, <1>3, <2>2, RunningFree DEF RunsOn
  <2> QED
    BY <1>1, <1>2, <2>2, <2>3, <2>4, OneListChanges
<1>5. CASE EnqueueHead(program, stall)
  <2> DEFINE written == Written(l, program, stall, "paused")
  <2>1. /\ c # NoList => dls[c].state = "paused" /\ c \in Lists /\ c # l /\ ~dls[c].pendingInterrupt
        /\ dls' = IF c = NoList THEN written ELSE [written EXCEPT ![c].state = "queued"]
        /\ dlQueue' = <<l>> \o dlQueue
    BY <1>0, <1>1, <1>5 DEF EnqueueHead, Types, TypeOK, PausedBySignal
  <2>2. /\ written \in [Lists -> DisplayList] /\ ~written[l].pendingInterrupt
        /\ \A k \in Lists : k # l => written[k] = dls[k]
    BY <1>0, <1>1, WrittenList, StatesAndSignals
  <2> HIDE DEF written
  <2>3. /\ ~dls'[l].pendingInterrupt
        /\ c # NoList => ~dls'[c].pendingInterrupt
        /\ \A k \in Lists : k # l /\ k # c => dls'[k] = dls[k]
    <3>1. CASE c = NoList
      BY <2>1, <2>2, <3>1
    <3>2. CASE c # NoList
      <4>1. dls' = [written EXCEPT ![c].state = "queued"]
        BY <2>1, <3>2
      <4>2. dls'[c].pendingInterrupt = written[c].pendingInterrupt /\ \A k \in Lists : k # c => dls'[k] = written[k]
        BY <2>1, <2>2, <3>2, <4>1 DEF DisplayList
      <4> QED
        BY <1>1, <2>1, <2>2, <3>2, <4>2
    <3> QED
      BY <3>1, <3>2
  <2>4. Entries(dlQueue') = Entries(dlQueue) \cup {l}
    BY <1>0, <1>1, <2>1, ConsMember
  <2>5. \A k \in Lists : k # NoList
    BY Numbers
  <2>6. Gentle
    <3> SUFFICES ASSUME NEW k \in Lists
                 PROVE  IF dls[k].pendingInterrupt THEN Undisturbed(k) ELSE ~dls'[k].pendingInterrupt
      BY DEF Gentle
    <3>1. CASE k = l \/ k = c
      BY <1>1, <2>1, <2>3, <2>5, <3>1
    <3>2. CASE k # l /\ k # c
      BY <1>2, <2>3, <2>4, <3>2 DEF Undisturbed, AtDone
    <3> QED
      BY <3>1, <3>2
  <2>7. RunsOn'
    <3>1. gpu.at = "run" => gpu.list # c
      BY <1>0, <2>1, <2>5, RunningFree DEF Types
    <3> QED
      BY <1>2, <1>3, <2>3, <3>1, RunningFree DEF RunsOn
  <2> QED
    BY <1>2, <2>6, <2>7, QuietStep
<1> QED
  BY <1>4, <1>5

LEMMA DequeueOrderly ==
    ASSUME JInv, IInv', Careless = {}, NEW l \in Lists, DequeueList(l)
    PROVE  Orderly
<1> DEFINE dequeued == [dls EXCEPT ![l].state = "none", ![l].done = TRUE]
<1>0. /\ dls \in [Lists -> DisplayList] /\ IInv /\ Types /\ dlQueue \in Seq(Lists) /\ dlQueue # << >>
      /\ l # currentList /\ l # Head(dlQueue) /\ gpu.at = "idle"
  BY DEF JInv, IInv, Types, TypeOK, DequeueList, MayReorder, AtRest
<1>1. ~dls[l].pendingInterrupt
  BY DEF DequeueList, JInv, OneInterrupt, InterruptPending, Awaits
<1>2. UNCHANGED <<ge_pending_cb, gpu>>
  BY DEF DequeueList, gpuVars
<1>3. /\ dequeued \in [Lists -> DisplayList]
      /\ dequeued[l].pendingInterrupt = dls[l].pendingInterrupt
      /\ \A k \in Lists : k # l => dequeued[k] = dls[k]
  <2> DEFINE new == [dls[l] EXCEPT !.state = "none", !.done = TRUE]
  <2>1. new \in DisplayList
    BY <1>0, DisplayLists, StatesAndSignals
  <2>2. new.pendingInterrupt = dls[l].pendingInterrupt
    BY <1>0 DEF DisplayList
  <2>3. dequeued = [dls EXCEPT ![l] = new]
    BY <1>0
  <2> HIDE DEF new, dequeued
  <2> QED
    BY <1>0, <2>1, <2>2, <2>3
<1>4. dlQueue' = Without(dlQueue, l) /\ (Without(dlQueue, l) # << >> => dls' = dequeued)
  BY <1>0 DEF DequeueList
<1> HIDE DEF dequeued
<1>5. Without(dlQueue, l) # << >> /\ Entries(Without(dlQueue, l)) = Entries(dlQueue) \ {l}
  BY <1>0, WithoutMember
<1>6. RunsOn'
  BY <1>0, <1>2 DEF RunsOn
<1> QED
  BY <1>1, <1>2, <1>3, <1>4, <1>5, <1>6, OneListChanges

LEMMA UpdateStallOrderly ==
    ASSUME JInv, IInv', NEW l \in Lists, NEW stall \in Stalls, UpdateStall(l, stall)
    PROVE  Orderly
<1>1. dls \in [Lists -> DisplayList] /\ dls' = [dls EXCEPT ![l].stall = stall] /\ UNCHANGED <<ge_pending_cb, dlQueue, gpu>>
  BY DEF UpdateStall, gpuVars, JInv, IInv, Types, TypeOK
<1>2. \A k \in Lists : /\ dls'[k].started = dls[k].started /\ dls'[k].pc = dls[k].pc
                       /\ dls'[k].pendingInterrupt = dls[k].pendingInterrupt
                       /\ dls'[k].state = dls[k].state /\ dls'[k].signal = dls[k].signal
  BY <1>1 DEF DisplayList
<1>3. Gentle
  BY <1>1, <1>2 DEF Gentle, Undisturbed, AtDone
<1>4. RunsOn'
  BY <1>1, <1>2, RunningFree DEF RunsOn
<1> QED
  BY <1>1, <1>3, <1>4, QuietStep

LEMMA ContinueOrderly ==
    ASSUME JInv, IInv', Careless = {}, Continue
    PROVE  Orderly
<1> PICK c : c = currentList
  OBVIOUS
<1>1. /\ dls \in [Lists -> DisplayList] /\ c \in Lists /\ dls[c].state = "paused" /\ ~dls[c].pendingInterrupt
      /\ UNCHANGED <<ge_pending_cb, dlQueue, gpu>>
      /\ dls' \in {[dls EXCEPT ![c].state = "queued"], [dls EXCEPT ![c].state = "running", ![c].signal = "none"]}
  BY DEF Continue, gpuVars, JInv, IInv, Types, TypeOK
<1>2. dls'[c].pendingInterrupt = dls[c].pendingInterrupt /\ \A k \in Lists : k # c => dls'[k] = dls[k]
  BY <1>1 DEF DisplayList
<1>3. RunsOn'
  <2>1. gpu.at = "run" => gpu.list # c /\ gpu.list \in Lists
    BY <1>1, RunningFree
  <2> QED
    BY <1>1, <1>2, <2>1 DEF JInv, RunsOn
<1> QED
  BY <1>1, <1>2, <1>3, OneListChanges

LEMMA BreakOrderly ==
    ASSUME JInv, IInv', Careless = {}, NEW mode \in {0, 1}, Break(mode)
    PROVE  Orderly
<1> PICK c : c = currentList
  OBVIOUS
<1> DEFINE pc == IF dls[c].signal = "sync" THEN dls[c].pc + 1 ELSE dls[c].pc
<1>0. /\ dls \in [Lists -> DisplayList] /\ IInv /\ Types
      /\ c \in Lists /\ c # NoList /\ gpu.at = "idle" /\ mode = 0
  BY DEF Break, MayReorder, AtRest, JInv, IInv, Types, TypeOK
<1>1. dls[c].state \in {"queued", "running"} /\ UNCHANGED <<ge_pending_cb, dlQueue, gpu>>
  BY <1>0 DEF Break, gpuVars
<1>2. \/ dls' = [dls EXCEPT ![c].state = "paused"]
      \/ dls' = [dls EXCEPT ![c] = [dls[c] EXCEPT !.pc = pc, !.state = "paused", !.signal = "suspend"]]
  <2>1. CASE dls[c].state = "queued"
    BY <1>0, <2>1 DEF Break
  <2>2. CASE dls[c].state # "queued"
    <3>1. dls' = [dls EXCEPT ![c] =
                    [dls[c] EXCEPT !.pc = IF dls[c].signal = "sync" THEN @ + 1 ELSE @,
                                   !.state = "paused", !.signal = "suspend"]]
      BY <1>0, <2>2 DEF Break
    <3> QED
      BY <3>1
  <2> QED
    BY <2>1, <2>2
<1> HIDE DEF pc
<1>3. /\ dls'[c].pendingInterrupt = dls[c].pendingInterrupt /\ dls'[c].started = dls[c].started
      /\ dls[c].signal = "suspend" => dls'[c].pc = dls[c].pc
      /\ \A k \in Lists : k # c => dls'[k] = dls[k]
  <2>1. CASE dls' = [dls EXCEPT ![c].state = "paused"]
    BY <1>0, <2>1 DEF DisplayList
  <2>2. CASE dls' = [dls EXCEPT ![c] = [dls[c] EXCEPT !.pc = pc, !.state = "paused", !.signal = "suspend"]]
    <3> DEFINE new == [dls[c] EXCEPT !.pc = pc, !.state = "paused", !.signal = "suspend"]
    <3>1. new.pendingInterrupt = dls[c].pendingInterrupt /\ new.started = dls[c].started /\ new.pc = pc
      BY <1>0 DEF DisplayList
    <3>2. dls' = [dls EXCEPT ![c] = new]
      BY <2>2
    <3>3. dls[c].signal = "suspend" => pc = dls[c].pc
      BY DEF pc
    <3> HIDE DEF new
    <3> QED
      BY <1>0, <3>1, <3>2, <3>3
  <2> QED
    BY <1>2, <2>1, <2>2
<1>4. dls[c].pendingInterrupt => c \notin Entries(dlQueue) /\ ~AtDone(c)
  <2>1. ~AtDone(c)
    BY <1>0 DEF AtDone
  <2> QED
    BY <1>0, <1>1, <2>1, NonePending DEF JInv
<1>5. RunsOn'
  BY <1>0, <1>1 DEF RunsOn
<1>6. Gentle
  BY <1>0, <1>1, <1>3, <1>4 DEF Gentle, Undisturbed, AtDone
<1> QED
  BY <1>1, <1>5, <1>6, QuietStep

LEMMA SyncOrderly ==
    ASSUME JInv, IInv', UNCHANGED dls \/ dls' = Forgotten, UNCHANGED <<ge_pending_cb, dlQueue, gpu>>
    PROVE  Orderly
<1>1. CASE UNCHANGED dls
  BY <1>1, NoListChanges
<1>2. CASE dls' = Forgotten
  <2>1. \A k \in Lists :
          /\ dls'[k].state = IF dls[k].state = "completed" THEN "none" ELSE dls[k].state
          /\ dls'[k].signal = dls[k].signal /\ dls'[k].pc = dls[k].pc
          /\ dls'[k].pendingInterrupt = dls[k].pendingInterrupt /\ dls'[k].started = dls[k].started
    BY <1>2, ForgottenLists DEF JInv, IInv
  <2>2. ASSUME NEW k \in Lists, dls[k].pendingInterrupt PROVE Undisturbed(k)
    <3>1. k \in Entries(dlQueue) /\ ~AtDone(k) => dls[k].state = "paused"
      BY <2>2, NonePending DEF JInv
    <3> QED
      BY <2>1, <3>1 DEF Undisturbed, AtDone
  <2>3. Gentle
    BY <2>1, <2>2 DEF Gentle
  <2>4. RunsOn'
    BY <2>1, RunningFree DEF RunsOn
  <2> QED
    BY <2>3, <2>4, QuietStep
<1> QED
  BY <1>1, <1>2

LEMMA HandlerReturnsOrderly ==
    ASSUME JInv, IInv', HandlerReturns
    PROVE  Orderly
<1> PICK l : l = Head(ge_pending_cb).list
  OBVIOUS
<1>1. ge_pending_cb # << >>
  BY DEF HandlerReturns, JInv, IInv, Types
<1>2. /\ l \in Lists /\ dls[l] \in DisplayList
      /\ InterruptEnd(l, Resumed(dls[l])) /\ UNCHANGED <<gpu, dlQueue>>
  BY <1>1, HandledAt DEF HandlerReturns, JInv, IInv, Types, TypeOK
<1> QED
  BY <1>1, <1>2, InterruptEndOrderly

(* The list whose interrupt starts is paused, or it has just been finished *)
(* and leaves the queue: that it completes disturbs nothing.               *)
LEMMA GeInterruptOrderly ==
    ASSUME JInv, IInv', NEW handled \in BOOLEAN, GeInterrupt(handled)
    PROVE  Orderly
<1> PICK e : e = Head(ge_pending_cb)
  OBVIOUS
<1> PICK l : l = e.list
  OBVIOUS
<1> DEFINE completes == dls[l].signal # "pause" /\ e.cmd = "finish"
           entered == IF completes THEN [dls[l] EXCEPT !.state = "completed"] ELSE dls[l]
<1>1. /\ ge_pending_cb # << >> /\ l \in Lists /\ dls \in [Lists -> DisplayList] /\ dls[l] \in DisplayList
      /\ e = ge_pending_cb[1] /\ 1 \in DOMAIN ge_pending_cb /\ IInv
  BY HandledAt DEF GeInterrupt, JInv, IInv, Types, TypeOK
<1>2. UNCHANGED <<gpu, dlQueue>>
  BY DEF GeInterrupt
<1>3. \/ dls' = [dls EXCEPT ![l] = entered] /\ UNCHANGED ge_pending_cb
      \/ InterruptEnd(l, Resumed(entered))
  BY <1>1 DEF GeInterrupt
<1>4. entered \in DisplayList
  <2>1. [dls[l] EXCEPT !.state = "completed"] \in DisplayList
    BY <1>1, DisplayLists, StatesAndSignals
  <2> QED
    BY <1>1, <2>1
<1>5. /\ entered.signal = dls[l].signal /\ entered.pc = dls[l].pc /\ entered.started = dls[l].started
      /\ entered.pendingInterrupt = dls[l].pendingInterrupt
      /\ entered.state = IF completes THEN "completed" ELSE dls[l].state
  BY <1>1 DEF DisplayList
<1>6. Awaits(l, e.cmd) /\ dls[l].pendingInterrupt
  BY <1>1, PendingList DEF JInv, OneInterrupt
<1>7. l \in Entries(dlQueue) /\ ~AtDone(l) => ~completes
  BY <1>6 DEF Awaits
<1> HIDE DEF entered, completes
<1>8. CASE InterruptEnd(l, Resumed(entered))
  BY <1>1, <1>2, <1>4, <1>5, <1>8, InterruptEndOrderly
<1>9. CASE dls' = [dls EXCEPT ![l] = entered] /\ UNCHANGED ge_pending_cb
  <2>1. dls'[l] = entered /\ \A k \in Lists : k # l => dls'[k] = dls[k]
    BY <1>1, <1>9
  <2>2. Undisturbed(l)
    BY <1>2, <1>5, <1>7, <2>1 DEF Undisturbed, AtDone
  <2>3. Gentle
    BY <1>2, <1>6, <2>1, <2>2 DEF Gentle, Undisturbed, AtDone
  <2>4. RunsOn'
    <3>1. gpu.at = "run" => gpu.list \in Lists /\ gpu.list # l
      BY <1>6, RunningFree
    <3> QED
      BY <1>2, <2>1, <3>1 DEF JInv, RunsOn
  <2> QED
    BY <1>9, <2>3, <2>4, QuietStep
<1> QED
  BY <1>3, <1>8, <1>9

LEMMA GuestOrderly ==
    ASSUME Careless = {}, JInv, IInv', GuestStep
    PROVE  Orderly
<1>1. CASE \E t \in Threads : DrawSync(t) \/ \E l \in Lists : ListSync(t, l)
  <2>1. (UNCHANGED dls \/ dls' = Forgotten) /\ UNCHANGED <<ge_pending_cb, dlQueue, gpu>>
    BY <1>1 DEF DrawSync, ListSync, gpuVars, lists
  <2> QED
    BY <2>1, SyncOrderly
<1>2. CASE DoState
  <2>1. UNCHANGED <<ge_pending_cb, dls, dlQueue, gpu>>
    BY <1>2 DEF DoState, gpuVars
  <2> QED
    BY <2>1, NoListChanges
<1> QED
  BY <1>1, <1>2, EnqueueOrderly, DequeueOrderly, UpdateStallOrderly, ContinueOrderly, BreakOrderly DEF GuestStep

LEMMA InitiallyOrderly ==
    Init => JInv
<1> SUFFICES ASSUME Init PROVE JInv
  OBVIOUS
<1>1. IInv
  BY InitialInvariant
<1>2. \A l \in Lists : ~dls[l].pendingInterrupt
  BY DEF Init, NoneList
<1>3. OneInterrupt
  BY <1>2 DEF Init, OneInterrupt, InterruptPending
<1>4. RunsOn
  BY DEF Init, RunsOn, Idle
<1> QED
  BY <1>1, <1>3, <1>4 DEF JInv

LEMMA StepOrderly ==
    ASSUME Careless = {}, ~NewSdk, NoneContinues, JInv, [Next]_vars
    PROVE  Orderly
<1>0. IInv'
  BY StepKeeps DEF JInv
<1>1. CASE UNCHANGED vars
  <2>1. UNCHANGED <<ge_pending_cb, dls, dlQueue, gpu>>
    BY <1>1 DEF vars, lists
  <2> QED
    BY <1>0, <2>1, NoListChanges
<1>2. CASE GPUStep
  BY <1>0, <1>2, GpuOrderly
<1>3. CASE GuestStep
  BY <1>0, <1>3, GuestOrderly
<1>4. CASE TimePasses
  <2>1. UNCHANGED <<ge_pending_cb, dls, dlQueue, gpu>>
    BY <1>4 DEF TimePasses, gpuVars, lists
  <2> QED
    BY <1>0, <2>1, NoListChanges
<1>5. CASE GeExecuteSync
  <2>1. (UNCHANGED dls \/ dls' = Forgotten) /\ UNCHANGED <<ge_pending_cb, dlQueue, gpu>>
    BY <1>5 DEF GeExecuteSync, gpuVars
  <2> QED
    BY <1>0, <2>1, SyncOrderly
<1>6. CASE Interrupts
  BY <1>0, <1>6, GeInterruptOrderly, HandlerReturnsOrderly DEF Interrupts
<1> QED
  BY <1>1, <1>2, <1>3, <1>4, <1>5, <1>6 DEF Next

LEMMA OrderlyHolds ==
    ASSUME Careless = {}, ~NewSdk, NoneContinues
    PROVE  Spec => []JInv
<1>1. JInv /\ [Next]_vars => JInv'
  BY StepOrderly DEF Orderly
<1> QED
  BY <1>1, InitiallyOrderly, PTL DEF Spec

(* The number of a list is given to no other list while an interrupt of it *)
(* is to come or its handler runs (FreeList, for EnqueueList in            *)
(* GPUCommon.cpp, skips such a list), so that the handler's end, which     *)
(* goes by the number, ends the list that was interrupted.                 *)
THEOREM NoInterruptOfOldListTheorem ==
    ASSUME Careless = {}, ~NewSdk, NoneContinues
    PROVE  Spec => NoInterruptOfOldList
<1> DEFINE stays == \A i \in DOMAIN ge_pending_cb :
                        LET l == ge_pending_cb[i].list IN dls[l].started => dls'[l].started
<1>1. JInv /\ [Next]_vars => stays
  BY StepOrderly DEF Orderly, OldStaysStarted
<1>2. stays => [\A i \in DOMAIN ge_pending_cb :
                    LET l == ge_pending_cb[i].list IN dls[l].started => dls'[l].started]_vars
  OBVIOUS
<1> HIDE DEF stays
<1> QED
  BY <1>1, <1>2, OrderlyHolds, PTL DEF Spec, NoInterruptOfOldList

(* A list that a SIGNAL suspended executes nothing until the handler is    *)
(* done: "Suspend the list, and call the signal handler.  When it's done,  *)
(* resume." (GPUCommon.cpp)                                                *)
THEOREM SuspendedUntilHandledTheorem ==
    ASSUME Careless = {}, ~NewSdk, NoneContinues
    PROVE  Spec => SuspendedUntilHandled
<1> DEFINE stays == \A l \in Lists :
                        dls[l].signal = "suspend" /\ dls[l].pendingInterrupt /\ dls'[l].pendingInterrupt
                            => dls'[l].pc = dls[l].pc
<1>1. JInv /\ [Next]_vars => stays
  BY StepOrderly DEF Orderly, SuspendedStays
<1>2. stays => [\A l \in Lists :
                    dls[l].signal = "suspend" /\ dls[l].pendingInterrupt /\ dls'[l].pendingInterrupt
                        => dls'[l].pc = dls[l].pc]_vars
  OBVIOUS
<1> HIDE DEF stays
<1> QED
  BY <1>1, <1>2, OrderlyHolds, PTL DEF Spec, SuspendedUntilHandled

=============================================================================
