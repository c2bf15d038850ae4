-------------------------- MODULE CoreTiming_proofs --------------------------
(***************************************************************************)
(* Proofs about the clock: the list of events stays sorted and complete,   *)
(* so that CoreTiming keeps the promise of TimedEvents, posted events are  *)
(* collected, and a slice of guest code ends no later than the next event. *)
(***************************************************************************)
EXTENDS CoreTiming, Queues_proofs

LOCAL Seqs == INSTANCE SequencesExt

Times(list, e) == Cardinality(Positions(list, e))

Sorted(list) == \A i, j \in DOMAIN list : i < j => list[i].time <= list[j].time

LEMMA EventFacts ==
    ASSUME NEW list \in Seq(Event)
    PROVE  /\ Len(list) \in Nat /\ DOMAIN list = 1 .. Len(list)
           /\ \A j \in 1 .. Len(list) : list[j] \in Event /\ list[j].time \in Int /\ list[j].kind \in Kinds
           /\ \A e \in Event : e.time \in Int /\ e.kind \in Kinds
<1>1. /\ Len(list) \in Nat /\ DOMAIN list = 1 .. Len(list)
      /\ \A j \in 1 .. Len(list) : list[j] \in Event
  OBVIOUS
<1>2. \A e \in Event : e.time \in Int /\ e.kind \in Kinds
  BY DEF Event
<1> QED
  BY <1>1, <1>2

----------------------------------------------------------------------------
(* AddEventToQueue inserts an event before the first of the later ones.    *)
LEMMA AddedAt ==
    ASSUME NEW list \in Seq(Event), Sorted(list), NEW e \in Event
    PROVE  \E k \in 1 .. Len(list) + 1 :
             /\ Added(list, e) = Seqs!InsertAt(list, k, e)
             /\ \A j \in 1 .. Len(list) : j < k => list[j].time <= e.time
             /\ \A j \in 1 .. Len(list) : j >= k => list[j].time > e.time
<1> DEFINE later == {i \in 1 .. Len(list) : e.time < list[i].time}
<1>0. /\ Len(list) \in Nat /\ DOMAIN list = 1 .. Len(list) /\ e.time \in Int
      /\ \A j \in 1 .. Len(list) : list[j].time \in Int
  BY EventFacts
<1>1. Seqs!SelectInSeq(list, LAMBDA other : e.time < other.time) =
        IF later # {} THEN Seqs!Min(later) ELSE 0
  BY DEF Seqs!SelectInSeq
<1>2. CASE later = {}
  <2>1. Added(list, e) = Seqs!InsertAt(list, Len(list) + 1, e)
    BY <1>1, <1>2 DEF Added
  <2>2. \A j \in 1 .. Len(list) : list[j].time <= e.time /\ ~(j >= Len(list) + 1)
    BY <1>0, <1>2
  <2>3. Len(list) + 1 \in 1 .. Len(list) + 1
    BY <1>0
  <2> QED
    BY <2>1, <2>2, <2>3
<1>3. CASE later # {}
  <2> DEFINE k == Seqs!Min(later)
  <2>1. k \in later /\ \A j \in later : k <= j
    <3>1. later \subseteq Nat
      BY <1>0
    <3> HIDE DEF later
    <3>2. \E x \in later : \A y \in later : x <= y
      BY <1>3, <3>1, Least
    <3> QED
      BY <3>2 DEF Seqs!Min
  <2>2. k # 0 /\ k \in 1 .. Len(list) + 1 /\ k \in 1 .. Len(list) /\ list[k].time > e.time
    BY <1>0, <2>1
  <2>3. Added(list, e) = Seqs!InsertAt(list, k, e)
    BY <1>1, <1>3, <2>2 DEF Added
  <2> HIDE DEF k
  <2>4. \A j \in 1 .. Len(list) : j < k => list[j].time <= e.time
    BY <1>0, <2>1, <2>2
  <2>5. \A j \in 1 .. Len(list) : j >= k => list[j].time > e.time
    BY <1>0, <2>2 DEF Sorted
  <2> QED
    BY <2>2, <2>3, <2>4, <2>5
<1> QED
  BY <1>2, <1>3

LEMMA AddedSorted ==
    ASSUME NEW list \in Seq(Event), Sorted(list), NEW e \in Event
    PROVE  /\ Added(list, e) \in Seq(Event) /\ Sorted(Added(list, e))
           /\ \A x : Times(Added(list, e), x) = IF e = x THEN Times(list, x) + 1 ELSE Times(list, x)
<1> DEFINE r == Added(list, e)
<1>0. /\ Len(list) \in Nat /\ DOMAIN list = 1 .. Len(list) /\ e.time \in Int
      /\ \A j \in 1 .. Len(list) : list[j].time \in Int
  BY EventFacts
<1>1. PICK k \in 1 .. Len(list) + 1 :
             /\ r = Seqs!InsertAt(list, k, e)
             /\ \A j \in 1 .. Len(list) : j < k => list[j].time <= e.time
             /\ \A j \in 1 .. Len(list) : j >= k => list[j].time > e.time
  BY AddedAt
<1> HIDE DEF r
<1>2. /\ r \in Seq(Event) /\ DOMAIN r = 1 .. Len(list) + 1
      /\ r[k] = e
      /\ \A j \in 1 .. Len(list) : j < k => r[j] = list[j]
      /\ \A j \in 1 .. Len(list) : j >= k => r[j + 1] = list[j]
  BY <1>1, InsertedAt
<1>3. \A x : Times(r, x) = IF e = x THEN Times(list, x) + 1 ELSE Times(list, x)
  BY <1>1, InsertCount DEF Times
<1>4. \A j \in 1 .. Len(list) + 1 :
        /\ j < k => j \in 1 .. Len(list) /\ r[j] = list[j] /\ list[j].time <= e.time
        /\ j > k => j - 1 \in 1 .. Len(list) /\ r[j] = list[j - 1] /\ list[j - 1].time > e.time
  <2> SUFFICES ASSUME NEW j \in 1 .. Len(list) + 1
               PROVE  /\ j < k => j \in 1 .. Len(list) /\ r[j] = list[j] /\ list[j].time <= e.time
                      /\ j > k => j - 1 \in 1 .. Len(list) /\ r[j] = list[j - 1] /\ list[j - 1].time > e.time
    OBVIOUS
  <2>1. j < k => j \in 1 .. Len(list)
    BY <1>0
  <2>2. j > k => j - 1 \in 1 .. Len(list) /\ j - 1 >= k /\ (j - 1) + 1 = j
    BY <1>0
  <2> QED
    BY <1>1, <1>2, <2>1, <2>2
<1>5. ASSUME NEW i \in 1 .. Len(list) + 1, NEW j \in 1 .. Len(list) + 1, i < j
      PROVE  r[i].time <= r[j].time
  <2>0. i \in Int /\ j \in Int /\ k \in Int
    OBVIOUS
  <2>1. CASE j < k
    <3>1. i < k /\ i \in DOMAIN list /\ j \in DOMAIN list /\ r[i] = list[i] /\ r[j] = list[j]
      BY <1>0, <1>4, <1>5, <2>0, <2>1
    <3> QED
      BY <1>5, <3>1 DEF Sorted
  <2>2. CASE i > k
    <3>1. j > k /\ i - 1 \in DOMAIN list /\ j - 1 \in DOMAIN list /\ i - 1 < j - 1
          /\ r[i] = list[i - 1] /\ r[j] = list[j - 1]
      BY <1>0, <1>4, <1>5, <2>0, <2>2
    <3> QED
      BY <3>1 DEF Sorted
  <2>3. CASE i <= k /\ k <= j
    <3>1. r[i].time <= e.time /\ r[i].time \in Int
      BY <1>0, <1>2, <1>4, <2>0, <2>3
    <3>2. e.time <= r[j].time /\ r[j].time \in Int
      BY <1>0, <1>2, <1>4, <2>0, <2>3
    <3> QED
      BY <1>0, <3>1, <3>2
  <2> QED
    BY <2>0, <2>1, <2>2, <2>3
<1>6. Sorted(r)
  BY <1>2, <1>5 DEF Sorted
<1> QED
  BY <1>2, <1>3, <1>6 DEF r

(* MoveEvents adds the posted events one after the other: the function     *)
(* that AddedAll is defined by exists, since no number is the least up to  *)
(* which it would not.                                                     *)
IsMove(f, list, more, m) ==
    f = [n \in 0 .. m |-> IF n = 0 THEN list ELSE Added(f[n - 1], more[n])]

LEMMA MoveExists ==
    ASSUME NEW list, NEW more, NEW m \in Nat
    PROVE  \E f : IsMove(f, list, more, m)
<1> DEFINE bad == {k \in Nat : ~ \E f : IsMove(f, list, more, k)}
<1>1. CASE bad = {}
  BY <1>1
<1>2. CASE bad # {}
  <2>1. PICK k \in bad : \A l \in bad : k <= l
    BY <1>2, Least
  <2>2. k # 0
    <3>1. IsMove([n \in 0 .. 0 |-> list], list, more, 0)
      BY DEF IsMove
    <3> QED
      BY <3>1
  <2>3. k \in Nat /\ k - 1 \in Nat /\ k - 1 \notin bad
    BY <2>1, <2>2
  <2>4. PICK f : IsMove(f, list, more, k - 1)
    BY <2>3
  <2> DEFINE g == [n \in 0 .. k |-> IF n = k THEN Added(f[k - 1], more[k]) ELSE f[n]]
  <2>5. IsMove(g, list, more, k)
    <3>1. ASSUME NEW n \in 0 .. k
          PROVE  g[n] = IF n = 0 THEN list ELSE Added(g[n - 1], more[n])
      <4>1. CASE n = k
        <5>1. g[n] = Added(f[k - 1], more[k]) /\ n - 1 \in 0 .. k /\ n - 1 # k
          BY <2>2, <2>3, <4>1
        <5>2. g[n - 1] = f[n - 1]
          BY <5>1
        <5> QED
          BY <2>2, <4>1, <5>1, <5>2
      <4>2. CASE n # k
        <5>1. n \in 0 .. k - 1 /\ g[n] = f[n]
          BY <2>3, <4>2
        <5>2. n # 0 => n - 1 \in 0 .. k - 1 /\ g[n - 1] = f[n - 1]
          BY <2>3, <5>1
        <5>3. f[n] = IF n = 0 THEN list ELSE Added(f[n - 1], more[n])
          BY <2>4, <5>1 DEF IsMove
        <5> HIDE DEF g
        <5> QED
          BY <5>1, <5>2, <5>3
      <4> QED
        BY <4>1, <4>2
    <3>2. g = [n \in 0 .. k |-> g[n]]
      OBVIOUS
    <3> HIDE DEF g
    <3> QED
      BY <3>1, <3>2 DEF IsMove
  <2> HIDE DEF g
  <2> QED
    BY <2>1, <2>5
<1> QED
  BY <1>1, <1>2

LEMMA AddedAllSorted ==
    ASSUME NEW list \in Seq(Event), Sorted(list), NEW more \in Seq(Event)
    PROVE  /\ AddedAll(list, more) \in Seq(Event) /\ Sorted(AddedAll(list, more))
           /\ \A x : Times(AddedAll(list, more), x) = Times(list, x) + Times(more, x)
<1> DEFINE f == CHOOSE f : IsMove(f, list, more, Len(more))
           upTo(n, x) == {i \in 1 .. n : more[i] = x}
           good(n) == /\ f[n] \in Seq(Event) /\ Sorted(f[n])
                      /\ \A x : /\ IsFiniteSet(upTo(n, x))
                               /\ Times(f[n], x) = Times(list, x) + Cardinality(upTo(n, x))
           bad == {n \in 0 .. Len(more) : ~good(n)}
<1>0. Len(more) \in Nat /\ DOMAIN more = 1 .. Len(more) /\ \A i \in 1 .. Len(more) : more[i] \in Event
  BY EventFacts
<1>1. IsMove(f, list, more, Len(more))
  BY <1>0, MoveExists
<1>2. AddedAll(list, more) = f[Len(more)]
  BY DEF AddedAll, IsMove
<1> HIDE DEF f
<1>3. \A x : Times(list, x) \in Nat
  BY PositionsFinite DEF Times
<1>4. bad = {}
  <2> SUFFICES ASSUME bad # {} PROVE FALSE
    OBVIOUS
  <2>1. PICK n \in bad : \A m \in bad : n <= m
    <3>1. bad \subseteq Nat
      BY <1>0
    <3> HIDE DEF bad
    <3> QED
      BY <3>1, Least
  <2>2. good(0)
    <3>1. f[0] = list
      BY <1>0, <1>1 DEF IsMove
    <3>2. \A x : upTo(0, x) = {}
      OBVIOUS
    <3> HIDE DEF upTo
    <3>3. \A x : IsFiniteSet(upTo(0, x)) /\ Cardinality(upTo(0, x)) = 0
      BY <3>2, FS_EmptySet
    <3> QED
      BY <1>3, <3>1, <3>3
  <2>3. n # 0 /\ n \in 1 .. Len(more) /\ n - 1 \in 0 .. Len(more)
    <3>1. n \in 0 .. Len(more) /\ ~good(n)
      BY <2>1
    <3> HIDE DEF good
    <3> QED
      BY <1>0, <2>2, <3>1
  <2>4. good(n - 1)
    <3>1. n \in Int /\ ~(n <= n - 1)
      BY <2>3
    <3> HIDE DEF good
    <3> QED
      BY <2>1, <2>3, <3>1
  <2>5. f[n] = Added(f[n - 1], more[n])
    BY <1>0, <1>1, <2>3 DEF IsMove
  <2>6. more[n] \in Event
    BY <1>0, <2>3
  <2>7. /\ f[n] \in Seq(Event) /\ Sorted(f[n])
        /\ \A x : Times(f[n], x) = IF more[n] = x THEN Times(f[n - 1], x) + 1 ELSE Times(f[n - 1], x)
    <3>1. f[n - 1] \in Seq(Event) /\ Sorted(f[n - 1])
      BY <2>4
    <3>2. ASSUME NEW l \in Seq(Event), Sorted(l)
          PROVE  /\ Added(l, more[n]) \in Seq(Event) /\ Sorted(Added(l, more[n]))
                 /\ \A x : Times(Added(l, more[n]), x) = IF more[n] = x THEN Times(l, x) + 1 ELSE Times(l, x)
      BY <2>6, <3>2, AddedSorted
    <3> HIDE DEF good, bad
    <3> QED
      BY <2>5, <3>1, <3>2
  <2>8. ASSUME NEW x
        PROVE  /\ IsFiniteSet(upTo(n, x))
               /\ Cardinality(upTo(n, x)) =
                    IF more[n] = x THEN Cardinality(upTo(n - 1, x)) + 1 ELSE Cardinality(upTo(n - 1, x))
    <3>1. 1 .. n = (1 .. n - 1) \cup {n} /\ n \notin 1 .. n - 1
      BY <1>0, <2>3
    <3>2. upTo(n, x) = IF more[n] = x THEN upTo(n - 1, x) \cup {n} ELSE upTo(n - 1, x)
      BY <3>1
    <3>3. n \notin upTo(n - 1, x) /\ IsFiniteSet(upTo(n - 1, x))
      BY <2>4, <3>1
    <3> HIDE DEF upTo
    <3> QED
      BY <3>2, <3>3, FS_AddElement
  <2>9. good(n)
    <3> SUFFICES ASSUME NEW x
                 PROVE  Times(f[n], x) = Times(list, x) + Cardinality(upTo(n, x))
      BY <2>7, <2>8
    <3>1. Times(f[n - 1], x) = Times(list, x) + Cardinality(upTo(n - 1, x)) /\ IsFiniteSet(upTo(n - 1, x))
      BY <2>4
    <3>2. Cardinality(upTo(n - 1, x)) \in Nat /\ Times(list, x) \in Nat
      BY <1>3, <3>1, FS_CardinalityType
    <3> HIDE DEF upTo
    <3> QED
      BY <2>7, <2>8, <3>1, <3>2
  <2> QED
    BY <2>1, <2>9
<1>5. good(Len(more))
  <2>1. Len(more) \in 0 .. Len(more)
    BY <1>0
  <2> HIDE DEF good
  <2> QED
    BY <1>4, <2>1
<1>6. \A x : upTo(Len(more), x) = Positions(more, x)
  BY <1>0 DEF Positions
<1> QED
  BY <1>2, <1>5, <1>6 DEF Times

LEMMA WithoutSorted ==
    ASSUME NEW list \in Seq(Event), NEW kind
    PROVE  /\ Without(list, kind) \in Seq(Event)
           /\ Sorted(list) => Sorted(Without(list, kind))
           /\ \A x \in Entries(list) :
                x.kind # kind => Times(Without(list, kind), x) = Times(list, x)
           /\ Entries(Without(list, kind)) = {x \in Entries(list) : x.kind # kind}
<1> DEFINE S == {e \in Seqs!ToSet(list) : e.kind # kind}
           r == Selected(list, S)
<1>1. Without(list, kind) = r
  BY DEF Without
<1>2. S = {e \in Entries(list) : e.kind # kind}
  BY DEF Seqs!ToSet, Entries
<1> HIDE DEF S
<1>3. r \in Seq(Event) /\ Entries(r) = Entries(list) \cap S
  BY SelectedEntries
<1>4. ASSUME NEW x \in S PROVE Times(r, x) = Times(list, x)
  BY SelectedCount DEF Times
<1>5. PICK e : Places(e, r, list, Len(list), S)
  BY SelectedPlaces
<1> HIDE DEF r
<1>6. Sorted(list) => Sorted(r)
  <2>1. DOMAIN r = 1 .. Len(r) /\ DOMAIN list = 1 .. Len(list)
    BY <1>3
  <2> QED
    BY <1>5, <2>1 DEF Sorted, Places
<1> QED
  BY <1>1, <1>2, <1>3, <1>4, <1>6

LEMMA TailSorted ==
    ASSUME NEW list \in Seq(Event), Sorted(list), list # << >>
    PROVE  /\ Tail(list) \in Seq(Event) /\ Sorted(Tail(list)) /\ list[1] \in Event
           /\ \A x : Times(list, x) = IF list[1] = x THEN Times(Tail(list), x) + 1 ELSE Times(Tail(list), x)
           /\ \A x \in Entries(list) : list[1].time <= x.time
<1> DEFINE r == Tail(list)
<1>1. /\ r \in Seq(Event) /\ Len(list) \in Nat \ {0} /\ DOMAIN list = 1 .. Len(list)
      /\ DOMAIN r = 1 .. Len(list) - 1 /\ \A i \in 1 .. Len(list) - 1 : r[i] = list[i + 1]
      /\ Head(list) = list[1]
  OBVIOUS
<1>2. \A x : Times(list, x) = IF list[1] = x THEN Times(r, x) + 1 ELSE Times(r, x)
  BY <1>1, TailCount DEF Times
<1> HIDE DEF r
<1>3. Sorted(r)
  <2> SUFFICES ASSUME NEW i \in DOMAIN r, NEW j \in DOMAIN r, i < j
               PROVE  r[i].time <= r[j].time
    BY DEF Sorted
  <2>1. i + 1 \in DOMAIN list /\ j + 1 \in DOMAIN list /\ i + 1 < j + 1 /\ r[i] = list[i + 1] /\ r[j] = list[j + 1]
    BY <1>1
  <2> QED
    BY <2>1 DEF Sorted
<1>4. ASSUME NEW i \in DOMAIN list PROVE list[1].time <= list[i].time
  <2>1. list[i].time \in Int /\ 1 \in DOMAIN list /\ i \in Int /\ (i # 1 => 1 < i)
    BY <1>1, EventFacts
  <2>2. CASE i = 1
    BY <2>1, <2>2
  <2>3. CASE i # 1
    BY <1>1, <2>1, <2>3 DEF Sorted
  <2> QED
    BY <2>2, <2>3
<1>5. list[1] \in Event
  BY <1>1, EventFacts
<1> QED
  BY <1>1, <1>2, <1>3, <1>4, <1>5 DEF r, Entries

LEMMA TimesFacts ==
    ASSUME NEW list \in Seq(Event)
    PROVE  /\ \A x : Times(list, x) \in Nat /\ (x \in Entries(list) <=> Times(list, x) # 0)
           /\ Entries(list) \subseteq Event
           /\ Entries(list) = {} <=> list = << >>
<1>1. Len(list) \in Nat /\ DOMAIN list = 1 .. Len(list) /\ \A j \in 1 .. Len(list) : list[j] \in Event
  BY EventFacts
<1>2. ASSUME NEW x PROVE Times(list, x) \in Nat /\ (x \in Entries(list) <=> Times(list, x) # 0)
  BY PositionsFinite DEF Times
<1>3. Entries(list) \subseteq Event
  BY <1>1 DEF Entries
<1>4. Entries(list) = {} <=> list = << >>
  <2>1. list # << >> => 1 \in DOMAIN list
    BY <1>1
  <2> QED
    BY <2>1 DEF Entries
<1> QED
  BY <1>2, <1>3, <1>4

LEMMA AddedEntries ==
    ASSUME NEW list \in Seq(Event), Sorted(list), NEW e \in Event
    PROVE  Entries(Added(list, e)) = Entries(list) \cup {e}
<1> DEFINE r == Added(list, e)
<1>1. r \in Seq(Event) /\ \A x : Times(r, x) = IF e = x THEN Times(list, x) + 1 ELSE Times(list, x)
  BY AddedSorted
<1> HIDE DEF r
<1>2. ASSUME NEW x PROVE x \in Entries(r) <=> x \in Entries(list) \/ x = e
  <2>1. /\ Times(list, x) \in Nat /\ (x \in Entries(list) <=> Times(list, x) # 0)
        /\ (x \in Entries(r) <=> Times(r, x) # 0)
    BY <1>1, TimesFacts
  <2>2. CASE x = e
    BY <1>1, <2>1, <2>2
  <2>3. CASE x # e
    BY <1>1, <2>1, <2>3
  <2> QED
    BY <2>2, <2>3
<1> QED
  BY <1>2 DEF r

LEMMA AddedAllEntries ==
    ASSUME NEW list \in Seq(Event), Sorted(list), NEW more \in Seq(Event)
    PROVE  Entries(AddedAll(list, more)) = Entries(list) \cup Entries(more)
<1> DEFINE r == AddedAll(list, more)
<1>1. r \in Seq(Event) /\ \A x : Times(r, x) = Times(list, x) + Times(more, x)
  BY AddedAllSorted
<1> HIDE DEF r
<1>2. ASSUME NEW x PROVE x \in Entries(r) <=> x \in Entries(list) \/ x \in Entries(more)
  <2>1. /\ Times(list, x) \in Nat /\ (x \in Entries(list) <=> Times(list, x) # 0)
        /\ Times(more, x) \in Nat /\ (x \in Entries(more) <=> Times(more, x) # 0)
        /\ (x \in Entries(r) <=> Times(r, x) # 0)
    BY <1>1, TimesFacts
  <2> QED
    BY <1>1, <2>1
<1> QED
  BY <1>2 DEF r

LEMMA TailKeeps ==
    ASSUME NEW list \in Seq(Event), Sorted(list), list # << >>
    PROVE  Entries(list) = Entries(Tail(list)) \cup {list[1]}
<1> DEFINE r == Tail(list)
           e == list[1]
<1>1. r \in Seq(Event) /\ \A x : Times(list, x) = IF e = x THEN Times(r, x) + 1 ELSE Times(r, x)
  BY TailSorted
<1> HIDE DEF r, e
<1>2. ASSUME NEW x PROVE x \in Entries(list) <=> x \in Entries(r) \/ x = e
  <2>1. /\ Times(r, x) \in Nat /\ (x \in Entries(list) <=> Times(list, x) # 0)
        /\ (x \in Entries(r) <=> Times(r, x) # 0)
    BY <1>1, TimesFacts
  <2>2. CASE x = e
    BY <1>1, <2>1, <2>2
  <2>3. CASE x # e
    BY <1>1, <2>1, <2>3
  <2> QED
    BY <2>2, <2>3
<1> QED
  BY <1>2 DEF r, e

----------------------------------------------------------------------------
(* The invariant: the CPU is never ahead of its slice, the list of events  *)
(* is sorted, and always has the next vertical blank; Advance is entered   *)
(* by a callback and never in between its own steps.                       *)
ClockTypes == globalTimer \in Int /\ slicelength \in Int /\ downcount \in Int /\ hasTsEvents \in {0, 1}

NotAhead == downcount <= slicelength

ListsSorted ==
    /\ first \in Seq(Event) /\ Sorted(first) /\ tsFirst \in Seq(Event)
    /\ \E e \in Entries(first) : e.kind = Vblank

Steps == {"counted", "move", "process", "callback"}
CallsNested ==
    /\ stack \in Seq(Steps)
    /\ \A i \in 1 .. Len(stack) - 1 : stack[i] \in {"process", "callback"}

PostTypes == posting = NotPosting \/ posting \in Int \X Int \X Int

CInv == ClockTypes /\ ListsSorted /\ CallsNested /\ PostTypes

LEMMA StackFacts ==
    ASSUME CallsNested
    PROVE  /\ stack \in Seq(Steps) /\ Len(stack) \in Nat /\ DOMAIN stack = 1 .. Len(stack)
           /\ At = IF stack = << >> THEN "guest" ELSE stack[Len(stack)]
           /\ At \in Steps \cup {"guest"} /\ (At = "guest" => stack = << >>)
<1>1. stack \in Seq(Steps) /\ Len(stack) \in Nat /\ DOMAIN stack = 1 .. Len(stack)
  BY DEF CallsNested
<1>2. At = IF stack = << >> THEN "guest" ELSE stack[Len(stack)]
  BY DEF At, Seqs!Last
<1>3. At \in Steps \cup {"guest"} /\ (At = "guest" => stack = << >>)
  BY <1>1, <1>2 DEF Steps
<1> QED
  BY <1>1, <1>2, <1>3

LEMMA FrontEntries ==
    ASSUME NEW T, NEW q \in Seq(T), q # << >>
    PROVE  /\ Seqs!Front(q) \in Seq(T) /\ Len(Seqs!Front(q)) = Len(q) - 1
           /\ \A i \in 1 .. Len(q) - 1 : Seqs!Front(q)[i] = q[i]
<1> DEFINE n == Len(q) - 1
           front == SubSeq(q, 1, n)
<1>1. 1 \in Int /\ n \in Int /\ n >= 0 /\ \A i \in 1 .. n : q[i] \in T
  OBVIOUS
<1>2. Seqs!Front(q) = front
  BY DEF Seqs!Front
<1> HIDE DEF n
<1>3. /\ front \in Seq(T) /\ Len(front) = IF 1 <= n THEN n - 1 + 1 ELSE 0
      /\ \A i \in 1 .. n - 1 + 1 : front[i] = q[1 + i - 1]
  BY <1>1, SubSeqProperties
<1> HIDE DEF front
<1>4. Len(front) = n /\ \A i \in 1 .. n : front[i] = q[i]
  BY <1>1, <1>3
<1> QED
  BY <1>2, <1>3, <1>4 DEF n

LEMMA FrontFacts ==
    ASSUME CallsNested, At # "guest"
    PROVE  /\ Seqs!Front(stack) \in Seq(Steps) /\ Len(Seqs!Front(stack)) = Len(stack) - 1 /\ Len(stack) # 0
           /\ \A i \in 1 .. Len(stack) - 1 : Seqs!Front(stack)[i] = stack[i]
<1>1. stack # << >> /\ stack \in Seq(Steps) /\ Len(stack) # 0
  BY StackFacts
<1> QED
  BY <1>1, FrontEntries

LEMMA GotoStep ==
    ASSUME CallsNested, At # "guest", NEW step \in Steps, Goto(step)
    PROVE  CallsNested' /\ At' = step
<1>1. stack' = Append(Seqs!Front(stack), step)
  BY DEF Goto
<1> HIDE DEF Goto
<1> DEFINE front == Seqs!Front(stack)
<1>0. /\ front \in Seq(Steps) /\ Len(front) = Len(stack) - 1 /\ Len(stack) \in Nat \ {0}
      /\ \A i \in 1 .. Len(stack) - 1 : front[i] = stack[i]
  BY StackFacts, FrontFacts
<1> HIDE DEF front
<1>2. /\ stack' \in Seq(Steps) /\ Len(stack') = Len(stack) /\ stack'[Len(stack')] = step /\ stack' # << >>
      /\ \A i \in 1 .. Len(stack) - 1 : stack'[i] = stack[i]
  <2>1. stack' = Append(front, step)
    BY <1>1 DEF front
  <2>2. /\ Append(front, step) \in Seq(Steps) /\ Len(Append(front, step)) = Len(front) + 1
        /\ Append(front, step)[Len(front) + 1] = step
        /\ \A i \in 1 .. Len(front) : Append(front, step)[i] = front[i]
    BY <1>0
  <2> QED
    BY <1>0, <2>1, <2>2
<1>3. At' = step
  BY <1>2 DEF At, Seqs!Last
<1>4. \A i \in 1 .. Len(stack) - 1 : stack[i] \in {"process", "callback"}
  BY DEF CallsNested
<1> QED
  BY <1>2, <1>3, <1>4 DEF CallsNested

LEMMA PushStep ==
    ASSUME CallsNested, At \in {"guest", "process", "callback"}, NEW step \in Steps, stack' = Append(stack, step)
    PROVE  CallsNested' /\ At' = step
<1>1. /\ stack' \in Seq(Steps) /\ Len(stack') = Len(stack) + 1 /\ stack'[Len(stack')] = step /\ stack' # << >>
      /\ \A i \in 1 .. Len(stack) : stack'[i] = stack[i]
  BY StackFacts
<1>2. \A i \in 1 .. Len(stack) : stack[i] \in {"process", "callback"}
  <2>1. Len(stack) # 0 => stack[Len(stack)] \in {"process", "callback"}
    BY StackFacts
  <2> QED
    BY <2>1, StackFacts DEF CallsNested
<1>3. \A i \in 1 .. Len(stack') - 1 : stack'[i] \in {"process", "callback"}
  BY <1>1, <1>2, StackFacts
<1> QED
  BY <1>1, <1>3 DEF CallsNested, At, Seqs!Last

LEMMA ReturnStep ==
    ASSUME CallsNested, At # "guest", Return
    PROVE  CallsNested' /\ At' \in {"guest", "process", "callback"}
<1>1. stack' = Seqs!Front(stack)
  BY DEF Return
<1> HIDE DEF Return
<1>2. stack' \in Seq(Steps) /\ Len(stack') \in Nat /\ Len(stack') = Len(stack) - 1
  BY <1>1, FrontFacts
<1>3. \A i \in 1 .. Len(stack') : stack'[i] \in {"process", "callback"}
  BY <1>1, <1>2, FrontFacts DEF CallsNested
<1>4. CallsNested'
  BY <1>2, <1>3 DEF CallsNested
<1>5. stack' # << >> => stack'[Len(stack')] \in {"process", "callback"}
  BY <1>2, <1>3
<1>6. At' = IF stack' = << >> THEN "guest" ELSE stack'[Len(stack')]
  BY DEF At, Seqs!Last
<1> QED
  BY <1>4, <1>5, <1>6

----------------------------------------------------------------------------
(* A conversion to int never makes a time that is not negative longer.     *)
LEMMA Int32Bound ==
    ASSUME NEW x \in Int
    PROVE  Int32(x) \in Int /\ (x >= 0 => Int32(x) <= x)
<1>1. IntRange \in Int /\ IntRange > 0
  BY CoreTimingAssumption
<1> DEFINE m == 2 * IntRange
           y == x + IntRange
<1>2. m \in Int /\ m > 0 /\ y \in Int
  BY <1>1
<1> HIDE DEF m, y
<1>3. y % m \in Int /\ (y >= 0 => y % m <= y)
  BY <1>2
<1>4. Int32(x) = (y % m) - IntRange
  BY DEF Int32, m, y
<1> QED
  BY <1>1, <1>3, <1>4 DEF y

LEMMA ConstantTypes ==
    /\ Period \in Int /\ Period > 0 /\ MaxSlice \in Int /\ EmptySlice \in Int /\ InitialSlice \in Int
    /\ InitialSlice > 0
    /\ \A delay \in Delays : delay \in Int
    /\ \A cycles \in Blocks : cycles \in Int /\ cycles > 0
    /\ Vblank \in Kinds
BY CoreTimingAssumption

(* Of the vertical blank there is always an event, so that the list is     *)
(* never empty.                                                            *)
LEMMA NeverEmpty ==
    ASSUME ListsSorted
    PROVE  /\ first # << >> /\ first[1] \in Event /\ first[1].time \in Int /\ first[1].kind \in Kinds
           /\ first[1] \in Entries(first) /\ \A x \in Entries(first) : first[1].time <= x.time
<1>1. first \in Seq(Event) /\ Sorted(first) /\ Entries(first) # {}
  BY DEF ListsSorted
<1>2. first # << >>
  BY <1>1, TimesFacts
<1>3. 1 \in DOMAIN first
  BY <1>1, <1>2
<1> QED
  BY <1>1, <1>2, <1>3, TailSorted, EventFacts DEF Entries

LEMMA SliceTypes ==
    ASSUME ClockTypes, ListsSorted
    PROVE  /\ NextSlice \in Int /\ CyclesDown \in Int
           /\ CyclesDown # downcount => CyclesDown >= 0
           /\ first[1].time >= globalTimer => globalTimer + NextSlice <= first[1].time
<1>1. /\ globalTimer \in Int /\ slicelength \in Int /\ downcount \in Int /\ MaxSlice \in Int
      /\ first # << >> /\ first[1].time \in Int
  BY NeverEmpty, ConstantTypes DEF ClockTypes
<1> DEFINE x == first[1].time - globalTimer
           target == Int32(x)
           untilNext == target - (slicelength - downcount)
<1>2. x \in Int
  BY <1>1
<1> HIDE DEF x
<1>3. target \in Int /\ (x >= 0 => target <= x)
  BY <1>2, Int32Bound
<1>4. NextSlice = IF target > MaxSlice THEN MaxSlice ELSE target
  BY <1>1 DEF NextSlice, x
<1>5. CyclesDown = IF downcount <= 0 THEN downcount
                   ELSE IF untilNext >= downcount THEN downcount ELSE IF untilNext < 0 THEN 0 ELSE untilNext
  BY <1>1 DEF CyclesDown, CyclesExecuted, x
<1> HIDE DEF target
<1>6. NextSlice \in Int /\ (x >= 0 => NextSlice <= x)
  BY <1>1, <1>2, <1>3, <1>4
<1>7. untilNext \in Int
  BY <1>1, <1>3
<1> HIDE DEF untilNext
<1>8. CyclesDown \in Int /\ (CyclesDown # downcount => CyclesDown >= 0)
  BY <1>1, <1>5, <1>7
<1>9. first[1].time >= globalTimer => x >= 0 /\ (NextSlice <= x => globalTimer + NextSlice <= first[1].time)
  BY <1>1, <1>6 DEF x
<1> QED
  BY <1>6, <1>8, <1>9

----------------------------------------------------------------------------
(* The steps keep each part of the invariant.                              *)
LEMMA ClockKept ==
    ASSUME CInv, [Next]_vars
    PROVE  ClockTypes'
<1>1. globalTimer \in Int /\ slicelength \in Int /\ downcount \in Int /\ hasTsEvents \in {0, 1}
  BY DEF CInv, ClockTypes
<1>2. NextSlice \in Int /\ CyclesDown \in Int /\ first # << >>
  BY SliceTypes, NeverEmpty DEF CInv
<1> HIDE DEF NextSlice, CyclesDown
<1>3. ASSUME UNCHANGED <<clock, hasTsEvents>> PROVE ClockTypes'
  BY <1>1, <1>3 DEF clock, ClockTypes
<1>4. ASSUME NEW cycles \in Blocks, RunBlock(cycles) \/ EatCycles(cycles) PROVE ClockTypes'
  BY <1>1, <1>4, ConstantTypes DEF RunBlock, EatCycles, ClockTypes
<1>5. CASE ForceCheck
  BY <1>1, <1>5 DEF ForceCheck, CyclesExecuted, ClockTypes
<1>6. CASE Idle
  BY <1>1, <1>2, <1>6 DEF Idle, ClockTypes
<1>7. CASE Advance \/ ResetDowncount
  BY <1>1, <1>7 DEF Advance, ResetDowncount, CyclesExecuted, ClockTypes
<1>8. CASE StartSlice
  BY <1>1, <1>2, <1>8 DEF StartSlice, ClockTypes
<1>9. ASSUME NEW kind, NEW delay, ScheduleEvent_Threadsafe(delay, kind) PROVE ClockTypes'
  BY <1>1, <1>9 DEF ScheduleEvent_Threadsafe, ClockTypes, clock
<1>10. ASSUME NEW kind, NEW delay,
              UnscheduleEvent(kind) \/ RemoveAllEvents(kind) \/ UnscheduleThreadsafeEvent(kind) \/
              ScheduleEvent(delay, kind)
       PROVE  ClockTypes'
  BY <1>3, <1>10 DEF UnscheduleEvent, RemoveAllEvents, UnscheduleThreadsafeEvent, ScheduleEvent
<1>11. CASE SaveAndLoad
  BY <1>1, <1>11 DEF SaveAndLoad, ClockTypes, clock
<1>12. CASE MoveEvents \/ FireEvent \/ CallbackReturns \/ BeginPost \/ UNCHANGED vars
  BY <1>3, <1>12 DEF MoveEvents, FireEvent, CallbackReturns, BeginPost, vars
<1> QED
  BY <1>4, <1>5, <1>6, <1>7, <1>8, <1>9, <1>10, <1>11, <1>12 DEF Next, Call

(* The idle thread skips what is left of a slice and never more, unless a  *)
(* block has gone beyond its end.                                          *)
LEMMA NotAheadKept ==
    ASSUME ~IdlesLate, CInv, NotAhead, [Next]_vars
    PROVE  NotAhead'
<1>1. globalTimer \in Int /\ slicelength \in Int /\ downcount \in Int /\ downcount <= slicelength
  BY DEF CInv, ClockTypes, NotAhead
<1>2. NextSlice \in Int /\ CyclesDown \in Int /\ (CyclesDown # downcount => CyclesDown >= 0) /\ first # << >>
  BY SliceTypes, NeverEmpty DEF CInv
<1> HIDE DEF NextSlice, CyclesDown
<1>3. ASSUME UNCHANGED clock PROVE NotAhead'
  BY <1>1, <1>3 DEF clock, NotAhead
<1>4. ASSUME NEW cycles \in Blocks, RunBlock(cycles) \/ EatCycles(cycles) PROVE NotAhead'
  BY <1>1, <1>4, ConstantTypes DEF RunBlock, EatCycles, NotAhead
<1>5. CASE ForceCheck \/ Advance \/ ResetDowncount
  BY <1>1, <1>5 DEF ForceCheck, Advance, ResetDowncount, NotAhead
<1>6. CASE Idle
  <2>1. /\ downcount >= 0 /\ slicelength' = slicelength
        /\ downcount' = IF downcount = CyclesDown THEN -1 ELSE downcount - CyclesDown
    BY <1>6 DEF Idle
  <2> QED
    BY <1>1, <1>2, <2>1 DEF NotAhead
<1>7. CASE StartSlice
  <2>1. slicelength' = NextSlice /\ downcount' = downcount + slicelength' - slicelength
    BY <1>2, <1>7 DEF StartSlice
  <2> QED
    BY <1>1, <1>2, <2>1 DEF NotAhead
<1>8. ASSUME NEW kind, Call(kind) PROVE UNCHANGED clock
  BY <1>8 DEF Call, UnscheduleEvent, RemoveAllEvents, UnscheduleThreadsafeEvent, ScheduleEvent,
              ScheduleEvent_Threadsafe
<1>9. CASE MoveEvents \/ FireEvent \/ CallbackReturns \/ BeginPost \/ SaveAndLoad \/ UNCHANGED vars
  BY <1>3, <1>9 DEF MoveEvents, FireEvent, CallbackReturns, BeginPost, SaveAndLoad, vars
<1> QED
  BY <1>3, <1>4, <1>5, <1>6, <1>7, <1>8, <1>9 DEF Next

LEMMA EventTypes ==
    ASSUME NEW time \in Int, NEW kind \in Kinds
    PROVE  [time |-> time, kind |-> kind] \in Event
BY DEF Event

(* What firing the first event leaves of the list.                         *)
LEMMA FiredList ==
    ASSUME ListsSorted
    PROVE  /\ Tail(first) \in Seq(Event) /\ Sorted(Tail(first))
           /\ Entries(first) = Entries(Tail(first)) \cup {first[1]}
           /\ [first[1] EXCEPT !.time = @ + Period] \in Event
           /\ [first[1] EXCEPT !.time = @ + Period].kind = first[1].kind
           /\ [first[1] EXCEPT !.time = @ + Period].time > first[1].time
<1>1. first[1] \in Event /\ first # << >> /\ first \in Seq(Event) /\ Sorted(first)
  BY NeverEmpty DEF ListsSorted
<1>2. first[1].time \in Int /\ first[1].kind \in Kinds
  BY NeverEmpty
<1>3. [first[1] EXCEPT !.time = @ + Period] = [time |-> first[1].time + Period, kind |-> first[1].kind]
  BY <1>1 DEF Event
<1>4. first[1].time + Period \in Int /\ first[1].time + Period > first[1].time
  BY <1>2, ConstantTypes
<1>5. /\ [first[1] EXCEPT !.time = @ + Period] \in Event
      /\ [first[1] EXCEPT !.time = @ + Period].kind = first[1].kind
      /\ [first[1] EXCEPT !.time = @ + Period].time > first[1].time
  BY <1>2, <1>3, <1>4, EventTypes
<1>6. Tail(first) \in Seq(Event) /\ Sorted(Tail(first)) /\ Entries(first) = Entries(Tail(first)) \cup {first[1]}
  BY <1>1, TailSorted, TailKeeps
<1> QED
  BY <1>5, <1>6

LEMMA ListsKept ==
    ASSUME CInv, [Next]_vars
    PROVE  ListsSorted'
<1> USE DEF ListsSorted
<1>1. /\ ListsSorted /\ ClockTypes /\ PostTypes
      /\ first \in Seq(Event) /\ Sorted(first) /\ tsFirst \in Seq(Event)
      /\ \E e \in Entries(first) : e.kind = Vblank
  BY DEF CInv
<1> HIDE DEF ListsSorted
<1>2. globalTimer \in Int /\ slicelength \in Int /\ downcount \in Int
  BY <1>1 DEF ClockTypes
<1>3. ASSUME UNCHANGED <<first, tsFirst>> PROVE ListsSorted'
  BY <1>1, <1>3 DEF ListsSorted
<1>4. ASSUME NEW kind \in Kinds \ {Vblank}, NEW delay \in Delays, ScheduleEvent(delay, kind) PROVE ListsSorted'
  <2> DEFINE e == [time |-> GetTicks + delay, kind |-> kind]
  <2>1. e \in Event
    BY <1>2, <1>4, ConstantTypes, EventTypes DEF GetTicks
  <2>2. first' = Added(first, e) /\ tsFirst' = tsFirst
    BY <1>4 DEF ScheduleEvent
  <2> HIDE DEF e
  <2>3. first' \in Seq(Event) /\ Sorted(first') /\ Entries(first') = Entries(first) \cup {e}
    BY <1>1, <2>1, <2>2, AddedSorted, AddedEntries
  <2> QED
    BY <1>1, <2>2, <2>3 DEF ListsSorted
<1>5. ASSUME NEW kind \in Kinds \ {Vblank},
             UnscheduleEvent(kind) \/ RemoveAllEvents(kind) \/ UnscheduleThreadsafeEvent(kind)
      PROVE  ListsSorted'
  <2>1. first' \in {first, Without(first, kind)} /\ tsFirst' \in {tsFirst, Without(tsFirst, kind)}
    BY <1>5 DEF UnscheduleEvent, RemoveAllEvents, UnscheduleThreadsafeEvent
  <2>2. first' \in Seq(Event) /\ Sorted(first') /\ \A e \in Entries(first) : e.kind = Vblank => e \in Entries(first')
    BY <1>1, <1>5, <2>1, WithoutSorted
  <2>3. tsFirst' \in Seq(Event)
    BY <1>1, <2>1, WithoutSorted
  <2> QED
    BY <1>1, <2>2, <2>3 DEF ListsSorted
<1>6. ASSUME NEW kind \in Kinds \ {Vblank}, NEW delay \in Delays, ScheduleEvent_Threadsafe(delay, kind)
      PROVE  ListsSorted'
  <2>1. first' = first /\ ~LockIsFree
    BY <1>6 DEF ScheduleEvent_Threadsafe
  <2>2. PICK timer \in {posting[1], globalTimer}, slice \in {posting[2], slicelength},
             down \in {posting[3], downcount} :
          tsFirst' = Append(tsFirst, [time |-> timer + slice - down + delay, kind |-> kind])
    BY <1>6 DEF ScheduleEvent_Threadsafe
  <2>3. timer \in Int /\ slice \in Int /\ down \in Int /\ delay \in Int
    <3>1. posting \in Int \X Int \X Int
      BY <1>1, <2>1 DEF PostTypes, LockIsFree
    <3>2. posting[1] \in Int /\ posting[2] \in Int /\ posting[3] \in Int
      BY <3>1
    <3> QED
      BY <1>2, <2>2, <3>2, ConstantTypes
  <2>4. [time |-> timer + slice - down + delay, kind |-> kind] \in Event
    BY <2>3, EventTypes
  <2>5. tsFirst' \in Seq(Event)
    BY <1>1, <2>2, <2>4
  <2> QED
    BY <1>1, <2>1, <2>5 DEF ListsSorted
<1>7. CASE MoveEvents
  <2>1. first' = AddedAll(first, tsFirst) /\ tsFirst' = << >>
    BY <1>7 DEF MoveEvents
  <2>2. first' \in Seq(Event) /\ Sorted(first') /\ Entries(first) \subseteq Entries(first')
    BY <1>1, <2>1, AddedAllSorted, AddedAllEntries
  <2> QED
    BY <1>1, <2>1, <2>2 DEF ListsSorted
<1>8. CASE FireEvent
  <2> DEFINE r == Tail(first)
             again == [first[1] EXCEPT !.time = @ + Period]
  <2>1. tsFirst' = tsFirst /\ first' = IF first[1].kind = Vblank THEN Added(r, again) ELSE r
    BY <1>8 DEF FireEvent
  <2>2. /\ r \in Seq(Event) /\ Sorted(r) /\ again \in Event /\ again.kind = first[1].kind
        /\ Entries(first) = Entries(r) \cup {first[1]}
    BY <1>1, FiredList
  <2> HIDE DEF r, again
  <2>3. CASE first[1].kind = Vblank
    <3>1. first' \in Seq(Event) /\ Sorted(first') /\ again \in Entries(first')
      BY <2>1, <2>2, <2>3, AddedSorted, AddedEntries
    <3> QED
      BY <1>1, <2>1, <2>2, <2>3, <3>1 DEF ListsSorted
  <2>4. CASE first[1].kind # Vblank
    BY <1>1, <2>1, <2>2, <2>4 DEF ListsSorted
  <2> QED
    BY <2>3, <2>4
<1>9. ASSUME NEW cycles, RunBlock(cycles) \/ EatCycles(cycles) PROVE UNCHANGED <<first, tsFirst>>
  BY <1>9 DEF RunBlock, EatCycles
<1>10. CASE ForceCheck \/ Idle \/ Advance \/ ResetDowncount \/ CallbackReturns \/ StartSlice \/ BeginPost \/ SaveAndLoad
  BY <1>3, <1>10 DEF ForceCheck, Idle, Advance, ResetDowncount, CallbackReturns, StartSlice, BeginPost, SaveAndLoad
<1>11. CASE UNCHANGED vars
  BY <1>3, <1>11 DEF vars
<1> QED
  BY <1>3, <1>4, <1>5, <1>6, <1>7, <1>8, <1>9, <1>10, <1>11 DEF Next, Call

LEMMA StackKept ==
    ASSUME CInv, [Next]_vars
    PROVE  CallsNested'
<1>1. CallsNested
  BY DEF CInv
<1>2. ASSUME UNCHANGED stack PROVE CallsNested'
  BY <1>1, <1>2 DEF CallsNested
<1>3. CASE Advance
  <2>1. At \in {"guest", "callback"} /\ stack' = Append(stack, "counted") /\ "counted" \in Steps
    BY <1>3 DEF Advance, MayCall, Steps
  <2> QED
    BY <1>1, <2>1, PushStep
<1>4. CASE FireEvent
  <2>1. At = "process" /\ stack' = Append(stack, "callback") /\ "callback" \in Steps
    BY <1>4 DEF FireEvent, Steps
  <2> QED
    BY <1>1, <2>1, PushStep
<1>5. CASE ResetDowncount \/ MoveEvents
  <2>1. At # "guest" /\ \E step \in Steps : Goto(step)
    BY <1>5 DEF ResetDowncount, MoveEvents, Steps
  <2> QED
    BY <1>1, <2>1, GotoStep
<1>6. CASE CallbackReturns \/ StartSlice
  <2>1. At # "guest" /\ Return
    BY <1>6 DEF CallbackReturns, StartSlice
  <2> QED
    BY <1>1, <2>1, ReturnStep
<1>7. ASSUME NEW cycles, RunBlock(cycles) \/ EatCycles(cycles) PROVE UNCHANGED stack
  BY <1>7 DEF RunBlock, EatCycles
<1>8. ASSUME NEW kind, Call(kind) PROVE UNCHANGED stack
  BY <1>8 DEF Call, UnscheduleEvent, RemoveAllEvents, UnscheduleThreadsafeEvent, ScheduleEvent,
              ScheduleEvent_Threadsafe
<1>9. CASE ForceCheck \/ Idle \/ BeginPost \/ SaveAndLoad
  BY <1>2, <1>9 DEF ForceCheck, Idle, BeginPost, SaveAndLoad
<1>10. CASE UNCHANGED vars
  BY <1>2, <1>10 DEF vars
<1> QED
  BY <1>2, <1>3, <1>4, <1>5, <1>6, <1>7, <1>8, <1>9, <1>10 DEF Next

LEMMA PostKept ==
    ASSUME CInv, [Next]_vars
    PROVE  PostTypes'
<1>1. /\ globalTimer \in Int /\ slicelength \in Int /\ downcount \in Int
      /\ PostTypes
  BY DEF CInv, ClockTypes
<1>2. ASSUME UNCHANGED posting PROVE PostTypes'
  BY <1>1, <1>2 DEF PostTypes, NotPosting
<1>3. CASE BeginPost
  BY <1>1, <1>3 DEF BeginPost, PostTypes
<1>4. ASSUME NEW kind, NEW delay, ScheduleEvent_Threadsafe(delay, kind) PROVE PostTypes'
  BY <1>4 DEF ScheduleEvent_Threadsafe, PostTypes, NotPosting
<1>5. ASSUME NEW kind, NEW delay,
             UnscheduleEvent(kind) \/ RemoveAllEvents(kind) \/ UnscheduleThreadsafeEvent(kind) \/
             ScheduleEvent(delay, kind)
      PROVE  UNCHANGED posting
  BY <1>5 DEF UnscheduleEvent, RemoveAllEvents, UnscheduleThreadsafeEvent, ScheduleEvent
<1>6. ASSUME NEW cycles, RunBlock(cycles) \/ EatCycles(cycles) PROVE UNCHANGED posting
  BY <1>6 DEF RunBlock, EatCycles
<1>7. CASE \/ ForceCheck \/ Idle \/ Advance \/ ResetDowncount \/ MoveEvents \/ FireEvent \/ CallbackReturns
           \/ StartSlice \/ SaveAndLoad \/ UNCHANGED vars
  BY <1>2, <1>7 DEF ForceCheck, Idle, Advance, ResetDowncount, MoveEvents, FireEvent, CallbackReturns,
                    StartSlice, SaveAndLoad, vars
<1> QED
  BY <1>2, <1>3, <1>4, <1>5, <1>6, <1>7 DEF Next, Call

LEMMA CInvInit ==
    ASSUME Init
    PROVE  CInv
<1>1. ClockTypes
  BY ConstantTypes DEF Init, ClockTypes
<1>2. ListsSorted
  <2> DEFINE e == [time |-> Period, kind |-> Vblank]
  <2>1. e \in Event /\ e.kind = Vblank
    BY ConstantTypes, EventTypes
  <2>2. first = <<e>> /\ tsFirst = << >>
    BY DEF Init
  <2> HIDE DEF e
  <2>3. first \in Seq(Event) /\ Entries(first) = {e} /\ tsFirst \in Seq(Event)
    BY <2>1, <2>2, SingleEntry
  <2>4. Sorted(first)
    BY <2>2 DEF Sorted
  <2> QED
    BY <2>1, <2>3, <2>4 DEF ListsSorted
<1>3. CallsNested
  BY DEF Init, CallsNested
<1>4. PostTypes
  BY DEF Init, PostTypes
<1> QED
  BY <1>1, <1>2, <1>3, <1>4 DEF CInv

LEMMA CInvStep ==
    ASSUME CInv, [Next]_vars
    PROVE  CInv'
BY ClockKept, ListsKept, StackKept, PostKept DEF CInv

LEMMA NotAheadInit ==
    ASSUME Init
    PROVE  NotAhead
BY ConstantTypes DEF Init, NotAhead

(* The state of the clock keeps its types (TypeOK), whatever the events    *)
(* and their times.                                                        *)
THEOREM TypeCorrect == Spec => []TypeOK
<1>1. Init => CInv
  BY CInvInit
<1>2. CInv /\ [Next]_vars => CInv'
  BY CInvStep
<1>3. CInv => TypeOK
  BY DEF CInv, ClockTypes, ListsSorted, CallsNested, PostTypes, TypeOK, Steps
<1> QED
  BY <1>1, <1>2, <1>3, PTL DEF Spec

(* A slice of guest code ends no later than the next event is due, and     *)
(* when it begins no event is overdue (SliceEndsInTime), whatever the      *)
(* lengths of slices and the width of an int, as long as the idle thread   *)
(* does not start to idle beyond the end of a slice.                       *)
THEOREM SlicesEndInTime ==
    ASSUME ~IdlesLate
    PROVE  Spec => SliceEndsInTime
<1>1. Init => CInv /\ NotAhead
  BY CInvInit, NotAheadInit
<1>2. CInv /\ NotAhead /\ [Next]_vars => CInv' /\ NotAhead'
  BY CInvStep, NotAheadKept
<1>3. ASSUME CInv, NotAhead, StartSlice
      PROVE  first[1].time > GetTicks' /\ globalTimer + slicelength' <= first[1].time
  <2>1. /\ globalTimer \in Int /\ slicelength \in Int /\ downcount \in Int /\ downcount <= slicelength
        /\ first[1].time \in Int /\ first # << >>
    BY <1>3, NeverEmpty DEF CInv, ClockTypes, NotAhead
  <2>2. NextSlice \in Int /\ (first[1].time >= globalTimer => globalTimer + NextSlice <= first[1].time)
    BY <1>3, SliceTypes DEF CInv
  <2> HIDE DEF NextSlice
  <2>3. /\ first[1].time > globalTimer + slicelength - downcount
        /\ globalTimer' = globalTimer /\ slicelength' = NextSlice /\ downcount' = downcount + slicelength' - slicelength
    BY <1>3, <2>1 DEF StartSlice, GetTicks
  <2> QED
    BY <2>1, <2>2, <2>3 DEF GetTicks
<1>4. CInv /\ NotAhead /\ [Next]_vars =>
        [StartSlice => first = << >> \/
            /\ first[1].time > GetTicks'
            /\ globalTimer + slicelength' <= first[1].time]_vars
  BY <1>3
<1> QED
  BY <1>1, <1>2, <1>4, PTL DEF Spec, SliceEndsInTime

(* An event that another thread of the host has posted is never forgotten  *)
(* (NoPostedEventStranded), wherever Advance and the guest are when it is  *)
(* posted, as long as no state is saved while it waits.                    *)
THEOREM NoPostedEventEverStranded ==
    ASSUME ~SavesPosted
    PROVE  Spec => []NoPostedEventStranded
<1>1. Init => CInv /\ NoPostedEventStranded
  BY CInvInit DEF Init, NoPostedEventStranded
<1>2. ASSUME CInv, NoPostedEventStranded, [Next]_vars PROVE NoPostedEventStranded'
  <2>1. /\ CInv' /\ CallsNested /\ tsFirst \in Seq(Event)
        /\ (tsFirst # << >> => hasTsEvents = 1 \/ At = "move" \/ ~LockIsFree)
    BY <1>2, CInvStep DEF CInv, ListsSorted, NoPostedEventStranded
  <2>2. ASSUME tsFirst' \in {tsFirst, << >>}, UNCHANGED <<hasTsEvents, stack, posting>>
        PROVE  NoPostedEventStranded'
    BY <2>1, <2>2 DEF NoPostedEventStranded, At, LockIsFree
  <2>3. ASSUME NEW kind PROVE tsFirst = << >> => Without(tsFirst, kind) = << >>
    <3>1. /\ Without(tsFirst, kind) \in Seq(Event)
          /\ Entries(Without(tsFirst, kind)) = {x \in Entries(tsFirst) : x.kind # kind}
      BY <2>1, WithoutSorted
    <3>2. tsFirst = << >> => Entries(tsFirst) = {}
      BY <2>1, TimesFacts
    <3>3. Entries(Without(tsFirst, kind)) = {} => Without(tsFirst, kind) = << >>
      BY <3>1, TimesFacts
    <3> QED
      BY <3>1, <3>2, <3>3
  <2>4. ASSUME NEW kind, UnscheduleEvent(kind) \/ RemoveAllEvents(kind) \/ UnscheduleThreadsafeEvent(kind)
        PROVE  NoPostedEventStranded'
    <3>1. /\ tsFirst' \in {tsFirst, Without(tsFirst, kind)}
          /\ UNCHANGED <<hasTsEvents, stack, posting>>
      BY <2>4 DEF UnscheduleEvent, RemoveAllEvents, UnscheduleThreadsafeEvent
    <3> QED
      BY <2>1, <2>3, <3>1 DEF NoPostedEventStranded, At, LockIsFree
  <2>5. ASSUME NEW kind, NEW delay, ScheduleEvent_Threadsafe(delay, kind)
        PROVE  NoPostedEventStranded'
    BY <2>5 DEF ScheduleEvent_Threadsafe, NoPostedEventStranded
  <2>6. CASE Advance
    <3>1. UNCHANGED <<tsFirst, hasTsEvents, posting>> /\ At # "move"
      BY <1>2, <2>6 DEF Advance, MayCall
    <3> QED
      BY <2>1, <3>1 DEF NoPostedEventStranded, LockIsFree
  <2>7. CASE ResetDowncount
    <3>1. /\ UNCHANGED <<tsFirst, posting>> /\ At = "counted"
          /\ Goto(IF hasTsEvents = 1 THEN "move" ELSE "process")
      BY <2>7 DEF ResetDowncount
    <3>2. hasTsEvents = 1 => At' = "move"
      BY <2>1, <3>1, GotoStep DEF Steps
    <3> QED
      BY <2>1, <3>1, <3>2 DEF NoPostedEventStranded, LockIsFree
  <2>8. CASE MoveEvents
    BY <2>8 DEF MoveEvents, NoPostedEventStranded
  <2>9. CASE FireEvent \/ CallbackReturns \/ StartSlice
    <3>1. UNCHANGED <<tsFirst, hasTsEvents, posting>> /\ At # "move"
      BY <2>9 DEF FireEvent, CallbackReturns, StartSlice
    <3> QED
      BY <2>1, <3>1 DEF NoPostedEventStranded, LockIsFree
  <2>10. CASE BeginPost
    <3>1. posting' # << >>
      BY <2>10 DEF BeginPost
    <3> QED
      BY <3>1 DEF NoPostedEventStranded, LockIsFree, NotPosting
  <2>11. CASE SaveAndLoad
    <3>1. tsFirst' = << >>
      BY <2>11 DEF SaveAndLoad
    <3> QED
      BY <3>1 DEF NoPostedEventStranded
  <2>12. ASSUME NEW cycles, NEW kind, NEW delay,
                RunBlock(cycles) \/ EatCycles(cycles) \/ ScheduleEvent(delay, kind)
         PROVE  NoPostedEventStranded'
    BY <2>2, <2>12 DEF RunBlock, EatCycles, ScheduleEvent
  <2>13. CASE ForceCheck \/ Idle \/ UNCHANGED vars
    BY <2>2, <2>13 DEF ForceCheck, Idle, vars
  <2> QED
    BY <1>2, <2>1, <2>4, <2>5, <2>6, <2>7, <2>8, <2>9, <2>10, <2>11, <2>12, <2>13 DEF Next, Call
<1>3. CInv /\ [Next]_vars => CInv'
  BY CInvStep
<1> QED
  BY <1>1, <1>2, <1>3, PTL DEF Spec

----------------------------------------------------------------------------
(* The bags that the lists are to TimedEvents.                             *)
LEMMA BagOfFacts ==
    ASSUME NEW list \in Seq(Event)
    PROVE  /\ BagOf(list) = [e \in Entries(list) |-> Times(list, e)]
           /\ DOMAIN BagOf(list) = Entries(list)
           /\ \A e \in Entries(list) : BagOf(list)[e] = Times(list, e) /\ Times(list, e) \in Nat \ {0}
           /\ \A e : e \notin Entries(list) => Times(list, e) = 0
<1>1. Seqs!ToSet(list) = Entries(list)
  BY DEF Seqs!ToSet, Entries
<1>2. BagOf(list) = [e \in Entries(list) |-> Times(list, e)]
  BY <1>1 DEF BagOf, Times, Positions
<1> HIDE DEF BagOf
<1> QED
  BY <1>2, TimesFacts

LEMMA BagAdded ==
    ASSUME NEW list \in Seq(Event), NEW r \in Seq(Event), NEW e,
           \A x : Times(r, x) = IF e = x THEN Times(list, x) + 1 ELSE Times(list, x)
    PROVE  BagOf(r) = Promise!(+)(BagOf(list), Promise!SetToBag({e}))
<1> DEFINE b == BagOf(list)
<1>1. /\ BagOf(r) = [x \in Entries(r) |-> Times(r, x)]
      /\ DOMAIN b = Entries(list) /\ \A x \in Entries(list) : b[x] = Times(list, x) /\ Times(list, x) \in Nat \ {0}
      /\ \A x : x \notin Entries(list) => Times(list, x) = 0
  BY BagOfFacts
<1>2. \A x : /\ Times(r, x) \in Nat /\ (x \in Entries(r) <=> Times(r, x) # 0)
             /\ Times(list, x) \in Nat /\ (x \in Entries(list) <=> Times(list, x) # 0)
  BY TimesFacts
<1> HIDE DEF b
<1>3. Promise!(+)(b, Promise!SetToBag({e})) =
        [x \in Entries(list) \cup {e} |-> (IF x \in Entries(list) THEN b[x] ELSE 0) + (IF x \in {e} THEN 1 ELSE 0)]
  BY <1>1 DEF Promise!(+), Promise!SetToBag
<1>4. ASSUME NEW x PROVE x \in Entries(r) <=> x \in Entries(list) \cup {e}
  BY <1>2
<1>5. ASSUME NEW x
      PROVE  Times(r, x) = (IF x \in Entries(list) THEN b[x] ELSE 0) + (IF x \in {e} THEN 1 ELSE 0)
  <2>1. (IF x \in Entries(list) THEN b[x] ELSE 0) = Times(list, x)
    BY <1>1
  <2>2. Times(list, x) \in Nat
    BY <1>2
  <2> QED
    BY <2>1, <2>2
<1>6. Entries(r) = Entries(list) \cup {e}
  BY <1>4
<1> QED
  BY <1>1, <1>3, <1>5, <1>6 DEF b

LEMMA BagTaken ==
    ASSUME NEW list \in Seq(Event), NEW r \in Seq(Event), NEW e,
           \A x : Times(list, x) = IF e = x THEN Times(r, x) + 1 ELSE Times(r, x)
    PROVE  BagOf(r) = Promise!(-)(BagOf(list), Promise!SetToBag({e}))
<1> DEFINE b == BagOf(list)
           left == [x \in Entries(list) |-> IF x \in {e} THEN b[x] - 1 ELSE b[x]]
<1>1. /\ BagOf(r) = [x \in Entries(r) |-> Times(r, x)]
      /\ DOMAIN b = Entries(list) /\ \A x \in Entries(list) : b[x] = Times(list, x)
  BY BagOfFacts
<1>2. \A x : /\ Times(r, x) \in Nat /\ (x \in Entries(r) <=> Times(r, x) # 0)
             /\ Times(list, x) \in Nat /\ (x \in Entries(list) <=> Times(list, x) # 0)
  BY TimesFacts
<1> HIDE DEF b
<1>3. Promise!(-)(b, Promise!SetToBag({e})) = [x \in {d \in Entries(list) : left[d] > 0} |-> left[x]]
  <2>1. [x \in DOMAIN b |-> IF x \in DOMAIN Promise!SetToBag({e}) THEN b[x] - Promise!SetToBag({e})[x] ELSE b[x]] = left
    BY <1>1 DEF Promise!SetToBag
  <2> QED
    BY <2>1 DEF Promise!(-)
<1>4. ASSUME NEW x \in Entries(list) PROVE left[x] = Times(r, x)
  <2>1. left[x] = IF x = e THEN Times(list, x) - 1 ELSE Times(list, x)
    BY <1>1
  <2>2. Times(list, x) = IF e = x THEN Times(r, x) + 1 ELSE Times(r, x)
    OBVIOUS
  <2>3. Times(r, x) \in Int
    BY <1>2
  <2> QED
    BY <2>1, <2>2, <2>3
<1> HIDE DEF left
<1>5. ASSUME NEW x PROVE x \in Entries(r) <=> x \in Entries(list) /\ left[x] > 0
  <2>1. x \in Entries(r) => x \in Entries(list)
    BY <1>2
  <2> QED
    BY <1>2, <1>4, <2>1
<1>6. Entries(r) = {d \in Entries(list) : left[d] > 0}
  BY <1>5
<1>7. [x \in Entries(r) |-> Times(r, x)] = [x \in {d \in Entries(list) : left[d] > 0} |-> left[x]]
  BY <1>4, <1>6
<1> QED
  BY <1>1, <1>3, <1>7 DEF b

LEMMA BagUnion ==
    ASSUME NEW list \in Seq(Event), NEW more \in Seq(Event), NEW r \in Seq(Event),
           \A x : Times(r, x) = Times(list, x) + Times(more, x)
    PROVE  BagOf(r) = Promise!(+)(BagOf(list), BagOf(more))
<1> DEFINE b == BagOf(list)
           c == BagOf(more)
<1>1. /\ BagOf(r) = [x \in Entries(r) |-> Times(r, x)]
      /\ DOMAIN b = Entries(list) /\ \A x \in Entries(list) : b[x] = Times(list, x)
      /\ DOMAIN c = Entries(more) /\ \A x \in Entries(more) : c[x] = Times(more, x)
      /\ \A x : x \notin Entries(list) => Times(list, x) = 0
      /\ \A x : x \notin Entries(more) => Times(more, x) = 0
  BY BagOfFacts
<1>2. \A x : /\ Times(r, x) \in Nat /\ (x \in Entries(r) <=> Times(r, x) # 0)
             /\ Times(list, x) \in Nat /\ (x \in Entries(list) <=> Times(list, x) # 0)
             /\ Times(more, x) \in Nat /\ (x \in Entries(more) <=> Times(more, x) # 0)
  BY TimesFacts
<1> HIDE DEF b, c
<1>3. Promise!(+)(b, c) =
        [x \in Entries(list) \cup Entries(more) |->
           (IF x \in Entries(list) THEN b[x] ELSE 0) + (IF x \in Entries(more) THEN c[x] ELSE 0)]
  BY <1>1 DEF Promise!(+)
<1>4. Entries(r) = Entries(list) \cup Entries(more)
  BY <1>2
<1>5. ASSUME NEW x
      PROVE  Times(r, x) = (IF x \in Entries(list) THEN b[x] ELSE 0) + (IF x \in Entries(more) THEN c[x] ELSE 0)
  BY <1>1
<1> QED
  BY <1>1, <1>3, <1>4, <1>5 DEF b, c

LEMMA BagWithout ==
    ASSUME NEW list \in Seq(Event), NEW kind
    PROVE  BagOf(Without(list, kind)) = Promise!Except(BagOf(list), kind)
<1> DEFINE r == Without(list, kind)
           b == BagOf(list)
<1>1. /\ r \in Seq(Event)
      /\ \A x \in Entries(list) : x.kind # kind => Times(r, x) = Times(list, x)
      /\ Entries(r) = {x \in Entries(list) : x.kind # kind}
  BY WithoutSorted
<1> HIDE DEF r
<1>2. /\ BagOf(r) = [x \in Entries(r) |-> Times(r, x)]
      /\ DOMAIN b = Entries(list) /\ \A x \in Entries(list) : b[x] = Times(list, x)
  BY <1>1, BagOfFacts
<1> HIDE DEF b
<1>3. Promise!Except(b, kind) = [x \in {x \in Entries(list) : x.kind # kind} |-> b[x]]
  BY <1>2 DEF Promise!Except, Promise!BagToSet
<1>4. [x \in Entries(r) |-> Times(r, x)] = [x \in {x \in Entries(list) : x.kind # kind} |-> b[x]]
  BY <1>1, <1>2
<1> QED
  BY <1>2, <1>3, <1>4 DEF r, b

LEMMA BagOfNone == BagOf(<< >>) = Promise!EmptyBag
<1>1. << >> \in Seq(Event) /\ Entries(<< >>) = {}
  BY NoEntry
<1>2. BagOf(<< >>) = [e \in {} |-> Times(<< >>, e)]
  BY <1>1, BagOfFacts
<1> QED
  BY <1>2 DEF Promise!EmptyBag, Promise!SetToBag

----------------------------------------------------------------------------
(* Each step of CoreTiming is a step of TimedEvents, or changes nothing    *)
(* of what TimedEvents speaks of.                                          *)
LEMMA NowFacts ==
    ASSUME CInv
    PROVE  /\ globalTimer \in Int /\ slicelength \in Int /\ downcount \in Int
           /\ Now = IF At = "counted" THEN globalTimer ELSE globalTimer + slicelength - downcount
           /\ Now \in Int
<1>1. globalTimer \in Int /\ slicelength \in Int /\ downcount \in Int
  BY DEF CInv, ClockTypes
<1>2. Now = IF At = "counted" THEN globalTimer ELSE globalTimer + slicelength - downcount
  BY DEF Now, GetTicks
<1> QED
  BY <1>1, <1>2

LEMMA SameNow ==
    ASSUME UNCHANGED clock, At' = At \/ (At # "counted" /\ At' # "counted")
    PROVE  Now' = Now
BY DEF Now, GetTicks, clock

LEMMA SameStack ==
    ASSUME UNCHANGED stack
    PROVE  At' = At
BY DEF At

(* Whatever takes cycles makes it later; Advance itself takes none.        *)
LEMMA TimeSteps ==
    ASSUME ~IdlesLate, CInv, NotAhead,
           \/ \E cycles \in Blocks : RunBlock(cycles) \/ EatCycles(cycles)
           \/ ForceCheck \/ Idle \/ Advance \/ ResetDowncount \/ StartSlice \/ CallbackReturns
    PROVE  Now' >= Now /\ UNCHANGED <<first, tsFirst>>
<1>1. /\ globalTimer \in Int /\ slicelength \in Int /\ downcount \in Int
      /\ Now = IF At = "counted" THEN globalTimer ELSE globalTimer + slicelength - downcount
      /\ Now \in Int
  BY NowFacts
<1>2. Now' = IF At' = "counted" THEN globalTimer' ELSE globalTimer' + slicelength' - downcount'
  BY DEF Now, GetTicks
<1>3. CallsNested /\ "counted" \in Steps
  BY DEF CInv, Steps
<1>4. NextSlice \in Int /\ CyclesDown \in Int /\ (CyclesDown # downcount => CyclesDown >= 0) /\ first # << >>
  BY SliceTypes, NeverEmpty DEF CInv
<1> HIDE DEF NextSlice, CyclesDown
<1>5. ASSUME NEW cycles \in Blocks, RunBlock(cycles) \/ EatCycles(cycles)
      PROVE  Now' >= Now /\ UNCHANGED <<first, tsFirst>>
  <2>1. /\ UNCHANGED <<globalTimer, slicelength, first, tsFirst, stack>> /\ downcount' = downcount - cycles
        /\ At # "counted"
    BY <1>5 DEF RunBlock, EatCycles, MayCall
  <2>2. cycles \in Int /\ cycles > 0
    BY ConstantTypes
  <2>3. At' = At
    BY <2>1, SameStack
  <2> QED
    BY <1>1, <1>2, <2>1, <2>2, <2>3
<1>6. CASE ForceCheck
  <2>1. /\ UNCHANGED <<first, tsFirst, stack>> /\ At # "counted"
        /\ globalTimer' = globalTimer + (slicelength - downcount) /\ slicelength' = 0 /\ downcount' = 0
    BY <1>6 DEF ForceCheck, MayCall, CyclesExecuted
  <2>2. At' = At
    BY <2>1, SameStack
  <2> QED
    BY <1>1, <1>2, <2>1, <2>2
<1>7. CASE Idle
  <2>1. /\ UNCHANGED <<globalTimer, slicelength, first, tsFirst, stack>> /\ At # "counted" /\ downcount >= 0
        /\ downcount' = IF downcount = CyclesDown THEN -1 ELSE downcount - CyclesDown
    BY <1>7 DEF Idle
  <2>2. At' = At
    BY <2>1, SameStack
  <2>3. downcount' \in Int /\ downcount' <= downcount
    BY <1>1, <1>4, <2>1
  <2> QED
    BY <1>1, <1>2, <2>1, <2>2, <2>3
<1>8. CASE Advance
  <2>1. /\ UNCHANGED <<first, tsFirst>> /\ At \in {"guest", "callback"}
        /\ globalTimer' = globalTimer + (slicelength - downcount) /\ stack' = Append(stack, "counted")
    BY <1>8 DEF Advance, MayCall, CyclesExecuted
  <2>2. At' = "counted"
    BY <1>3, <2>1, PushStep
  <2> QED
    BY <1>1, <1>2, <2>1, <2>2
<1>9. CASE ResetDowncount
  <2>1. /\ UNCHANGED <<globalTimer, slicelength, first, tsFirst>> /\ At = "counted" /\ downcount' = slicelength
        /\ Goto(IF hasTsEvents = 1 THEN "move" ELSE "process")
    BY <1>9 DEF ResetDowncount
  <2>2. At' \in {"move", "process"}
    BY <1>3, <2>1, GotoStep DEF Steps
  <2> QED
    BY <1>1, <1>2, <2>1, <2>2
<1>10. CASE StartSlice
  <2>1. /\ UNCHANGED <<globalTimer, first, tsFirst>> /\ At = "process" /\ Return
        /\ slicelength' = NextSlice /\ downcount' = downcount + slicelength' - slicelength
    BY <1>4, <1>10 DEF StartSlice
  <2>2. At' # "counted"
    BY <1>3, <2>1, ReturnStep
  <2> QED
    BY <1>1, <1>2, <1>4, <2>1, <2>2
<1>11. CASE CallbackReturns
  <2>1. UNCHANGED <<clock, first, tsFirst>> /\ At = "callback" /\ Return
    BY <1>11 DEF CallbackReturns
  <2>2. At' # "counted"
    BY <1>3, <2>1, ReturnStep
  <2>3. Now' = Now
    BY <2>1, <2>2, SameNow
  <2> QED
    BY <1>1, <2>1, <2>3
<1> QED
  BY <1>5, <1>6, <1>7, <1>8, <1>9, <1>10, <1>11

(* The guest, or a callback, schedules an event.                           *)
LEMMA ScheduleStep ==
    ASSUME CInv, NEW kind \in Kinds, NEW delay \in Delays, ScheduleEvent(delay, kind)
    PROVE  Promise!Next
<1> DEFINE e == [time |-> GetTicks + delay, kind |-> kind]
<1>1. first \in Seq(Event) /\ Sorted(first) /\ globalTimer \in Int /\ slicelength \in Int /\ downcount \in Int
  BY DEF CInv, ListsSorted, ClockTypes
<1>2. e \in Event
  BY <1>1, ConstantTypes, EventTypes DEF GetTicks
<1>3. first' = Added(first, e) /\ tsFirst' = tsFirst /\ UNCHANGED <<clock, stack>>
  BY DEF ScheduleEvent
<1> HIDE DEF e
<1>4. /\ first' \in Seq(Event) /\ e \in Entries(first')
      /\ \A x : Times(first', x) = IF e = x THEN Times(first, x) + 1 ELSE Times(first, x)
  BY <1>1, <1>2, <1>3, AddedSorted, AddedEntries
<1>5. BagOf(first') = Promise!(+)(BagOf(first), Promise!SetToBag({e})) /\ e \in DOMAIN BagOf(first')
  BY <1>1, <1>4, BagAdded, BagOfFacts
<1>6. Now' = Now
  BY <1>3, SameNow, SameStack
<1>7. Promise!Schedule(e)
  BY <1>3, <1>5, <1>6 DEF Promise!Schedule, BagOf
<1>8. e \in Promise!BagToSet(BagOf(first'))
  BY <1>5 DEF Promise!BagToSet
<1> QED
  BY <1>7, <1>8 DEF Promise!Next

(* A thread of the host posts one.                                         *)
LEMMA PostStep ==
    ASSUME CInv, NEW kind \in Kinds, NEW delay \in Delays, ScheduleEvent_Threadsafe(delay, kind)
    PROVE  Promise!Next
<1>1. /\ tsFirst \in Seq(Event) /\ globalTimer \in Int /\ slicelength \in Int /\ downcount \in Int
      /\ PostTypes
  BY DEF CInv, ListsSorted, ClockTypes
<1>2. UNCHANGED <<clock, first, stack>> /\ ~LockIsFree
  BY DEF ScheduleEvent_Threadsafe
<1>3. PICK timer \in {posting[1], globalTimer}, slice \in {posting[2], slicelength},
           down \in {posting[3], downcount} :
        tsFirst' = Append(tsFirst, [time |-> timer + slice - down + delay, kind |-> kind])
  BY DEF ScheduleEvent_Threadsafe
<1> DEFINE e == [time |-> timer + slice - down + delay, kind |-> kind]
<1>4. e \in Event
  <2>1. posting \in Int \X Int \X Int
    BY <1>1, <1>2 DEF PostTypes, LockIsFree
  <2>2. posting[1] \in Int /\ posting[2] \in Int /\ posting[3] \in Int
    BY <2>1
  <2>3. timer \in Int /\ slice \in Int /\ down \in Int /\ delay \in Int
    BY <1>1, <1>3, <2>2, ConstantTypes
  <2> QED
    BY <2>3, EventTypes
<1>5. tsFirst' = Append(tsFirst, e)
  BY <1>3
<1> HIDE DEF e
<1>6. /\ tsFirst' \in Seq(Event) /\ tsFirst'[Len(tsFirst) + 1] = e /\ Len(tsFirst) + 1 \in DOMAIN tsFirst'
  BY <1>1, <1>4, <1>5
<1>7. \A x : Times(tsFirst', x) = IF e = x THEN Times(tsFirst, x) + 1 ELSE Times(tsFirst, x)
  BY <1>1, <1>4, <1>5, AppendCount DEF Times
<1>8. BagOf(tsFirst') = Promise!(+)(BagOf(tsFirst), Promise!SetToBag({e}))
  <2>1. tsFirst \in Seq(Event) /\ tsFirst' \in Seq(Event)
    BY <1>1, <1>6
  <2> QED
    BY <1>7, <2>1, BagAdded
<1>9. e \in DOMAIN BagOf(tsFirst')
  <2>1. e \in Entries(tsFirst')
    BY <1>6 DEF Entries
  <2>2. DOMAIN BagOf(tsFirst') = Entries(tsFirst')
    BY <1>6, BagOfFacts
  <2> QED
    BY <2>1, <2>2
<1>10. Now' = Now
  BY <1>2, SameNow, SameStack
<1>11. Promise!Post(e)
  BY <1>2, <1>8, <1>10 DEF Promise!Post, BagOf
<1>12. e \in Promise!BagToSet(BagOf(tsFirst'))
  BY <1>9 DEF Promise!BagToSet
<1> QED
  BY <1>11, <1>12 DEF Promise!Next

(* Events of a kind are taken out of one list or of both.                  *)
LEMMA CancelStep ==
    ASSUME CInv, NEW kind \in Kinds,
           UnscheduleEvent(kind) \/ RemoveAllEvents(kind) \/ UnscheduleThreadsafeEvent(kind)
    PROVE  Promise!Next
<1>1. first \in Seq(Event) /\ tsFirst \in Seq(Event)
  BY DEF CInv, ListsSorted
<1>2. /\ first' \in {first, Without(first, kind)} /\ tsFirst' \in {tsFirst, Without(tsFirst, kind)}
      /\ UNCHANGED <<clock, stack>>
  BY DEF UnscheduleEvent, RemoveAllEvents, UnscheduleThreadsafeEvent
<1>3. BagOf(first') \in {BagOf(first), Promise!Except(BagOf(first), kind)}
  BY <1>1, <1>2, BagWithout
<1>4. BagOf(tsFirst') \in {BagOf(tsFirst), Promise!Except(BagOf(tsFirst), kind)}
  BY <1>1, <1>2, BagWithout
<1>5. Now' = Now
  BY <1>2, SameNow, SameStack
<1>6. Promise!Cancel(kind)
  BY <1>3, <1>4, <1>5 DEF Promise!Cancel, BagOf
<1> QED
  BY <1>6 DEF Promise!Next

(* Advance collects the posted events.                                     *)
LEMMA CollectStep ==
    ASSUME CInv, MoveEvents
    PROVE  Promise!Next
<1>1. first \in Seq(Event) /\ Sorted(first) /\ tsFirst \in Seq(Event) /\ CallsNested
  BY DEF CInv, ListsSorted
<1>2. first' = AddedAll(first, tsFirst) /\ tsFirst' = << >> /\ UNCHANGED clock /\ At = "move" /\ Goto("process")
  BY DEF MoveEvents
<1>3. BagOf(first') = Promise!(+)(BagOf(first), BagOf(tsFirst))
  BY <1>1, <1>2, AddedAllSorted, BagUnion
<1>4. BagOf(tsFirst') = Promise!EmptyBag
  BY <1>2, BagOfNone
<1>5. At' = "process"
  BY <1>1, <1>2, GotoStep DEF Steps
<1>6. Now' = Now
  BY <1>2, <1>5, SameNow
<1>7. Promise!Collect
  BY <1>3, <1>4, <1>6 DEF Promise!Collect, BagOf
<1> QED
  BY <1>7 DEF Promise!Next

(* It fires the first event of its list, when that is due.                 *)
LEMMA FireStep ==
    ASSUME CInv, FireEvent
    PROVE  Promise!Next
<1> DEFINE e == first[1]
           r == Tail(first)
           again == [first[1] EXCEPT !.time = @ + Period]
           rest == Promise!(-)(BagOf(first), Promise!SetToBag({e}))
<1>1. /\ ListsSorted /\ CallsNested /\ first \in Seq(Event) /\ Sorted(first)
  BY DEF CInv, ListsSorted
<1>2. /\ At = "process" /\ first # << >> /\ e.time <= GetTicks
      /\ first' = IF e.kind = Vblank THEN Added(r, again) ELSE r
      /\ stack' = Append(stack, "callback") /\ UNCHANGED <<clock, tsFirst>>
  BY DEF FireEvent
<1>3. /\ r \in Seq(Event) /\ Sorted(r) /\ again \in Event /\ again.kind = e.kind /\ again.time > e.time
  BY <1>1, FiredList
<1>4. /\ e \in Entries(first) /\ \A x \in Entries(first) : e.time <= x.time
      /\ \A x : Times(first, x) = IF e = x THEN Times(r, x) + 1 ELSE Times(r, x)
  BY <1>1, <1>2, NeverEmpty, TailSorted
<1> HIDE DEF e, r, again
<1>5. BagOf(r) = rest
  BY <1>1, <1>3, <1>4, BagTaken
<1> HIDE DEF rest
<1>6. At' = "callback"
  BY <1>1, <1>2, PushStep DEF Steps
<1>7. Now' = Now /\ Now = GetTicks
  BY <1>2, <1>6, SameNow DEF Now
<1>8. DOMAIN BagOf(first) = Entries(first)
  BY <1>1, BagOfFacts
<1>9. \/ BagOf(first') = rest
      \/ /\ again \in DOMAIN BagOf(first')
         /\ BagOf(first') = Promise!(+)(rest, Promise!SetToBag({again}))
  <2>1. CASE e.kind = Vblank
    <3>1. first' = Added(r, again)
      BY <1>2, <2>1
    <3>2. /\ first' \in Seq(Event) /\ again \in Entries(first')
          /\ \A x : Times(first', x) = IF again = x THEN Times(r, x) + 1 ELSE Times(r, x)
      BY <1>3, <3>1, AddedSorted, AddedEntries
    <3>3. BagOf(first') = Promise!(+)(BagOf(r), Promise!SetToBag({again})) /\ again \in DOMAIN BagOf(first')
      BY <1>3, <3>2, BagAdded, BagOfFacts
    <3> QED
      BY <1>5, <3>3
  <2>2. CASE e.kind # Vblank
    BY <1>2, <1>5, <2>2
  <2> QED
    BY <2>1, <2>2
<1>10. /\ Promise!BagIn(e, BagOf(first)) /\ e.time <= Now
       /\ \A other \in Promise!BagToSet(BagOf(first)) : e.time <= other.time
       /\ BagOf(tsFirst') = BagOf(tsFirst) /\ Now' = Now
  BY <1>2, <1>4, <1>7, <1>8 DEF Promise!BagIn, Promise!BagToSet
<1>11. \/ BagOf(first') = rest
       \/ \E f \in {f \in Promise!BagToSet(BagOf(first')) : f.kind = e.kind /\ f.time > e.time} :
            BagOf(first') = Promise!(+)(rest, Promise!SetToBag({f}))
  BY <1>3, <1>9 DEF Promise!BagToSet
<1>12. Promise!Fire(e)
  BY <1>10, <1>11 DEF Promise!Fire, BagOf, rest
<1>13. e \in Promise!BagToSet(BagOf(first))
  BY <1>4, <1>8 DEF Promise!BagToSet
<1> QED
  BY <1>12, <1>13 DEF Promise!Next

LEMMA PromiseInit ==
    ASSUME Init
    PROVE  Promise!Init
<1>1. CInv
  BY CInvInit
<1>2. first \in Seq(Event) /\ tsFirst = << >>
  BY <1>1 DEF CInv, ListsSorted, Init
<1>3. Now = 0
  BY ConstantTypes DEF Init, Now, At, GetTicks
<1>4. Promise!IsABag(BagOf(first))
  <2>1. DOMAIN BagOf(first) = Entries(first) /\ BagOf(first) = [e \in Entries(first) |-> Times(first, e)]
    BY <1>2, BagOfFacts
  <2>2. \A e \in Entries(first) : Times(first, e) \in {n \in Nat : n > 0}
    BY <1>2, BagOfFacts
  <2>3. BagOf(first) \in [Entries(first) -> {n \in Nat : n > 0}]
    BY <2>1, <2>2
  <2> QED
    BY <2>1, <2>3 DEF Promise!IsABag
<1>5. BagOf(tsFirst) = Promise!EmptyBag
  BY <1>2, BagOfNone
<1> QED
  BY <1>3, <1>4, <1>5 DEF Promise!Init

LEMMA PromiseStep ==
    ASSUME ~IdlesLate, CInv, NotAhead, [Next]_vars
    PROVE  [Promise!Next]_(Promise!vars)
<1>1. ASSUME Now' >= Now, UNCHANGED <<first, tsFirst>> PROVE Promise!Next
  <2>1. BagOf(first') = BagOf(first) /\ BagOf(tsFirst') = BagOf(tsFirst)
    BY <1>1
  <2>2. Promise!TimePasses /\ UNCHANGED <<BagOf(first), BagOf(tsFirst)>>
    BY <1>1, <2>1 DEF Promise!TimePasses, BagOf
  <2> QED
    BY <2>2 DEF Promise!Next
<1>2. CASE \/ \E cycles \in Blocks : RunBlock(cycles) \/ EatCycles(cycles)
           \/ ForceCheck \/ Idle \/ Advance \/ ResetDowncount \/ StartSlice \/ CallbackReturns
  BY <1>1, <1>2, TimeSteps
<1>3. ASSUME NEW kind \in Kinds \ {Vblank}, Call(kind) PROVE Promise!Next
  BY <1>3, ScheduleStep, PostStep, CancelStep DEF Call
<1>4. CASE MoveEvents \/ FireEvent
  BY <1>4, CollectStep, FireStep
<1>5. CASE BeginPost \/ SaveAndLoad \/ UNCHANGED vars
  <2>1. UNCHANGED <<clock, first, tsFirst, stack>>
    BY <1>5 DEF BeginPost, SaveAndLoad, vars
  <2>2. Now' = Now
    BY <2>1, SameNow, SameStack
  <2>3. BagOf(first') = BagOf(first) /\ BagOf(tsFirst') = BagOf(tsFirst)
    BY <2>1
  <2> QED
    BY <2>2, <2>3 DEF Promise!vars, BagOf
<1> QED
  BY <1>2, <1>3, <1>4, <1>5 DEF Next

(* CoreTiming implements TimedEvents: every event that is scheduled or     *)
(* posted is fired once, in the order of the times and not before its own, *)
(* unless it is cancelled, however calls of Advance nest and whatever      *)
(* other threads of the host post in between; and time never goes back.    *)
THEOREM ImplementsTimedEvents ==
    ASSUME ~IdlesLate
    PROVE  Spec => KeepsPromise
<1>1. Init => CInv /\ NotAhead /\ Promise!Init
  BY CInvInit, NotAheadInit, PromiseInit
<1>2. CInv /\ NotAhead /\ [Next]_vars => CInv' /\ NotAhead'
  BY CInvStep, NotAheadKept
<1>3. CInv /\ NotAhead /\ [Next]_vars => [Promise!Next]_(Promise!vars)
  BY PromiseStep
<1> QED
  BY <1>1, <1>2, <1>3, PTL DEF Spec, KeepsPromise, Promise!Spec

(* The time that the guest and other threads of the host read never goes   *)
(* back (TimeNeverGoesBack), but for the moment in which Advance has set   *)
(* the timer and not yet downcount.                                        *)
THEOREM TimeRunsForward ==
    ASSUME ~IdlesLate
    PROVE  Spec => TimeNeverGoesBack
<1>1. Init => CInv /\ NotAhead
  BY CInvInit, NotAheadInit
<1>2. CInv /\ NotAhead /\ [Next]_vars => CInv' /\ NotAhead'
  BY CInvStep, NotAheadKept
<1>3. ASSUME CInv, NotAhead, [Next]_vars, At # "counted" PROVE GetTicks' >= GetTicks
  <2>1. CInv' /\ NotAhead' /\ [Promise!Next]_(Promise!vars)
    BY <1>2, <1>3, PromiseStep
  <2>2. Now \in Int /\ Now = GetTicks
    BY <1>3, NowFacts DEF Now
  <2>3. Now' >= Now \/ Now' = Now
    <3>1. CASE Promise!TimePasses
      BY <3>1 DEF Promise!TimePasses
    <3>2. CASE Promise!Collect
      BY <3>2 DEF Promise!Collect
    <3>3. ASSUME NEW kind, Promise!Cancel(kind) PROVE Now' = Now
      BY <3>3 DEF Promise!Cancel
    <3>4. ASSUME NEW e, Promise!Schedule(e) \/ Promise!Post(e) PROVE Now' = Now
      BY <3>4 DEF Promise!Schedule, Promise!Post
    <3>5. ASSUME NEW e, Promise!Fire(e) PROVE Now' = Now
      BY <3>5 DEF Promise!Fire
    <3>6. CASE UNCHANGED Promise!vars
      BY <3>6 DEF Promise!vars
    <3> QED
      BY <2>1, <3>1, <3>2, <3>3, <3>4, <3>5, <3>6 DEF Promise!Next
  <2>4. globalTimer' \in Int /\ slicelength' \in Int /\ downcount' \in Int /\ downcount' <= slicelength'
    BY <2>1 DEF CInv, ClockTypes, NotAhead
  <2>5. GetTicks' = globalTimer' + slicelength' - downcount' /\ (Now' = globalTimer' \/ Now' = GetTicks')
    BY DEF Now, GetTicks
  <2>6. GetTicks' \in Int /\ Now' \in Int /\ GetTicks' >= Now'
    BY <2>4, <2>5
  <2> QED
    BY <2>2, <2>3, <2>6
<1>4. CInv /\ NotAhead /\ [Next]_vars => [At # "counted" => GetTicks' >= GetTicks]_vars
  BY <1>3
<1> QED
  BY <1>1, <1>2, <1>4, PTL DEF Spec, TimeNeverGoesBack

=============================================================================
