--------------------------- MODULE Queues_proofs ---------------------------
(***************************************************************************)
(* Facts about queues that the proofs of several modules rest on: what the *)
(* operators on sequences do to the entries of one, and what Selected      *)
(* selects.                                                                *)
(***************************************************************************)
EXTENDS Queues, Integers, FiniteSets, SequenceTheorems, FiniteSetTheorems, WellFoundedInduction, TLAPS

LOCAL Seqs == INSTANCE SequencesExt

Entries(q) == {q[i] : i \in DOMAIN q}
NoDup(q) == \A i, j \in DOMAIN q : q[i] = q[j] => i = j

----------------------------------------------------------------------------
(* Every set of natural numbers that is not empty has a least element: the *)
(* form in which induction is used below.                                  *)
LEMMA LeastOfOrder ==
    ASSUME NEW R, IsWellFoundedOn(R, Nat), \A x, y \in Nat : y < x => <<y, x>> \in R,
           NEW T, T \subseteq Nat, T # {}
    PROVE  \E x \in T : \A y \in T : x <= y
<1>1. PICK x \in T : \A y \in T : ~ (<<y, x>> \in R)
  BY WFMin
<1>2. ASSUME NEW y \in T PROVE x <= y
  <2>1. ~(y < x)
    BY <1>1
  <2>2. x \in Nat /\ y \in Nat
    OBVIOUS
  <2> QED
    BY <2>1, <2>2
<1> QED
  BY <1>2

LEMMA NaturalOrder ==
    \E R : IsWellFoundedOn(R, Nat) /\ \A x, y \in Nat : y < x => <<y, x>> \in R
<1> DEFINE R == OpToRel(<, Nat)
<1>1. IsWellFoundedOn(R, Nat)
  BY NatLessThanWellFounded
<1>2. \A x, y \in Nat : y < x => <<y, x>> \in R
  BY DEF OpToRel
<1> HIDE DEF R
<1> QED
  BY <1>1, <1>2

LEMMA Least ==
    ASSUME NEW T, T \subseteq Nat, T # {}
    PROVE  \E x \in T : \A y \in T : x <= y
BY LeastOfOrder, NaturalOrder

----------------------------------------------------------------------------
(* The sequences that queues become.                                       *)
LEMMA AppendEntries ==
    ASSUME NEW T, NEW q \in Seq(T), NoDup(q), NEW t \in T, t \notin Entries(q)
    PROVE  /\ Append(q, t) \in Seq(T) /\ NoDup(Append(q, t))
           /\ Entries(Append(q, t)) = Entries(q) \cup {t}
<1> DEFINE r == Append(q, t)
<1>1. /\ r \in Seq(T) /\ Len(r) = Len(q) + 1 /\ Len(q) \in Nat
      /\ \A i \in 1 .. Len(q) : r[i] = q[i]
      /\ r[Len(q) + 1] = t
      /\ DOMAIN r = 1 .. Len(q) + 1 /\ DOMAIN q = 1 .. Len(q)
  OBVIOUS
<1> HIDE DEF r
<1>2. NoDup(r)
  BY <1>1 DEF NoDup, Entries
<1>3. Entries(r) = Entries(q) \cup {t}
  <2>1. \A i \in DOMAIN r : r[i] \in Entries(q) \cup {t}
    BY <1>1 DEF Entries
  <2>2. t \in Entries(r)
    BY <1>1 DEF Entries
  <2>3. \A i \in DOMAIN q : q[i] \in Entries(r)
    BY <1>1 DEF Entries
  <2> QED
    BY <2>1, <2>2, <2>3 DEF Entries
<1> QED
  BY <1>1, <1>2, <1>3 DEF r

LEMMA ConcatEntries ==
    ASSUME NEW T, NEW q \in Seq(T), NEW r \in Seq(T), NoDup(q), NoDup(r),
           Entries(q) \cap Entries(r) = {}
    PROVE  /\ q \o r \in Seq(T) /\ NoDup(q \o r)
           /\ Entries(q \o r) = Entries(q) \cup Entries(r)
<1> DEFINE c == q \o r
<1>1. /\ c \in Seq(T) /\ Len(c) = Len(q) + Len(r) /\ Len(q) \in Nat /\ Len(r) \in Nat
      /\ \A i \in 1 .. Len(c) : c[i] = IF i <= Len(q) THEN q[i] ELSE r[i - Len(q)]
      /\ DOMAIN c = 1 .. Len(c) /\ DOMAIN q = 1 .. Len(q) /\ DOMAIN r = 1 .. Len(r)
  OBVIOUS
<1> HIDE DEF c
<1>2. NoDup(c)
  <2> SUFFICES ASSUME NEW i \in DOMAIN c, NEW j \in DOMAIN c, c[i] = c[j]
               PROVE  i = j
    BY DEF NoDup
  <2>1. CASE i <= Len(q) /\ j <= Len(q)
    BY <1>1, <2>1 DEF NoDup
  <2>2. CASE i > Len(q) /\ j > Len(q)
    <3>1. i - Len(q) \in DOMAIN r /\ j - Len(q) \in DOMAIN r /\ i \in Int /\ j \in Int
      BY <1>1, <2>2
    <3>2. r[i - Len(q)] = r[j - Len(q)]
      BY <1>1, <2>2
    <3>3. i - Len(q) = j - Len(q)
      BY <3>1, <3>2 DEF NoDup
    <3> QED
      BY <3>1, <3>3, <1>1
  <2>3. ASSUME NEW k \in DOMAIN c, NEW l \in DOMAIN c, k <= Len(q), l > Len(q)
        PROVE  c[k] # c[l]
    <3>1. k \in DOMAIN q /\ c[k] = q[k]
      BY <1>1, <2>3
    <3>2. l - Len(q) \in DOMAIN r /\ c[l] = r[l - Len(q)]
      BY <1>1, <2>3
    <3>3. c[k] \in Entries(q) /\ c[l] \in Entries(r)
      BY <3>1, <3>2 DEF Entries
    <3> QED
      BY <3>3
  <2>4. i \in Int /\ j \in Int
    BY <1>1
  <2> QED
    BY <1>1, <2>1, <2>2, <2>3, <2>4
<1>3. Entries(c) = Entries(q) \cup Entries(r)
  <2>1. ASSUME NEW i \in DOMAIN c PROVE c[i] \in Entries(q) \cup Entries(r)
    <3>1. CASE i <= Len(q)
      BY <1>1, <3>1 DEF Entries
    <3>2. CASE i > Len(q)
      <4>1. i - Len(q) \in DOMAIN r /\ c[i] = r[i - Len(q)]
        BY <1>1, <3>2
      <4> QED
        BY <4>1 DEF Entries
    <3>3. i \in Int
      BY <1>1
    <3> QED
      BY <1>1, <3>1, <3>2, <3>3
  <2>2. \A i \in DOMAIN q : q[i] \in Entries(c)
    BY <1>1 DEF Entries
  <2>3. \A i \in DOMAIN r : r[i] \in Entries(c)
    <3> TAKE i \in DOMAIN r
    <3>1. i + Len(q) \in DOMAIN c /\ c[i + Len(q)] = r[i]
      BY <1>1
    <3> QED
      BY <3>1 DEF Entries
  <2> QED
    BY <2>1, <2>2, <2>3 DEF Entries
<1> QED
  BY <1>1, <1>2, <1>3 DEF c

LEMMA SingleEntry ==
    ASSUME NEW T, NEW t \in T
    PROVE  <<t>> \in Seq(T) /\ NoDup(<<t>>) /\ Entries(<<t>>) = {t}
BY DEF NoDup, Entries

LEMMA NoEntry == NoDup(<< >>) /\ Entries(<< >>) = {}
BY DEF NoDup, Entries

LEMMA TailEntries ==
    ASSUME NEW T, NEW q \in Seq(T), NoDup(q), q # << >>
    PROVE  /\ Head(q) \in Entries(q) /\ Tail(q) \in Seq(T) /\ NoDup(Tail(q))
           /\ Entries(Tail(q)) = Entries(q) \ {Head(q)}
<1> DEFINE r == Tail(q)
<1>1. /\ r \in Seq(T) /\ Len(r) = Len(q) - 1 /\ Len(q) \in Nat \ {0}
      /\ \A i \in 1 .. Len(r) : r[i] = q[i + 1]
      /\ DOMAIN r = 1 .. Len(r) /\ DOMAIN q = 1 .. Len(q)
      /\ Head(q) = q[1]
  OBVIOUS
<1> HIDE DEF r
<1>2. \A i \in DOMAIN r : i + 1 \in DOMAIN q /\ r[i] = q[i + 1] /\ i + 1 # 1
  BY <1>1
<1>3. NoDup(r)
  <2> SUFFICES ASSUME NEW i \in DOMAIN r, NEW j \in DOMAIN r, r[i] = r[j]
               PROVE  i = j
    BY DEF NoDup
  <2>1. i + 1 = j + 1
    BY <1>2 DEF NoDup
  <2> QED
    BY <1>1, <2>1
<1>4. Entries(r) = Entries(q) \ {Head(q)}
  <2>1. \A i \in DOMAIN r : r[i] \in Entries(q) \ {Head(q)}
    BY <1>1, <1>2 DEF Entries, NoDup
  <2>2. ASSUME NEW i \in DOMAIN q, q[i] # Head(q) PROVE q[i] \in Entries(r)
    <3>1. i - 1 \in DOMAIN r /\ r[i - 1] = q[i]
      BY <1>1, <2>2
    <3> QED
      BY <3>1 DEF Entries
  <2> QED
    BY <2>1, <2>2 DEF Entries
<1>5. Head(q) \in Entries(q)
  BY <1>1 DEF Entries
<1> QED
  BY <1>1, <1>3, <1>4, <1>5 DEF r

LEMMA RemoveFirstEntries ==
    ASSUME NEW T, NEW q \in Seq(T), NoDup(q), NEW t
    PROVE  /\ Seqs!RemoveFirst(q, t) \in Seq(T) /\ NoDup(Seqs!RemoveFirst(q, t))
           /\ Entries(Seqs!RemoveFirst(q, t)) = Entries(q) \ {t}
<1>0. DOMAIN q = 1 .. Len(q) /\ Len(q) \in Nat
  OBVIOUS
<1>1. CASE t \notin Entries(q)
  <2>1. Seqs!RemoveFirst(q, t) = q
    BY <1>0, <1>1 DEF Seqs!RemoveFirst, Entries
  <2> QED
    BY <1>1, <2>1
<1>2. CASE t \in Entries(q)
  <2>1. PICK i \in 1 .. Len(q) : q[i] = t
    BY <1>0, <1>2 DEF Entries
  <2>2. {j \in 1 .. Len(q) : q[j] = t} = {i}
    BY <1>0, <2>1 DEF NoDup
  <2>3. Seqs!SelectInSeq(q, LAMBDA v : v = t) = i
    BY <2>1, <2>2 DEF Seqs!SelectInSeq, Seqs!Min
  <2> DEFINE a == SubSeq(q, 1, i - 1)
             b == SubSeq(q, i + 1, Len(q))
  <2>4. Seqs!RemoveFirst(q, t) = a \o b
    BY <2>1, <2>3 DEF Seqs!RemoveFirst, Seqs!RemoveAt
  <2>5. \A j \in 1 .. Len(q) : q[j] \in T
    BY <1>0
  <2>6. /\ a \in Seq(T) /\ DOMAIN a = 1 .. i - 1
        /\ \A j \in DOMAIN a : j \in DOMAIN q /\ j < i /\ a[j] = q[j]
    <3>1. 1 \in Int /\ i - 1 \in Int /\ \A j \in 1 .. i - 1 : q[j] \in T
      BY <1>0, <2>1, <2>5
    <3>2. /\ a \in Seq(T) /\ Len(a) = IF 1 <= i - 1 THEN i - 1 - 1 + 1 ELSE 0
          /\ \A j \in 1 .. i - 1 - 1 + 1 : a[j] = q[1 + j - 1]
      BY <3>1, SubSeqProperties
    <3>3. DOMAIN a = 1 .. Len(a)
      BY <3>2
    <3> HIDE DEF a
    <3> QED
      BY <1>0, <2>1, <3>2, <3>3
  <2>7. /\ b \in Seq(T) /\ DOMAIN b = 1 .. Len(q) - i
        /\ \A j \in DOMAIN b : j + i \in DOMAIN q /\ j + i > i /\ b[j] = q[j + i]
    <3>1. i + 1 \in Int /\ Len(q) \in Int /\ \A j \in i + 1 .. Len(q) : q[j] \in T
      BY <1>0, <2>1, <2>5
    <3>2. /\ b \in Seq(T) /\ Len(b) = IF i + 1 <= Len(q) THEN Len(q) - (i + 1) + 1 ELSE 0
          /\ \A j \in 1 .. Len(q) - (i + 1) + 1 : b[j] = q[i + 1 + j - 1]
      BY <3>1, SubSeqProperties
    <3>3. DOMAIN b = 1 .. Len(b)
      BY <3>2
    <3> HIDE DEF b
    <3>4. Len(q) - (i + 1) + 1 = Len(q) - i /\ DOMAIN b = 1 .. Len(q) - i
      <4>1. Len(q) - (i + 1) + 1 = Len(q) - i /\ Len(b) = Len(q) - i
        <5>1. i \in Int /\ Len(q) \in Int /\ i <= Len(q)
          BY <1>0, <2>1
        <5>2. Len(b) = IF i + 1 <= Len(q) THEN Len(q) - (i + 1) + 1 ELSE 0
          BY <3>2
        <5> QED
          BY <5>1, <5>2
      <4> QED
        BY <3>3, <4>1
    <3>5. ASSUME NEW j \in DOMAIN b
          PROVE  j + i \in DOMAIN q /\ j + i > i /\ b[j] = q[j + i]
      <4>1. j \in 1 .. Len(q) - i /\ i + 1 + j - 1 = j + i
        BY <1>0, <2>1, <3>4
      <4>2. b[j] = q[j + i]
        BY <3>2, <3>4, <4>1
      <4> QED
        BY <1>0, <2>1, <4>1, <4>2
    <3> QED
      BY <3>2, <3>4, <3>5
  <2> HIDE DEF a, b
  <2>8. NoDup(a) /\ NoDup(b)
    <3>1. NoDup(a)
      BY <2>6 DEF NoDup
    <3>2. ASSUME NEW j \in DOMAIN b, NEW k \in DOMAIN b, b[j] = b[k] PROVE j = k
      <4>1. j + i = k + i
        BY <2>7, <3>2 DEF NoDup
      <4> QED
        BY <2>1, <2>7, <4>1
    <3> QED
      BY <3>1, <3>2 DEF NoDup
  <2>9. Entries(a) \cap Entries(b) = {}
    <3>1. ASSUME NEW j \in DOMAIN a, NEW k \in DOMAIN b PROVE a[j] # b[k]
      <4>1. j < i /\ i < k + i /\ j \in Int /\ k + i \in Int
        BY <1>0, <2>1, <2>6, <2>7
      <4>2. j # k + i
        BY <4>1, <2>1
      <4> QED
        BY <2>6, <2>7, <4>2 DEF NoDup
    <3> QED
      BY <3>1 DEF Entries
  <2>10. Entries(a) \cup Entries(b) = Entries(q) \ {t}
    <3>1. ASSUME NEW j \in DOMAIN a PROVE a[j] \in Entries(q) \ {t}
      <4>1. j \in DOMAIN q /\ j # i /\ i \in DOMAIN q /\ a[j] = q[j]
        BY <1>0, <2>1, <2>6
      <4> QED
        BY <2>1, <4>1 DEF Entries, NoDup
    <3>2. ASSUME NEW j \in DOMAIN b PROVE b[j] \in Entries(q) \ {t}
      <4>1. j + i \in DOMAIN q /\ j + i # i /\ i \in DOMAIN q /\ b[j] = q[j + i]
        BY <1>0, <2>1, <2>7
      <4> QED
        BY <2>1, <4>1 DEF Entries, NoDup
    <3>3. ASSUME NEW j \in DOMAIN q, q[j] # t PROVE q[j] \in Entries(a) \cup Entries(b)
      <4>1. CASE j < i
        <5>1. j \in DOMAIN a /\ a[j] = q[j]
          BY <1>0, <2>1, <2>6, <4>1
        <5> QED
          BY <5>1 DEF Entries
      <4>2. CASE j > i
        <5>1. j - i \in DOMAIN b /\ j - i + i = j
          BY <1>0, <2>1, <2>7, <4>2
        <5>2. b[j - i] = q[j]
          BY <2>7, <5>1
        <5> QED
          BY <5>1, <5>2 DEF Entries
      <4> QED
        BY <1>0, <2>1, <3>3, <4>1, <4>2
    <3> QED
      BY <3>1, <3>2, <3>3 DEF Entries
  <2> QED
    BY <2>4, <2>6, <2>7, <2>8, <2>9, <2>10, ConcatEntries
<1> QED
  BY <1>1, <1>2

(* What is in front stays there when another entry is removed.             *)
LEMMA RemoveFirstHead ==
    ASSUME NEW T, NEW q \in Seq(T), NoDup(q), q # << >>, NEW t, Head(q) # t
    PROVE  Seqs!RemoveFirst(q, t) # << >> /\ Head(Seqs!RemoveFirst(q, t)) = Head(q)
<1>0. DOMAIN q = 1 .. Len(q) /\ Len(q) \in Nat \ {0} /\ Head(q) = q[1]
  OBVIOUS
<1>1. CASE t \notin Entries(q)
  BY <1>0, <1>1 DEF Seqs!RemoveFirst, Entries
<1>2. CASE t \in Entries(q)
  <2>1. PICK i \in 1 .. Len(q) : q[i] = t
    BY <1>0, <1>2 DEF Entries
  <2>2. {j \in 1 .. Len(q) : q[j] = t} = {i}
    BY <1>0, <2>1 DEF NoDup
  <2>3. Seqs!SelectInSeq(q, LAMBDA v : v = t) = i
    BY <2>1, <2>2 DEF Seqs!SelectInSeq, Seqs!Min
  <2> DEFINE a == SubSeq(q, 1, i - 1)
             b == SubSeq(q, i + 1, Len(q))
  <2>4. Seqs!RemoveFirst(q, t) = a \o b
    BY <2>1, <2>3 DEF Seqs!RemoveFirst, Seqs!RemoveAt
  <2>5. i - 1 \in 1 .. Len(q) /\ \A j \in 1 .. Len(q) : q[j] \in T
    BY <1>0, <2>1
  <2>6. a \in Seq(T) /\ Len(a) = i - 1 /\ a[1] = q[1] /\ b \in Seq(T)
    BY <1>0, <2>1, <2>5
  <2> HIDE DEF a, b
  <2>7. a \o b # << >> /\ Head(a \o b) = a[1]
    BY <2>5, <2>6
  <2> QED
    BY <1>0, <2>4, <2>6, <2>7
<1> QED
  BY <1>1, <1>2

(* Selected: the function it is defined by exists, as the least number up  *)
(* to which it would not would be one more than one up to which it does.   *)
IsSelection(f, q, S, m) ==
    f = [n \in 0 .. m |-> IF n = 0 THEN << >>
                          ELSE IF q[n] \in S THEN Append(f[n - 1], q[n]) ELSE f[n - 1]]

LEMMA SelectionExists ==
    ASSUME NEW q, NEW S, NEW m \in Nat
    PROVE  \E f : IsSelection(f, q, S, m)
<1> DEFINE bad == {k \in Nat : ~ \E f : IsSelection(f, q, S, k)}
<1>1. CASE bad = {}
  BY <1>1
<1>2. CASE bad # {}
  <2>1. PICK k \in bad : \A l \in bad : k <= l
    BY <1>2, Least
  <2>2. k # 0
    <3>1. IsSelection([n \in 0 .. 0 |-> << >>], q, S, 0)
      BY DEF IsSelection
    <3> QED
      BY <3>1
  <2>3. k \in Nat /\ k - 1 \in Nat /\ k - 1 \notin bad
    BY <2>1, <2>2
  <2>4. PICK f : IsSelection(f, q, S, k - 1)
    BY <2>3
  <2> DEFINE last == IF q[k] \in S THEN Append(f[k - 1], q[k]) ELSE f[k - 1]
             g == [n \in 0 .. k |-> IF n = k THEN last ELSE f[n]]
  <2>5. IsSelection(g, q, S, k)
    <3>1. ASSUME NEW n \in 0 .. k
          PROVE  g[n] = IF n = 0 THEN << >>
                        ELSE IF q[n] \in S THEN Append(g[n - 1], q[n]) ELSE g[n - 1]
      <4>1. CASE n = k
        <5>1. g[n] = last /\ n - 1 \in 0 .. k /\ n - 1 # k
          BY <2>2, <2>3, <4>1
        <5>2. g[n - 1] = f[n - 1]
          BY <5>1
        <5> QED
          BY <2>2, <4>1, <5>1, <5>2
      <4>2. CASE n # k
        <5>1. n \in 0 .. k - 1 /\ g[n] = f[n]
          BY <2>3, <4>2
        <5>2. n # 0 => n - 1 \in 0 .. k - 1 /\ g[n - 1] = f[n - 1]
          BY <2>3, <5>1
        <5>3. f[n] = IF n = 0 THEN << >>
                     ELSE IF q[n] \in S THEN Append(f[n - 1], q[n]) ELSE f[n - 1]
          BY <2>4, <5>1 DEF IsSelection
        <5> HIDE DEF g
        <5> QED
          BY <5>1, <5>2, <5>3
      <4> QED
        BY <4>1, <4>2
    <3>2. g = [n \in 0 .. k |-> g[n]]
      OBVIOUS
    <3> HIDE DEF g
    <3> QED
      BY <3>1, <3>2 DEF IsSelection
  <2> HIDE DEF g
  <2> QED
    BY <2>1, <2>5
<1> QED
  BY <1>1, <1>2

(* The places e of the entries that r takes over from the first n of q:    *)
(* all that are in S, in their order.                                      *)
Places(e, r, q, n, S) ==
    /\ e \in [1 .. Len(r) -> 1 .. n]
    /\ \A i, j \in 1 .. Len(r) : i < j => e[i] < e[j]
    /\ \A i \in 1 .. Len(r) : r[i] = q[e[i]] /\ q[e[i]] \in S
    /\ \A k \in 1 .. n : q[k] \in S => \E i \in 1 .. Len(r) : e[i] = k

LEMMA PlacesTaken ==
    ASSUME NEW T, NEW q, NEW S, NEW n \in Nat \ {0}, q[n] \in T \cap S,
           NEW r \in Seq(T), NEW e, Places(e, r, q, n - 1, S)
    PROVE  \E g : Places(g, Append(r, q[n]), q, n, S)
<1> DEFINE m == Len(r) + 1
           a == Append(r, q[n])
           g == [i \in 1 .. m |-> IF i = m THEN n ELSE e[i]]
<1>1. /\ Len(r) \in Nat /\ Len(a) = m /\ a[m] = q[n] /\ \A i \in 1 .. Len(r) : a[i] = r[i]
  OBVIOUS
<1> HIDE DEF a
<1>2. \A i \in 1 .. Len(r) : i \in 1 .. m /\ i # m /\ g[i] = e[i] /\ e[i] \in 1 .. n - 1
  BY <1>1 DEF Places
<1>3. m \in 1 .. m /\ g[m] = n /\ \A i \in 1 .. m : i = m \/ i \in 1 .. Len(r)
  BY <1>1
<1>4. g \in [1 .. m -> 1 .. n]
  <2>1. g = [i \in 1 .. m |-> g[i]]
    OBVIOUS
  <2> HIDE DEF g, m
  <2>2. \A i \in 1 .. m : g[i] \in 1 .. n
    BY <1>2, <1>3
  <2> QED
    BY <2>1, <2>2
<1> HIDE DEF g
<1>5. ASSUME NEW i \in 1 .. m, NEW j \in 1 .. m, i < j PROVE g[i] < g[j]
  <2>1. i \in 1 .. Len(r)
    BY <1>1, <1>3, <1>5
  <2>2. CASE j = m
    BY <1>2, <1>3, <2>1, <2>2
  <2>3. CASE j \in 1 .. Len(r)
    BY <1>2, <1>5, <2>1, <2>3 DEF Places
  <2> QED
    BY <1>3, <2>2, <2>3
<1>6. ASSUME NEW i \in 1 .. m PROVE a[i] = q[g[i]] /\ q[g[i]] \in S
  <2>1. CASE i = m
    BY <1>1, <1>3, <2>1
  <2>2. CASE i \in 1 .. Len(r)
    BY <1>1, <1>2, <2>2 DEF Places
  <2> QED
    BY <1>3, <2>1, <2>2
<1>7. ASSUME NEW k \in 1 .. n, q[k] \in S PROVE \E i \in 1 .. m : g[i] = k
  <2>1. CASE k = n
    BY <1>3, <2>1
  <2>2. CASE k # n
    <3>1. k \in 1 .. n - 1
      BY <2>2
    <3>2. PICK i \in 1 .. Len(r) : e[i] = k
      BY <1>7, <3>1 DEF Places
    <3> QED
      BY <1>2, <3>2
  <2> QED
    BY <2>1, <2>2
<1> HIDE DEF m
<1>8. Places(g, a, q, n, S)
  BY <1>1, <1>4, <1>5, <1>6, <1>7 DEF Places
<1> QED
  BY <1>8 DEF a

LEMMA PlacesLeftOut ==
    ASSUME NEW q, NEW S, NEW n \in Nat \ {0}, q[n] \notin S, NEW r, NEW e, Places(e, r, q, n - 1, S)
    PROVE  Places(e, r, q, n, S)
<1>1. \A k \in 1 .. n : k \in 1 .. n - 1 \/ k = n
  OBVIOUS
<1>2. \A k \in 1 .. n - 1 : k \in 1 .. n
  OBVIOUS
<1> QED
  BY <1>1, <1>2 DEF Places

(* What Selected takes out of a queue, as the places it takes it from.     *)
LEMMA SelectedPlaces ==
    ASSUME NEW T, NEW q \in Seq(T), NEW S
    PROVE  /\ Selected(q, S) \in Seq(T)
           /\ \E e : Places(e, Selected(q, S), q, Len(q), S)
<1> DEFINE f == CHOOSE f : IsSelection(f, q, S, Len(q))
<1>0. Len(q) \in Nat /\ DOMAIN q = 1 .. Len(q) /\ \A i \in 1 .. Len(q) : q[i] \in T
  OBVIOUS
<1>1. IsSelection(f, q, S, Len(q))
  BY <1>0, SelectionExists
<1>2. Selected(q, S) = f[Len(q)]
  BY DEF Selected, IsSelection
<1> HIDE DEF f
<1> DEFINE good(n) == f[n] \in Seq(T) /\ \E e : Places(e, f[n], q, n, S)
           bad == {n \in 0 .. Len(q) : ~good(n)}
<1>3. bad = {}
  <2> SUFFICES ASSUME bad # {} PROVE FALSE
    OBVIOUS
  <2>1. PICK n \in bad : \A m \in bad : n <= m
    <3>1. bad \subseteq Nat
      BY <1>0
    <3> HIDE DEF bad
    <3> QED
      BY <3>1, Least
  <2>2. good(0)
    <3>1. f[0] = << >>
      BY <1>0, <1>1 DEF IsSelection
    <3>2. Places([i \in 1 .. 0 |-> 0], << >>, q, 0, S)
      BY DEF Places
    <3> QED
      BY <3>1, <3>2
  <2>3. n # 0 /\ n \in 1 .. Len(q) /\ n - 1 \in 0 .. Len(q) /\ n \in Nat \ {0}
    BY <1>0, <2>1, <2>2
  <2>4. good(n - 1)
    <3>1. n \in Int /\ ~(n <= n - 1)
      BY <2>3
    <3> HIDE DEF good
    <3> QED
      BY <2>1, <2>3, <3>1
  <2>5. f[n] = IF q[n] \in S THEN Append(f[n - 1], q[n]) ELSE f[n - 1]
    BY <1>0, <1>1, <2>3 DEF IsSelection
  <2>6. PICK e : Places(e, f[n - 1], q, n - 1, S)
    BY <2>4
  <2>7. good(n)
    <3>1. CASE q[n] \in S
      <4>1. q[n] \in T \cap S /\ f[n] = Append(f[n - 1], q[n]) /\ f[n - 1] \in Seq(T)
        BY <1>0, <2>3, <2>4, <2>5, <3>1
      <4> QED
        BY <2>3, <2>6, <4>1, PlacesTaken
    <3>2. CASE q[n] \notin S
      BY <2>3, <2>4, <2>5, <2>6, <3>2, PlacesLeftOut
    <3> QED
      BY <3>1, <3>2
  <2> QED
    BY <2>1, <2>7
<1>4. good(Len(q))
  <2>1. Len(q) \in 0 .. Len(q)
    BY <1>0
  <2> HIDE DEF good
  <2> QED
    BY <1>3, <2>1
<1> QED
  BY <1>2, <1>4

LEMMA NoneSelected ==
    ASSUME NEW S
    PROVE  Selected(<< >>, S) = << >>
<1> DEFINE r == Selected(<< >>, S)
<1>1. << >> \in Seq(S) /\ Len(<< >>) = 0
  OBVIOUS
<1>2. r \in Seq(S) /\ \E e : Places(e, r, << >>, 0, S)
  BY <1>1, SelectedPlaces
<1> HIDE DEF r
<1>3. 1 .. Len(r) = {}
  BY <1>2 DEF Places
<1>4. Len(r) = 0
  BY <1>2, <1>3
<1>5. r = << >>
  BY <1>2, <1>4
<1> QED
  BY <1>5 DEF r

LEMMA SelectedEntries ==
    ASSUME NEW T, NEW q \in Seq(T), NEW S
    PROVE  /\ Selected(q, S) \in Seq(T) /\ Entries(Selected(q, S)) = Entries(q) \cap S
           /\ NoDup(q) => NoDup(Selected(q, S))
<1> DEFINE r == Selected(q, S)
<1>1. r \in Seq(T)
  BY SelectedPlaces
<1>2. PICK e : Places(e, r, q, Len(q), S)
  BY SelectedPlaces
<1> HIDE DEF r
<1>3. DOMAIN q = 1 .. Len(q) /\ DOMAIN r = 1 .. Len(r) /\ Len(q) \in Nat /\ Len(r) \in Nat
  BY <1>1
<1>4. \A i \in DOMAIN r : e[i] \in DOMAIN q /\ r[i] = q[e[i]] /\ q[e[i]] \in S
  BY <1>2, <1>3 DEF Places
<1>5. Entries(r) = Entries(q) \cap S
  <2>1. \A k \in DOMAIN q : q[k] \in S => \E i \in DOMAIN r : r[i] = q[k]
    BY <1>2, <1>3 DEF Places
  <2> QED
    BY <1>4, <2>1 DEF Entries
<1>6. ASSUME NoDup(q), NEW i \in DOMAIN r, NEW j \in DOMAIN r, r[i] = r[j]
      PROVE  i = j
  <2>1. e[i] = e[j]
    BY <1>4, <1>6 DEF NoDup
  <2>2. ~(i < j) /\ ~(j < i)
    BY <1>2, <1>3, <1>4, <2>1 DEF Places
  <2> QED
    BY <1>3, <2>2
<1>7. NoDup(q) => NoDup(r)
  BY <1>6 DEF NoDup
<1> QED
  BY <1>1, <1>5, <1>7 DEF r

----------------------------------------------------------------------------
(* How often an element is in a queue, as the number of its positions.     *)
Positions(q, x) == {i \in DOMAIN q : q[i] = x}

LEMMA PositionsFinite ==
    ASSUME NEW T, NEW q \in Seq(T), NEW x
    PROVE  /\ IsFiniteSet(Positions(q, x)) /\ Cardinality(Positions(q, x)) \in Nat
           /\ Cardinality(Positions(q, x)) = 0 <=> x \notin Entries(q)
<1>1. DOMAIN q = 1 .. Len(q) /\ Len(q) \in Nat
  OBVIOUS
<1>2. IsFiniteSet(1 .. Len(q)) /\ Positions(q, x) \in SUBSET (1 .. Len(q))
  BY <1>1, FS_Interval DEF Positions
<1>3. IsFiniteSet(Positions(q, x))
  BY <1>2, FS_Subset
<1>4. Positions(q, x) = {} <=> x \notin Entries(q)
  BY DEF Positions, Entries
<1> QED
  BY <1>3, <1>4, FS_CardinalityType, FS_EmptySet

LEMMA PositionsMapped ==
    ASSUME NEW S, NEW T, IsFiniteSet(S), NEW f \in [S -> T],
           \A i, j \in S : f[i] = f[j] => i = j, \A k \in T : \E i \in S : f[i] = k
    PROVE  IsFiniteSet(T) /\ Cardinality(T) = Cardinality(S)
<1>1. f \in Bijection(S, T)
  BY DEF Bijection, Injection, Surjection, IsInjective
<1> QED
  BY <1>1, FS_Bijection DEF ExistsBijection

LEMMA AppendCount ==
    ASSUME NEW T, NEW q \in Seq(T), NEW t \in T, NEW x
    PROVE  Cardinality(Positions(Append(q, t), x)) =
             IF t = x THEN Cardinality(Positions(q, x)) + 1 ELSE Cardinality(Positions(q, x))
<1> DEFINE r == Append(q, t)
<1>1. /\ Len(q) \in Nat /\ DOMAIN q = 1 .. Len(q) /\ DOMAIN r = 1 .. Len(q) + 1
      /\ \A i \in 1 .. Len(q) : r[i] = q[i]
      /\ r[Len(q) + 1] = t
  OBVIOUS
<1> HIDE DEF r
<1>2. IsFiniteSet(Positions(q, x)) /\ Len(q) + 1 \notin Positions(q, x)
  <2>1. IsFiniteSet(Positions(q, x))
    BY PositionsFinite
  <2> QED
    BY <1>1, <2>1 DEF Positions
<1>3. Positions(r, x) = IF t = x THEN Positions(q, x) \cup {Len(q) + 1} ELSE Positions(q, x)
  BY <1>1 DEF Positions
<1>4. Cardinality(Positions(q, x) \cup {Len(q) + 1}) = Cardinality(Positions(q, x)) + 1
  BY <1>2, FS_AddElement
<1> QED
  BY <1>3, <1>4 DEF r

LEMMA TailCount ==
    ASSUME NEW T, NEW q \in Seq(T), q # << >>, NEW x
    PROVE  Cardinality(Positions(q, x)) =
             IF Head(q) = x THEN Cardinality(Positions(Tail(q), x)) + 1
                            ELSE Cardinality(Positions(Tail(q), x))
<1> DEFINE r == Tail(q)
           f == [i \in Positions(r, x) |-> i + 1]
           rest == Positions(q, x) \ {1}
<1>1. /\ r \in Seq(T) /\ Len(q) \in Nat \ {0} /\ DOMAIN q = 1 .. Len(q) /\ DOMAIN r = 1 .. Len(q) - 1
      /\ \A i \in 1 .. Len(q) - 1 : r[i] = q[i + 1]
      /\ Head(q) = q[1]
  OBVIOUS
<1> HIDE DEF r
<1>2. \A i \in Positions(r, x) : i \in Nat /\ i + 1 \in rest
  BY <1>1 DEF Positions
<1>3. ASSUME NEW k \in rest PROVE \E i \in Positions(r, x) : i + 1 = k
  <2>1. k - 1 \in 1 .. Len(q) - 1 /\ r[k - 1] = q[(k - 1) + 1] /\ (k - 1) + 1 = k /\ q[k] = x
    BY <1>1 DEF Positions
  <2>2. k - 1 \in Positions(r, x)
    BY <1>1, <2>1 DEF Positions
  <2> QED
    BY <2>1, <2>2
<1> HIDE DEF rest
<1>4. f \in [Positions(r, x) -> rest] /\ IsFiniteSet(Positions(r, x))
  <2>1. IsFiniteSet(Positions(r, x))
    BY <1>1, PositionsFinite
  <2> QED
    BY <1>2, <2>1
<1>5. /\ \A i, j \in Positions(r, x) : f[i] = f[j] => i = j
      /\ \A k \in rest : \E i \in Positions(r, x) : f[i] = k
  BY <1>2, <1>3
<1> HIDE DEF f
<1>6. IsFiniteSet(rest) /\ Cardinality(rest) = Cardinality(Positions(r, x))
  BY <1>4, <1>5, PositionsMapped
<1>7. /\ 1 \notin rest
      /\ Positions(q, x) = IF Head(q) = x THEN rest \cup {1} ELSE rest
  BY <1>1 DEF rest, Positions
<1>8. Cardinality(rest \cup {1}) = Cardinality(rest) + 1
  BY <1>6, <1>7, FS_AddElement
<1> QED
  BY <1>6, <1>7, <1>8 DEF r

LEMMA ConcatCount ==
    ASSUME NEW T, NEW q \in Seq(T), NEW r \in Seq(T), NEW x, x \notin Entries(r)
    PROVE  Positions(q \o r, x) = Positions(q, x)
<1> DEFINE c == q \o r
<1>1. /\ Len(q) \in Nat /\ Len(r) \in Nat
      /\ DOMAIN c = 1 .. Len(q) + Len(r) /\ DOMAIN q = 1 .. Len(q) /\ DOMAIN r = 1 .. Len(r)
      /\ \A i \in DOMAIN c : c[i] = IF i <= Len(q) THEN q[i] ELSE r[i - Len(q)]
  OBVIOUS
<1> HIDE DEF c
<1>2. ASSUME NEW i \in DOMAIN c, i > Len(q) PROVE c[i] # x
  <2>1. i - Len(q) \in DOMAIN r /\ c[i] = r[i - Len(q)]
    BY <1>1, <1>2
  <2> QED
    BY <2>1 DEF Entries
<1>3. \A i \in DOMAIN c : i > Len(q) \/ (i \in DOMAIN q /\ c[i] = q[i])
  BY <1>1
<1>4. \A i \in DOMAIN q : i \in DOMAIN c /\ c[i] = q[i]
  BY <1>1
<1>5. Positions(c, x) = Positions(q, x)
  BY <1>2, <1>3, <1>4 DEF Positions
<1> QED
  BY <1>5 DEF c

LEMMA SelectedCount ==
    ASSUME NEW T, NEW q \in Seq(T), NEW S, NEW x \in S
    PROVE  Cardinality(Positions(Selected(q, S), x)) = Cardinality(Positions(q, x))
<1> DEFINE r == Selected(q, S)
<1>1. r \in Seq(T)
  BY SelectedPlaces
<1>2. PICK e : Places(e, r, q, Len(q), S)
  BY SelectedPlaces
<1> HIDE DEF r
<1>3. DOMAIN q = 1 .. Len(q) /\ DOMAIN r = 1 .. Len(r) /\ Len(q) \in Nat /\ Len(r) \in Nat
  BY <1>1
<1> DEFINE f == [i \in Positions(r, x) |-> e[i]]
<1>4. \A i \in DOMAIN r : e[i] \in DOMAIN q /\ r[i] = q[e[i]]
  BY <1>2, <1>3 DEF Places
<1>5. f \in [Positions(r, x) -> Positions(q, x)] /\ IsFiniteSet(Positions(r, x))
  <2>1. IsFiniteSet(Positions(r, x))
    BY <1>1, PositionsFinite
  <2> QED
    BY <1>4, <2>1 DEF Positions
<1>6. ASSUME NEW i \in Positions(r, x), NEW j \in Positions(r, x), f[i] = f[j]
      PROVE  i = j
  <2>1. i \in 1 .. Len(r) /\ j \in 1 .. Len(r) /\ e[i] = e[j] /\ e[i] \in Int
    BY <1>3, <1>4, <1>6 DEF Positions
  <2>2. ~(i < j) /\ ~(j < i)
    BY <1>2, <2>1 DEF Places
  <2> QED
    BY <2>1, <2>2
<1>7. ASSUME NEW k \in Positions(q, x) PROVE \E i \in Positions(r, x) : f[i] = k
  <2>1. k \in 1 .. Len(q) /\ q[k] = x
    BY <1>3 DEF Positions
  <2>2. PICK i \in 1 .. Len(r) : e[i] = k
    BY <1>2, <2>1 DEF Places
  <2>3. i \in Positions(r, x)
    BY <1>3, <1>4, <2>1, <2>2 DEF Positions
  <2> QED
    BY <2>2, <2>3
<1> HIDE DEF f
<1>8. Cardinality(Positions(q, x)) = Cardinality(Positions(r, x))
  BY <1>5, <1>6, <1>7, PositionsMapped
<1> QED
  BY <1>8 DEF r

LEMMA SelectedHead ==
    ASSUME NEW T, NEW q \in Seq(T), NEW S, q # << >>, Head(q) \in S
    PROVE  Selected(q, S) # << >> /\ Head(Selected(q, S)) = Head(q)
<1> DEFINE r == Selected(q, S)
<1>1. r \in Seq(T)
  BY SelectedPlaces
<1>2. PICK e : Places(e, r, q, Len(q), S)
  BY SelectedPlaces
<1> HIDE DEF r
<1>3. Len(q) \in Nat \ {0} /\ Len(r) \in Nat /\ Head(q) = q[1]
  BY <1>1
<1>4. PICK i \in 1 .. Len(r) : e[i] = 1
  BY <1>2, <1>3 DEF Places
<1>5. 1 \in 1 .. Len(r) /\ i \in Int /\ e[1] \in 1 .. Len(q)
  BY <1>2, <1>3 DEF Places
<1>6. i = 1
  <2>1. ~(1 < i)
    BY <1>2, <1>3, <1>4, <1>5 DEF Places
  <2> QED
    BY <1>3, <1>5, <2>1
<1>7. r[1] = q[1]
  BY <1>2, <1>4, <1>5, <1>6 DEF Places
<1> QED
  BY <1>1, <1>3, <1>5, <1>7 DEF r

----------------------------------------------------------------------------
(* An element inserted before the one at k.                                *)
LEMMA InsertedAt ==
    ASSUME NEW T, NEW q \in Seq(T), NEW t \in T, NEW k \in 1 .. Len(q) + 1,
           NEW r, r = Seqs!InsertAt(q, k, t)
    PROVE  /\ r \in Seq(T) /\ DOMAIN r = 1 .. Len(q) + 1
           /\ r[k] = t
           /\ \A j \in 1 .. Len(q) : j < k => r[j] = q[j]
           /\ \A j \in 1 .. Len(q) : j >= k => r[j + 1] = q[j]
<1> DEFINE a == SubSeq(q, 1, k - 1)
           b == SubSeq(q, k, Len(q))
           c == a \o <<t>>
<1>0. Len(q) \in Nat /\ DOMAIN q = 1 .. Len(q) /\ \A j \in 1 .. Len(q) : q[j] \in T
  OBVIOUS
<1>1. r = c \o b
  BY DEF Seqs!InsertAt
<1>2. a \in Seq(T) /\ Len(a) = k - 1 /\ \A j \in 1 .. k - 1 : a[j] = q[j]
  <2>1. 1 \in Int /\ k - 1 \in Int /\ \A j \in 1 .. k - 1 : q[j] \in T
    BY <1>0
  <2>2. /\ a \in Seq(T) /\ Len(a) = IF 1 <= k - 1 THEN k - 1 - 1 + 1 ELSE 0
        /\ \A j \in 1 .. k - 1 - 1 + 1 : a[j] = q[1 + j - 1]
    BY <2>1, SubSeqProperties
  <2> HIDE DEF a
  <2> QED
    BY <1>0, <2>2
<1>3. b \in Seq(T) /\ Len(b) = Len(q) - k + 1 /\ \A j \in 1 .. Len(q) - k + 1 : b[j] = q[k + j - 1]
  <2>1. k \in Int /\ Len(q) \in Int /\ \A j \in k .. Len(q) : q[j] \in T
    BY <1>0
  <2>2. /\ b \in Seq(T) /\ Len(b) = IF k <= Len(q) THEN Len(q) - k + 1 ELSE 0
        /\ \A j \in 1 .. Len(q) - k + 1 : b[j] = q[k + j - 1]
    BY <2>1, SubSeqProperties
  <2> HIDE DEF b
  <2> QED
    BY <1>0, <2>2
<1> HIDE DEF a, b
<1>4. c \in Seq(T) /\ Len(c) = k /\ c[k] = t /\ \A j \in 1 .. k - 1 : c[j] = q[j]
  <2>1. <<t>> \in Seq(T) /\ Len(<<t>>) = 1 /\ <<t>>[1] = t
    OBVIOUS
  <2>2. c \in Seq(T) /\ Len(c) = k
    BY <1>2, <2>1
  <2>3. c[k] = t
    BY <1>2, <2>1
  <2>4. \A j \in 1 .. k - 1 : c[j] = q[j]
    BY <1>2, <2>1
  <2> QED
    BY <2>2, <2>3, <2>4
<1> HIDE DEF c
<1>5. /\ r \in Seq(T) /\ DOMAIN r = 1 .. Len(q) + 1
      /\ \A j \in 1 .. k : r[j] = c[j]
      /\ \A j \in 1 .. Len(q) - k + 1 : r[k + j] = b[j]
  BY <1>0, <1>1, <1>3, <1>4
<1>6. r[k] = t /\ \A j \in 1 .. Len(q) : j < k => r[j] = q[j]
  BY <1>0, <1>4, <1>5
<1>7. ASSUME NEW j \in 1 .. Len(q), j >= k PROVE r[j + 1] = q[j]
  <2> DEFINE i == j - k + 1
  <2>1. i \in 1 .. Len(q) - k + 1 /\ k + i = j + 1 /\ k + i - 1 = j
    BY <1>0, <1>7
  <2> HIDE DEF i
  <2> QED
    BY <1>3, <1>5, <2>1
<1> QED
  BY <1>5, <1>6, <1>7

LEMMA InsertCount ==
    ASSUME NEW T, NEW q \in Seq(T), NEW t \in T, NEW k \in 1 .. Len(q) + 1, NEW x
    PROVE  Cardinality(Positions(Seqs!InsertAt(q, k, t), x)) =
             IF t = x THEN Cardinality(Positions(q, x)) + 1 ELSE Cardinality(Positions(q, x))
<1> PICK r : r = Seqs!InsertAt(q, k, t)
  OBVIOUS
<1> DEFINE f == [j \in Positions(q, x) |-> IF j < k THEN j ELSE j + 1]
           rest == Positions(r, x) \ {k}
<1>1. /\ r \in Seq(T) /\ DOMAIN r = 1 .. Len(q) + 1 /\ r[k] = t
      /\ \A j \in 1 .. Len(q) : j < k => r[j] = q[j]
      /\ \A j \in 1 .. Len(q) : j >= k => r[j + 1] = q[j]
  BY InsertedAt
<1>2. Len(q) \in Nat /\ DOMAIN q = 1 .. Len(q)
  OBVIOUS
<1>3. \A j \in Positions(q, x) : f[j] \in rest /\ j \in 1 .. Len(q)
  BY <1>1, <1>2 DEF Positions
<1>4. ASSUME NEW i \in rest PROVE \E j \in Positions(q, x) : f[j] = i
  <2>1. i \in 1 .. Len(q) + 1 /\ i # k /\ r[i] = x
    BY <1>1 DEF Positions
  <2>2. CASE i < k
    <3>1. i \in Positions(q, x)
      BY <1>1, <1>2, <2>1, <2>2 DEF Positions
    <3> QED
      BY <2>2, <3>1
  <2>3. CASE i > k
    <3> DEFINE j == i - 1
    <3>1. j \in 1 .. Len(q) /\ j >= k /\ j + 1 = i
      BY <1>2, <2>1, <2>3
    <3> HIDE DEF j
    <3>2. j \in Positions(q, x)
      BY <1>1, <1>2, <2>1, <3>1 DEF Positions
    <3> QED
      BY <3>1, <3>2
  <2> QED
    BY <2>1, <2>2, <2>3
<1>5. \A i, j \in Positions(q, x) : f[i] = f[j] => i = j
  BY <1>3
<1>6. f = [j \in Positions(q, x) |-> f[j]]
  OBVIOUS
<1>7. IsFiniteSet(Positions(q, x))
  BY PositionsFinite
<1> HIDE DEF f, rest
<1>8. f \in [Positions(q, x) -> rest]
  BY <1>3, <1>6
<1>9. IsFiniteSet(rest) /\ Cardinality(rest) = Cardinality(Positions(q, x))
  BY <1>4, <1>5, <1>7, <1>8, PositionsMapped
<1>10. /\ k \notin rest
       /\ Positions(r, x) = IF t = x THEN rest \cup {k} ELSE rest
  BY <1>1 DEF rest, Positions
<1>11. Cardinality(rest \cup {k}) = Cardinality(rest) + 1
  BY <1>9, <1>10, FS_AddElement
<1> QED
  BY <1>9, <1>10, <1>11

=============================================================================
