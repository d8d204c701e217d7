---------------------------- MODULE AgentsProofs ----------------------------
(***************************************************************************)
(* Agents and the collector.  For any requests, posted in any order and    *)
(* any number of times, a request that is posted again adds nothing, runs  *)
(* end with what their agents report, and model calls that have finished   *)
(* stay so (Telemetry); for any sessions and any number of events, the     *)
(* batches of OpenCode's plugin share no event (Plugin).                   *)
(***************************************************************************)
EXTENDS Telemetry, Plugin, FiniteSetTheorems, SequenceTheorems, WellFoundedInduction, TLAPS
-----------------------------------------------------------------------------
(* Numbers.                                                                *)

(* The least of a set of numbers, and induction over them. *)
LEMMA LeastNumber ==
  ASSUME NEW S \in SUBSET Nat, S # {}
  PROVE  \E n \in S : \A m \in S : n <= m
<1>1. PICK n \in S : \A m \in S : ~(<<m, n>> \in OpToRel(<, Nat))
  BY NatLessThanWellFounded, WFMin
<1>2. ASSUME NEW m \in S PROVE ~(m < n)
  BY <1>1 DEF OpToRel
<1> QED
  BY <1>2

LEMMA AllNumbers ==
  ASSUME NEW S \in SUBSET Nat, 0 \in S, \A n \in S : n + 1 \in S
  PROVE  S = Nat
<1> SUFFICES ASSUME Nat \ S # {} PROVE FALSE
  OBVIOUS
<1>1. PICK n \in Nat \ S : \A m \in Nat \ S : n <= m
  BY LeastNumber
<1>2. n - 1 \in Nat /\ n - 1 \notin Nat \ S /\ (n - 1) + 1 = n
  BY <1>1
<1> QED
  BY <1>1, <1>2
-----------------------------------------------------------------------------
(* Insert, event by event: what there is after each of them.               *)

Inserted(d, b, n, f) ==
  f = [i \in 0..n |-> IF i = 0 THEN d ELSE InsertOne(f[i - 1], b[i])]

(* There is such a function for every length. *)
LEMMA Inserting ==
  ASSUME NEW d, NEW b, NEW n \in Nat
  PROVE  \E f : Inserted(d, b, n, f)
<1> DEFINE S == {m \in Nat : \E f : Inserted(d, b, m, f)}
<1>1. 0 \in S
  <2> DEFINE f == [i \in 0..0 |-> d]
  <2>1. f = [i \in 0..0 |-> IF i = 0 THEN d ELSE InsertOne(f[i - 1], b[i])]
    OBVIOUS
  <2> HIDE DEF f
  <2> QED
    BY <2>1 DEF Inserted
<1>2. ASSUME NEW m \in S PROVE m + 1 \in S
  <2>1. m \in Nat
    OBVIOUS
  <2>2. PICK f : Inserted(d, b, m, f)
    OBVIOUS
  <2> DEFINE g == [i \in 0..(m + 1) |-> IF i = m + 1 THEN InsertOne(f[m], b[m + 1]) ELSE f[i]]
  <2>3. ASSUME NEW i \in 0..(m + 1)
        PROVE  g[i] = IF i = 0 THEN d ELSE InsertOne(g[i - 1], b[i])
    <3>1. CASE i = m + 1
      <4>1. g[i] = InsertOne(f[m], b[m + 1]) /\ i # 0 /\ i - 1 = m
        BY <2>1, <3>1
      <4>2. g[m] = f[m]
        BY <2>1
      <4> HIDE DEF g
      <4> QED
        BY <3>1, <4>1, <4>2
    <3>2. CASE i # m + 1
      <4>1. i \in 0..m /\ g[i] = f[i]
        BY <2>1, <3>2
      <4>2. i # 0 => i - 1 \in 0..m /\ i - 1 # m + 1 /\ i - 1 \in 0..(m + 1)
        BY <2>1, <4>1
      <4>3. i # 0 => g[i - 1] = f[i - 1]
        BY <4>2
      <4>4. f[i] = IF i = 0 THEN d ELSE InsertOne(f[i - 1], b[i])
        BY <2>2, <4>1 DEF Inserted
      <4> HIDE DEF g
      <4> QED
        BY <4>1, <4>3, <4>4
    <3> QED
      BY <3>1, <3>2
  <2>4. g = [i \in 0..(m + 1) |-> g[i]]
    OBVIOUS
  <2> HIDE DEF g
  <2>5. Inserted(d, b, m + 1, g)
    BY <2>3, <2>4 DEF Inserted
  <2> QED
    BY <2>1, <2>5
<1>3. S = Nat
  <2> HIDE DEF S
  <2>1. S \in SUBSET Nat
    BY DEF S
  <2> QED
    BY <1>1, <1>2, <2>1, AllNumbers
<1> QED
  BY <1>3

InsertsBy(d, b, f) ==
  /\ Insert(d, b) = f[Len(b)] /\ f[0] = d
  /\ \A i \in 1..Len(b) : f[i] = InsertOne(f[i - 1], b[i])

LEMMA InsertIs ==
  ASSUME NEW d, NEW b, Len(b) \in Nat
  PROVE  \E f : InsertsBy(d, b, f)
<1> DEFINE n == Len(b)
           g == CHOOSE f : Inserted(d, b, n, f)
<1>1. Inserted(d, b, n, g)
  BY Inserting
<1>2. Insert(d, b) = g[n]
  BY DEF Insert, Inserted
<1> HIDE DEF g, n
<1>3. n \in Nat
  BY DEF n
<1>4. g[0] = d /\ \A i \in 1..n : g[i] = InsertOne(g[i - 1], b[i])
  <2>1. ASSUME NEW i \in 0..n PROVE g[i] = IF i = 0 THEN d ELSE InsertOne(g[i - 1], b[i])
    BY <1>1 DEF Inserted
  <2>2. 0 \in 0..n /\ \A i \in 1..n : i \in 0..n /\ i # 0
    BY <1>3
  <2> QED
    BY <2>1, <2>2
<1> QED
  BY <1>2, <1>4 DEF n, InsertsBy

(* What a step of Insert keeps, and what it leads to. *)
KeysOf(b) == {b[i].key : i \in DOMAIN b}

LEMMA InsertOneAdds ==
  ASSUME NEW d, NEW e
  PROVE  /\ Store!KeysIn(InsertOne(d, e)) = Store!KeysIn(d) \cup {e.key}
         /\ e.key \in Store!KeysIn(d) => InsertOne(d, e) = d
<1>1. CASE e.key \in Store!KeysIn(d)
  BY <1>1 DEF InsertOne
<1>2. CASE e.key \notin Store!KeysIn(d)
  <2> DEFINE x == InsertOne(d, e)
  <2>1. \E n : x.events = d.events \cup {[ev |-> e, seq |-> n]}
    BY <1>2 DEF InsertOne, Store!InsertEvent
  <2>2. PICK n : x.events = d.events \cup {[ev |-> e, seq |-> n]}
    BY <2>1
  <2> HIDE DEF x
  <2>3. [ev |-> e, seq |-> n].ev.key = e.key
    OBVIOUS
  <2>4. Store!KeysIn(x) = Store!KeysIn(d) \cup {e.key}
    BY <2>2, <2>3 DEF Store!KeysIn
  <2> QED
    BY <1>2, <2>4 DEF x
<1> QED
  BY <1>1, <1>2

(* A batch leaves its keys, and the keys there were. *)
LEMMA InsertAdds ==
  ASSUME NEW d, NEW b, Len(b) \in Nat, DOMAIN b = 1..Len(b)
  PROVE  Store!KeysIn(Insert(d, b)) = Store!KeysIn(d) \cup KeysOf(b)
<1> DEFINE n == Len(b)
<1>0. PICK f : InsertsBy(d, b, f)
  BY InsertIs
<1>1. /\ Insert(d, b) = f[n] /\ f[0] = d
      /\ \A i \in 1..n : f[i] = InsertOne(f[i - 1], b[i])
  BY <1>0 DEF InsertsBy
<1> DEFINE Up(m) == Store!KeysIn(f[m]) = Store!KeysIn(d) \cup {b[i].key : i \in 1..m}
           S == {m \in Nat : m <= n => Up(m)}
<1>2. 0 \in S
  BY <1>1
<1>3. ASSUME NEW m \in S PROVE m + 1 \in S
  <2> SUFFICES ASSUME m + 1 <= n PROVE Up(m + 1)
    OBVIOUS
  <2>1. m \in Nat /\ m + 1 \in 1..n /\ (m + 1) - 1 = m /\ Up(m)
    OBVIOUS
  <2>2. f[m + 1] = InsertOne(f[m], b[m + 1])
    BY <1>1, <2>1
  <2>3. Store!KeysIn(f[m + 1]) = Store!KeysIn(f[m]) \cup {b[m + 1].key}
    BY <2>2, InsertOneAdds
  <2>4. 1..(m + 1) = (1..m) \cup {m + 1}
    BY <2>1
  <2> QED
    BY <2>1, <2>3, <2>4
<1>4. S = Nat
  <2> HIDE DEF S
  <2>1. S \in SUBSET Nat
    BY DEF S
  <2> QED
    BY <1>2, <1>3, <2>1, AllNumbers
<1>5. Up(n)
  BY <1>4
<1> QED
  BY <1>1, <1>5 DEF KeysOf

(* What is stored already adds nothing. *)
LEMMA InsertSkips ==
  ASSUME NEW d, NEW b, Len(b) \in Nat, DOMAIN b = 1..Len(b), KeysOf(b) \subseteq Store!KeysIn(d)
  PROVE  Insert(d, b) = d
<1> DEFINE n == Len(b)
<1>0. PICK f : InsertsBy(d, b, f)
  BY InsertIs
<1>1. /\ Insert(d, b) = f[n] /\ f[0] = d
      /\ \A i \in 1..n : f[i] = InsertOne(f[i - 1], b[i])
  BY <1>0 DEF InsertsBy
<1> DEFINE S == {m \in Nat : m <= n => f[m] = d}
<1>2. 0 \in S
  BY <1>1
<1>3. ASSUME NEW m \in S PROVE m + 1 \in S
  <2> SUFFICES ASSUME m + 1 <= n PROVE f[m + 1] = d
    OBVIOUS
  <2>1. m \in Nat /\ m + 1 \in 1..n /\ (m + 1) - 1 = m /\ f[m] = d
    OBVIOUS
  <2>2. f[m + 1] = InsertOne(d, b[m + 1])
    BY <1>1, <2>1
  <2>3. b[m + 1].key \in Store!KeysIn(d)
    BY <2>1 DEF KeysOf
  <2> QED
    BY <2>2, <2>3, InsertOneAdds
<1>4. S = Nat
  <2> HIDE DEF S
  <2>1. S \in SUBSET Nat
    BY DEF S
  <2> QED
    BY <1>2, <1>3, <2>1, AllNumbers
<1>5. f[n] = d
  BY <1>4
<1> QED
  BY <1>1, <1>5
-----------------------------------------------------------------------------
(* Sequences of events: what is in them.                                   *)

(* Two sequences, and four. *)
LEMMA ConcatContents ==
  ASSUME NEW S, NEW p \in Seq(S), NEW q \in Seq(S)
  PROVE  p \o q \in Seq(S) /\ ToSet(p \o q) = ToSet(p) \cup ToSet(q)
<1>1. p \o q \in Seq(S) /\ Len(p \o q) = Len(p) + Len(q)
  OBVIOUS
<1>2. \A i \in 1..Len(p) : i \in 1..Len(p \o q) /\ (p \o q)[i] = p[i]
  OBVIOUS
<1>3. \A i \in 1..Len(q) : Len(p) + i \in 1..Len(p \o q) /\ (p \o q)[Len(p) + i] = q[i]
  OBVIOUS
<1>4. ASSUME NEW i \in 1..Len(p \o q) PROVE (p \o q)[i] \in ToSet(p) \cup ToSet(q)
  <2>1. CASE i \in 1..Len(p)
    BY <2>1 DEF ToSet
  <2>2. CASE i \notin 1..Len(p)
    <3> DEFINE k == i - Len(p)
    <3>1. k \in 1..Len(q) /\ (p \o q)[i] = q[k]
      BY <2>2
    <3> QED
      BY <3>1 DEF ToSet
  <2> QED
    BY <2>1, <2>2
<1>5. DOMAIN p = 1..Len(p) /\ DOMAIN q = 1..Len(q) /\ DOMAIN (p \o q) = 1..Len(p \o q)
  OBVIOUS
<1>6. ToSet(p \o q) \subseteq ToSet(p) \cup ToSet(q)
  BY <1>4, <1>5 DEF ToSet
<1>7. ToSet(p) \subseteq ToSet(p \o q)
  BY <1>2, <1>5 DEF ToSet
<1>8. ToSet(q) \subseteq ToSet(p \o q)
  BY <1>3, <1>5 DEF ToSet
<1> QED
  BY <1>1, <1>6, <1>7, <1>8

LEMMA ConcatSequences ==
  ASSUME NEW a, NEW b, NEW c, NEW d, IsSequence(a), IsSequence(b), IsSequence(c), IsSequence(d)
  PROVE  ToSet(a \o b \o c \o d) = ToSet(a) \cup ToSet(b) \cup ToSet(c) \cup ToSet(d)
<1> DEFINE S == ToSet(a) \cup ToSet(b) \cup ToSet(c) \cup ToSet(d)
<1>1. ToSet(a) \subseteq S /\ ToSet(b) \subseteq S /\ ToSet(c) \subseteq S /\ ToSet(d) \subseteq S
  OBVIOUS
<1> HIDE DEF S
<1>2. a \in Seq(S) /\ b \in Seq(S) /\ c \in Seq(S) /\ d \in Seq(S)
  BY <1>1 DEF IsSequence
<1> DEFINE ab == a \o b
           abc == ab \o c
<1>3. ab \in Seq(S) /\ ToSet(ab) = ToSet(a) \cup ToSet(b)
  BY <1>2, ConcatContents
<1> HIDE DEF ab
<1>4. abc \in Seq(S) /\ ToSet(abc) = ToSet(ab) \cup ToSet(c)
  BY <1>2, <1>3, ConcatContents
<1> HIDE DEF abc
<1>5. ToSet(abc \o d) = ToSet(abc) \cup ToSet(d)
  BY <1>2, <1>4, ConcatContents
<1> QED
  BY <1>3, <1>4, <1>5 DEF ab, abc

Flat(q, n, f) == f = [i \in 1..n |-> IF i = 1 THEN q[i] ELSE f[i - 1] \o q[i]]

(* What FlattenSeq computes, one sequence after the other. *)
LEMMA Flattening ==
  ASSUME NEW q, NEW n \in Nat
  PROVE  \E f : Flat(q, n, f)
<1> DEFINE S == {m \in Nat : \E f : Flat(q, m, f)}
<1>1. 0 \in S
  <2> DEFINE f == [i \in 1..0 |-> q]
  <2>1. f = [i \in 1..0 |-> IF i = 1 THEN q[i] ELSE f[i - 1] \o q[i]]
    <3>1. 1..0 = {}
      OBVIOUS
    <3> QED
      BY <3>1
  <2> HIDE DEF f
  <2> QED
    BY <2>1 DEF Flat
<1>2. ASSUME NEW m \in S PROVE m + 1 \in S
  <2>1. m \in Nat
    OBVIOUS
  <2>2. PICK f : Flat(q, m, f)
    OBVIOUS
  <2> DEFINE last == IF m = 0 THEN q[1] ELSE f[m] \o q[m + 1]
             g == [i \in 1..(m + 1) |-> IF i = m + 1 THEN last ELSE f[i]]
  <2>3. ASSUME NEW i \in 1..(m + 1)
        PROVE  g[i] = IF i = 1 THEN q[i] ELSE g[i - 1] \o q[i]
    <3>1. CASE i = m + 1
      <4>1. g[i] = last /\ i - 1 = m /\ (i = 1 <=> m = 0)
        BY <2>1, <3>1
      <4>2. m # 0 => g[m] = f[m]
        BY <2>1
      <4> HIDE DEF g
      <4> QED
        BY <3>1, <4>1, <4>2
    <3>2. CASE i # m + 1
      <4>1. i \in 1..m /\ g[i] = f[i]
        BY <2>1, <3>2
      <4>2. i # 1 => i - 1 \in 1..m /\ i - 1 # m + 1 /\ i - 1 \in 1..(m + 1)
        BY <2>1, <4>1
      <4>3. i # 1 => g[i - 1] = f[i - 1]
        BY <4>2
      <4>4. f[i] = IF i = 1 THEN q[i] ELSE f[i - 1] \o q[i]
        BY <2>2, <4>1 DEF Flat
      <4> HIDE DEF g
      <4> QED
        BY <4>1, <4>3, <4>4
    <3> QED
      BY <3>1, <3>2
  <2>4. g = [i \in 1..(m + 1) |-> g[i]]
    OBVIOUS
  <2> HIDE DEF g
  <2>5. Flat(q, m + 1, g)
    BY <2>3, <2>4 DEF Flat
  <2> QED
    BY <2>1, <2>5
<1>3. S = Nat
  <2> HIDE DEF S
  <2>1. S \in SUBSET Nat
    BY DEF S
  <2> QED
    BY <1>1, <1>2, <2>1, AllNumbers
<1> QED
  BY <1>3

(* A sequence of sequences, one after the other. *)
LEMMA FlattenContents ==
  ASSUME NEW S, NEW q \in Seq(Seq(S))
  PROVE  /\ FlattenSeq(q) \in Seq(S)
         /\ ToSet(FlattenSeq(q)) = UNION {ToSet(q[i]) : i \in DOMAIN q}
<1> DEFINE n == Len(q)
<1>1. n \in Nat /\ DOMAIN q = 1..n /\ \A i \in 1..n : q[i] \in Seq(S)
  OBVIOUS
<1>2. CASE n = 0
  <2>1. q = <<>> /\ FlattenSeq(q) = <<>>
    BY <1>2 DEF FlattenSeq
  <2>2. ToSet(FlattenSeq(q)) = {} /\ DOMAIN q = {}
    BY <2>1 DEF ToSet
  <2>3. UNION {ToSet(q[i]) : i \in DOMAIN q} = {}
    BY <2>2
  <2>4. <<>> \in Seq(S)
    OBVIOUS
  <2> QED
    BY <2>1, <2>2, <2>3, <2>4
<1>3. CASE n # 0
  <2> DEFINE f == CHOOSE g : Flat(q, n, g)
  <2>1. Flat(q, n, f)
    BY <1>1, Flattening
  <2>2. FlattenSeq(q) = f[n]
    BY <1>3 DEF FlattenSeq, Flat
  <2> HIDE DEF f
  <2>3. ASSUME NEW i \in 1..n PROVE f[i] = IF i = 1 THEN q[i] ELSE f[i - 1] \o q[i]
    BY <2>1 DEF Flat
  <2> DEFINE Up(m) == f[m] \in Seq(S) /\ ToSet(f[m]) = UNION {ToSet(q[i]) : i \in 1..m}
             N == {m \in Nat : m + 1 <= n => Up(m + 1)}
  <2> HIDE DEF n
  <2>4. 0 \in N
    <3>1. 1 \in 1..n /\ 1..1 = {1}
      BY <1>1, <1>3
    <3>2. f[1] = q[1] /\ q[1] \in Seq(S)
      BY <1>1, <2>3, <3>1
    <3>3. Up(1)
      BY <3>1, <3>2
    <3> QED
      BY <3>3
  <2>5. ASSUME NEW m \in N PROVE m + 1 \in N
    <3>1. m \in Nat /\ (m + 1 <= n => Up(m + 1))
      OBVIOUS
    <3> DEFINE k == m + 1
    <3>2. ASSUME k + 1 <= n PROVE Up(k + 1)
      <4>1. k + 1 \in 1..n /\ k + 1 # 1 /\ (k + 1) - 1 = k /\ k <= n /\ k \in Nat
        BY <1>1, <3>1, <3>2
      <4>2. f[k] \in Seq(S) /\ ToSet(f[k]) = UNION {ToSet(q[i]) : i \in 1..k}
        BY <3>1, <4>1
      <4> HIDE DEF k
      <4>3. f[k + 1] = f[k] \o q[k + 1]
        BY <2>3, <4>1
      <4>4. q[k + 1] \in Seq(S)
        BY <1>1, <4>1
      <4>5. f[k + 1] \in Seq(S) /\ ToSet(f[k + 1]) = ToSet(f[k]) \cup ToSet(q[k + 1])
        BY <4>2, <4>3, <4>4, ConcatContents
      <4>6. 1..(k + 1) = (1..k) \cup {k + 1}
        BY <4>1
      <4>7. UNION {ToSet(q[i]) : i \in 1..(k + 1)} =
              (UNION {ToSet(q[i]) : i \in 1..k}) \cup ToSet(q[k + 1])
        BY <4>6
      <4> QED
        BY <4>2, <4>5, <4>7
    <3> QED
      BY <3>1, <3>2
  <2>6. N = Nat
    <3> HIDE DEF N
    <3>1. N \in SUBSET Nat
      BY DEF N
    <3> QED
      BY <2>4, <2>5, <3>1, AllNumbers
  <2>7. Up(n)
    <3>1. n - 1 \in Nat /\ (n - 1) + 1 = n
      BY <1>1, <1>3
    <3>2. n - 1 \in N
      BY <2>6, <3>1
    <3> HIDE DEF Up
    <3> QED
      BY <1>1, <3>1, <3>2
  <2> QED
    BY <1>1, <2>2, <2>7
<1> QED
  BY <1>2, <1>3

(* Sorting gives every event a place of its own, and equal times stay in   *)
(* their order.                                                            *)
Places(es, place) ==
  /\ place \in [DOMAIN es -> DOMAIN es]
  /\ \A k \in DOMAIN es : \E i \in DOMAIN es : place[i] = k
  /\ \A i \in DOMAIN es : SortByTime(es)[place[i]] = es[i]
  /\ \A i, j \in DOMAIN es : es[i].at = es[j].at /\ i < j => place[i] < place[j]

LEMMA SortPlaces ==
  ASSUME NEW S, NEW es \in Seq(S), \A i \in DOMAIN es : es[i].at \in Nat
  PROVE  DOMAIN SortByTime(es) = DOMAIN es /\ \E place : Places(es, place)
<1> DEFINE n == Len(es)
           D == DOMAIN es
           Sooner(i, j) == es[i].at < es[j].at \/ (es[i].at = es[j].at /\ i < j)
           Below(i) == {j \in D : Sooner(j, i)}
           Rank(i) == Cardinality(Below(i)) + 1
           sorted == [k \in D |-> es[CHOOSE i \in D : Rank(i) = k]]
<1>1. n \in Nat /\ D = 1..n /\ \A i \in D : es[i].at \in Nat
  OBVIOUS
<1>2. \A i, j \in D : es[i].at = es[j].at /\ i < j => Sooner(i, j)
  OBVIOUS
<1>3. SortByTime(es) = sorted
  BY DEF SortByTime
<1>4. IsFiniteSet(D) /\ Cardinality(D) = n
  <2>1. 1 \in Int /\ n \in Int
    BY <1>1
  <2> HIDE DEF n
  <2>2. IsFiniteSet(1..n) /\ Cardinality(1..n) = IF 1 > n THEN 0 ELSE n - 1 + 1
    BY <2>1, FS_Interval
  <2> QED
    BY <1>1, <2>2
<1>5. ASSUME NEW i \in D PROVE ~Sooner(i, i)
  BY <1>1, <1>5
<1>6. ASSUME NEW i \in D, NEW j \in D, i # j PROVE Sooner(i, j) \/ Sooner(j, i)
  <2>1. es[i].at \in Nat /\ es[j].at \in Nat /\ i \in Nat /\ j \in Nat
    BY <1>1, <1>6
  <2> QED
    BY <1>6, <2>1
<1>7. ASSUME NEW i \in D, NEW j \in D, NEW k \in D, Sooner(i, j), Sooner(j, k) PROVE Sooner(i, k)
  <2>1. /\ es[i].at \in Nat /\ es[j].at \in Nat /\ es[k].at \in Nat
        /\ i \in Nat /\ j \in Nat /\ k \in Nat
    BY <1>1, <1>7
  <2> QED
    BY <1>7, <2>1
<1> HIDE DEF n, D, Sooner
<1>8. ASSUME NEW i \in D
      PROVE  /\ Below(i) \subseteq D /\ i \notin Below(i)
             /\ IsFiniteSet(Below(i)) /\ Cardinality(Below(i)) \in Nat
             /\ Cardinality(Below(i) \cup {i}) = Rank(i)
  <2>1. Below(i) \subseteq D /\ i \notin Below(i)
    BY <1>5
  <2>2. IsFiniteSet(Below(i))
    BY <1>4, <2>1, FS_Subset
  <2> QED
    BY <2>1, <2>2, FS_CardinalityType, FS_AddElement
<1>9. ASSUME NEW i \in D PROVE Rank(i) \in D
  <2>1. Below(i) \cup {i} \in SUBSET D
    BY <1>8
  <2> HIDE DEF Below
  <2>2. Cardinality(Below(i) \cup {i}) <= n
    BY <1>4, <2>1, FS_Subset
  <2> QED
    BY <1>1, <1>8, <2>2 DEF D
<1>10. ASSUME NEW i \in D, NEW j \in D, Sooner(i, j) PROVE Rank(i) < Rank(j)
  <2>1. Below(i) \cup {i} \in SUBSET Below(j)
    BY <1>7, <1>10
  <2>5. Cardinality(Below(i)) \in Nat
    BY <1>8
  <2>2. IsFiniteSet(Below(j))
    BY <1>8
  <2>3. Cardinality(Below(i) \cup {i}) = Rank(i) /\ Cardinality(Below(j)) \in Nat
    BY <1>8
  <2> HIDE DEF Below
  <2>4. Cardinality(Below(i) \cup {i}) <= Cardinality(Below(j))
    BY <2>1, <2>2, FS_Subset
  <2> QED
    BY <2>3, <2>4, <2>5
<1>11. \A i, j \in D : Rank(i) = Rank(j) => i = j
  <2> SUFFICES ASSUME NEW i \in D, NEW j \in D, i # j PROVE Rank(i) # Rank(j)
    OBVIOUS
  <2>1. Rank(i) \in Nat /\ Rank(j) \in Nat
    BY <1>9 DEF D
  <2>2. Rank(i) < Rank(j) \/ Rank(j) < Rank(i)
    BY <1>6, <1>10
  <2> QED
    BY <2>1, <2>2
<1> DEFINE rank == [i \in D |-> Rank(i)]
<1> HIDE DEF Rank
<1>12. rank \in Injection(D, D)
  BY <1>9, <1>11 DEF Injection, IsInjective
<1>13. \A k \in D : \E i \in D : Rank(i) = k
  <2>1. rank \in Surjection(D, D)
    BY <1>4, <1>12, FS_Injection
  <2> QED
    BY <2>1 DEF Surjection
<1>14. ASSUME NEW i \in D PROVE sorted[Rank(i)] = es[i]
  <2>1. Rank(i) \in D
    BY <1>9
  <2> DEFINE m == CHOOSE m \in D : Rank(m) = Rank(i)
  <2>2. m \in D /\ Rank(m) = Rank(i)
    OBVIOUS
  <2> HIDE DEF m
  <2>3. m = i
    BY <1>11, <2>2
  <2> QED
    BY <2>1, <2>3 DEF m
<1>15. DOMAIN sorted = D
  OBVIOUS
<1> HIDE DEF sorted
<1>16. \A i \in D : rank[i] = Rank(i)
  OBVIOUS
<1> HIDE DEF rank
<1>17. rank \in [D -> D]
  BY <1>12 DEF Injection
<1>18. \A i, j \in D : es[i].at = es[j].at /\ i < j => rank[i] < rank[j]
  BY <1>2, <1>10, <1>16
<1>19. /\ \A k \in D : \E i \in D : rank[i] = k
       /\ \A i \in D : SortByTime(es)[rank[i]] = es[i]
  BY <1>3, <1>13, <1>14, <1>16
<1>20. Places(es, rank)
  BY <1>17, <1>18, <1>19 DEF Places, D
<1> QED
  BY <1>3, <1>15, <1>20 DEF D

(* Sorting keeps what is there. *)
LEMMA SortContents ==
  ASSUME NEW S, NEW es \in Seq(S), \A i \in DOMAIN es : es[i].at \in Nat
  PROVE  SortByTime(es) \in Seq(S) /\ ToSet(SortByTime(es)) = ToSet(es)
<1> DEFINE D == DOMAIN es
           sorted == SortByTime(es)
<1>1. Len(es) \in Nat /\ D = 1..Len(es) /\ \A i \in D : es[i] \in S
  OBVIOUS
<1>2. DOMAIN sorted = D /\ \E place : Places(es, place)
  BY SortPlaces
<1>3. PICK place : Places(es, place)
  BY <1>2
<1>4. sorted = [k \in D |-> sorted[k]]
  BY <1>2 DEF SortByTime
<1> HIDE DEF sorted, D
<1>5. \A k \in D : \E i \in D : sorted[k] = es[i]
  BY <1>3 DEF Places, D, sorted
<1>6. \A i \in D : \E k \in D : sorted[k] = es[i]
  BY <1>3 DEF Places, D, sorted
<1>7. sorted \in [D -> S]
  BY <1>1, <1>4, <1>5
<1>8. sorted \in Seq(S)
  <2> DEFINE n == Len(es)
  <2>1. n \in Nat /\ sorted \in [1..n -> S]
    BY <1>1, <1>7
  <2> HIDE DEF n
  <2> QED
    BY <2>1
<1>9. ToSet(sorted) = {sorted[k] : k \in D} /\ ToSet(es) = {es[i] : i \in D}
  BY <1>2 DEF ToSet, D
<1> QED
  BY <1>5, <1>6, <1>8, <1>9 DEF sorted
-----------------------------------------------------------------------------
(* What the items of a request become: events with a time, and, for items  *)
(* that say when they happened, the same whatever the clock says.          *)

AreEvents(q) == IsSequence(q) /\ \A e \in ToSet(q) : e.at \in Nat /\ e.status # "absent"

LEMMA SequenceOf ==
  ASSUME NEW S, NEW q \in Seq(S)
  PROVE  IsSequence(q) /\ ToSet(q) \subseteq S
<1>1. q \in [1..Len(q) -> ToSet(q)] /\ Len(q) \in Nat
  <2>1. q = [i \in 1..Len(q) |-> q[i]] /\ Len(q) \in Nat /\ DOMAIN q = 1..Len(q)
    OBVIOUS
  <2> QED
    BY <2>1 DEF ToSet
<1>2. \A i \in DOMAIN q : q[i] \in S
  OBVIOUS
<1> QED
  BY <1>1, <1>2 DEF IsSequence, ToSet

LEMMA OneEvent == \A e : IsSequence(<<e>>) /\ ToSet(<<e>>) = {e}
<1> SUFFICES ASSUME NEW e PROVE IsSequence(<<e>>) /\ ToSet(<<e>>) = {e}
  OBVIOUS
<1>1. ToSet(<<e>>) = {e}
  BY DEF ToSet
<1> QED
  BY <1>1 DEF IsSequence

(* A span has the times its exporter gave it, or the clock. *)
LEMMA SpanHasATime ==
  ASSUME NEW s, s.start \in Nat, s.end \in Nat, NEW t \in Nat
  PROVE  /\ SpanTime(s, t) \in Nat
         /\ s.start + s.end > 0 => \A u : SpanTime(s, t) = SpanTime(s, u)
<1>1. CASE s.start > 0
  BY <1>1 DEF SpanTime
<1>2. CASE s.start = 0 /\ s.end > 0
  BY <1>2 DEF SpanTime
<1>3. CASE s.start = 0 /\ s.end = 0
  BY <1>3 DEF SpanTime
<1> QED
  BY <1>1, <1>2, <1>3

LEMMA SpanIsClockless ==
  ASSUME NEW s, NEW source, NEW t, NEW u, SpanTime(s, t) = SpanTime(s, u)
  PROVE  SpanEvents(s, source, t) = SpanEvents(s, source, u)
<1>1. SpanId(s, t) = SpanId(s, u)
  BY DEF SpanId
<1>2. RunIdentifier(s, source, t) = RunIdentifier(s, source, u)
  BY <1>1 DEF RunIdentifier
<1> QED
  BY <1>1, <1>2 DEF SpanEvents

LEMMA SpanIsEvents ==
  ASSUME NEW s, s.start \in Nat, s.end \in Nat, NEW source, NEW t \in Nat
  PROVE  AreEvents(SpanEvents(s, source, t))
<1> DEFINE run == RunIdentifier(s, source, t)
           at == SpanTime(s, t)
           id == SpanId(s, t)
           terminal == TerminalType(s)
           V == [run : {run}, step : {None, Append(id, "request"), id},
                 type : {"run.started", "model.requested", "model.completed", terminal,
                         "source.extension"},
                 status : {"started", "completed", "failed", "unknown"}, at : {at}]
           started == IF s.root THEN <<NewEvent(run, None, "run.started", "started", at)>> ELSE <<>>
           requested == IF s.op \in ModelOperations \ {"embeddings"}
                        THEN <<NewEvent(run, Append(id, "request"), "model.requested", "started", at)>>
                        ELSE <<>>
           completed == IF s.op \in ModelOperations
                        THEN <<NewEvent(run, Append(id, "request"), "model.completed", SpanStatus(s), at)>>
                        ELSE <<>>
           ended == CASE terminal = None -> <<>>
                      [] terminal = "run.completed" ->
                           <<NewEvent(run, None, terminal, "completed", at)>>
                      [] OTHER -> <<NewEvent(run, id, terminal, "failed", at)>>
           all == started \o requested \o completed \o ended
           other == <<NewEvent(run, id, "source.extension", "unknown", at)>>
<1>1. SpanEvents(s, source, t) = IF all # <<>> THEN all ELSE other
  BY DEF SpanEvents
<1>2. at \in Nat
  BY SpanHasATime
<1>3. SpanStatus(s) \in {"started", "completed", "failed", "unknown"}
  BY DEF SpanStatus
<1> HIDE DEF run, at, id, terminal
<1>4. \A step \in {None, Append(id, "request"), id},
         type \in {"run.started", "model.requested", "model.completed", terminal, "source.extension"},
         status \in {"started", "completed", "failed", "unknown"} :
        NewEvent(run, step, type, status, at) \in V
  BY DEF NewEvent
<1>5. \A e \in V : e.at \in Nat /\ e.status # "absent"
  BY <1>2
<1> HIDE DEF V
<1>6. <<>> \in Seq(V) /\ \A e \in V : <<e>> \in Seq(V)
  OBVIOUS
<1>7. started \in Seq(V) /\ requested \in Seq(V) /\ other \in Seq(V)
  BY <1>4, <1>6
<1>8. completed \in Seq(V) /\ ended \in Seq(V)
  BY <1>3, <1>4, <1>6
<1> HIDE DEF started, requested, completed, ended, other
<1>9. all \in Seq(V)
  BY <1>7, <1>8
<1> HIDE DEF all
<1>10. SpanEvents(s, source, t) \in Seq(V)
  BY <1>1, <1>7, <1>9
<1> QED
  BY <1>5, <1>10, SequenceOf DEF AreEvents

(* An item of a well-formed request. *)
ItemIn(r, g, x) ==
  /\ r \in Requests /\ r.signal # "hook"
  /\ g \in ToSet(r.groups) /\ x \in ToSet(g.items)

(* An item of a request. *)
LEMMA ItemsHaveTimes ==
  ASSUME NEW r, NEW g, NEW x, ItemIn(r, g, x)
  PROVE  \/ r.signal = "otlp-traces" /\ x.start \in Nat /\ x.end \in Nat
         \/ r.signal = "otlp-logs" /\ x.time \in Nat
         \/ r.signal = "otlp-metrics"
<1>1. CASE r.signal = "otlp-traces"
  BY <1>1, TelemetryAssumption DEF ItemIn, WellFormed
<1>2. CASE r.signal = "otlp-logs"
  BY <1>2, TelemetryAssumption DEF ItemIn, WellFormed
<1>3. CASE r.signal \notin {"otlp-traces", "otlp-logs"}
  BY <1>3, TelemetryAssumption DEF ItemIn, WellFormed
<1> QED
  BY <1>1, <1>2, <1>3

LEMMA ItemIsEvents ==
  ASSUME NEW r, NEW g, NEW x, ItemIn(r, g, x), NEW source, NEW t \in Nat
  PROVE  AreEvents(ItemEvents(r, g, x, source, t))
<1>1. CASE r.signal = "otlp-traces" /\ x.start \in Nat /\ x.end \in Nat
  BY <1>1, SpanIsEvents DEF ItemEvents
<1>2. CASE r.signal = "otlp-logs" /\ x.time \in Nat
  <2>1. \E e : /\ ItemEvents(r, g, x, source, t) = <<e>>
               /\ e.at \in {x.time, t} /\ e.status # "absent"
    BY <1>2 DEF ItemEvents, LogEvents, NewEvent
  <2> QED
    BY <1>2, <2>1, OneEvent DEF AreEvents
<1>3. CASE r.signal = "otlp-metrics"
  <2>1. \E e : ItemEvents(r, g, x, source, t) = <<e>> /\ e.at = t /\ e.status # "absent"
    BY <1>3 DEF ItemEvents, MetricEvents, NewEvent
  <2> QED
    BY <2>1, OneEvent DEF AreEvents
<1> QED
  BY <1>1, <1>2, <1>3, ItemsHaveTimes

LEMMA ItemIsClockless ==
  ASSUME NEW r, NEW g, NEW x, ItemIn(r, g, x), Timed(r), NEW source,
         NEW t \in Nat, NEW u \in Nat
  PROVE  ItemEvents(r, g, x, source, t) = ItemEvents(r, g, x, source, u)
<1>1. x \in Items(r) /\ r.signal # "otlp-metrics"
  <2>1. \E i \in DOMAIN r.groups : g = r.groups[i]
    BY DEF ItemIn, ToSet
  <2> QED
    BY <2>1 DEF ItemIn, Items, Timed
<1>2. CASE r.signal = "otlp-traces" /\ x.start \in Nat /\ x.end \in Nat
  <2>1. SpanTime(x, t) = SpanTime(x, u)
    BY <1>1, <1>2, SpanHasATime DEF Timed
  <2> QED
    BY <1>2, <2>1, SpanIsClockless DEF ItemEvents
<1>3. CASE r.signal = "otlp-logs"
  <2>1. x.time > 0
    BY <1>1, <1>3 DEF Timed
  <2> QED
    BY <1>3, <2>1 DEF ItemEvents, LogEvents
<1> QED
  BY <1>1, <1>2, <1>3, ItemsHaveTimes

(* A list of lists of events. *)
LEMMA FlattenEvents ==
  ASSUME NEW q, IsSequence(q), \A p \in ToSet(q) : AreEvents(p)
  PROVE  /\ AreEvents(FlattenSeq(q))
         /\ \A e : e \in ToSet(FlattenSeq(q)) <=> \E p \in ToSet(q) : e \in ToSet(p)
<1> DEFINE S == UNION {ToSet(p) : p \in ToSet(q)}
<1>1. q \in Seq(ToSet(q))
  BY DEF IsSequence
<1>2. \A p \in ToSet(q) : p \in Seq(S)
  <2> SUFFICES ASSUME NEW p \in ToSet(q) PROVE p \in Seq(S)
    OBVIOUS
  <2>1. p \in Seq(ToSet(p)) /\ ToSet(p) \subseteq S
    BY DEF AreEvents, IsSequence
  <2> HIDE DEF S
  <2> QED
    BY <2>1
<1>3. \A e : e \in S <=> \E p \in ToSet(q) : e \in ToSet(p)
  OBVIOUS
<1>4. UNION {ToSet(q[i]) : i \in DOMAIN q} = S
  BY DEF ToSet
<1> HIDE DEF S
<1>5. q \in Seq(Seq(S))
  BY <1>1, <1>2
<1>6. FlattenSeq(q) \in Seq(S) /\ ToSet(FlattenSeq(q)) = S
  BY <1>4, <1>5, FlattenContents
<1>7. \A e \in S : e.at \in Nat /\ e.status # "absent"
  BY <1>3 DEF AreEvents
<1> QED
  BY <1>3, <1>6, <1>7 DEF AreEvents, IsSequence

(* A group and a request of groups have the events of their items. *)
LEMMA GroupIsEvents ==
  ASSUME NEW r \in Requests, r.signal # "hook", NEW g \in ToSet(r.groups), NEW source, NEW t \in Nat
  PROVE  /\ AreEvents(GroupEvents(r, g, source, t))
         /\ \A e : e \in ToSet(GroupEvents(r, g, source, t))
                     <=> \E x \in ToSet(g.items) : e \in ToSet(ItemEvents(r, g, x, source, t))
<1> DEFINE q == [i \in DOMAIN g.items |-> ItemEvents(r, g, g.items[i], source, t)]
<1>1. IsSequence(g.items)
  BY TelemetryAssumption DEF WellFormed
<1>2. ToSet(q) = {ItemEvents(r, g, x, source, t) : x \in ToSet(g.items)}
  BY DEF ToSet
<1>3. DOMAIN g.items = 1..Len(g.items) /\ Len(g.items) \in Nat
  BY <1>1 DEF IsSequence
<1>4. IsSequence(q)
  <2> DEFINE n == Len(g.items)
  <2>1. q \in [1..n -> ToSet(q)] /\ n \in Nat
    BY <1>3 DEF ToSet
  <2> HIDE DEF q, n
  <2> QED
    BY <2>1 DEF IsSequence
<1>5. \A p \in ToSet(q) : AreEvents(p)
  BY <1>2, ItemIsEvents DEF ItemIn
<1>6. GroupEvents(r, g, source, t) = FlattenSeq(q)
  BY DEF GroupEvents
<1> HIDE DEF q
<1>7. /\ AreEvents(FlattenSeq(q))
      /\ \A e : e \in ToSet(FlattenSeq(q)) <=> \E p \in ToSet(q) : e \in ToSet(p)
  BY <1>4, <1>5, FlattenEvents
<1> QED
  BY <1>2, <1>6, <1>7

LEMMA NormalizeIsEvents ==
  ASSUME NEW r \in Requests, r.signal # "hook", NEW source, NEW t \in Nat
  PROVE  /\ AreEvents(Normalize(r, source, t))
         /\ \A e : e \in ToSet(Normalize(r, source, t))
                     <=> \E g \in ToSet(r.groups) :
                           \E x \in ToSet(g.items) : e \in ToSet(ItemEvents(r, g, x, source, t))
<1> DEFINE q == [i \in DOMAIN r.groups |-> GroupEvents(r, r.groups[i], source, t)]
<1>1. IsSequence(r.groups)
  BY TelemetryAssumption DEF WellFormed
<1>2. ToSet(q) = {GroupEvents(r, g, source, t) : g \in ToSet(r.groups)}
  BY DEF ToSet
<1>3. DOMAIN r.groups = 1..Len(r.groups) /\ Len(r.groups) \in Nat
  BY <1>1 DEF IsSequence
<1>4. IsSequence(q)
  <2> DEFINE n == Len(r.groups)
  <2>1. q \in [1..n -> ToSet(q)] /\ n \in Nat
    BY <1>3 DEF ToSet
  <2> HIDE DEF q, n
  <2> QED
    BY <2>1 DEF IsSequence
<1>5. \A p \in ToSet(q) : AreEvents(p)
  BY <1>2, GroupIsEvents
<1>6. Normalize(r, source, t) = SortByTime(FlattenSeq(q))
  BY DEF Normalize
<1> HIDE DEF q
<1> DEFINE f == FlattenSeq(q)
<1>7. AreEvents(f) /\ \A e : e \in ToSet(f) <=> \E p \in ToSet(q) : e \in ToSet(p)
  BY <1>4, <1>5, FlattenEvents
<1> HIDE DEF f
<1>8. f \in Seq(ToSet(f)) /\ \A i \in DOMAIN f : f[i].at \in Nat
  BY <1>7 DEF AreEvents, IsSequence, ToSet
<1>9. SortByTime(f) \in Seq(ToSet(f)) /\ ToSet(SortByTime(f)) = ToSet(f)
  BY <1>8, SortContents
<1>10. AreEvents(SortByTime(f))
  BY <1>7, <1>9 DEF AreEvents, IsSequence
<1>11. \A e : e \in ToSet(SortByTime(f))
                <=> \E g \in ToSet(r.groups) : e \in ToSet(GroupEvents(r, g, source, t))
  BY <1>2, <1>7, <1>9
<1> QED
  BY <1>6, <1>10, <1>11, GroupIsEvents DEF f

LEMMA NormalizeIsClockless ==
  ASSUME NEW r \in Requests, r.signal # "hook", Timed(r), NEW source, NEW t \in Nat, NEW u \in Nat
  PROVE  Normalize(r, source, t) = Normalize(r, source, u)
<1>1. ASSUME NEW g \in ToSet(r.groups) PROVE GroupEvents(r, g, source, t) = GroupEvents(r, g, source, u)
  <2>1. \A i \in DOMAIN g.items :
          ItemEvents(r, g, g.items[i], source, t) = ItemEvents(r, g, g.items[i], source, u)
    <3> SUFFICES ASSUME NEW i \in DOMAIN g.items
                 PROVE  ItemEvents(r, g, g.items[i], source, t) = ItemEvents(r, g, g.items[i], source, u)
      OBVIOUS
    <3>1. ItemIn(r, g, g.items[i])
      BY DEF ItemIn, ToSet
    <3> QED
      BY <3>1, ItemIsClockless
  <2> QED
    BY <2>1 DEF GroupEvents
<1>2. \A i \in DOMAIN r.groups :
        GroupEvents(r, r.groups[i], source, t) = GroupEvents(r, r.groups[i], source, u)
  BY <1>1 DEF ToSet
<1> QED
  BY <1>2 DEF Normalize

(* The types that rules give, by the name they are given for. *)
LEMMA RuleEnds ==
  ASSUME NEW c
  PROVE  /\ c \in {"session.end", "run.completed"} => Rule(c)[1] = "run.completed"
         /\ c \in {"session.error", "run.failed"} => Rule(c)[1] = "run.failed"
         /\ c \in {"session.idle", "run.incomplete"} => Rule(c)[1] = "run.incomplete"
         /\ c = "run.cancelled" => Rule(c)[1] = "run.cancelled"
         /\ c \notin {"session.end", "run.completed", "session.error", "run.failed",
                      "session.idle", "run.incomplete", "run.cancelled"} =>
              Rule(c)[1] \notin Store!RunEnding
         /\ Rule(c)[2] # "absent"
<1>1. /\ c \in {"session.end", "run.completed"} => Rule(c)[1] = "run.completed"
      /\ c \in {"session.error", "run.failed"} => Rule(c)[1] = "run.failed"
      /\ c \in {"session.idle", "run.incomplete"} => Rule(c)[1] = "run.incomplete"
      /\ c = "run.cancelled" => Rule(c)[1] = "run.cancelled"
  BY DEF Rule, KnownTypes
<1>2. ASSUME c \notin {"session.end", "run.completed", "session.error", "run.failed",
                       "session.idle", "run.incomplete", "run.cancelled"}
      PROVE  Rule(c)[1] \notin Store!RunEnding
  BY <1>2 DEF Rule, KnownTypes, Store!RunEnding
<1>3. Rule(c)[2] # "absent"
  BY DEF Rule
<1> QED
  BY <1>1, <1>2, <1>3

(* The event of a payload. *)
MappedEvent(p, t) ==
  LET rule == Rule(Canonical(p.source, p.name))
  IN NewEvent(<<p.session>>, IF rule[3] /\ p.step # None THEN <<p.step>> ELSE None, rule[1], rule[2],
              IF p.time > 0 THEN p.time ELSE t)

UnmappedEvent(p, t) ==
  NewEvent(<<p.source, "unattributed">>, None, "source.extension", "unknown", t)

LEMMA PayloadIs ==
  ASSUME NEW p, NEW t
  PROVE  HookEvents(p, t) = IF p.session = None \/ p.name = None THEN <<UnmappedEvent(p, t)>>
                            ELSE <<MappedEvent(p, t)>>
BY Zenon DEF HookEvents, UnmappedEvent, MappedEvent

LEMMA PayloadIsEvent ==
  ASSUME NEW p, NEW t
  PROVE  \E x : /\ HookEvents(p, t) = <<x>>
                /\ x.at \in {p.time, t} /\ x.status # "absent"
<1>1. UnmappedEvent(p, t).at = t /\ UnmappedEvent(p, t).status = "unknown"
  BY DEF UnmappedEvent, NewEvent
<1>2. /\ MappedEvent(p, t).at \in {p.time, t}
      /\ MappedEvent(p, t).status = Rule(Canonical(p.source, p.name))[2]
  BY DEF MappedEvent, NewEvent
<1>3. MappedEvent(p, t).status # "absent"
  BY <1>2, RuleEnds
<1> QED
  BY <1>1, <1>2, <1>3, PayloadIs

LEMMA RequestIsEvents ==
  ASSUME NEW r \in Requests, NEW t \in Nat
  PROVE  /\ AreEvents(EventsOf(r, t))
         /\ Timed(r) => \A u \in Nat : EventsOf(r, t) = EventsOf(r, u)
<1>1. CASE r.signal # "hook"
  BY <1>1, NormalizeIsEvents, NormalizeIsClockless DEF EventsOf
<1>2. CASE r.signal = "hook"
  <2> DEFINE p == r.payload
  <2>1. p.time \in Nat
    BY <1>2, TelemetryAssumption DEF WellFormed
  <2>2. PICK x : /\ EventsOf(r, t) = <<x>>
                 /\ x.at \in {p.time, t} /\ x.status # "absent"
    BY <1>2, PayloadIsEvent DEF EventsOf
  <2>3. AreEvents(EventsOf(r, t))
    BY <2>1, <2>2, OneEvent DEF AreEvents
  <2>4. Timed(r) => p.time > 0 /\ p.session # None /\ p.name # None
    BY <1>2 DEF Timed
  <2>5. p.time > 0 /\ p.session # None /\ p.name # None =>
          \A u \in Nat : HookEvents(p, t) = HookEvents(p, u)
    BY DEF HookEvents
  <2> QED
    BY <1>2, <2>3, <2>4, <2>5 DEF EventsOf
<1> QED
  BY <1>1, <1>2

(* Its batch is the beginning of its events. *)
LEMMA BatchPlaces ==
  ASSUME NEW r \in Requests, NEW t \in 0..MaxTime
  PROVE  LET es == EventsOf(r, t)
             b == Batch(r, t)
         IN /\ BatchOf[r][t] = b
            /\ es \in Seq(ToSet(es))
            /\ Len(b) \in 0..Len(es) /\ DOMAIN b = 1..Len(b)
            /\ \A i \in 1..Len(b) : b[i] = Prepare(r, es[i], t)
            /\ SourceOf(r) \notin Off /\ Len(es) <= MaxEvents => Len(b) = Len(es)
            /\ SourceOf(r) \in Off => Len(b) = 0
<1> DEFINE es == EventsOf(r, t)
           n == IF Len(es) < MaxEvents THEN Len(es) ELSE MaxEvents
           kept == SubSeq(es, 1, n)
<1>1. t \in Nat /\ MaxEvents \in Nat
  BY TelemetryAssumption
<1>2. es \in Seq(ToSet(es))
  BY <1>1, RequestIsEvents DEF AreEvents, IsSequence
<1>3. BatchOf[r][t] = Batch(r, t)
  BY DEF BatchOf
<1>4. Batch(r, t) = IF SourceOf(r) \in Off THEN <<>>
                    ELSE [i \in DOMAIN kept |-> Prepare(r, kept[i], t)]
  BY DEF Batch
<1> HIDE DEF es
<1>5. Len(es) \in Nat /\ n \in Nat /\ n <= Len(es) /\ (Len(es) <= MaxEvents => n = Len(es))
  BY <1>1, <1>2
<1> HIDE DEF n
<1>6. DOMAIN kept = 1..n /\ \A i \in 1..n : kept[i] = es[i]
  BY <1>2, <1>5
<1> HIDE DEF kept
<1>7. CASE SourceOf(r) \in Off
  <2>1. Batch(r, t) = <<>>
    BY <1>4, <1>7
  <2>2. Len(<<>>) = 0 /\ DOMAIN <<>> = 1..0
    OBVIOUS
  <2> QED
    BY <1>2, <1>3, <1>5, <1>7, <2>1, <2>2 DEF es
<1>8. CASE SourceOf(r) \notin Off
  <2> DEFINE b == [i \in 1..n |-> Prepare(r, kept[i], t)]
  <2>1. Batch(r, t) = b
    BY <1>4, <1>6, <1>8
  <2>2. Len(b) = n /\ DOMAIN b = 1..n
    BY <1>5
  <2>3. \A i \in 1..n : b[i] = Prepare(r, es[i], t)
    BY <1>6
  <2> HIDE DEF b
  <2>4. n \in 0..Len(es)
    BY <1>5
  <2> QED
    BY <1>2, <1>3, <1>5, <1>8, <2>1, <2>2, <2>3, <2>4 DEF es
<1> QED
  BY <1>7, <1>8

LEMMA BatchIs ==
  ASSUME NEW r \in Requests, NEW t \in 0..MaxTime
  PROVE  /\ BatchOf[r][t] = Batch(r, t)
         /\ Len(Batch(r, t)) \in Nat /\ DOMAIN Batch(r, t) = 1..Len(Batch(r, t))
         /\ \A i \in DOMAIN Batch(r, t) :
              \E e \in ToSet(EventsOf(r, t)) : Batch(r, t)[i] = Prepare(r, e, t)
         /\ SourceOf(r) \notin Off /\ Len(EventsOf(r, t)) <= MaxEvents =>
              \A e \in ToSet(EventsOf(r, t)) :
                \E i \in DOMAIN Batch(r, t) : Batch(r, t)[i] = Prepare(r, e, t)
<1> DEFINE es == EventsOf(r, t)
           b == Batch(r, t)
<1>1. /\ BatchOf[r][t] = b
      /\ es \in Seq(ToSet(es))
      /\ Len(b) \in 0..Len(es) /\ DOMAIN b = 1..Len(b)
      /\ \A i \in 1..Len(b) : b[i] = Prepare(r, es[i], t)
      /\ SourceOf(r) \notin Off /\ Len(es) <= MaxEvents => Len(b) = Len(es)
  BY BatchPlaces
<1> HIDE DEF es, b
<1>2. Len(es) \in Nat /\ DOMAIN es = 1..Len(es) /\ Len(b) \in Nat
  BY <1>1
<1>3. ASSUME NEW i \in 1..Len(b) PROVE es[i] \in ToSet(es)
  <2> DEFINE m == Len(b)
             n == Len(es)
  <2>1. i \in 1..m /\ m \in 0..n /\ n \in Nat /\ DOMAIN es = 1..n
    BY <1>1, <1>2
  <2> HIDE DEF m, n
  <2>2. i \in DOMAIN es
    BY <2>1
  <2> QED
    BY <2>2 DEF ToSet
<1>4. \A i \in DOMAIN b : \E e \in ToSet(es) : b[i] = Prepare(r, e, t)
  BY <1>1, <1>3
<1>5. ASSUME SourceOf(r) \notin Off, Len(es) <= MaxEvents, NEW e \in ToSet(es)
      PROVE  \E i \in DOMAIN b : b[i] = Prepare(r, e, t)
  <2>1. PICK i \in DOMAIN es : e = es[i]
    BY DEF ToSet
  <2>2. i \in 1..Len(b)
    BY <1>1, <1>2, <1>5
  <2> QED
    BY <1>1, <2>1, <2>2
<1> QED
  BY <1>1, <1>2, <1>4, <1>5 DEF es, b

(* The clock does not matter to a request that says its times. *)
LEMMA BatchIsClockless ==
  ASSUME NEW r \in Requests, Timed(r), NEW t \in 0..MaxTime, NEW u \in 0..MaxTime
  PROVE  BatchOf[r][t] = BatchOf[r][u]
<1>1. t \in Nat /\ u \in Nat
  BY TelemetryAssumption
<1>2. EventsOf(r, t) = EventsOf(r, u)
  BY <1>1, RequestIsEvents
<1>3. \A e : Prepare(r, e, t) = Prepare(r, e, u)
  BY DEF Prepare, KeyOf
<1>4. Batch(r, t) = Batch(r, u)
  BY <1>2, <1>3 DEF Batch
<1> QED
  BY <1>4, BatchIs
-----------------------------------------------------------------------------
(* The events that end a run are the ends that agents report.              *)

(* A span ends its run by one event, if at all. *)
LEMMA SpanContents ==
  ASSUME NEW s, NEW source, NEW t
  PROVE  LET at == SpanTime(s, t)
             id == SpanId(s, t)
             run == RunIdentifier(s, source, t)
             terminal == TerminalType(s)
             End == {NewEvent(run, None, terminal, "completed", at), NewEvent(run, id, terminal, "failed", at)}
         IN /\ \A e \in ToSet(SpanEvents(s, source, t)) :
                 e.type \in {"run.started", "model.requested", "model.completed", "source.extension"}
                   \/ (terminal # None /\ e \in End)
            /\ terminal # None => \E e \in End : e \in ToSet(SpanEvents(s, source, t))
<1> DEFINE run == RunIdentifier(s, source, t)
           at == SpanTime(s, t)
           id == SpanId(s, t)
           terminal == TerminalType(s)
           End == {NewEvent(run, None, terminal, "completed", at), NewEvent(run, id, terminal, "failed", at)}
           started == IF s.root THEN <<NewEvent(run, None, "run.started", "started", at)>> ELSE <<>>
           requested == IF s.op \in ModelOperations \ {"embeddings"}
                        THEN <<NewEvent(run, Append(id, "request"), "model.requested", "started", at)>>
                        ELSE <<>>
           completed == IF s.op \in ModelOperations
                        THEN <<NewEvent(run, Append(id, "request"), "model.completed", SpanStatus(s), at)>>
                        ELSE <<>>
           ended == CASE terminal = None -> <<>>
                      [] terminal = "run.completed" ->
                           <<NewEvent(run, None, terminal, "completed", at)>>
                      [] OTHER -> <<NewEvent(run, id, terminal, "failed", at)>>
           all == started \o requested \o completed \o ended
           other == <<NewEvent(run, id, "source.extension", "unknown", at)>>
           Types == {"run.started", "model.requested", "model.completed", "source.extension"}
<1>1. SpanEvents(s, source, t) = IF all # <<>> THEN all ELSE other
  BY DEF SpanEvents
<1> HIDE DEF run, at, id, terminal
<1>2. ToSet(<<>>) = {} /\ IsSequence(<<>>)
  BY DEF ToSet, IsSequence
<1>3. \A step, type, status : NewEvent(run, step, type, status, at).type = type
  BY DEF NewEvent
<1>4. IsSequence(started) /\ \A e \in ToSet(started) : e.type \in Types
  BY <1>2, <1>3, OneEvent
<1>5. IsSequence(requested) /\ \A e \in ToSet(requested) : e.type \in Types
  BY <1>2, <1>3, OneEvent
<1>6. IsSequence(completed) /\ \A e \in ToSet(completed) : e.type \in Types
  BY <1>2, <1>3, OneEvent
<1>7. IsSequence(other) /\ \A e \in ToSet(other) : e.type \in Types
  BY <1>3, OneEvent
<1>8. /\ IsSequence(ended) /\ ToSet(ended) \subseteq End
      /\ terminal = None => ToSet(ended) = {}
      /\ terminal # None => \E e \in End : e \in ToSet(ended)
  <2>1. CASE terminal = None
    <3>1. ended = <<>>
      BY <2>1, TelemetryAssumption
    <3> HIDE DEF ended
    <3> QED
      BY <1>2, <2>1, <3>1
  <2>2. CASE terminal = "run.completed" /\ terminal # None
    <3>1. ended = <<NewEvent(run, None, terminal, "completed", at)>>
      BY <2>2
    <3> HIDE DEF ended
    <3> QED
      BY <2>2, <3>1, OneEvent
  <2>3. CASE terminal # "run.completed" /\ terminal # None
    <3>1. ended = <<NewEvent(run, id, terminal, "failed", at)>>
      BY <2>3
    <3>2. NewEvent(run, id, terminal, "failed", at) \in End
      OBVIOUS
    <3> HIDE DEF ended, End
    <3>3. IsSequence(ended) /\ ToSet(ended) = {NewEvent(run, id, terminal, "failed", at)}
      BY <3>1, OneEvent
    <3> QED
      BY <2>3, <3>2, <3>3
  <2> QED
    BY <2>1, <2>2, <2>3
<1> HIDE DEF started, requested, completed, ended, other
<1>9. ToSet(all) = ToSet(started) \cup ToSet(requested) \cup ToSet(completed) \cup ToSet(ended)
  BY <1>4, <1>5, <1>6, <1>8, ConcatSequences
<1> HIDE DEF all
<1>10. ToSet(SpanEvents(s, source, t)) = ToSet(all) \/ (all = <<>> /\ ToSet(SpanEvents(s, source, t)) = ToSet(other))
  BY <1>1
<1>11. \A e \in ToSet(SpanEvents(s, source, t)) : e.type \in Types \/ (terminal # None /\ e \in End)
  BY <1>4, <1>5, <1>6, <1>7, <1>8, <1>9, <1>10
<1>12. terminal # None => \E e \in End : e \in ToSet(SpanEvents(s, source, t))
  <2>1. terminal # None => all # <<>>
    BY <1>2, <1>8, <1>9
  <2> QED
    BY <1>1, <1>8, <1>9, <2>1
<1> QED
  BY <1>11, <1>12 DEF run, at, id, terminal

(* That event is there when the span is an end its agent reports. *)
LEMMA SpanEnds ==
  ASSUME NEW s, s.root \in BOOLEAN, s.error \in BOOLEAN, s.start \in Nat, s.end \in Nat,
         NEW source, NEW t
  PROVE  LET Ends == s.root /\ (s.error \/ s.code = "error" \/ s.end > 0)
             report == SpanReport(s, source, t)
         IN /\ \A e \in ToSet(SpanEvents(s, source, t)) :
                 e.type \in Store!RunEnding =>
                   /\ Ends /\ report.run = e.run /\ e.at \in report.times
                   /\ report.status = Store!StatusOf(e.type)
            /\ Ends => \E e \in ToSet(SpanEvents(s, source, t)) :
                         /\ e.type \in Store!RunEnding
                         /\ report.run = e.run /\ e.at \in report.times
<1> DEFINE terminal == TerminalType(s)
           run == RunIdentifier(s, source, t)
           at == SpanTime(s, t)
           Ends == s.root /\ (s.error \/ s.code = "error" \/ s.end > 0)
           report == SpanReport(s, source, t)
           End == {NewEvent(run, None, terminal, "completed", at),
                   NewEvent(run, SpanId(s, t), terminal, "failed", at)}
<1>1. /\ Ends /\ (s.error \/ s.code = "error") => terminal = "run.failed"
      /\ Ends /\ ~(s.error \/ s.code = "error") => terminal = "run.completed"
      /\ ~Ends => terminal \in {"tool.failed", "error.recorded", None}
  BY DEF TerminalType
<1>2. /\ report.run = run /\ at \in report.times
      /\ report.status = IF s.error \/ s.code = "error" THEN "failed" ELSE "completed"
  BY DEF SpanReport, SpanTime
<1>3. \A e \in End : e.run = run /\ e.at = at /\ e.type = terminal
  BY DEF NewEvent
<1>4. /\ \A e \in ToSet(SpanEvents(s, source, t)) :
           e.type \in {"run.started", "model.requested", "model.completed", "source.extension"}
             \/ (terminal # None /\ e \in End)
      /\ terminal # None => \E e \in End : e \in ToSet(SpanEvents(s, source, t))
  BY SpanContents
<1>5. /\ Store!StatusOf("run.failed") = "failed" /\ Store!StatusOf("run.completed") = "completed"
  BY DEF Store!StatusOf
<1> HIDE DEF terminal, run, at, End, report
<1>6. /\ "run.failed" \in Store!RunEnding /\ "run.completed" \in Store!RunEnding
      /\ \A x \in {"run.started", "model.requested", "model.completed", "source.extension",
                   "tool.failed", "error.recorded"} : x \notin Store!RunEnding
  BY DEF Store!RunEnding
<1>7. ASSUME NEW e \in ToSet(SpanEvents(s, source, t)), e.type \in Store!RunEnding
      PROVE  /\ Ends /\ report.run = e.run /\ e.at \in report.times
             /\ report.status = Store!StatusOf(e.type)
  <2>1. terminal # None /\ e \in End
    BY <1>4, <1>6, <1>7
  <2>2. e.run = run /\ e.at = at /\ e.type = terminal
    BY <1>3, <2>1
  <2>3. Ends
    BY <1>1, <1>6, <1>7, <2>1, <2>2
  <2> QED
    BY <1>1, <1>2, <1>5, <2>2, <2>3
<1>8. ASSUME Ends
      PROVE  \E e \in ToSet(SpanEvents(s, source, t)) :
               e.type \in Store!RunEnding /\ report.run = e.run /\ e.at \in report.times
  <2>1. terminal \in {"run.failed", "run.completed"} /\ terminal # None
    BY <1>1, <1>8, TelemetryAssumption
  <2> QED
    BY <1>2, <1>3, <1>4, <1>6, <2>1
<1> QED
  BY <1>7, <1>8 DEF report

(* The same of a payload. *)
(* What a source says of an end is what its adapter makes of it. *)
LEMMA CanonicalEnds ==
  ASSUME NEW s \in Adapters, NEW n
  PROVE  LET c == Canonical(s, n)
             said == <<s, n>>
         IN /\ said \in SaysCompleted <=> c \in {"session.end", "run.completed"}
            /\ said \in SaysFailed <=> c \in {"session.error", "run.failed"}
            /\ said \in SaysIdle <=> c \in {"session.idle", "run.incomplete"}
            /\ n = "run.cancelled" <=> c = "run.cancelled"
<1>1. CASE s = "opencode"
  BY <1>1 DEF Canonical, Adapters, SaysCompleted, SaysFailed, SaysIdle
<1>2. CASE s = "claude-code"
  BY <1>2 DEF Canonical, Adapters, SaysCompleted, SaysFailed, SaysIdle
<1>3. CASE s = "codex"
  BY <1>3 DEF Canonical, Adapters, SaysCompleted, SaysFailed, SaysIdle
<1>4. CASE s = "antigravity"
  BY <1>4 DEF Canonical, Adapters, SaysCompleted, SaysFailed, SaysIdle
<1>5. CASE s = "gemini-cli"
  BY <1>5 DEF Canonical, Adapters, SaysCompleted, SaysFailed, SaysIdle
<1> QED
  BY <1>1, <1>2, <1>3, <1>4, <1>5 DEF Adapters

LEMMA PayloadEnds ==
  ASSUME NEW p, p.source \in Adapters, NEW t
  PROVE  LET report == PayloadReport(p, t)
         IN \E e : /\ HookEvents(p, t) = <<e>>
                   /\ e.type \in Store!RunEnding <=> report.status # "none"
                   /\ e.type \in Store!RunEnding =>
                        /\ report.run = e.run /\ e.at \in report.times
                        /\ report.status = Store!StatusOf(e.type)
<1> DEFINE c == Canonical(p.source, p.name)
           said == <<p.source, p.name>>
           report == PayloadReport(p, t)
<1>1. CASE p.session = None \/ p.name = None
  <2>1. report.status = "none"
    BY <1>1 DEF PayloadReport
  <2>2. UnmappedEvent(p, t).type = "source.extension"
    BY DEF UnmappedEvent, NewEvent
  <2>3. "source.extension" \notin Store!RunEnding
    BY DEF Store!RunEnding
  <2> HIDE DEF report
  <2> QED
    BY <1>1, <2>1, <2>2, <2>3, PayloadIs DEF report
<1>2. CASE ~(p.session = None \/ p.name = None)
  <2> DEFINE x == MappedEvent(p, t)
  <2>1. HookEvents(p, t) = <<x>>
    BY <1>2, PayloadIs
  <2>2. x.run = <<p.session>> /\ x.type = Rule(c)[1] /\ x.at = IF p.time > 0 THEN p.time ELSE t
    BY DEF MappedEvent, NewEvent
  <2>3. report.run = <<p.session>> /\ report.times = {IF p.time > 0 THEN p.time ELSE t}
    BY DEF PayloadReport
  <2>4. report.status = CASE said \in SaysCompleted -> "completed"
                          [] said \in SaysFailed -> "failed"
                          [] said \in SaysIdle -> "incomplete"
                          [] p.name = "run.cancelled" -> "cancelled"
                          [] OTHER -> "none"
    BY <1>2 DEF PayloadReport
  <2>5. /\ said \in SaysCompleted <=> c \in {"session.end", "run.completed"}
        /\ said \in SaysFailed <=> c \in {"session.error", "run.failed"}
        /\ said \in SaysIdle <=> c \in {"session.idle", "run.incomplete"}
        /\ p.name = "run.cancelled" <=> c = "run.cancelled"
    BY CanonicalEnds
  <2>6. /\ Store!StatusOf("run.completed") = "completed" /\ Store!StatusOf("run.failed") = "failed"
        /\ Store!StatusOf("run.incomplete") = "incomplete"
        /\ Store!StatusOf("run.cancelled") = "cancelled"
    BY DEF Store!StatusOf
  <2>7. {"run.completed", "run.failed", "run.incomplete", "run.cancelled"} \subseteq Store!RunEnding
    BY DEF Store!RunEnding
  <2> HIDE DEF x, report, c, said
  <2>8. /\ x.type \in Store!RunEnding <=> report.status # "none"
        /\ x.type \in Store!RunEnding => report.status = Store!StatusOf(x.type)
    <3>1. CASE c \in {"session.end", "run.completed"}
      BY <2>2, <2>4, <2>5, <2>6, <2>7, <3>1, RuleEnds
    <3>2. CASE c \in {"session.error", "run.failed"}
      BY <2>2, <2>4, <2>5, <2>6, <2>7, <3>2, RuleEnds
    <3>3. CASE c \in {"session.idle", "run.incomplete"}
      BY <2>2, <2>4, <2>5, <2>6, <2>7, <3>3, RuleEnds
    <3>4. CASE c = "run.cancelled"
      BY <2>2, <2>4, <2>5, <2>6, <2>7, <3>4, RuleEnds
    <3>5. CASE c \notin {"session.end", "run.completed", "session.error", "run.failed",
                         "session.idle", "run.incomplete", "run.cancelled"}
      BY <2>2, <2>4, <2>5, <3>5, RuleEnds
    <3> QED
      BY <3>1, <3>2, <3>3, <3>4, <3>5
  <2> QED
    BY <2>1, <2>2, <2>3, <2>8 DEF report
<1> QED
  BY <1>1, <1>2

(* The event e says that the run ended, and x is the report of it. *)
Says(e, x) ==
  /\ e.type \in Store!RunEnding
  /\ x.run = e.run /\ e.at \in x.times /\ x.status = Store!StatusOf(e.type)

Ending(s) == s.root /\ (s.error \/ s.code = "error" \/ s.end > 0)

OwnSource(r, g) == IF g.service = None THEN SourceOf(r) ELSE g.service

LEMMA TraceReports ==
  ASSUME NEW r, r.signal = "otlp-traces", NEW t, NEW x
  PROVE  x \in Reports(r, t) <=>
           \E g \in ToSet(r.groups) : \E s \in ToSet(g.items) :
             Ending(s) /\ x = SpanReport(s, OwnSource(r, g), t)
<1> DEFINE roots(g) == {s \in ToSet(g.items) : s.root /\ (s.error \/ s.code = "error" \/ s.end > 0)}
           from(g) == {SpanReport(s, OwnSource(r, g), t) : s \in roots(g)}
<1>1. Reports(r, t) = UNION {from(r.groups[i]) : i \in DOMAIN r.groups}
  BY DEF Reports, OwnSource
<1>2. \A g : x \in from(g) <=> \E s \in ToSet(g.items) : Ending(s) /\ x = SpanReport(s, OwnSource(r, g), t)
  BY DEF Ending
<1> HIDE DEF from
<1>3. x \in Reports(r, t) <=> \E g \in ToSet(r.groups) : x \in from(g)
  BY <1>1 DEF ToSet
<1> QED
  BY <1>2, <1>3

LEMMA TraceEnds ==
  ASSUME NEW r \in Requests, r.signal = "otlp-traces", NEW t \in Nat
  PROVE  /\ \A e \in ToSet(EventsOf(r, t)) :
              e.type \in Store!RunEnding => \E x \in Reports(r, t) : Says(e, x)
         /\ \A x \in Reports(r, t) : \E e \in ToSet(EventsOf(r, t)) : Says(e, x)
<1>1. \A e : e \in ToSet(EventsOf(r, t)) <=>
        \E g \in ToSet(r.groups) : \E s \in ToSet(g.items) :
          e \in ToSet(SpanEvents(s, OwnSource(r, g), t))
  <2>1. EventsOf(r, t) = Normalize(r, SourceOf(r), t)
    BY DEF EventsOf, SourceOf
  <2>2. \A g, s : ItemEvents(r, g, s, SourceOf(r), t) = SpanEvents(s, OwnSource(r, g), t)
    BY DEF ItemEvents, OwnSource
  <2>3. \A e : e \in ToSet(Normalize(r, SourceOf(r), t)) <=>
          \E g \in ToSet(r.groups) : \E s \in ToSet(g.items) :
            e \in ToSet(ItemEvents(r, g, s, SourceOf(r), t))
    BY NormalizeIsEvents
  <2> QED
    BY <2>1, <2>2, <2>3
<1>2. ASSUME NEW g \in ToSet(r.groups), NEW s \in ToSet(g.items)
      PROVE  /\ s.root \in BOOLEAN /\ s.error \in BOOLEAN
             /\ s.start \in Nat /\ s.end \in Nat
  BY TelemetryAssumption DEF WellFormed
<1>3. ASSUME NEW e \in ToSet(EventsOf(r, t)), e.type \in Store!RunEnding
      PROVE  \E x \in Reports(r, t) : Says(e, x)
  <2>1. PICK g \in ToSet(r.groups) : \E s \in ToSet(g.items) : e \in ToSet(SpanEvents(s, OwnSource(r, g), t))
    BY <1>1
  <2>2. PICK s \in ToSet(g.items) : e \in ToSet(SpanEvents(s, OwnSource(r, g), t))
    BY <2>1
  <2> DEFINE x == SpanReport(s, OwnSource(r, g), t)
  <2>3. Ending(s) /\ Says(e, x)
    BY <1>2, <1>3, <2>2, SpanEnds DEF Ending, Says
  <2>4. x \in Reports(r, t)
    BY <2>3, TraceReports
  <2> HIDE DEF x
  <2> QED
    BY <2>3, <2>4
<1>4. ASSUME NEW x \in Reports(r, t)
      PROVE  \E e \in ToSet(EventsOf(r, t)) : Says(e, x)
  <2>1. PICK g \in ToSet(r.groups) : \E s \in ToSet(g.items) :
               Ending(s) /\ x = SpanReport(s, OwnSource(r, g), t)
    BY TraceReports
  <2>2. PICK s \in ToSet(g.items) : Ending(s) /\ x = SpanReport(s, OwnSource(r, g), t)
    BY <2>1
  <2>3. PICK e \in ToSet(SpanEvents(s, OwnSource(r, g), t)) : Says(e, x)
    BY <1>2, <2>2, SpanEnds DEF Ending, Says
  <2> QED
    BY <1>1, <2>3
<1> QED
  BY <1>3, <1>4

(* The events of a request that end a run are the ends it reports. *)
LEMMA EndsAreReported ==
  ASSUME NEW r \in Requests, NEW t \in Nat
  PROVE  /\ \A e \in ToSet(EventsOf(r, t)) :
              e.type \in Store!RunEnding => \E x \in Reports(r, t) : Says(e, x)
         /\ \A x \in Reports(r, t) : \E e \in ToSet(EventsOf(r, t)) : Says(e, x)
<1>1. CASE r.signal = "otlp-traces"
  BY <1>1, TraceEnds
<1>2. CASE r.signal = "hook"
  <2> DEFINE report == PayloadReport(r.payload, t)
  <2>0. r.payload.source \in Adapters
    BY <1>2, TelemetryAssumption DEF WellFormed
  <2>1. PICK e : /\ HookEvents(r.payload, t) = <<e>>
                 /\ e.type \in Store!RunEnding <=> report.status # "none"
                 /\ e.type \in Store!RunEnding =>
                      /\ report.run = e.run /\ e.at \in report.times
                      /\ report.status = Store!StatusOf(e.type)
    BY <2>0, PayloadEnds
  <2>2. ToSet(EventsOf(r, t)) = {e}
    BY <1>2, <2>1, OneEvent DEF EventsOf
  <2>3. Reports(r, t) = {x \in {report} : x.status # "none"}
    BY <1>2 DEF Reports
  <2> HIDE DEF report
  <2> QED
    BY <2>1, <2>2, <2>3 DEF Says
<1>3. CASE r.signal \notin {"hook", "otlp-traces"}
  <2>1. Reports(r, t) = {}
    BY <1>3 DEF Reports
  <2>2. r.signal \in {"otlp-logs", "otlp-metrics"} \/ \A g \in ToSet(r.groups) : ToSet(g.items) = {}
    BY <1>3, TelemetryAssumption DEF WellFormed
  <2>3. ASSUME NEW g \in ToSet(r.groups), NEW y \in ToSet(g.items),
               NEW e \in ToSet(ItemEvents(r, g, y, SourceOf(r), t))
        PROVE  e.type \notin Store!RunEnding
    <3>1. "prompt.received" \notin Store!RunEnding /\ "tool.started" \notin Store!RunEnding
          /\ "error.recorded" \notin Store!RunEnding /\ "source.extension" \notin Store!RunEnding
      BY DEF Store!RunEnding
    <3>2. CASE r.signal = "otlp-logs"
      <4>1. PICK x : ItemEvents(r, g, y, SourceOf(r), t) = <<x>> /\ x.type = LogType(y)
        BY <3>2 DEF ItemEvents, LogEvents, NewEvent
      <4>2. LogType(y) \in {"prompt.received", "tool.started", "error.recorded", "source.extension"}
        BY DEF LogType
      <4>3. e = x
        BY <2>3, <4>1, OneEvent
      <4> QED
        BY <3>1, <4>1, <4>2, <4>3
    <3>3. CASE r.signal = "otlp-metrics"
      <4>1. PICK x : ItemEvents(r, g, y, SourceOf(r), t) = <<x>> /\ x.type = "source.extension"
        BY <3>3 DEF ItemEvents, MetricEvents, NewEvent
      <4>2. e = x
        BY <2>3, <4>1, OneEvent
      <4> QED
        BY <3>1, <4>1, <4>2
    <3> QED
      BY <2>2, <2>3, <3>2, <3>3
  <2>4. EventsOf(r, t) = Normalize(r, SourceOf(r), t)
    BY <1>3 DEF EventsOf, SourceOf
  <2>5. \A e \in ToSet(EventsOf(r, t)) : e.type \notin Store!RunEnding
    BY <1>3, <2>3, <2>4, NormalizeIsEvents
  <2> QED
    BY <2>1, <2>5
<1> QED
  BY <1>1, <1>2, <1>3
-----------------------------------------------------------------------------
(* Rows of runs: an end is one that is reported, and no stored event that  *)
(* ends the run is earlier.                                                *)

EndFrom(d, R, u) ==
  d.run[u].ended # None =>
    /\ d.run[u].ended \in Nat
    /\ \E x \in R : x.run = u /\ d.run[u].ended \in x.times /\ x.status = d.run[u].status

Accounted(d, e) ==
  /\ e.run \in RunsSeen /\ e.at \in Nat
  /\ e.key[2] = e.run /\ e.key[4] = e.type /\ e.key[5] = e.at
  /\ d.run[e.run].status # "absent"
  /\ e.type \in Store!RunEnding => d.run[e.run].ended # None /\ d.run[e.run].ended <= e.at

EndsFrom(d, R) ==
  /\ DOMAIN d.run = RunsSeen
  /\ \A u \in RunsSeen : EndFrom(d, R, u)
  /\ \A y \in d.events : Accounted(d, y.ev)

(* An event that may come with the reports R. *)
Reported(e, R) ==
  /\ e.run \in RunsSeen /\ e.at \in Nat /\ e.status # "absent"
  /\ e.key[2] = e.run /\ e.key[4] = e.type /\ e.key[5] = e.at
  /\ e.type \in Store!RunEnding => \E x \in R : Says(e, x)

(* What an event that is new does to the row of its run. *)
LEMMA RowIs ==
  ASSUME NEW d, NEW R, EndsFrom(d, R), NEW e, Reported(e, R), e.key \notin Store!KeysIn(d)
  PROVE  LET x == InsertOne(d, e)
             row == x.run[e.run]
             old == d.run[e.run]
         IN /\ \E n : x.events = d.events \cup {[ev |-> e, seq |-> n]}
            /\ DOMAIN x.run = RunsSeen
            /\ \A u \in RunsSeen \ {e.run} : x.run[u] = d.run[u]
            /\ row.status # "absent"
            /\ EndFrom(x, R, e.run)
            /\ e.type \in Store!RunEnding => row.ended # None /\ row.ended <= e.at
            /\ old.status # "absent" /\ old.ended # None => row.ended # None /\ row.ended <= old.ended
<1> DEFINE old == d.run[e.run]
           kept == Store!EnsureRun(old, e)
           row == Store!UpdateRun(kept, e)
           x == InsertOne(d, e)
           ends == e.type \in Store!RunEnding
           starts == e.type = "run.started"
<1>1. /\ \E n : x.events = d.events \cup {[ev |-> e, seq |-> n]}
      /\ x.run = [d.run EXCEPT ![e.run] = row]
  BY DEF InsertOne, Store!InsertEvent
<1>2. e.run \in DOMAIN d.run /\ DOMAIN d.run = RunsSeen
  BY DEF EndsFrom, Reported
<1>3. /\ row.status = IF starts /\ kept.ended = None THEN e.status
                      ELSE IF ends /\ Store!Before(e.at, kept.ended) THEN Store!StatusOf(e.type)
                      ELSE kept.status
      /\ row.ended = IF ends THEN Store!Earlier(e.at, kept.ended) ELSE kept.ended
  BY DEF Store!UpdateRun
<1>4. /\ old.status = "absent" => kept.ended = None /\ kept.status = "unknown"
      /\ old.status # "absent" => kept = old
  BY DEF Store!EnsureRun, Store!AbsentRun
<1>5. kept.status # "absent"
  BY <1>4
<1>6. kept.ended # None =>
        /\ kept.ended \in Nat
        /\ \E z \in R : z.run = e.run /\ kept.ended \in z.times /\ z.status = kept.status
  BY <1>4 DEF EndsFrom, EndFrom, Reported
<1>7. e.at \in Nat /\ e.at # None
  BY TelemetryAssumption DEF Reported
<1>8. /\ \A u \in RunsSeen \ {e.run} : x.run[u] = d.run[u]
      /\ x.run[e.run] = row
      /\ DOMAIN x.run = RunsSeen
  BY <1>1, <1>2
<1>9. starts => ~ends
  BY DEF Store!RunEnding
<1>10. Store!StatusOf(e.type) # "absent" /\ e.status # "absent"
  BY DEF Store!StatusOf, Reported
<1> HIDE DEF old, kept, row, x
<1>11. row.status # "absent"
  BY <1>3, <1>5, <1>10
<1>12. ends => row.ended # None /\ row.ended <= e.at
  BY <1>3, <1>6, <1>7 DEF Store!Earlier, Store!Before
<1>13. kept.ended # None => row.ended # None /\ row.ended <= kept.ended
  BY <1>3, <1>6, <1>7 DEF Store!Earlier, Store!Before
<1>14. row.ended # None =>
         /\ row.ended \in Nat
         /\ \E z \in R : z.run = e.run /\ row.ended \in z.times /\ z.status = row.status
  <2>1. CASE ends /\ Store!Before(e.at, kept.ended)
    <3>1. row.ended = e.at /\ row.status = Store!StatusOf(e.type)
      BY <1>3, <1>9, <2>1 DEF Store!Earlier
    <3>2. PICK z \in R : Says(e, z)
      BY <2>1 DEF Reported
    <3> QED
      BY <1>7, <3>1, <3>2 DEF Says
  <2>2. CASE ends /\ ~Store!Before(e.at, kept.ended)
    <3>1. row.ended = kept.ended /\ row.status = kept.status
      BY <1>3, <1>9, <2>2 DEF Store!Earlier
    <3> QED
      BY <1>6, <3>1
  <2>3. CASE ~ends
    <3>1. row.ended = kept.ended
      BY <1>3, <2>3
    <3>2. kept.ended # None => row.status = kept.status
      BY <1>3, <2>3
    <3> QED
      BY <1>6, <3>1, <3>2
  <2> QED
    BY <2>1, <2>2, <2>3
<1>15. EndFrom(x, R, e.run)
  BY <1>8, <1>14 DEF EndFrom
<1>16. old.status # "absent" /\ old.ended # None => row.ended # None /\ row.ended <= old.ended
  BY <1>4, <1>13
<1> QED
  BY <1>1, <1>8, <1>11, <1>12, <1>15, <1>16 DEF x, old

(* An event, and a batch, keep the rows true to the reports. *)
LEMMA InsertOneKeeps ==
  ASSUME NEW d, NEW R, EndsFrom(d, R), NEW e, Reported(e, R)
  PROVE  EndsFrom(InsertOne(d, e), R)
<1>1. CASE e.key \in Store!KeysIn(d)
  BY <1>1 DEF InsertOne
<1>2. CASE e.key \notin Store!KeysIn(d)
  <2> DEFINE x == InsertOne(d, e)
             row == x.run[e.run]
             old == d.run[e.run]
  <2>1. /\ \E n : x.events = d.events \cup {[ev |-> e, seq |-> n]}
        /\ DOMAIN x.run = RunsSeen
        /\ \A u \in RunsSeen \ {e.run} : x.run[u] = d.run[u]
        /\ row.status # "absent"
        /\ EndFrom(x, R, e.run)
        /\ e.type \in Store!RunEnding => row.ended # None /\ row.ended <= e.at
        /\ old.status # "absent" /\ old.ended # None => row.ended # None /\ row.ended <= old.ended
    BY <1>2, RowIs
  <2>2. row.ended # None => row.ended \in Nat
    BY <2>1 DEF EndFrom
  <2> HIDE DEF x
  <2>3. \A u \in RunsSeen : EndFrom(x, R, u)
    BY <2>1 DEF EndFrom, EndsFrom
  <2>4. ASSUME NEW y \in x.events PROVE Accounted(x, y.ev)
    <3>1. CASE y \notin d.events
      <4>1. y.ev = e
        BY <2>1, <3>1
      <4> QED
        BY <2>1, <4>1 DEF Accounted, Reported
    <3>2. CASE y \in d.events
      <4>1. Accounted(d, y.ev)
        BY <3>2 DEF EndsFrom
      <4>2. CASE y.ev.run # e.run
        BY <2>1, <4>1, <4>2 DEF Accounted
      <4>3. CASE y.ev.run = e.run
        <5>1. y.ev.type \in Store!RunEnding => old.ended \in Nat /\ row.ended \in Nat /\ row.ended <= y.ev.at
          <6>1. y.ev.type \in Store!RunEnding => old.ended # None /\ old.ended <= y.ev.at /\ y.ev.at \in Nat
            BY <4>1, <4>3 DEF Accounted
          <6>2. old.ended # None => old.ended \in Nat
            BY <4>1, <4>3 DEF EndsFrom, EndFrom, Accounted
          <6>3. old.status # "absent"
            BY <4>1, <4>3 DEF Accounted
          <6> QED
            BY <2>1, <2>2, <6>1, <6>2, <6>3
        <5> QED
          BY <2>1, <4>1, <4>3, <5>1, TelemetryAssumption DEF Accounted
      <4> QED
        BY <4>2, <4>3
    <3> QED
      BY <3>1, <3>2
  <2>5. EndsFrom(x, R)
    BY <2>1, <2>3, <2>4 DEF EndsFrom
  <2> QED
    BY <2>5 DEF x
<1> QED
  BY <1>1, <1>2

LEMMA InsertKeeps ==
  ASSUME NEW d, NEW R, EndsFrom(d, R), NEW b, Len(b) \in Nat,
         \A i \in 1..Len(b) : Reported(b[i], R)
  PROVE  EndsFrom(Insert(d, b), R)
<1> DEFINE n == Len(b)
<1>1. PICK f : InsertsBy(d, b, f)
  BY InsertIs
<1>2. /\ Insert(d, b) = f[n] /\ f[0] = d
      /\ \A i \in 1..n : f[i] = InsertOne(f[i - 1], b[i])
  BY <1>1 DEF InsertsBy
<1> DEFINE S == {m \in Nat : m <= n => EndsFrom(f[m], R)}
<1>3. 0 \in S
  BY <1>2
<1>4. ASSUME NEW m \in S PROVE m + 1 \in S
  <2> SUFFICES ASSUME m + 1 <= n PROVE EndsFrom(f[m + 1], R)
    OBVIOUS
  <2>1. m \in Nat /\ m + 1 \in 1..n /\ (m + 1) - 1 = m /\ EndsFrom(f[m], R)
    OBVIOUS
  <2>2. f[m + 1] = InsertOne(f[m], b[m + 1])
    BY <1>2, <2>1
  <2>3. Reported(b[m + 1], R)
    BY <2>1
  <2> QED
    BY <2>1, <2>2, <2>3, InsertOneKeeps
<1>5. S = Nat
  <2> HIDE DEF S
  <2>1. S \in SUBSET Nat
    BY DEF S
  <2> QED
    BY <1>3, <1>4, <2>1, AllNumbers
<1>6. EndsFrom(f[n], R)
  BY <1>5
<1> QED
  BY <1>2, <1>6
-----------------------------------------------------------------------------
(* A request that was taken has left its keys, and keys stay.              *)

RetryInv ==
  /\ now \in 1..MaxTime
  /\ taken \subseteq Requests
  /\ \A r \in taken : Timed(r) =>
       \A t \in 0..MaxTime : KeysOf(BatchOf[r][t]) \subseteq Store!KeysIn(db)

LEMMA RetryNextHolds ==
  ASSUME RetryInv, [Next]_vars
  PROVE  RetryInv'
<1>1. CASE Tick
  BY <1>1, TelemetryAssumption DEF Tick, RetryInv
<1>2. ASSUME NEW r \in Requests, Post(r) PROVE RetryInv'
  <2> DEFINE b == BatchOf[r][now]
  <2>1. db' = Insert(db, b) /\ taken' = taken \cup {r} /\ now' = now
    BY <1>2 DEF Post
  <2>2. now \in 0..MaxTime
    BY TelemetryAssumption DEF RetryInv
  <2>3. Len(b) \in Nat /\ DOMAIN b = 1..Len(b)
    BY <2>2, BatchIs
  <2> HIDE DEF b
  <2>4. Store!KeysIn(db') = Store!KeysIn(db) \cup KeysOf(b)
    BY <2>1, <2>3, InsertAdds
  <2>5. Timed(r) => \A t \in 0..MaxTime : KeysOf(BatchOf[r][t]) \subseteq Store!KeysIn(db')
    BY <2>2, <2>4, BatchIsClockless DEF b
  <2> QED
    BY <2>1, <2>4, <2>5 DEF RetryInv
<1>3. CASE UNCHANGED vars
  BY <1>3 DEF vars, RetryInv
<1> QED
  BY <1>1, <1>2, <1>3 DEF Next

(* Agents post again what they did not hear a success of: for any requests *)
(* in any order, one whose items say when they happened changes nothing    *)
(* when it is posted again at any later time.                              *)
THEOREM RetriesStayHarmless == Spec => []RetriesAddNothing
<1>1. Init => RetryInv
  BY TelemetryAssumption DEF Init, RetryInv
<1>2. RetryInv => RetriesAddNothing
  <2> SUFFICES ASSUME RetryInv, NEW r \in taken, Timed(r), NEW t \in now..MaxTime
               PROVE  Insert(db, BatchOf[r][t]) = db
    BY DEF RetriesAddNothing
  <2>1. r \in Requests /\ t \in 0..MaxTime
    BY TelemetryAssumption DEF RetryInv
  <2>2. /\ Len(BatchOf[r][t]) \in Nat /\ DOMAIN BatchOf[r][t] = 1..Len(BatchOf[r][t])
        /\ KeysOf(BatchOf[r][t]) \subseteq Store!KeysIn(db)
    BY <2>1, BatchIs DEF RetryInv
  <2> QED
    BY <2>2, InsertSkips
<1> QED
  BY <1>1, <1>2, RetryNextHolds, PTL DEF Spec

(* The ends reported by the requests of T up to the time n. *)
ReportedBy(T, n) == UNION {ReportsBy[r][t] : r \in T, t \in 1..n}

EndsInv == RetryInv /\ EndsFrom(db, ReportedBy(taken, now))

(* Reports stay, and a report may come from more of them. *)
LEMMA MoreReports ==
  ASSUME NEW d, NEW R, NEW Q, R \subseteq Q, EndsFrom(d, R)
  PROVE  EndsFrom(d, Q)
BY DEF EndsFrom, EndFrom

(* A batch comes with the reports of its request. *)
LEMMA BatchIsReported ==
  ASSUME NEW r \in Requests, NEW t \in 0..MaxTime
  PROVE  \A i \in 1..Len(BatchOf[r][t]) : Reported(BatchOf[r][t][i], ReportsBy[r][t])
<1> SUFFICES ASSUME NEW i \in 1..Len(BatchOf[r][t])
             PROVE  Reported(BatchOf[r][t][i], ReportsBy[r][t])
  OBVIOUS
<1>1. t \in Nat /\ ReportsBy[r][t] = Reports(r, t)
  BY TelemetryAssumption DEF ReportsBy
<1>2. PICK e \in ToSet(EventsOf(r, t)) : BatchOf[r][t][i] = Prepare(r, e, t)
  BY BatchIs
<1> DEFINE p == Prepare(r, e, t)
<1>3. /\ p.run = e.run /\ p.at = e.at /\ p.type = e.type /\ p.status = e.status
      /\ p.key[2] = e.run /\ p.key[4] = e.type /\ p.key[5] = e.at
  BY DEF Prepare, KeyOf
<1> HIDE DEF p
<1>4. e.at \in Nat /\ e.status # "absent"
  BY <1>1, RequestIsEvents DEF AreEvents
<1>5. e.run \in RunsSeen
  BY DEF RunsSeen, AllEvents
<1>6. e.type \in Store!RunEnding => \E x \in Reports(r, t) : Says(e, x)
  BY <1>1, EndsAreReported
<1>7. \A x : Says(e, x) => Says(p, x)
  BY <1>3 DEF Says
<1>8. Reported(p, Reports(r, t))
  BY <1>3, <1>4, <1>5, <1>6, <1>7 DEF Reported
<1> QED
  BY <1>1, <1>2, <1>8 DEF p

LEMMA EndsInitHolds == Init => EndsInv
<1> SUFFICES ASSUME Init PROVE EndsInv
  OBVIOUS
<1>1. RetryInv
  BY TelemetryAssumption DEF Init, RetryInv
<1>2. db.events = {} /\ db.run = [u \in RunsSeen |-> Store!AbsentRun]
  BY DEF Init, Store!EmptyDb
<1>3. Store!AbsentRun.ended = None
  BY DEF Store!AbsentRun
<1>4. EndsFrom(db, ReportedBy(taken, now))
  BY <1>2, <1>3 DEF EndsFrom, EndFrom
<1> QED
  BY <1>1, <1>4 DEF EndsInv

LEMMA EndsNextHolds ==
  ASSUME EndsInv, [Next]_vars
  PROVE  EndsInv'
<1> DEFINE R == ReportedBy(taken, now)
           Q == ReportedBy(taken', now')
<1>0. RetryInv /\ RetryInv' /\ EndsFrom(db, R)
  BY RetryNextHolds DEF EndsInv
<1>1. now \in 1..MaxTime /\ now \in 0..MaxTime /\ now \in Nat /\ taken \subseteq Requests
  BY <1>0, TelemetryAssumption DEF RetryInv
<1>2. ASSUME taken \subseteq taken', now' \in Nat, now <= now' PROVE R \subseteq Q
  <2>1. 1..now \subseteq 1..now'
    BY <1>1, <1>2
  <2> QED
    BY <1>2, <2>1 DEF ReportedBy
<1>3. CASE Tick
  <2>1. db' = db /\ taken' = taken /\ now' = now + 1
    BY <1>3 DEF Tick
  <2>2. R \subseteq Q
    BY <1>1, <1>2, <2>1
  <2> HIDE DEF R, Q
  <2>3. EndsFrom(db', Q)
    BY <1>0, <2>1, <2>2, MoreReports
  <2> QED
    BY <1>0, <2>3 DEF EndsInv, Q
<1>4. ASSUME NEW r \in Requests, Post(r) PROVE EndsInv'
  <2> DEFINE b == BatchOf[r][now]
  <2>1. db' = Insert(db, b) /\ taken' = taken \cup {r} /\ now' = now
    BY <1>4 DEF Post
  <2>2. Len(b) \in Nat
    BY <1>1, BatchIs
  <2>3. R \subseteq Q
    BY <1>1, <1>2, <2>1
  <2>4. ReportsBy[r][now] \subseteq Q
    BY <1>1, <2>1 DEF ReportedBy
  <2>5. \A i \in 1..Len(b) : Reported(b[i], ReportsBy[r][now])
    BY <1>1, BatchIsReported
  <2> HIDE DEF b, R, Q
  <2>6. \A i \in 1..Len(b) : Reported(b[i], Q)
    BY <2>4, <2>5 DEF Reported
  <2>7. EndsFrom(db, Q)
    BY <1>0, <2>3, MoreReports
  <2>8. EndsFrom(db', Q)
    BY <2>1, <2>2, <2>6, <2>7, InsertKeeps
  <2> QED
    BY <1>0, <2>8 DEF EndsInv, Q
<1>5. CASE UNCHANGED vars
  <2>1. db' = db /\ taken' = taken /\ now' = now
    BY <1>5 DEF vars
  <2> QED
    BY <1>0, <2>1 DEF EndsInv
<1> QED
  BY <1>3, <1>4, <1>5 DEF Next

(* An end that was reported in full is stored, or an earlier one is. *)
LEMMA WholeIsStored ==
  ASSUME EndsInv, NEW r \in taken \cap Whole, NEW x \in ReportsBy[r][now]
  PROVE  db.run[x.run].ended # None /\ \E n \in x.times : db.run[x.run].ended <= n
<1>1. /\ now \in 0..MaxTime /\ now \in Nat /\ 0 \in Nat /\ r \in Requests
      /\ SourceOf(r) \notin Off /\ Timed(r) /\ Len(EventsOf(r, 0)) <= MaxEvents
  BY TelemetryAssumption DEF EndsInv, RetryInv, Whole
<1>2. x \in Reports(r, now)
  BY <1>1 DEF ReportsBy
<1>3. PICK e \in ToSet(EventsOf(r, now)) : Says(e, x)
  BY <1>1, <1>2, EndsAreReported
<1>4. EventsOf(r, 0) = EventsOf(r, now)
  BY <1>1, RequestIsEvents
<1> DEFINE p == Prepare(r, e, now)
<1>5. \E i \in DOMAIN BatchOf[r][now] : BatchOf[r][now][i] = p
  <2>1. Len(EventsOf(r, now)) <= MaxEvents
    BY <1>1, <1>4
  <2> QED
    BY <1>1, <2>1, BatchIs
<1>6. p.key[2] = e.run /\ p.key[4] = e.type /\ p.key[5] = e.at
  BY DEF Prepare, KeyOf
<1> HIDE DEF p
<1>7. p.key \in Store!KeysIn(db)
  BY <1>1, <1>5 DEF EndsInv, RetryInv, KeysOf
<1>8. PICK y \in db.events : y.ev.key = p.key
  BY <1>7 DEF Store!KeysIn
<1>9. Accounted(db, y.ev)
  BY DEF EndsInv, EndsFrom
<1>10. y.ev.run = e.run /\ y.ev.type = e.type /\ y.ev.at = e.at
  BY <1>6, <1>8, <1>9 DEF Accounted
<1> QED
  BY <1>3, <1>9, <1>10 DEF Accounted, Says

(* Runs end with what their agents report, for any requests, posted in any *)
(* order and any number of times: no end is made up, none that was         *)
(* reported in full is missed, and the outcome is that of the end.         *)
THEOREM RunEndsStayTrue == Spec => []RunsEndWithTheirAgents
<1>1. EndsInv => RunsEndWithTheirAgents
  <2> SUFFICES ASSUME EndsInv PROVE RunsEndWithTheirAgents
    OBVIOUS
  <2>1. ASSUME NEW u \in RunsSeen, db.run[u].ended # None
        PROVE  \E x \in ReportedBy(taken, now) :
                 x.run = u /\ db.run[u].ended \in x.times /\ x.status = db.run[u].status
    BY <2>1 DEF EndsInv, EndsFrom, EndFrom
  <2>2. ASSUME NEW x \in UNION {ReportsBy[r][now] : r \in taken \cap Whole}
        PROVE  db.run[x.run].ended # None /\ \E n \in x.times : db.run[x.run].ended <= n
    BY <2>2, WholeIsStored
  <2> QED
    BY <2>1, <2>2 DEF RunsEndWithTheirAgents, ReportedBy
<1> QED
  BY <1>1, EndsInitHolds, EndsNextHolds, PTL DEF Spec
-----------------------------------------------------------------------------
(* Model calls: the request of a call and its completion, in that order.   *)

Asks(x, y) ==
  /\ x.type = "model.requested" /\ y.type = "model.completed"
  /\ x.run = y.run /\ x.step = y.step /\ x.at = y.at

(* Completions of the steps of Z come after their requests, and requests   *)
(* come before their completions.                                          *)
Matched(q, Z) ==
  \A i \in DOMAIN q :
    /\ q[i].type = "model.completed" /\ q[i].step \in Z =>
         \E j \in DOMAIN q : j < i /\ Asks(q[j], q[i])
    /\ q[i].type = "model.requested" => \E j \in DOMAIN q : i < j /\ Asks(q[i], q[j])

LEMMA MatchedConcat ==
  ASSUME NEW S, NEW p \in Seq(S), NEW q \in Seq(S), NEW Z, Matched(p, Z), Matched(q, Z)
  PROVE  Matched(p \o q, Z)
<1> DEFINE m == Len(p)
           n == Len(q)
           c == p \o q
<1>1. m \in Nat /\ n \in Nat /\ DOMAIN p = 1..m /\ DOMAIN q = 1..n /\ DOMAIN c = 1..(m + n)
  OBVIOUS
<1>2. \A i \in 1..m : c[i] = p[i]
  OBVIOUS
<1>3. \A i \in 1..n : c[m + i] = q[i]
  OBVIOUS
<1> HIDE DEF m, n, c
<1>4. ASSUME NEW i \in 1..m
      PROVE  /\ c[i].type = "model.completed" /\ c[i].step \in Z =>
                  \E j \in DOMAIN c : j < i /\ Asks(c[j], c[i])
             /\ c[i].type = "model.requested" => \E j \in DOMAIN c : i < j /\ Asks(c[i], c[j])
  <2>1. c[i] = p[i] /\ \A j \in 1..m : j \in DOMAIN c /\ c[j] = p[j]
    BY <1>1, <1>2
  <2> QED
    BY <1>1, <2>1 DEF Matched
<1>5. ASSUME NEW k \in 1..n
      PROVE  /\ c[m + k].type = "model.completed" /\ c[m + k].step \in Z =>
                  \E j \in DOMAIN c : j < m + k /\ Asks(c[j], c[m + k])
             /\ c[m + k].type = "model.requested" =>
                  \E j \in DOMAIN c : m + k < j /\ Asks(c[m + k], c[j])
  <2>1. c[m + k] = q[k] /\ \A j \in 1..n : m + j \in DOMAIN c /\ c[m + j] = q[j]
    BY <1>1, <1>3
  <2>2. \A j \in 1..n : /\ j < k => m + j < m + k
                        /\ k < j => m + k < m + j
    BY <1>1
  <2>3. /\ q[k].type = "model.completed" /\ q[k].step \in Z =>
             \E j \in 1..n : j < k /\ Asks(q[j], q[k])
        /\ q[k].type = "model.requested" => \E j \in 1..n : k < j /\ Asks(q[k], q[j])
    BY <1>1 DEF Matched
  <2> QED
    BY <2>1, <2>2, <2>3
<1>6. ASSUME NEW i \in DOMAIN c
      PROVE  i \in 1..m \/ \E k \in 1..n : i = m + k
  <2>1. i \notin 1..m => i - m \in 1..n /\ i = m + (i - m)
    BY <1>1
  <2> QED
    BY <2>1
<1>7. Matched(c, Z)
  <2> SUFFICES ASSUME NEW i \in DOMAIN c
               PROVE  /\ c[i].type = "model.completed" /\ c[i].step \in Z =>
                           \E j \in DOMAIN c : j < i /\ Asks(c[j], c[i])
                      /\ c[i].type = "model.requested" =>
                           \E j \in DOMAIN c : i < j /\ Asks(c[i], c[j])
    BY DEF Matched
  <2> QED
    BY <1>4, <1>5, <1>6
<1> QED
  BY <1>7 DEF c

LEMMA MatchedFlatten ==
  ASSUME NEW S, NEW q \in Seq(Seq(S)), NEW Z, \A i \in DOMAIN q : Matched(q[i], Z)
  PROVE  Matched(FlattenSeq(q), Z)
<1> DEFINE n == Len(q)
<1>1. n \in Nat /\ DOMAIN q = 1..n /\ \A i \in 1..n : q[i] \in Seq(S) /\ Matched(q[i], Z)
  OBVIOUS
<1>2. CASE n = 0
  <2>1. q = <<>> /\ FlattenSeq(q) = <<>>
    BY <1>2 DEF FlattenSeq
  <2> QED
    BY <2>1 DEF Matched
<1>3. CASE n # 0
  <2> DEFINE f == CHOOSE g : Flat(q, n, g)
  <2>1. Flat(q, n, f)
    BY <1>1, Flattening
  <2>2. FlattenSeq(q) = f[n]
    BY <1>3 DEF FlattenSeq, Flat
  <2> HIDE DEF f
  <2>3. ASSUME NEW i \in 1..n PROVE f[i] = IF i = 1 THEN q[i] ELSE f[i - 1] \o q[i]
    BY <2>1 DEF Flat
  <2> DEFINE Up(m) == f[m] \in Seq(S) /\ Matched(f[m], Z)
             N == {m \in Nat : m + 1 <= n => Up(m + 1)}
  <2> HIDE DEF n
  <2>4. 0 \in N
    <3>1. 1 \in 1..n
      BY <1>1, <1>3
    <3>2. f[1] = q[1] /\ q[1] \in Seq(S) /\ Matched(q[1], Z)
      BY <1>1, <2>3, <3>1
    <3>3. Up(1)
      BY <3>2
    <3> QED
      BY <3>3
  <2>5. ASSUME NEW m \in N PROVE m + 1 \in N
    <3>1. m \in Nat /\ (m + 1 <= n => Up(m + 1))
      OBVIOUS
    <3> DEFINE k == m + 1
    <3>2. ASSUME k + 1 <= n PROVE Up(k + 1)
      <4>1. k + 1 \in 1..n /\ k + 1 # 1 /\ (k + 1) - 1 = k /\ k <= n /\ k \in Nat
        BY <1>1, <3>1, <3>2
      <4>2. f[k] \in Seq(S) /\ Matched(f[k], Z)
        BY <3>1, <4>1
      <4> HIDE DEF k
      <4>3. f[k + 1] = f[k] \o q[k + 1]
        BY <2>3, <4>1
      <4>4. q[k + 1] \in Seq(S) /\ Matched(q[k + 1], Z)
        BY <1>1, <4>1
      <4>5. f[k + 1] \in Seq(S) /\ Matched(f[k + 1], Z)
        BY <4>2, <4>3, <4>4, MatchedConcat
      <4> QED
        BY <4>5
    <3> QED
      BY <3>1, <3>2
  <2>6. N = Nat
    <3> HIDE DEF N
    <3>1. N \in SUBSET Nat
      BY DEF N
    <3> QED
      BY <2>4, <2>5, <3>1, AllNumbers
  <2>7. Up(n)
    <3>1. n - 1 \in Nat /\ (n - 1) + 1 = n
      BY <1>1, <1>3
    <3>2. n - 1 \in N
      BY <2>6, <3>1
    <3> HIDE DEF Up
    <3> QED
      BY <1>1, <3>1, <3>2
  <2> QED
    BY <2>2, <2>7
<1> QED
  BY <1>2, <1>3

LEMMA MatchedSort ==
  ASSUME NEW S, NEW es \in Seq(S), \A i \in DOMAIN es : es[i].at \in Nat,
         NEW Z, Matched(es, Z)
  PROVE  Matched(SortByTime(es), Z)
<1> DEFINE D == DOMAIN es
           sorted == SortByTime(es)
<1>1. DOMAIN sorted = D /\ \E place : Places(es, place)
  BY SortPlaces
<1>2. PICK place : Places(es, place)
  BY <1>1
<1>3. /\ place \in [D -> D]
      /\ \A k \in D : \E i \in D : place[i] = k
      /\ \A i \in D : sorted[place[i]] = es[i]
      /\ \A i, j \in D : es[i].at = es[j].at /\ i < j => place[i] < place[j]
  BY <1>2 DEF Places
<1>4. \A i \in D :
        /\ es[i].type = "model.completed" /\ es[i].step \in Z => \E j \in D : j < i /\ Asks(es[j], es[i])
        /\ es[i].type = "model.requested" => \E j \in D : i < j /\ Asks(es[i], es[j])
  BY DEF Matched
<1>5. \A x, y : Asks(x, y) => x.at = y.at
  BY DEF Asks
<1> HIDE DEF D, sorted
<1>6. ASSUME NEW i \in D
      PROVE  /\ sorted[place[i]].type = "model.completed" /\ sorted[place[i]].step \in Z =>
                  \E j \in D : j < place[i] /\ Asks(sorted[j], sorted[place[i]])
             /\ sorted[place[i]].type = "model.requested" =>
                  \E j \in D : place[i] < j /\ Asks(sorted[place[i]], sorted[j])
  <2>1. sorted[place[i]] = es[i] /\ \A j \in D : place[j] \in D /\ sorted[place[j]] = es[j]
    BY <1>3
  <2>2. ASSUME es[i].type = "model.completed", es[i].step \in Z
        PROVE  \E j \in D : j < place[i] /\ Asks(sorted[j], sorted[place[i]])
    <3>1. PICK j \in D : j < i /\ Asks(es[j], es[i])
      BY <1>4, <2>2
    <3>2. place[j] < place[i]
      BY <1>3, <1>5, <3>1
    <3> QED
      BY <2>1, <3>1, <3>2
  <2>3. ASSUME es[i].type = "model.requested"
        PROVE  \E j \in D : place[i] < j /\ Asks(sorted[place[i]], sorted[j])
    <3>1. PICK j \in D : i < j /\ Asks(es[i], es[j])
      BY <1>4, <2>3
    <3>2. place[i] < place[j]
      BY <1>3, <1>5, <3>1
    <3> QED
      BY <2>1, <3>1, <3>2
  <2> QED
    BY <2>1, <2>2, <2>3
<1>7. ASSUME NEW k \in D
      PROVE  /\ sorted[k].type = "model.completed" /\ sorted[k].step \in Z =>
                  \E j \in D : j < k /\ Asks(sorted[j], sorted[k])
             /\ sorted[k].type = "model.requested" => \E j \in D : k < j /\ Asks(sorted[k], sorted[j])
  BY <1>3, <1>6
<1> QED
  BY <1>1, <1>7 DEF Matched, sorted

LEMMA MatchedNothing ==
  ASSUME NEW q, NEW Z,
         \A e \in ToSet(q) : e.type \notin {"model.requested", "model.completed"}
  PROVE  Matched(q, Z)
BY DEF Matched, ToSet

(* The events of a span: those of its model call, and others. *)
OfCall(e, s, t) ==
  /\ e.type \in {"model.requested", "model.completed"} =>
       /\ s.op \in ModelOperations
       /\ e.step = Append(SpanId(s, t), "request") /\ e.at = SpanTime(s, t)
  /\ e.type = "model.requested" => s.op # "embeddings"
  /\ e.type = "model.completed" => e.status # "started"
  /\ e.status = "started" => e.type = "model.requested" \/ e.step = None

LEMMA SpanCalls ==
  ASSUME NEW s, NEW source, NEW t, NEW Z,
         s.op = "embeddings" => Append(SpanId(s, t), "request") \notin Z
  PROVE  /\ \A e \in ToSet(SpanEvents(s, source, t)) : OfCall(e, s, t)
         /\ Matched(SpanEvents(s, source, t), Z)
<1> DEFINE run == RunIdentifier(s, source, t)
           at == SpanTime(s, t)
           id == SpanId(s, t)
           step == Append(id, "request")
           terminal == TerminalType(s)
           status == SpanStatus(s)
           Model == {"model.requested", "model.completed"}
           started == IF s.root THEN <<NewEvent(run, None, "run.started", "started", at)>> ELSE <<>>
           requested == IF s.op \in ModelOperations \ {"embeddings"}
                        THEN <<NewEvent(run, Append(id, "request"), "model.requested", "started", at)>>
                        ELSE <<>>
           completed == IF s.op \in ModelOperations
                        THEN <<NewEvent(run, Append(id, "request"), "model.completed", SpanStatus(s), at)>>
                        ELSE <<>>
           ended == CASE terminal = None -> <<>>
                      [] terminal = "run.completed" ->
                           <<NewEvent(run, None, terminal, "completed", at)>>
                      [] OTHER -> <<NewEvent(run, id, terminal, "failed", at)>>
           all == started \o requested \o completed \o ended
           other == <<NewEvent(run, id, "source.extension", "unknown", at)>>
<1>1. SpanEvents(s, source, t) = IF all # <<>> THEN all ELSE other
  BY DEF SpanEvents
<1>2. terminal \in {None, "run.failed", "tool.failed", "error.recorded", "run.completed"}
  BY DEF TerminalType
<1>3. status \in {"completed", "failed", "unknown"}
  BY DEF SpanStatus
<1> HIDE DEF run, at, id, terminal, status
<1>4. ToSet(<<>>) = {} /\ IsSequence(<<>>)
  BY DEF ToSet, IsSequence
<1>5. \A x, y, z : /\ NewEvent(run, x, y, z, at).type = y /\ NewEvent(run, x, y, z, at).status = z
                   /\ NewEvent(run, x, y, z, at).step = x /\ NewEvent(run, x, y, z, at).at = at
                   /\ NewEvent(run, x, y, z, at).run = run
  BY DEF NewEvent
<1> DEFINE Other(e) == e.type \notin Model /\ (e.status = "started" => e.step = None)
<1>6. IsSequence(started) /\ \A e \in ToSet(started) : Other(e)
  BY <1>4, <1>5, OneEvent
<1>7. IsSequence(other) /\ \A e \in ToSet(other) : Other(e)
  BY <1>5, OneEvent
<1>8. IsSequence(ended) /\ \A e \in ToSet(ended) : Other(e)
  <2>1. CASE terminal = None
    <3>1. ended = <<>>
      BY <2>1, TelemetryAssumption
    <3> HIDE DEF ended
    <3> QED
      BY <1>4, <3>1
  <2>2. CASE terminal = "run.completed" /\ terminal # None
    <3>1. ended = <<NewEvent(run, None, terminal, "completed", at)>>
      BY <2>2
    <3> HIDE DEF ended
    <3> QED
      BY <1>5, <2>2, <3>1, OneEvent
  <2>3. CASE terminal # "run.completed" /\ terminal # None
    <3>1. ended = <<NewEvent(run, id, terminal, "failed", at)>>
      BY <2>3
    <3> HIDE DEF ended
    <3> QED
      BY <1>2, <1>5, <2>3, <3>1, OneEvent
  <2> QED
    BY <2>1, <2>2, <2>3
<1>9. /\ IsSequence(requested) /\ IsSequence(completed)
      /\ \A e \in ToSet(requested) : OfCall(e, s, t)
      /\ \A e \in ToSet(completed) : OfCall(e, s, t)
  <2> DEFINE r == NewEvent(run, step, "model.requested", "started", at)
             c == NewEvent(run, step, "model.completed", status, at)
  <2>1. /\ r.type = "model.requested" /\ r.step = Append(SpanId(s, t), "request")
        /\ r.at = SpanTime(s, t)
    BY <1>5 DEF at, id
  <2>2. /\ c.type = "model.completed" /\ c.step = Append(SpanId(s, t), "request")
        /\ c.at = SpanTime(s, t) /\ c.status # "started"
    BY <1>3, <1>5 DEF at, id
  <2>3. requested = IF s.op \in ModelOperations \ {"embeddings"} THEN <<r>> ELSE <<>>
    OBVIOUS
  <2>4. completed = IF s.op \in ModelOperations THEN <<c>> ELSE <<>>
    BY DEF status
  <2> HIDE DEF r, c, requested, completed
  <2>5. s.op \in ModelOperations \ {"embeddings"} => OfCall(r, s, t)
    BY <2>1 DEF OfCall
  <2>6. s.op \in ModelOperations => OfCall(c, s, t)
    BY <2>2 DEF OfCall
  <2> QED
    BY <1>4, <2>3, <2>4, <2>5, <2>6, OneEvent
<1>10. Matched(requested \o completed, Z)
  <2> DEFINE r == NewEvent(run, step, "model.requested", "started", at)
             c == NewEvent(run, step, "model.completed", status, at)
  <2>1. CASE s.op \in ModelOperations \ {"embeddings"}
    <3>1. requested = <<r>> /\ completed = <<c>>
      BY <2>1 DEF status
    <3>2. Asks(r, c) /\ r.type # "model.completed" /\ c.type # "model.requested"
      BY <1>5 DEF Asks
    <3> HIDE DEF r, c, requested, completed
    <3> DEFINE q == <<r>> \o <<c>>
    <3>3. DOMAIN q = 1..2 /\ q[1] = r /\ q[2] = c
      OBVIOUS
    <3> HIDE DEF q
    <3>4. Matched(q, Z)
      BY <3>2, <3>3 DEF Matched
    <3> QED
      BY <3>1, <3>4 DEF q
  <2>2. CASE s.op = "embeddings"
    <3>1. requested \o completed = <<c>>
      BY <2>2 DEF ModelOperations, status
    <3>2. c.type # "model.requested" /\ c.step \notin Z
      BY <1>5, <2>2 DEF id
    <3> HIDE DEF c
    <3>3. Matched(<<c>>, Z)
      BY <3>2 DEF Matched
    <3> QED
      BY <3>1, <3>3
  <2>3. CASE s.op \notin ModelOperations
    <3>1. requested \o completed = <<>>
      BY <2>3
    <3>2. Matched(<<>>, Z)
      BY DEF Matched
    <3> QED
      BY <3>1, <3>2
  <2> QED
    BY <2>1, <2>2, <2>3
<1> HIDE DEF started, requested, completed, ended, other, step
<1>11. /\ Matched(started, Z) /\ Matched(ended, Z) /\ Matched(other, Z)
  BY <1>6, <1>7, <1>8, MatchedNothing
<1>12. Matched(all, Z)
  <2> DEFINE S == ToSet(started) \cup ToSet(requested) \cup ToSet(completed) \cup ToSet(ended)
             calls == requested \o completed
             begin == started \o calls
  <2>1. /\ ToSet(started) \subseteq S /\ ToSet(requested) \subseteq S
        /\ ToSet(completed) \subseteq S /\ ToSet(ended) \subseteq S
    OBVIOUS
  <2> HIDE DEF S
  <2>2. started \in Seq(S) /\ requested \in Seq(S) /\ completed \in Seq(S) /\ ended \in Seq(S)
    BY <1>6, <1>8, <1>9, <2>1 DEF IsSequence
  <2>3. calls \in Seq(S) /\ Matched(calls, Z)
    BY <1>10, <2>2
  <2>4. started \o requested \o completed = begin
    BY <2>2, ConcatAssociative
  <2> HIDE DEF calls
  <2>5. begin \in Seq(S) /\ Matched(begin, Z)
    BY <1>11, <2>2, <2>3, MatchedConcat
  <2> HIDE DEF begin
  <2>6. Matched(begin \o ended, Z)
    BY <1>11, <2>2, <2>5, MatchedConcat
  <2> QED
    BY <2>4, <2>6
<1>13. ToSet(all) = ToSet(started) \cup ToSet(requested) \cup ToSet(completed) \cup ToSet(ended)
  BY <1>6, <1>8, <1>9, ConcatSequences
<1>14. \A e : Other(e) => OfCall(e, s, t)
  BY DEF OfCall
<1> HIDE DEF all, Other
<1>15. \A e \in ToSet(SpanEvents(s, source, t)) : OfCall(e, s, t)
  BY <1>1, <1>6, <1>7, <1>8, <1>9, <1>13, <1>14
<1> QED
  BY <1>1, <1>11, <1>12, <1>15

(* The steps of the calls that report a request. *)
Asked == UNION {{CallStep(c, t) : t \in 0..MaxTime} : c \in {x \in ModelCalls : x[2].op # "embeddings"}}

LEMMA CallOf ==
  ASSUME NEW r \in Requests, r.signal = "otlp-traces", NEW g \in ToSet(r.groups),
         NEW s \in ToSet(g.items), s.op \in ModelOperations
  PROVE  <<r, s>> \in ModelCalls
<1>1. s \in Items(r)
  <2>1. PICK i \in DOMAIN r.groups : g = r.groups[i]
    BY DEF ToSet
  <2> QED
    BY <2>1 DEF Items
<1> QED
  BY <1>1 DEF ModelCalls

LEMMA EmbeddingsAreNotAsked ==
  ASSUME CallsAreTheirOwn, NEW c \in ModelCalls, c[2].op = "embeddings", NEW t \in 0..MaxTime
  PROVE  CallStep(c, t) \notin Asked
<1> SUFFICES ASSUME CallStep(c, t) \in Asked PROVE FALSE
  OBVIOUS
<1>1. PICK x \in ModelCalls, u \in 0..MaxTime : x[2].op # "embeddings" /\ CallStep(c, t) = CallStep(x, u)
  BY DEF Asked
<1>2. c = x
  BY <1>1 DEF CallsAreTheirOwn
<1> QED
  BY <1>1, <1>2

(* The step of a call is no other step. *)
LEMMA CallStepIsLong ==
  ASSUME NEW c, NEW t, NEW x
  PROVE  CallStep(c, t) # <<x>>
<1> DEFINE id == SpanId(c[2], t)
           S == {id[1], id[2], id[3]}
<1>1. id \in Seq(S) /\ Len(id) >= 2
  <2>1. CASE c[2].id # None
    <3>1. id = <<"span", c[2].id>>
      BY <2>1 DEF SpanId
    <3> HIDE DEF id
    <3>2. "span" \in S /\ c[2].id \in S
      BY <3>1
    <3> QED
      BY <3>1, <3>2
  <2>2. CASE c[2].id = None
    <3>1. id = <<"hash", c[2].trace, SpanTime(c[2], t)>>
      BY <2>2 DEF SpanId
    <3> HIDE DEF id
    <3>2. "hash" \in S /\ c[2].trace \in S /\ SpanTime(c[2], t) \in S
      BY <3>1
    <3> HIDE DEF S
    <3> QED
      BY <3>1, <3>2
  <2> QED
    BY <2>1, <2>2
<1> HIDE DEF id, S
<1>2. Append(id, "request") \in Seq(S \cup {"request"}) /\ Len(Append(id, "request")) = Len(id) + 1
  BY <1>1
<1>3. Len(<<x>>) = 1
  OBVIOUS
<1>4. CallStep(c, t) = Append(id, "request")
  BY DEF CallStep, id
<1>5. Len(CallStep(c, t)) = Len(id) + 1 /\ Len(id) \in Nat
  BY <1>1, <1>2, <1>4
<1>6. Len(CallStep(c, t)) # 1
  BY <1>1, <1>5
<1> QED
  BY <1>3, <1>6

(* The spans of a request, one after the other and then by time. *)
LEMMA TracesMatched ==
  ASSUME CallsAreTheirOwn, NEW r \in Requests, r.signal = "otlp-traces", NEW t \in 0..MaxTime
  PROVE  Matched(EventsOf(r, t), Asked)
<1> DEFINE source == SourceOf(r)
<1>1. t \in Nat
  BY TelemetryAssumption
<1>2. ASSUME NEW g \in ToSet(r.groups), NEW s \in ToSet(g.items)
      PROVE  Matched(ItemEvents(r, g, s, source, t), Asked)
  <2>1. ItemEvents(r, g, s, source, t) = SpanEvents(s, OwnSource(r, g), t)
    BY DEF ItemEvents, OwnSource
  <2>2. s.op = "embeddings" => Append(SpanId(s, t), "request") \notin Asked
    <3> SUFFICES ASSUME s.op = "embeddings" PROVE Append(SpanId(s, t), "request") \notin Asked
      OBVIOUS
    <3> DEFINE c == <<r, s>>
    <3>1. c \in ModelCalls /\ c[2] = s
      BY CallOf DEF ModelOperations
    <3> HIDE DEF c
    <3>2. CallStep(c, t) \notin Asked
      BY <3>1, EmbeddingsAreNotAsked
    <3> QED
      BY <3>1, <3>2 DEF CallStep
  <2> QED
    BY <2>1, <2>2, SpanCalls
<1>3. ASSUME NEW g \in ToSet(r.groups)
      PROVE  Matched(GroupEvents(r, g, source, t), Asked)
  <2> DEFINE q == [i \in DOMAIN g.items |-> ItemEvents(r, g, g.items[i], source, t)]
             S == UNION {ToSet(q[i]) : i \in DOMAIN q}
             n == Len(g.items)
  <2>1. DOMAIN q = 1..n /\ n \in Nat
    BY TelemetryAssumption DEF WellFormed, IsSequence
  <2>2. \A i \in DOMAIN q : IsSequence(q[i]) /\ Matched(q[i], Asked)
    <3>1. \A i \in DOMAIN q : g.items[i] \in ToSet(g.items)
      BY DEF ToSet
    <3> QED
      BY <1>1, <1>2, <3>1, ItemIsEvents DEF ItemIn, AreEvents
  <2>3. GroupEvents(r, g, source, t) = FlattenSeq(q)
    BY DEF GroupEvents
  <2>4. q = [i \in 1..n |-> q[i]]
    BY <2>1
  <2> HIDE DEF q, n
  <2>5. \A i \in DOMAIN q : q[i] \in Seq(S)
    <3> SUFFICES ASSUME NEW i \in DOMAIN q PROVE q[i] \in Seq(S)
      OBVIOUS
    <3>1. q[i] \in Seq(ToSet(q[i])) /\ ToSet(q[i]) \subseteq S
      BY <2>2 DEF IsSequence
    <3> HIDE DEF S
    <3> QED
      BY <3>1
  <2> HIDE DEF S
  <2>6. q \in Seq(Seq(S))
    BY <2>1, <2>4, <2>5
  <2> QED
    BY <2>2, <2>3, <2>6, MatchedFlatten
<1>4. EventsOf(r, t) = Normalize(r, source, t)
  BY DEF EventsOf, SourceOf
<1> HIDE DEF source
<1> DEFINE q == [i \in DOMAIN r.groups |-> GroupEvents(r, r.groups[i], source, t)]
           S == UNION {ToSet(q[i]) : i \in DOMAIN q}
           n == Len(r.groups)
<1>5. DOMAIN q = 1..n /\ n \in Nat
  BY TelemetryAssumption DEF WellFormed, IsSequence
<1>6. \A i \in DOMAIN q : AreEvents(q[i]) /\ Matched(q[i], Asked)
  <2>1. \A i \in DOMAIN q : r.groups[i] \in ToSet(r.groups)
    BY DEF ToSet
  <2> QED
    BY <1>1, <1>3, <2>1, GroupIsEvents
<1>7. Normalize(r, source, t) = SortByTime(FlattenSeq(q))
  BY DEF Normalize
<1>8. q = [i \in 1..n |-> q[i]]
  BY <1>5
<1> HIDE DEF q, n
<1>9. \A i \in DOMAIN q : q[i] \in Seq(S)
  <2> SUFFICES ASSUME NEW i \in DOMAIN q PROVE q[i] \in Seq(S)
    OBVIOUS
  <2>1. q[i] \in Seq(ToSet(q[i])) /\ ToSet(q[i]) \subseteq S
    BY <1>6 DEF AreEvents, IsSequence
  <2> HIDE DEF S
  <2> QED
    BY <2>1
<1>10. \A e \in S : e.at \in Nat
  BY <1>6 DEF AreEvents
<1> HIDE DEF S
<1>11. q \in Seq(Seq(S))
  BY <1>5, <1>8, <1>9
<1> DEFINE f == FlattenSeq(q)
<1>12. f \in Seq(S) /\ Matched(f, Asked)
  BY <1>6, <1>11, MatchedFlatten, FlattenContents
<1> HIDE DEF f
<1>13. \A i \in DOMAIN f : f[i].at \in Nat
  BY <1>10, <1>12
<1>14. Matched(SortByTime(f), Asked)
  BY <1>12, <1>13, MatchedSort
<1> QED
  BY <1>4, <1>7, <1>14 DEF f

(* An event of a request that is about a model call is about one of the    *)
(* request's, and no other event starts the step of a call.                *)
Model == {"model.requested", "model.completed"}

(* The step of a payload is of no span's call. *)
LEMMA StepsOfCalls ==
  ASSUME CallsAreTheirOwn
  PROVE  /\ None \notin CallSteps /\ \A x : <<x>> \notin CallSteps
         /\ Asked \subseteq CallSteps
<1>1. \A x : \A c \in ModelCalls, u \in 0..MaxTime : CallStep(c, u) # <<x>>
  BY CallStepIsLong
<1>2. \A x : <<x>> \notin CallSteps
  BY <1>1 DEF CallSteps
<1>3. None \notin CallSteps
  BY DEF CallSteps, CallsAreTheirOwn
<1>4. Asked \subseteq CallSteps
  BY DEF CallSteps, Asked
<1> QED
  BY <1>2, <1>3, <1>4

LEMMA EventCalls ==
  ASSUME CallsAreTheirOwn, NEW r \in Requests, NEW t \in 0..MaxTime, NEW e \in ToSet(EventsOf(r, t))
  PROVE  /\ e.type \in Model /\ e.step \in CallSteps =>
              /\ r.signal = "otlp-traces"
              /\ \E c \in ModelCalls : /\ c[1] = r /\ e.step = CallStep(c, t) /\ e.at = SpanTime(c[2], t)
                                       /\ c[2].start \in Nat /\ c[2].end \in Nat
                                       /\ e.type = "model.requested" => e.step \in Asked
         /\ e.type = "model.completed" => e.status # "started"
         /\ e.status = "started" => e.type = "model.requested" \/ e.step \notin CallSteps
<1>0. t \in Nat
  BY TelemetryAssumption
<1>1. None \notin CallSteps /\ \A x : <<x>> \notin CallSteps
  BY StepsOfCalls
<1>2. ASSUME r.signal # "hook"
      PROVE  \E g \in ToSet(r.groups) : \E x \in ToSet(g.items) :
               e \in ToSet(ItemEvents(r, g, x, SourceOf(r), t))
  <2>1. EventsOf(r, t) = Normalize(r, SourceOf(r), t)
    BY <1>2 DEF EventsOf, SourceOf
  <2> QED
    BY <1>0, <1>2, <2>1, NormalizeIsEvents
<1>3. CASE r.signal = "otlp-traces"
  <2>1. PICK g \in ToSet(r.groups) : \E x \in ToSet(g.items) :
               e \in ToSet(ItemEvents(r, g, x, SourceOf(r), t))
    BY <1>2, <1>3
  <2>2. PICK s \in ToSet(g.items) : e \in ToSet(ItemEvents(r, g, s, SourceOf(r), t))
    BY <2>1
  <2>3. ItemEvents(r, g, s, SourceOf(r), t) = SpanEvents(s, OwnSource(r, g), t)
    BY <1>3 DEF ItemEvents, OwnSource
  <2> DEFINE Z == {}
  <2>4. OfCall(e, s, t)
    <3>1. s.op = "embeddings" => Append(SpanId(s, t), "request") \notin Z
      OBVIOUS
    <3> HIDE DEF Z
    <3> QED
      BY <2>2, <2>3, <3>1, SpanCalls
  <2>5. s.start \in Nat /\ s.end \in Nat
    BY <1>3, TelemetryAssumption DEF WellFormed
  <2> DEFINE c == <<r, s>>
  <2>6. c[1] = r /\ c[2] = s /\ (s.op \in ModelOperations => c \in ModelCalls)
    BY <1>3, CallOf
  <2> HIDE DEF c
  <2>7. CallStep(c, t) = Append(SpanId(s, t), "request")
    BY <2>6 DEF CallStep
  <2>8. c \in ModelCalls /\ s.op # "embeddings" => CallStep(c, t) \in Asked
    BY <2>6 DEF Asked
  <2> QED
    BY <1>1, <1>3, <2>4, <2>5, <2>6, <2>7, <2>8 DEF OfCall, Model
<1>4. CASE r.signal = "hook"
  <2> DEFINE p == r.payload
             rule == Rule(Canonical(p.source, p.name))
  <2>1. EventsOf(r, t) = HookEvents(p, t)
    BY <1>4 DEF EventsOf
  <2>2. e = UnmappedEvent(p, t) \/ e = MappedEvent(p, t)
    BY <2>1, PayloadIs, OneEvent
  <2>3. /\ UnmappedEvent(p, t).type = "source.extension" /\ UnmappedEvent(p, t).status = "unknown"
        /\ UnmappedEvent(p, t).step = None
    BY DEF UnmappedEvent, NewEvent
  <2>4. /\ MappedEvent(p, t).type = rule[1] /\ MappedEvent(p, t).status = rule[2]
        /\ MappedEvent(p, t).step \in {None, <<p.step>>}
    BY DEF MappedEvent, NewEvent
  <2>5. rule[1] = "model.completed" => rule[2] # "started"
    BY DEF Rule
  <2>6. e.step \notin CallSteps
    BY <1>1, <2>2, <2>3, <2>4
  <2>7. e.type = "model.completed" => e.status # "started"
    BY <2>2, <2>3, <2>4, <2>5
  <2> QED
    BY <2>6, <2>7
<1>5. CASE r.signal \notin {"hook", "otlp-traces"}
  <2>1. PICK g \in ToSet(r.groups) : \E x \in ToSet(g.items) :
               e \in ToSet(ItemEvents(r, g, x, SourceOf(r), t))
    BY <1>2, <1>5
  <2>2. PICK y \in ToSet(g.items) : e \in ToSet(ItemEvents(r, g, y, SourceOf(r), t))
    BY <2>1
  <2>3. r.signal \in {"otlp-logs", "otlp-metrics"}
    BY <1>5, TelemetryAssumption DEF WellFormed
  <2>4. CASE r.signal = "otlp-logs"
    <3>1. PICK x : ItemEvents(r, g, y, SourceOf(r), t) = <<x>> /\ x.type = LogType(y) /\ x.status # "started"
      BY <2>4 DEF ItemEvents, LogEvents, NewEvent
    <3>2. LogType(y) \in {"prompt.received", "tool.started", "error.recorded", "source.extension"}
      BY DEF LogType
    <3>3. e = x
      BY <2>2, <3>1, OneEvent
    <3> QED
      BY <3>1, <3>2, <3>3 DEF Model
  <2>5. CASE r.signal = "otlp-metrics"
    <3>1. PICK x : /\ ItemEvents(r, g, y, SourceOf(r), t) = <<x>>
                   /\ x.type = "source.extension" /\ x.status # "started"
      BY <2>5 DEF ItemEvents, MetricEvents, NewEvent
    <3>2. e = x
      BY <2>2, <3>1, OneEvent
    <3> QED
      BY <3>1, <3>2 DEF Model
  <2> QED
    BY <2>3, <2>4, <2>5
<1> QED
  BY <1>3, <1>4, <1>5
-----------------------------------------------------------------------------
(* The same of what the store gets.                                        *)

Sent(p) ==
  \E r \in Requests, t \in 0..MaxTime : \E e \in ToSet(EventsOf(r, t)) : p = Prepare(r, e, t)

(* What is about the model call c. *)
About(p, c, t) ==
  /\ p.step = CallStep(c, t) /\ p.at = SpanTime(c[2], t)
  /\ c[2].start \in Nat /\ c[2].end \in Nat
  /\ p.key = <<SourceOf(c[1]), p.run, p.step, p.type, p.at>>

LEMMA SentIs ==
  ASSUME CallsAreTheirOwn, NEW p, Sent(p)
  PROVE  /\ p.run \in RunsSeen /\ p.step \in StepsSeen \cup {None}
         /\ p.key[2] = p.run /\ p.key[3] = p.step /\ p.key[4] = p.type /\ p.key[5] = p.at
         /\ p.type \in Model /\ p.step \in CallSteps =>
              p.step # None /\ \E c \in ModelCalls, t \in 0..MaxTime : About(p, c, t)
         /\ p.type = "model.requested" /\ p.step \in CallSteps => p.step \in Asked
         /\ p.type = "model.completed" => p.status # "started"
         /\ p.status = "started" => p.type = "model.requested" \/ p.step \notin CallSteps
         /\ p.status # "absent"
<1>1. PICK r \in Requests, t \in 0..MaxTime : \E e \in ToSet(EventsOf(r, t)) : p = Prepare(r, e, t)
  BY DEF Sent
<1>2. PICK e \in ToSet(EventsOf(r, t)) : p = Prepare(r, e, t)
  BY <1>1
<1>3. /\ p.run = e.run /\ p.step = e.step /\ p.type = e.type /\ p.status = e.status /\ p.at = e.at
      /\ p.key = KeyOf(r, e, t)
  BY <1>2 DEF Prepare
<1>4. p.key[2] = p.run /\ p.key[3] = p.step /\ p.key[4] = p.type /\ p.key[5] = p.at
  BY <1>3 DEF KeyOf
<1>5. p.run \in RunsSeen /\ p.step \in StepsSeen \cup {None}
  BY <1>3 DEF RunsSeen, StepsSeen, AllEvents
<1>6. /\ e.type \in Model /\ e.step \in CallSteps =>
           /\ r.signal = "otlp-traces"
           /\ \E c \in ModelCalls : /\ c[1] = r /\ e.step = CallStep(c, t) /\ e.at = SpanTime(c[2], t)
                                    /\ c[2].start \in Nat /\ c[2].end \in Nat
                                    /\ e.type = "model.requested" => e.step \in Asked
      /\ e.type = "model.completed" => e.status # "started"
      /\ e.status = "started" => e.type = "model.requested" \/ e.step \notin CallSteps
  BY EventCalls
<1>7. ASSUME p.type \in Model, p.step \in CallSteps
      PROVE  /\ p.step # None /\ \E c \in ModelCalls, u \in 0..MaxTime : About(p, c, u)
             /\ p.type = "model.requested" => p.step \in Asked
  <2>1. r.signal = "otlp-traces"
    BY <1>3, <1>6, <1>7
  <2>2. PICK c \in ModelCalls : /\ c[1] = r /\ e.step = CallStep(c, t) /\ e.at = SpanTime(c[2], t)
                                /\ c[2].start \in Nat /\ c[2].end \in Nat
                                /\ e.type = "model.requested" => e.step \in Asked
    BY <1>3, <1>6, <1>7
  <2>3. KeyOf(r, e, t) = <<SourceOf(r), e.run, e.step, e.type, e.at>>
    BY <2>1 DEF KeyOf
  <2>4. About(p, c, t)
    BY <1>3, <2>2, <2>3 DEF About
  <2>5. e.step # None
    BY <2>2 DEF CallsAreTheirOwn
  <2> QED
    BY <1>3, <2>2, <2>4, <2>5
<1>8. "model.requested" \in Model
  BY DEF Model
<1>9. e.status # "absent"
  <2>1. t \in Nat
    BY TelemetryAssumption
  <2> QED
    BY <1>2, <2>1, RequestIsEvents DEF AreEvents
<1> QED
  BY <1>3, <1>4, <1>5, <1>6, <1>7, <1>8, <1>9

(* Two of one step are of one call. *)
LEMMA OneCall ==
  ASSUME CallsAreTheirOwn, NEW p, Sent(p), p.type \in Model, NEW q, Sent(q), q.type \in Model,
         p.step = q.step, p.step \in CallSteps
  PROVE  \E c \in ModelCalls : \E t, u \in 0..MaxTime : About(p, c, t) /\ About(q, c, u)
<1>1. PICK c \in ModelCalls, t \in 0..MaxTime : About(p, c, t)
  BY SentIs
<1>2. PICK d \in ModelCalls, u \in 0..MaxTime : About(q, d, u)
  BY SentIs
<1>3. c = d
  BY <1>1, <1>2 DEF About, CallsAreTheirOwn
<1> QED
  BY <1>1, <1>2, <1>3

LEMMA SameKey ==
  ASSUME CallsAreTheirOwn, NEW p, Sent(p), p.type \in Model, NEW q, Sent(q), p.step \in CallSteps,
         p.run = q.run, p.step = q.step, p.type = q.type, p.at = q.at
  PROVE  p.key = q.key
<1>1. PICK c \in ModelCalls : \E t, u \in 0..MaxTime : About(p, c, t) /\ About(q, c, u)
  BY OneCall
<1> QED
  BY <1>1 DEF About

(* A request of a model call is followed by its completion, or the call    *)
(* has one time.                                                           *)
OneTime(p) == \A q : Sent(q) /\ q.type \in Model /\ q.step = p.step => q.at = p.at

LEMMA BatchMatched ==
  ASSUME CallsAreTheirOwn, NEW r \in Requests, NEW t \in 0..MaxTime
  PROVE  LET b == BatchOf[r][t]
             n == Len(b)
         IN /\ n \in Nat /\ DOMAIN b = 1..n
            /\ \A i \in 1..n :
                 /\ Sent(b[i])
                 /\ b[i].type = "model.completed" /\ b[i].step \in Asked =>
                      \E j \in 1..n : j < i /\ Asks(b[j], b[i])
                 /\ b[i].type = "model.requested" /\ b[i].step \in CallSteps =>
                      OneTime(b[i]) \/ \E j \in 1..n : i < j /\ Asks(b[i], b[j])
<1> DEFINE b == BatchOf[r][t]
           n == Len(b)
           es == EventsOf(r, t)
           m == Len(es)
<1>1. /\ es \in Seq(ToSet(es))
      /\ n \in 0..m /\ DOMAIN b = 1..n
      /\ \A i \in 1..n : b[i] = Prepare(r, es[i], t)
      /\ SourceOf(r) \notin Off /\ m <= MaxEvents => n = m
      /\ SourceOf(r) \in Off => n = 0
  BY BatchPlaces
<1>2. m \in Nat /\ DOMAIN es = 1..m
  BY <1>1
<1>3. \A e : /\ Prepare(r, e, t).type = e.type /\ Prepare(r, e, t).step = e.step
             /\ Prepare(r, e, t).run = e.run /\ Prepare(r, e, t).at = e.at
  BY DEF Prepare
<1>4. \A x, y : Asks(x, y) <=> Asks(Prepare(r, x, t), Prepare(r, y, t))
  BY <1>3 DEF Asks
<1>5. \A i \in DOMAIN es : es[i] \in ToSet(es)
  BY DEF ToSet
<1>6. r.signal = "otlp-traces" => Matched(es, Asked)
  BY TracesMatched
<1>7. \A e \in ToSet(es) : e.type \in Model /\ e.step \in CallSteps =>
         /\ r.signal = "otlp-traces"
         /\ \E c \in ModelCalls : c[1] = r /\ e.step = CallStep(c, t)
  BY EventCalls
<1> HIDE DEF b, n, es, m
<1>8. n \in Nat /\ \A i \in 1..n : i \in DOMAIN es /\ i <= n
  BY <1>1, <1>2
<1>9. ASSUME NEW i \in 1..n
      PROVE  Sent(b[i])
  BY <1>1, <1>5, <1>8 DEF Sent, es
<1>10. ASSUME NEW i \in 1..n, b[i].type = "model.completed", b[i].step \in Asked
       PROVE  \E j \in 1..n : j < i /\ Asks(b[j], b[i])
  <2>1. es[i].type = "model.completed" /\ es[i].step \in Asked /\ i \in DOMAIN es
    BY <1>1, <1>3, <1>8, <1>10
  <2>2. Matched(es, Asked)
    BY <1>5, <1>6, <1>7, <2>1, StepsOfCalls DEF Model
  <2>3. PICK j \in DOMAIN es : j < i /\ Asks(es[j], es[i])
    BY <2>1, <2>2 DEF Matched
  <2>4. j \in 1..n
    BY <1>2, <1>8, <1>10, <2>3
  <2> QED
    BY <1>1, <1>4, <1>10, <2>3, <2>4
<1>11. ASSUME NEW i \in 1..n, b[i].type = "model.requested", b[i].step \in CallSteps
       PROVE  OneTime(b[i]) \/ \E j \in 1..n : i < j /\ Asks(b[i], b[j])
  <2>1. es[i].type = "model.requested" /\ i \in DOMAIN es /\ b[i].step = es[i].step
    BY <1>1, <1>3, <1>8, <1>11
  <2>2. es[i] \in ToSet(es) /\ es[i].type \in Model /\ es[i].step \in CallSteps
    BY <1>5, <1>11, <2>1 DEF Model
  <2>3. Matched(es, Asked)
    BY <1>6, <1>7, <2>2
  <2>4. PICK c \in ModelCalls : c[1] = r /\ es[i].step = CallStep(c, t)
    BY <1>7, <2>2
  <2>5. CASE c[2].start + c[2].end > 0
    <3> SUFFICES ASSUME NEW q, Sent(q), q.type \in Model, q.step = b[i].step
                 PROVE  q.at = b[i].at
      BY DEF OneTime
    <3>1. Sent(b[i]) /\ b[i].type \in Model
      BY <1>9, <1>11 DEF Model
    <3>2. PICK d \in ModelCalls : \E u, v \in 0..MaxTime : About(q, d, u) /\ About(b[i], d, v)
      BY <1>11, <3>1, OneCall
    <3>3. PICK u, v \in 0..MaxTime : About(q, d, u) /\ About(b[i], d, v)
      BY <3>2
    <3>4. CallStep(c, t) = CallStep(d, v)
      BY <2>1, <2>4, <3>3 DEF About
    <3>5. c = d
      BY <3>4 DEF CallsAreTheirOwn
    <3>6. u \in Nat /\ v \in Nat /\ c[2].start \in Nat /\ c[2].end \in Nat
      BY <3>3, <3>5, TelemetryAssumption DEF About
    <3>7. SpanTime(c[2], u) = SpanTime(c[2], v)
      BY <2>5, <3>6, SpanHasATime
    <3> QED
      BY <3>3, <3>5, <3>7 DEF About
  <2>6. CASE \A u \in 0..MaxTime : Len(EventsOf(c[1], u)) <= MaxEvents
    <3>1. m <= MaxEvents
      BY <2>4, <2>6 DEF m, es
    <3>2. SourceOf(r) \notin Off
      BY <1>1, <1>11
    <3>3. n = m
      BY <1>1, <3>1, <3>2
    <3>4. PICK j \in DOMAIN es : i < j /\ Asks(es[i], es[j])
      BY <2>1, <2>3 DEF Matched
    <3>5. j \in 1..n
      BY <1>2, <3>3
    <3> QED
      BY <1>1, <1>4, <1>11, <3>4, <3>5
  <2> QED
    BY <2>4, <2>5, <2>6 DEF CallsAreTheirOwn
<1>12. n \in Nat /\ DOMAIN b = 1..n
  BY <1>1, <1>8
<1> QED
  BY <1>9, <1>10, <1>11, <1>12 DEF n, b
-----------------------------------------------------------------------------
(* In the store, a completion is not there without its request, and a step *)
(* whose completion is there is under way only while the batch goes on     *)
(* that brings another completion of it.                                   *)

Kept(d) ==
  /\ DOMAIN d.step = RunsSeen
  /\ \A u \in RunsSeen : DOMAIN d.step[u] = StepsSeen
  /\ \A x \in d.events : Sent(x.ev)
  /\ \A x \in d.events : x.ev.type = "model.completed" /\ x.ev.step \in Asked =>
       \E y \in d.events : Asks(y.ev, x.ev)

Underway(d, e) == d.step[e.run][e.step].status = "started"

Finishing(d, b, i) ==
  \A x \in d.events : x.ev.type = "model.completed" /\ x.ev.step \in CallSteps /\ Underway(d, x.ev) =>
    \E j \in i..Len(b) : /\ b[j].type = "model.completed"
                         /\ b[j].run = x.ev.run /\ b[j].step = x.ev.step
                         /\ b[j].key \notin Store!KeysIn(d)

(* What an event that is new does to the row of its step. *)
Stepped(d, e, x) ==
  /\ \E n : x.events = d.events \cup {[ev |-> e, seq |-> n]}
  /\ DOMAIN x.step = RunsSeen
  /\ \A u \in RunsSeen : DOMAIN x.step[u] = StepsSeen
  /\ \A u \in RunsSeen, z \in StepsSeen :
       x.step[u][z].status = IF u = e.run /\ z = e.step THEN e.status ELSE d.step[u][z].status

LEMMA StepIs ==
  ASSUME CallsAreTheirOwn, NEW d, Kept(d), NEW e, Sent(e), e.key \notin Store!KeysIn(d)
  PROVE  Stepped(d, e, InsertOne(d, e))
<1> DEFINE x == InsertOne(d, e)
           new == Store!UpdateStep(d.step[e.run][e.step], e)
<1>1. /\ \E n : x.events = d.events \cup {[ev |-> e, seq |-> n]}
      /\ x.step = IF e.step = None THEN d.step
                  ELSE [d.step EXCEPT ![e.run][e.step] = new]
  BY DEF InsertOne, Store!InsertEvent
<1>2. new.status = e.status
  BY DEF Store!UpdateStep
<1>3. e.run \in RunsSeen /\ (e.step # None => e.step \in StepsSeen) /\ None \notin StepsSeen
  BY SentIs DEF StepsSeen
<1>4. DOMAIN d.step = RunsSeen /\ \A u \in RunsSeen : DOMAIN d.step[u] = StepsSeen
  BY DEF Kept
<1> HIDE DEF x, new
<1>5. CASE e.step = None
  BY <1>1, <1>3, <1>4, <1>5 DEF x, Stepped
<1>6. CASE e.step # None
  <2>1. x.step = [d.step EXCEPT ![e.run][e.step] = new]
    BY <1>1, <1>6
  <2>2. DOMAIN x.step = RunsSeen /\ \A u \in RunsSeen : DOMAIN x.step[u] = StepsSeen
    BY <1>3, <1>4, <2>1
  <2>3. \A u \in RunsSeen, z \in StepsSeen :
          x.step[u][z] = IF u = e.run /\ z = e.step THEN new ELSE d.step[u][z]
    BY <1>3, <1>4, <1>6, <2>1
  <2> QED
    BY <1>1, <1>2, <2>2, <2>3 DEF x, Stepped
<1> QED
  BY <1>5, <1>6

(* What is stored under a key. *)
LEMMA StoredUnder ==
  ASSUME CallsAreTheirOwn, NEW d, Kept(d), NEW e, Sent(e), e.key \in Store!KeysIn(d)
  PROVE  \E y \in d.events : /\ Sent(y.ev) /\ y.ev.run = e.run /\ y.ev.step = e.step
                             /\ y.ev.type = e.type /\ y.ev.at = e.at
<1>1. PICK y \in d.events : y.ev.key = e.key
  BY DEF Store!KeysIn
<1>2. Sent(y.ev)
  BY DEF Kept
<1> QED
  BY <1>1, <1>2, SentIs

LEMMA InsertOneCalls ==
  ASSUME CallsAreTheirOwn, NEW d, Kept(d), NEW e, Sent(e),
         e.type = "model.completed" /\ e.step \in Asked => \E y \in d.events : Asks(y.ev, e)
  PROVE  Kept(InsertOne(d, e))
<1>1. CASE e.key \in Store!KeysIn(d)
  BY <1>1 DEF InsertOne
<1>2. CASE e.key \notin Store!KeysIn(d)
  <2> DEFINE x == InsertOne(d, e)
  <2>1. /\ \E n : x.events = d.events \cup {[ev |-> e, seq |-> n]}
        /\ DOMAIN x.step = RunsSeen
        /\ \A u \in RunsSeen : DOMAIN x.step[u] = StepsSeen
    BY <1>2, StepIs DEF Stepped
  <2> HIDE DEF x
  <2>2. d.events \subseteq x.events /\ \A y \in x.events : y \in d.events \/ y.ev = e
    BY <2>1
  <2>3. \A y \in x.events : Sent(y.ev)
    BY <2>2 DEF Kept
  <2>4. \A w \in x.events : w.ev.type = "model.completed" /\ w.ev.step \in Asked =>
          \E y \in x.events : Asks(y.ev, w.ev)
    BY <2>2 DEF Kept
  <2> QED
    BY <2>1, <2>3, <2>4 DEF Kept, x
<1> QED
  BY <1>1, <1>2

LEMMA InsertOneFinishes ==
  ASSUME CallsAreTheirOwn, NEW d, Kept(d), NEW b, NEW i \in 1..Len(b), Len(b) \in Nat,
         \A j \in 1..Len(b) : Sent(b[j]),
         b[i].type = "model.requested" /\ b[i].step \in CallSteps =>
           OneTime(b[i]) \/ \E j \in 1..Len(b) : i < j /\ Asks(b[i], b[j]),
         Finishing(d, b, i)
  PROVE  Finishing(InsertOne(d, b[i]), b, i + 1)
<1> DEFINE n == Len(b)
           e == b[i]
           x == InsertOne(d, e)
<1>0. n \in Nat /\ i \in 1..n /\ (\A j \in i..n : j # i => j \in (i + 1)..n)
      /\ (\A j \in i..n : j \in 1..n) /\ (\A j \in 1..n : i < j => j \in (i + 1)..n)
  OBVIOUS
<1>1. CASE e.key \in Store!KeysIn(d)
  <2>1. x = d
    BY <1>1 DEF InsertOne
  <2> QED
    BY <1>0, <1>1, <2>1 DEF Finishing
<1>2. CASE e.key \notin Store!KeysIn(d)
  <2>1. Sent(e)
    BY <1>0
  <2>2. /\ \E k : x.events = d.events \cup {[ev |-> e, seq |-> k]}
        /\ \A u \in RunsSeen, z \in StepsSeen :
             x.step[u][z].status = IF u = e.run /\ z = e.step THEN e.status ELSE d.step[u][z].status
    <3> HIDE DEF e
    <3>1. Stepped(d, e, InsertOne(d, e))
      BY <1>2, <2>1, StepIs
    <3> QED
      BY <3>1 DEF Stepped
  <2>3. Store!KeysIn(x) = Store!KeysIn(d) \cup {e.key}
    BY InsertOneAdds
  <2>4. \A j \in 1..n : Sent(b[j])
    OBVIOUS
  <2>5. \A p : Sent(p) => /\ p.key[2] = p.run /\ p.key[3] = p.step /\ p.key[4] = p.type
                          /\ p.run \in RunsSeen /\ p.step \in StepsSeen \cup {None}
                          /\ p.type = "model.completed" => p.status # "started"
    BY SentIs
  <2>6. e.type = "model.requested" /\ e.step \in CallSteps => OneTime(e) \/ \E j \in 1..n : i < j /\ Asks(e, b[j])
    OBVIOUS
  <2>0. Finishing(d, b, i)
    OBVIOUS
  <2> HIDE DEF x, e
  <2>7. \A y \in x.events : y \in d.events \/ y.ev = e
    BY <2>2
  <2> SUFFICES ASSUME NEW w \in x.events, w.ev.type = "model.completed", w.ev.step \in CallSteps,
                      Underway(x, w.ev)
               PROVE  \E j \in (i + 1)..n : /\ b[j].type = "model.completed"
                                            /\ b[j].run = w.ev.run /\ b[j].step = w.ev.step
                                            /\ b[j].key \notin Store!KeysIn(x)
    BY DEF Finishing, x, e, n
  <2>8. Sent(w.ev) /\ w.ev.run \in RunsSeen /\ w.ev.step \in StepsSeen
    <3>1. Sent(w.ev)
      BY <2>1, <2>7 DEF Kept
    <3> QED
      BY <2>5, <3>1, StepsOfCalls
  <2>9. CASE ~(w.ev.run = e.run /\ w.ev.step = e.step)
    <3>1. w \in d.events /\ Underway(d, w.ev)
      BY <2>2, <2>7, <2>8, <2>9 DEF Underway
    <3>2. PICK j \in i..n : /\ b[j].type = "model.completed"
                            /\ b[j].run = w.ev.run /\ b[j].step = w.ev.step
                            /\ b[j].key \notin Store!KeysIn(d)
      BY <2>0, <3>1 DEF Finishing, n
    <3>3. j # i
      BY <2>9, <3>2 DEF e
    <3>4. b[j].key # e.key
      <4>1. Sent(b[j]) /\ Sent(e)
        BY <1>0, <2>1, <2>4, <3>2
      <4> QED
        BY <2>5, <2>9, <3>2, <4>1
    <3> QED
      BY <1>0, <2>3, <3>2, <3>3, <3>4
  <2>10. CASE w.ev.run = e.run /\ w.ev.step = e.step
    <3>1. e.status = "started"
      BY <2>2, <2>8, <2>10 DEF Underway
    <3>2. e.step \in CallSteps
      BY <2>10
    <3>3. e.type = "model.requested"
      BY <2>1, <3>1, <3>2, SentIs
    <3>4. e.step \in Asked /\ e.type \in Model
      BY <2>1, <3>2, <3>3, SentIs DEF Model
    <3>5. w \in d.events
      BY <2>7, <3>3
    <3>6. ASSUME NEW v \in d.events, v.ev.type = "model.completed", v.ev.run = e.run, v.ev.step = e.step,
                 OneTime(e) \/ v.ev.at = e.at
          PROVE  FALSE
      <4>1. PICK y \in d.events : Asks(y.ev, v.ev)
        BY <3>4, <3>6 DEF Kept
      <4>2. /\ y.ev.type = "model.requested" /\ y.ev.run = e.run /\ y.ev.step = e.step
            /\ y.ev.at = v.ev.at /\ Sent(y.ev)
        BY <3>6, <4>1 DEF Asks, Kept
      <4>3. y.ev.at = e.at
        BY <3>6, <4>2 DEF OneTime, Model
      <4>4. y.ev.key = e.key
        BY <2>1, <3>2, <3>3, <3>4, <4>2, <4>3, SameKey
      <4> QED
        BY <1>2, <4>4 DEF Store!KeysIn, e
    <3>7. ~OneTime(e)
      BY <2>10, <3>5, <3>6
    <3>8. PICK j \in 1..n : i < j /\ Asks(e, b[j])
      BY <2>6, <3>2, <3>3, <3>7
    <3>9. /\ b[j].type = "model.completed" /\ b[j].run = e.run /\ b[j].step = e.step /\ b[j].at = e.at
          /\ Sent(b[j])
      BY <2>4, <3>8 DEF Asks
    <3>10. b[j].key \notin Store!KeysIn(d)
      <4> SUFFICES ASSUME b[j].key \in Store!KeysIn(d) PROVE FALSE
        OBVIOUS
      <4> DEFINE p == b[j]
      <4>1. PICK v \in d.events : /\ Sent(v.ev) /\ v.ev.run = p.run /\ v.ev.step = p.step
                                  /\ v.ev.type = p.type /\ v.ev.at = p.at
        <5>1. Sent(p) /\ p.key \in Store!KeysIn(d)
          BY <3>9
        <5> HIDE DEF p
        <5> QED
          BY <5>1, StoredUnder
      <4> QED
        BY <3>6, <3>9, <4>1
    <3>11. b[j].key # e.key
      BY <2>1, <2>5, <3>3, <3>9
    <3> QED
      BY <1>0, <2>3, <2>10, <3>8, <3>9, <3>10, <3>11
  <2> QED
    BY <2>9, <2>10
<1> QED
  BY <1>1, <1>2

(* The events of a run have numbers of their own below the run's next one, *)
(* and a step has the status of the last of its events.                    *)
Latest(d) ==
  /\ DOMAIN d.run = RunsSeen
  /\ \A u \in RunsSeen : d.run[u].status # "absent" => d.run[u].next \in Nat
  /\ \A x \in d.events : /\ d.run[x.ev.run].status # "absent"
                         /\ x.seq \in Nat /\ x.seq < d.run[x.ev.run].next
  /\ \A x \in d.events : x.ev.step # None =>
       \E y \in d.events : /\ y.ev.run = x.ev.run /\ y.ev.step = x.ev.step
                           /\ y.ev.status = d.step[x.ev.run][x.ev.step].status
                           /\ y = x \/ x.seq < y.seq

LEMMA InsertOneIsLatest ==
  ASSUME CallsAreTheirOwn, NEW d, Kept(d), Latest(d), NEW e, Sent(e)
  PROVE  Latest(InsertOne(d, e))
<1>1. CASE e.key \in Store!KeysIn(d)
  BY <1>1 DEF InsertOne
<1>2. CASE e.key \notin Store!KeysIn(d)
  <2> DEFINE old == d.run[e.run]
             kept == Store!EnsureRun(old, e)
             row == Store!UpdateRun(kept, e)
             x == InsertOne(d, e)
             new == [ev |-> e, seq |-> kept.next]
  <2>1. x.events = d.events \cup {new} /\ x.run = [d.run EXCEPT ![e.run] = row]
    BY <1>2 DEF InsertOne, Store!InsertEvent
  <2>2. e.run \in RunsSeen /\ e.step \in StepsSeen \cup {None} /\ e.status # "absent"
    BY SentIs
  <2>3. /\ old.status = "absent" => kept.status = "unknown" /\ kept.next = 1
        /\ old.status # "absent" => kept = old
    BY DEF Store!EnsureRun, Store!AbsentRun
  <2>4. kept.status # "absent" /\ kept.next \in Nat
    BY <2>2, <2>3 DEF Latest
  <2>5. row.next = kept.next + 1 /\ row.status \in {e.status, Store!StatusOf(e.type), kept.status}
    BY DEF Store!UpdateRun
  <2>6. Store!StatusOf(e.type) # "absent"
    BY DEF Store!StatusOf
  <2>7. row.status # "absent" /\ row.next \in Nat
    BY <2>2, <2>4, <2>5, <2>6
  <2>8. /\ DOMAIN x.run = RunsSeen /\ x.run[e.run] = row
        /\ \A u \in RunsSeen \ {e.run} : x.run[u] = d.run[u]
    BY <2>1, <2>2 DEF Latest
  <2>9. Stepped(d, e, x)
    BY <1>2, StepIs
  <2>10. new.ev = e /\ new.seq = kept.next
    OBVIOUS
  <2>11. \A y \in d.events : /\ y.ev.run \in RunsSeen /\ y.ev.step \in StepsSeen \cup {None}
                             /\ y.ev.run = e.run => old.status # "absent"
    BY SentIs DEF Kept, Latest
  <2> HIDE DEF x, new, row, kept, old
  <2>12. \A u \in RunsSeen : x.run[u].status # "absent" => x.run[u].next \in Nat
    BY <2>7, <2>8 DEF Latest
  <2>13. ASSUME NEW y \in x.events
         PROVE  /\ x.run[y.ev.run].status # "absent"
                /\ y.seq \in Nat /\ y.seq < x.run[y.ev.run].next
    <3>1. CASE y = new
      BY <2>4, <2>5, <2>7, <2>8, <2>10, <3>1
    <3>2. CASE y \in d.events /\ y.ev.run = e.run
      <4>1. y.seq \in Nat /\ y.seq < kept.next
        BY <2>3, <2>11, <3>2 DEF Latest, old
      <4> QED
        BY <2>4, <2>5, <2>7, <2>8, <3>2, <4>1
    <3>3. CASE y \in d.events /\ y.ev.run # e.run
      BY <2>8, <2>11, <3>3 DEF Latest
    <3> QED
      BY <2>1, <3>1, <3>2, <3>3
  <2>14. ASSUME NEW y \in x.events, y.ev.step # None
         PROVE  \E z \in x.events : /\ z.ev.run = y.ev.run /\ z.ev.step = y.ev.step
                                    /\ z.ev.status = x.step[y.ev.run][y.ev.step].status
                                    /\ z = y \/ y.seq < z.seq
    <3>0. y.ev.run \in RunsSeen /\ y.ev.step \in StepsSeen
      BY <2>1, <2>2, <2>10, <2>11, <2>14
    <3>1. CASE y.ev.run = e.run /\ y.ev.step = e.step
      <4>1. x.step[y.ev.run][y.ev.step].status = new.ev.status /\ new \in x.events
        BY <2>1, <2>9, <2>10, <3>0, <3>1 DEF Stepped
      <4>2. y = new \/ y.seq < new.seq
        BY <2>1, <2>3, <2>10, <2>11, <3>1 DEF Latest, old
      <4> QED
        BY <2>10, <3>1, <4>1, <4>2
    <3>2. CASE ~(y.ev.run = e.run /\ y.ev.step = e.step)
      <4>1. y \in d.events
        BY <2>1, <2>10, <3>2
      <4>2. x.step[y.ev.run][y.ev.step].status = d.step[y.ev.run][y.ev.step].status
        BY <2>9, <3>0, <3>2 DEF Stepped
      <4>3. PICK z \in d.events : /\ z.ev.run = y.ev.run /\ z.ev.step = y.ev.step
                                  /\ z.ev.status = d.step[y.ev.run][y.ev.step].status
                                  /\ z = y \/ y.seq < z.seq
        BY <2>14, <4>1 DEF Latest
      <4> QED
        BY <2>1, <4>2, <4>3
    <3> QED
      BY <3>1, <3>2
  <2>15. Latest(x)
    BY <2>8, <2>12, <2>13, <2>14 DEF Latest
  <2> QED
    BY <2>15 DEF x
<1> QED
  BY <1>1, <1>2

LEMMA BatchFinishes ==
  ASSUME CallsAreTheirOwn, NEW d, Kept(d), Latest(d), NEW r \in Requests, NEW t \in 0..MaxTime,
         \A x \in d.events :
           x.ev.type = "model.completed" /\ x.ev.step \in CallSteps => ~Underway(d, x.ev)
  PROVE  LET x == Insert(d, BatchOf[r][t])
         IN /\ Kept(x) /\ Latest(x)
            /\ \A y \in x.events :
                 y.ev.type = "model.completed" /\ y.ev.step \in CallSteps => ~Underway(x, y.ev)
<1> DEFINE b == BatchOf[r][t]
           n == Len(b)
<1>0. /\ n \in Nat /\ DOMAIN b = 1..n
      /\ \A i \in 1..n :
           /\ Sent(b[i])
           /\ b[i].type = "model.completed" /\ b[i].step \in Asked =>
                \E j \in 1..n : j < i /\ Asks(b[j], b[i])
           /\ b[i].type = "model.requested" /\ b[i].step \in CallSteps =>
                OneTime(b[i]) \/ \E j \in 1..n : i < j /\ Asks(b[i], b[j])
  BY BatchMatched
<1> HIDE DEF b
<1>1. PICK f : InsertsBy(d, b, f)
  BY <1>0, InsertIs
<1>2. /\ Insert(d, b) = f[n] /\ f[0] = d
      /\ \A i \in 1..n : f[i] = InsertOne(f[i - 1], b[i])
  BY <1>1 DEF InsertsBy
<1> DEFINE Up(m) == /\ Kept(f[m]) /\ Latest(f[m]) /\ Finishing(f[m], b, m + 1)
                    /\ \A k \in 1..m : b[k].key \in Store!KeysIn(f[m])
           S == {m \in Nat : m <= n => Up(m)}
<1>3. 0 \in S
  <2>1. Finishing(d, b, 0 + 1)
    BY DEF Finishing
  <2>2. 1..0 = {}
    OBVIOUS
  <2> QED
    BY <1>2, <2>1, <2>2
<1>4. ASSUME NEW m \in S PROVE m + 1 \in S
  <2> SUFFICES ASSUME m + 1 <= n PROVE Up(m + 1)
    OBVIOUS
  <2> DEFINE i == m + 1
             e == b[i]
  <2>1. m \in Nat /\ i \in 1..n /\ i - 1 = m /\ Up(m)
    BY <1>0
  <2>2. f[i] = InsertOne(f[m], e)
    BY <1>2, <2>1
  <2>3. Sent(e)
    BY <1>0, <2>1
  <2>4. /\ Kept(f[m]) /\ Latest(f[m]) /\ Finishing(f[m], b, i)
        /\ \A k \in 1..m : b[k].key \in Store!KeysIn(f[m])
    BY <2>1
  <2>5. ASSUME e.type = "model.completed", e.step \in Asked
        PROVE  \E y \in f[m].events : Asks(y.ev, e)
    <3>1. PICK j \in 1..n : j < i /\ Asks(b[j], e)
      BY <1>0, <2>1, <2>5
    <3>2. j \in 1..m /\ Sent(b[j])
      BY <1>0, <2>1, <3>1
    <3> DEFINE p == b[j]
    <3>3. Sent(p) /\ p.key \in Store!KeysIn(f[m]) /\ Asks(p, e)
      BY <2>4, <3>1, <3>2
    <3> HIDE DEF p, e
    <3>4. PICK y \in f[m].events : /\ Sent(y.ev) /\ y.ev.run = p.run /\ y.ev.step = p.step
                                   /\ y.ev.type = p.type /\ y.ev.at = p.at
      BY <2>4, <3>3, StoredUnder
    <3> QED
      BY <3>3, <3>4 DEF Asks
  <2>6. Kept(f[i])
    <3> HIDE DEF e, i
    <3> QED
      BY <2>2, <2>3, <2>4, <2>5, InsertOneCalls
  <2>7. Finishing(f[i], b, i + 1)
    <3>1. /\ \A j \in 1..n : Sent(b[j])
          /\ b[i].type = "model.requested" /\ b[i].step \in CallSteps =>
               OneTime(b[i]) \/ \E j \in 1..n : i < j /\ Asks(b[i], b[j])
      BY <1>0, <2>1
    <3> HIDE DEF i
    <3>2. Finishing(InsertOne(f[m], b[i]), b, i + 1)
      BY <1>0, <2>1, <2>4, <3>1, InsertOneFinishes
    <3> QED
      BY <2>2, <3>2
  <2>8. Store!KeysIn(f[i]) = Store!KeysIn(f[m]) \cup {e.key}
    BY <2>2, InsertOneAdds
  <2>9. \A k \in 1..i : b[k].key \in Store!KeysIn(f[i])
    <3>1. 1..i = (1..m) \cup {i}
      BY <2>1
    <3> HIDE DEF i
    <3> QED
      BY <2>4, <2>8, <3>1
  <2>10. Latest(f[i])
    <3> HIDE DEF e, i
    <3> QED
      BY <2>2, <2>3, <2>4, InsertOneIsLatest
  <2> QED
    BY <2>6, <2>7, <2>9, <2>10
<1>5. S = Nat
  <2> HIDE DEF S
  <2>1. S \in SUBSET Nat
    BY DEF S
  <2> QED
    BY <1>3, <1>4, <2>1, AllNumbers
<1>6. Up(n)
  BY <1>0, <1>5
<1>7. (n + 1)..n = {}
  BY <1>0
<1>8. /\ Kept(f[n]) /\ Latest(f[n])
      /\ \A y \in f[n].events :
           y.ev.type = "model.completed" /\ y.ev.step \in CallSteps => ~Underway(f[n], y.ev)
  BY <1>6, <1>7 DEF Finishing
<1> QED
  BY <1>2, <1>8 DEF b

CallsInv ==
  /\ RetryInv /\ Kept(db) /\ Latest(db)
  /\ \A x \in db.events :
       x.ev.type = "model.completed" /\ x.ev.step \in CallSteps => ~Underway(db, x.ev)

(* A call's step is not under way, and another step is only by its latest  *)
(* event, which is not its completion.                                     *)
LEMMA FinishedCalls ==
  ASSUME CallsAreTheirOwn, CallsInv
  PROVE  ModelCallsFinish
<1> SUFFICES ASSUME NEW x \in db.events, x.ev.type = "model.completed", x.ev.step # None,
                    Underway(db, x.ev)
             PROVE  /\ x.ev.step \notin CallSteps
                    /\ \E y \in db.events : /\ y.ev.run = x.ev.run /\ y.ev.step = x.ev.step
                                            /\ y.ev.status = "started" /\ x.seq < y.seq
  BY DEF ModelCallsFinish, Underway
<1>1. x.ev.step \notin CallSteps
  BY DEF CallsInv
<1>2. PICK y \in db.events : /\ y.ev.run = x.ev.run /\ y.ev.step = x.ev.step
                             /\ y.ev.status = db.step[x.ev.run][x.ev.step].status
                             /\ y = x \/ x.seq < y.seq
  BY DEF CallsInv, Latest
<1>3. y.ev.status = "started"
  BY <1>2 DEF Underway
<1>4. x.ev.status # "started"
  BY SentIs DEF CallsInv, Kept
<1> QED
  BY <1>1, <1>2, <1>3, <1>4

(* The model calls of agents finish, for any requests posted in any order  *)
(* and any number of times, cut or not: a span's call whose completion is  *)
(* stored is not under way again when its request is posted again, if no   *)
(* two calls have one step, and a call without a time is in a request that *)
(* is never cut; and a hook's call is only while the last that was stored  *)
(* of its step is a start.                                                 *)
THEOREM ModelCallsStayFinished ==
  ASSUME CallsAreTheirOwn
  PROVE  Spec => []ModelCallsFinish
<1>1. ASSUME Init PROVE CallsInv
  <2>1. RetryInv
    BY <1>1, TelemetryAssumption DEF Init, RetryInv
  <2>2. /\ db.events = {} /\ db.run = [u \in RunsSeen |-> Store!AbsentRun]
        /\ db.step = [u \in RunsSeen |-> [z \in StepsSeen |-> Store!AbsentStep]]
    BY <1>1 DEF Init, Store!EmptyDb
  <2>3. Store!AbsentRun.status = "absent"
    BY DEF Store!AbsentRun
  <2> QED
    BY <2>1, <2>2, <2>3 DEF CallsInv, Kept, Latest
<1>2. ASSUME CallsInv, [Next]_vars PROVE CallsInv'
  <2>1. /\ RetryInv /\ RetryInv' /\ Kept(db) /\ Latest(db)
        /\ \A x \in db.events :
             x.ev.type = "model.completed" /\ x.ev.step \in CallSteps => ~Underway(db, x.ev)
    BY <1>2, RetryNextHolds DEF CallsInv
  <2>2. now \in 0..MaxTime
    BY <2>1, TelemetryAssumption DEF RetryInv
  <2>3. ASSUME db' = db PROVE CallsInv'
    BY <2>1, <2>3 DEF CallsInv
  <2>4. ASSUME NEW r \in Requests, Post(r) PROVE CallsInv'
    <3>1. db' = Insert(db, BatchOf[r][now])
      BY <2>4 DEF Post
    <3>2. /\ Kept(db') /\ Latest(db')
          /\ \A y \in db'.events :
               y.ev.type = "model.completed" /\ y.ev.step \in CallSteps => ~Underway(db', y.ev)
      BY <2>1, <2>2, <3>1, BatchFinishes
    <3> QED
      BY <2>1, <3>2 DEF CallsInv
  <2> QED
    BY <1>2, <2>3, <2>4 DEF Next, Tick, vars
<1>3. CallsInv => ModelCallsFinish
  BY FinishedCalls
<1> QED
  BY <1>1, <1>2, <1>3, PTL DEF Spec
-----------------------------------------------------------------------------
(* The batches of OpenCode's plugin. *)

Run == Sessions \cup {"process"}

(* What is emitted. *)
Event == [n : Nat, origin : Origins, explicit : BOOLEAN, run : Run]

PluginTypes ==
  /\ active \in Run
  /\ batcher \in [queue : Seq(Event), timer : BOOLEAN]
  /\ posts \subseteq Seq(Event)
  /\ stored \subseteq Event
  /\ emitted \in Nat

(* The number of an event is its identity: the next event is a new one.    *)
NumbersAreOld == \A e \in Queued \cup Posted \cup stored : e.n < emitted

(* An event that carries its session has the run of it. *)
RunsAreOwn == \A e \in Queued \cup Posted \cup stored : e.explicit => e.run = e.origin

PluginInv == PluginTypes /\ NumbersAreOld /\ RunsAreOwn /\ BatchesAreDisjoint

(* The events of a sequence, and of one that is longer by an event.        *)
ElementsOf(q) == {q[i] : i \in DOMAIN q}

LEMMA Appended ==
  ASSUME NEW q \in Seq(Event), NEW e \in Event
  PROVE  Append(q, e) \in Seq(Event) /\ ElementsOf(Append(q, e)) = ElementsOf(q) \cup {e}
  <1>1. /\ Append(q, e) \in Seq(Event)
        /\ Len(q) \in Nat
        /\ DOMAIN q = 1..Len(q)
        /\ DOMAIN Append(q, e) = 1..(Len(q) + 1)
        /\ \A i \in 1..Len(q) : Append(q, e)[i] = q[i]
        /\ Append(q, e)[Len(q) + 1] = e
    OBVIOUS
  <1> QED BY <1>1 DEF ElementsOf

LEMMA PluginInitInv == PluginInit => PluginInv
  <1> SUFFICES ASSUME PluginInit PROVE PluginInv
    OBVIOUS
  <1>1. Queued = {} /\ Posted = {} /\ stored = {} /\ posts = {} /\ batcher = [queue |-> <<>>, timer |-> FALSE]
    BY DEF PluginInit, Queued, Posted, Batcher
  <1>2. PluginTypes
    <2>1. <<>> \in Seq(Event)
      OBVIOUS
    <2>2. [queue |-> <<>>, timer |-> FALSE] \in [queue : Seq(Event), timer : BOOLEAN]
      BY <2>1
    <2> QED BY <1>1, <2>2 DEF PluginInit, PluginTypes, Run
  <1>3. NumbersAreOld /\ RunsAreOwn
    BY <1>1 DEF NumbersAreOld, RunsAreOwn
  <1>4. BatchesAreDisjoint
    BY <1>1 DEF BatchesAreDisjoint
  <1> QED BY <1>2, <1>3, <1>4 DEF PluginInv

LEMMA PluginNextInv == PluginInv /\ [PluginStep]_pluginVars => PluginInv'
  <1> SUFFICES ASSUME PluginInv, [PluginStep]_pluginVars PROVE PluginInv'
    OBVIOUS
  <1> USE PluginAssumption DEF PluginInv
  <1>1. ASSUME NEW origin \in Origins, NEW created \in BOOLEAN, NEW explicit \in BOOLEAN,
               Emit(origin, created, explicit)
        PROVE  PluginInv'
    <2> DEFINE e == [n |-> emitted, origin |-> origin, explicit |-> explicit,
                     run |-> IF explicit THEN origin ELSE active']
    <2>1. /\ active' \in Run
          /\ explicit => origin \in Run
          /\ emitted' = emitted + 1
      BY <1>1 DEF Emit, PluginTypes, Run, Origins
    <2>2. e \in Event
      BY <2>1 DEF Event, PluginTypes, Run
    <2>3. batcher' = [queue |-> Append(batcher.queue, e), timer |-> TRUE] /\ UNCHANGED <<posts, stored>>
      BY <1>1 DEF Emit, Push, Batcher
    <2>4. batcher.queue \in Seq(Event)
      BY DEF PluginTypes
    <2>5. Append(batcher.queue, e) \in Seq(Event) /\ Queued' = Queued \cup {e} /\ Posted' = Posted
      <3> HIDE DEF e
      <3>1. Append(batcher.queue, e) \in Seq(Event) /\ ElementsOf(Append(batcher.queue, e)) = ElementsOf(batcher.queue) \cup {e}
        BY <2>2, <2>4, Appended
      <3>2. Queued = ElementsOf(batcher.queue) /\ Queued' = ElementsOf(batcher'.queue) /\ Posted' = Posted
        BY <2>3 DEF Queued, Posted, ElementsOf
      <3> QED BY <3>1, <3>2, <2>3
    <2>6. e.n = emitted /\ (e.explicit => e.run = e.origin)
      OBVIOUS
    <2> HIDE DEF e
    <2>7. PluginTypes'
      BY <2>1, <2>3, <2>5 DEF PluginTypes
    <2>8. NumbersAreOld' /\ RunsAreOwn'
      <3>1. \A x \in Queued \cup Posted \cup stored : x \in Event /\ x.n \in Nat
        <4>1. Queued \subseteq Event
          BY <2>4 DEF Queued
        <4>2. Posted \subseteq Event
          <5>1. \A batch \in posts : batch \in Seq(Event)
            BY DEF PluginTypes
          <5>2. \A batch \in Seq(Event) : \A i \in DOMAIN batch : batch[i] \in Event
            OBVIOUS
          <5> QED BY <5>1, <5>2 DEF Posted
        <4>3. \A x \in Event : x.n \in Nat
          BY DEF Event
        <4> QED BY <4>1, <4>2, <4>3 DEF PluginTypes
      <3> QED BY <3>1, <2>1, <2>3, <2>5, <2>6 DEF NumbersAreOld, RunsAreOwn, PluginTypes
    <2>9. e \notin Posted \cup stored
      BY <2>6 DEF NumbersAreOld, PluginTypes
    <2>10. BatchesAreDisjoint'
      BY <2>3, <2>5, <2>9 DEF BatchesAreDisjoint
    <2> QED BY <2>7, <2>8, <2>10
  <1>2. CASE Flush
    <2>1. Queued' = {} /\ Posted' = Posted \cup Queued /\ stored' = stored /\ emitted' = emitted
      BY <1>2 DEF Flush, Queued, Posted, Batcher
    <2>2. posts' = posts \cup {batcher.queue} /\ batcher' = [queue |-> <<>>, timer |-> FALSE] /\ active' = active
      BY <1>2 DEF Flush, Batcher
    <2>3. PluginTypes'
      BY <2>1, <2>2 DEF PluginTypes
    <2>4. NumbersAreOld' /\ RunsAreOwn'
      BY <2>1 DEF NumbersAreOld, RunsAreOwn
    <2>5. ASSUME NEW a \in posts', NEW b \in posts', a # b, NEW i \in DOMAIN a, NEW j \in DOMAIN b
          PROVE  a[i] # b[j]
      <3>1. CASE a \in posts /\ b \in posts
        BY <3>1, <2>5 DEF BatchesAreDisjoint
      <3>2. CASE a \in posts /\ b = batcher.queue
        BY <3>2, <2>5 DEF BatchesAreDisjoint, Queued, Posted
      <3>3. CASE a = batcher.queue /\ b \in posts
        BY <3>3, <2>5 DEF BatchesAreDisjoint, Queued, Posted
      <3> QED BY <2>2, <2>5, <3>1, <3>2, <3>3
    <2>6. BatchesAreDisjoint'
      BY <2>1, <2>5 DEF BatchesAreDisjoint
    <2> QED BY <2>3, <2>4, <2>6
  <1>3. ASSUME NEW batch \in posts, Arrives(batch)
        PROVE  PluginInv'
    <2> DEFINE es == ElementsOf(batch)
    <2>1. /\ stored' = stored \cup es /\ posts' = posts \ {batch}
          /\ Queued' = Queued /\ UNCHANGED <<active, batcher, emitted>>
      BY <1>3 DEF Arrives, Queued, ElementsOf
    <2>2. Posted = Posted' \cup es /\ Posted' \cap es = {}
      BY <2>1 DEF Posted, ElementsOf, BatchesAreDisjoint
    <2>3. es \subseteq Event
      BY DEF PluginTypes, ElementsOf
    <2> HIDE DEF es
    <2>4. PluginTypes'
      BY <2>1, <2>3 DEF PluginTypes
    <2>5. NumbersAreOld' /\ RunsAreOwn'
      BY <2>1, <2>2 DEF NumbersAreOld, RunsAreOwn
    <2>6. BatchesAreDisjoint'
      <3>1. \A x \in stored' : x.explicit => x.run = x.origin
        BY <2>5 DEF RunsAreOwn
      <3>2. Queued' \cap (Posted' \cup stored') = {} /\ Posted' \cap stored' = {}
        BY <2>1, <2>2 DEF BatchesAreDisjoint
      <3> QED BY <2>1, <3>1, <3>2 DEF BatchesAreDisjoint
    <2> QED BY <2>4, <2>5, <2>6
  <1>4. ASSUME NEW batch \in posts, IsLost(batch)
        PROVE  PluginInv'
    <2>1. /\ posts' = posts \ {batch} /\ Posted' \subseteq Posted
          /\ Queued' = Queued /\ UNCHANGED <<active, batcher, stored, emitted>>
      BY <1>4 DEF IsLost, Queued, Posted
    <2> QED BY <2>1 DEF PluginTypes, NumbersAreOld, RunsAreOwn, BatchesAreDisjoint
  <1>5. CASE Restart
    <2>1. /\ posts' = {} /\ Posted' = {} /\ Queued' = {} /\ UNCHANGED <<stored, emitted>>
          /\ active' = "process" /\ batcher' = [queue |-> <<>>, timer |-> FALSE]
      BY <1>5 DEF Restart, Queued, Posted, Batcher
    <2> QED BY <2>1 DEF PluginTypes, NumbersAreOld, RunsAreOwn, BatchesAreDisjoint, Run
  <1>6. CASE UNCHANGED pluginVars
    BY <1>6 DEF pluginVars, PluginTypes, NumbersAreOld, RunsAreOwn, BatchesAreDisjoint, Queued, Posted
  <1> QED BY <1>1, <1>2, <1>3, <1>4, <1>5, <1>6 DEF PluginStep

(* Every event of the plugin is in one place, the queue, one post or the   *)
(* collector, a queue has a timer, and what carries a session is in its    *)
(* run, however events, timers, answers, losses and restarts interleave.   *)
THEOREM BatchesStayDisjoint == PluginSpec => []BatchesAreDisjoint
  <1>1. PluginInv => BatchesAreDisjoint
    BY DEF PluginInv
  <1> QED BY <1>1, PluginInitInv, PluginNextInv, PTL DEF PluginSpec
=============================================================================
