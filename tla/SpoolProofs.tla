---------------------------- MODULE SpoolProofs ----------------------------
(***************************************************************************)
(* Proofs about the spool: what becomes of the payloads, of the entries    *)
(* that age and of the ceiling, for every number of hook processes, files, *)
(* payloads and sizes, and whichever process replaces a file another one   *)
(* has read.                                                               *)
(***************************************************************************)
EXTENDS Spool, SequenceTheorems, WellFoundedInduction, TLAPS
-----------------------------------------------------------------------------
(* Numbers.  Some number of a set is the least, and what holds of 0 and of *)
(* the successor of each number it holds of holds of all.                  *)

LEMMA LeastNumber ==
  ASSUME NEW S \in SUBSET Nat, S # {}
  PROVE  \E n \in S : \A m \in S : n <= m
<1>1. PICK n \in S : \A m \in S : ~(<<m, n>> \in OpToRel(<, Nat))
  BY NatLessThanWellFounded, WFMin
<1>2. ASSUME NEW m \in S PROVE ~(m < n)
  BY <1>1 DEF OpToRel
<1> QED
  BY <1>2

LEMMA AllNumbers ==
  ASSUME NEW S \in SUBSET Nat, 0 \in S, \A n \in S : n + 1 \in S
  PROVE  S = Nat
<1> SUFFICES ASSUME Nat \ S # {} PROVE FALSE
  OBVIOUS
<1>1. PICK n \in Nat \ S : \A m \in Nat \ S : n <= m
  BY LeastNumber
<1>2. n - 1 \in Nat /\ n - 1 \notin Nat \ S /\ (n - 1) + 1 = n
  BY <1>1
<1> QED
  BY <1>1, <1>2

(* What Min takes. *)
LEMMA MinOf ==
  ASSUME NEW S \in SUBSET Nat, S # {}
  PROVE  Min(S) \in S /\ \A m \in S : Min(S) <= m
BY LeastNumber DEF Min

(* A value for each number up to n, each from the one before it.           *)
HasValues(V, b, n, G) ==
  \E f \in [0..n -> V] : f[0] = b /\ \A i \in 1..n : f[i] = G[<<i, f[i - 1]>>]

LEMMA Recursion ==
  ASSUME NEW V, NEW b \in V, NEW n \in Nat, NEW G \in [(1..n) \X V -> V]
  PROVE  HasValues(V, b, n, G)
<1> DEFINE Up(m, f) == f[0] = b /\ \A i \in 1..m : f[i] = G[<<i, f[i - 1]>>]
           S == {m \in Nat : m <= n => \E f \in [0..m -> V] : Up(m, f)}
<1>1. 0 \in S
  <2>1. [i \in 0..0 |-> b] \in [0..0 -> V] /\ Up(0, [i \in 0..0 |-> b])
    OBVIOUS
  <2> QED
    BY <2>1
<1>2. ASSUME NEW m \in S, m + 1 <= n
      PROVE  \E f \in [0..(m + 1) -> V] : Up(m + 1, f)
  <2>1. m \in Nat /\ m <= n /\ m + 1 \in 1..n
    BY <1>2
  <2>2. PICK f \in [0..m -> V] : Up(m, f)
    BY <2>1
  <2> DEFINE g == [i \in 0..(m + 1) |-> IF i = m + 1 THEN G[<<m + 1, f[m]>>] ELSE f[i]]
  <2>3. f[m] \in V /\ G[<<m + 1, f[m]>>] \in V
    BY <2>1
  <2>4. g \in [0..(m + 1) -> V]
    <3>1. \A i \in 0..(m + 1) : i = m + 1 \/ i \in 0..m
      BY <2>1
    <3> QED
      BY <2>3, <3>1
  <2>5. g[0] = b
    BY <2>1, <2>2
  <2>6. \A i \in 1..m : g[i] = G[<<i, g[i - 1]>>]
    <3>1. \A i \in 1..m : /\ i \in 0..(m + 1) /\ i # m + 1
                          /\ i - 1 \in 0..(m + 1) /\ i - 1 # m + 1
      BY <2>1
    <3> QED
      BY <2>2, <3>1
  <2>7. g[m + 1] = G[<<m + 1, g[(m + 1) - 1]>>]
    <3>1. (m + 1) - 1 = m /\ m \in 0..(m + 1) /\ m # m + 1 /\ m + 1 \in 0..(m + 1)
      BY <2>1
    <3> QED
      BY <3>1
  <2>8. \A i \in 1..(m + 1) : i = m + 1 \/ i \in 1..m
    BY <2>1
  <2> HIDE DEF g
  <2>9. Up(m + 1, g)
    BY <2>5, <2>6, <2>7, <2>8
  <2> QED
    BY <2>4, <2>9
<1>3. S = Nat
  <2>1. \A m \in S : m + 1 \in S
    BY <1>2
  <2> HIDE DEF S
  <2>2. S \in SUBSET Nat
    BY DEF S
  <2> QED
    BY <1>1, <2>1, <2>2, AllNumbers
<1> QED
  BY <1>3 DEF HasValues
-----------------------------------------------------------------------------
(* The length of a file is the sum of the lengths of its lines.            *)

(* The sums over the first entries of q. *)
Sums(q, f) == f[0] = 0 /\ \A i \in 1..Len(q) : f[i] = f[i - 1] + Size[q[i].p]

LEMMA Summing ==
  ASSUME NEW q \in Seq(Entry)
  PROVE  \E f \in [0..Len(q) -> Nat] : Sums(q, f) /\ Bytes(q) = f[Len(q)]
<1> USE SpoolAssumption
<1> DEFINE n == Len(q)
           G == [z \in (1..n) \X Nat |-> z[2] + Size[q[z[1]].p]]
           Eq(f) == f = [i \in 0..n |-> IF i = 0 THEN 0 ELSE f[i - 1] + Size[q[i].p]]
           sum == CHOOSE f : Eq(f)
<1>1. n \in Nat /\ \A i \in 1..n : Size[q[i].p] \in Nat
  <2>1. n \in Nat /\ \A i \in 1..n : q[i] \in Entry
    OBVIOUS
  <2>2. \A x \in Entry : Size[x.p] \in Nat
    BY DEF Entry
  <2> HIDE DEF n
  <2> QED
    BY <2>1, <2>2
<1>2. G \in [(1..n) \X Nat -> Nat]
  BY <1>1
<1>3. PICK g \in [0..n -> Nat] : g[0] = 0 /\ \A i \in 1..n : g[i] = G[<<i, g[i - 1]>>]
  <2> HIDE DEF G, n
  <2>1. n \in Nat /\ 0 \in Nat
    BY <1>1
  <2>2. HasValues(Nat, 0, n, G)
    BY <1>2, <2>1, Recursion
  <2> QED
    BY <2>2 DEF HasValues
<1>4. \A i \in 1..n : g[i] = g[i - 1] + Size[q[i].p]
  <2>1. \A i \in 1..n : i - 1 \in 0..n
    BY <1>1
  <2> QED
    BY <1>3, <2>1
<1> HIDE DEF G, n
<1>5. Eq(g)
  <2>1. \A i \in 0..n : i = 0 \/ i \in 1..n
    BY <1>1
  <2>2. \A i \in 0..n : g[i] = IF i = 0 THEN 0 ELSE g[i - 1] + Size[q[i].p]
    BY <1>3, <1>4, <2>1
  <2> QED
    BY <1>3, <2>2
<1>6. Eq(sum)
  BY <1>5
<1>7. Bytes(q) = sum[n]
  BY DEF Bytes, n
<1> HIDE DEF sum
<1>8. /\ sum[0] = 0 /\ \A i \in 1..n : sum[i] = sum[i - 1] + Size[q[i].p]
      /\ DOMAIN sum = 0..n /\ sum = [i \in 0..n |-> sum[i]]
  <2>1. \A i \in 0..n : sum[i] = IF i = 0 THEN 0 ELSE sum[i - 1] + Size[q[i].p]
    BY <1>6
  <2>2. \A i \in 1..n : i \in 0..n /\ i # 0
    BY <1>1
  <2>3. 0 \in 0..n
    BY <1>1
  <2> QED
    BY <1>6, <2>1, <2>2, <2>3
<1>9. \A i \in Nat : i <= n => sum[i] \in Nat
  <2> DEFINE S == {i \in Nat : i <= n => sum[i] \in Nat}
  <2>1. 0 \in S
    BY <1>8
  <2>2. ASSUME NEW i \in S PROVE i + 1 \in S
    <3>1. i \in Nat /\ (i + 1 <= n => i <= n /\ i + 1 \in 1..n /\ (i + 1) - 1 = i)
      BY <1>1
    <3>2. i + 1 <= n => sum[i] \in Nat /\ sum[i + 1] = sum[i] + Size[q[i + 1].p]
      BY <1>8, <3>1
    <3>3. i + 1 <= n => Size[q[i + 1].p] \in Nat
      BY <1>1, <3>1
    <3> QED
      BY <3>1, <3>2, <3>3
  <2> HIDE DEF S
  <2>3. S = Nat
    <3>1. S \in SUBSET Nat
      BY DEF S
    <3> QED
      BY <2>1, <2>2, <3>1, AllNumbers
  <2> QED
    BY <2>3 DEF S
<1>10. sum \in [0..n -> Nat]
  <2>1. \A i \in 0..n : sum[i] \in Nat
    BY <1>1, <1>9
  <2> QED
    BY <1>8, <2>1
<1> QED
  BY <1>7, <1>8, <1>10 DEF Sums, n

(* Equal beginnings have equal sums. *)
LEMMA SumsAgree ==
  ASSUME NEW q \in Seq(Entry), NEW f \in [0..Len(q) -> Nat], Sums(q, f),
         NEW t \in Seq(Entry), NEW g \in [0..Len(t) -> Nat], Sums(t, g),
         NEW k \in Nat, k <= Len(q), k <= Len(t), \A i \in 1..k : q[i] = t[i]
  PROVE  f[k] = g[k]
<1> DEFINE S == {i \in Nat : i <= k => f[i] = g[i]}
           m == Len(q)
           n == Len(t)
<1>1. m \in Nat /\ n \in Nat /\ k <= m /\ k <= n
  OBVIOUS
<1>2. /\ f[0] = 0 /\ \A i \in 1..m : f[i] = f[i - 1] + Size[q[i].p]
      /\ g[0] = 0 /\ \A i \in 1..n : g[i] = g[i - 1] + Size[t[i].p]
  BY DEF Sums
<1> HIDE DEF m, n
<1>3. 0 \in S
  BY <1>2
<1>4. ASSUME NEW i \in S PROVE i + 1 \in S
  <2>1. i \in Nat
    OBVIOUS
  <2>2. ASSUME i + 1 <= k PROVE f[i + 1] = g[i + 1]
    <3>1. /\ i <= k /\ i + 1 \in 1..m /\ i + 1 \in 1..n /\ i + 1 \in 1..k
          /\ (i + 1) - 1 = i
      BY <1>1, <2>1, <2>2
    <3>2. f[i] = g[i] /\ q[i + 1] = t[i + 1]
      BY <3>1
    <3> QED
      BY <1>2, <3>1, <3>2
  <2> QED
    BY <2>1, <2>2
<1>5. S = Nat
  <2> HIDE DEF S
  <2>1. S \in SUBSET Nat
    BY DEF S
  <2> QED
    BY <1>3, <1>4, <2>1, AllNumbers
<1> QED
  BY <1>5

(* The sum of no lines, and of one more. *)
LEMMA BytesOf ==
  /\ \A q \in Seq(Entry) : Bytes(q) \in Nat
  /\ Bytes(<<>>) = 0
  /\ \A q \in Seq(Entry), e \in Entry : Bytes(Append(q, e)) = Bytes(q) + Size[e.p]
<1>1. ASSUME NEW q \in Seq(Entry) PROVE Bytes(q) \in Nat
  <2>1. PICK f \in [0..Len(q) -> Nat] : Sums(q, f) /\ Bytes(q) = f[Len(q)]
    BY Summing
  <2>2. Len(q) \in Nat
    OBVIOUS
  <2> QED
    BY <2>1, <2>2
<1>2. Bytes(<<>>) = 0
  <2>1. <<>> \in Seq(Entry) /\ Len(<<>>) = 0
    OBVIOUS
  <2>2. PICK f \in [0..Len(<<>>) -> Nat] : Sums(<<>>, f) /\ Bytes(<<>>) = f[Len(<<>>)]
    BY <2>1, Summing
  <2> QED
    BY <2>1, <2>2 DEF Sums
<1>3. ASSUME NEW q \in Seq(Entry), NEW e \in Entry
      PROVE  Bytes(Append(q, e)) = Bytes(q) + Size[e.p]
  <2> DEFINE t == Append(q, e)
             n == Len(q)
  <2>1. /\ n \in Nat /\ t \in Seq(Entry) /\ Len(t) = n + 1 /\ t[n + 1] = e
        /\ \A i \in 1..n : t[i] = q[i]
    BY AppendProperties
  <2> HIDE DEF t
  <2>2. PICK f \in [0..Len(q) -> Nat] : Sums(q, f) /\ Bytes(q) = f[Len(q)]
    BY Summing
  <2>3. PICK g \in [0..Len(t) -> Nat] : Sums(t, g) /\ Bytes(t) = g[Len(t)]
    BY <2>1, Summing
  <2>4. f[n] = g[n]
    <3>1. n <= Len(q) /\ n <= Len(t) /\ \A i \in 1..n : q[i] = t[i]
      BY <2>1
    <3> HIDE DEF n
    <3> QED
      BY <2>1, <2>2, <2>3, <3>1, SumsAgree
  <2>5. g[n + 1] = g[n] + Size[e.p]
    <3>1. n + 1 \in 1..Len(t) /\ (n + 1) - 1 = n
      BY <2>1
    <3> HIDE DEF n
    <3> QED
      BY <2>1, <2>3, <3>1 DEF Sums
  <2>6. Bytes(t) = g[n + 1] /\ Bytes(q) = f[n]
    BY <2>1, <2>2, <2>3
  <2> QED
    BY <2>4, <2>5, <2>6 DEF t
<1> QED
  BY <1>1, <1>2, <1>3

(* The beginning of a file is no longer than the file. *)
LEMMA BytesOfBeginning ==
  ASSUME NEW q \in Seq(Entry), NEW k \in 0..Len(q)
  PROVE  Bytes(SubSeq(q, 1, k)) <= Bytes(q)
<1> DEFINE n == Len(q)
           t == SubSeq(q, 1, k)
<1>1. n \in Nat /\ k \in Nat /\ k <= n
  OBVIOUS
<1>2. t \in Seq(Entry) /\ Len(t) = k /\ \A i \in 1..k : t[i] = q[i]
  OBVIOUS
<1>3. PICK f \in [0..Len(q) -> Nat] : Sums(q, f) /\ Bytes(q) = f[Len(q)]
  BY Summing
<1> HIDE DEF t
<1>4. PICK g \in [0..Len(t) -> Nat] : Sums(t, g) /\ Bytes(t) = g[Len(t)]
  BY <1>2, Summing
<1>5. f[k] = g[k]
  <2>1. k \in Nat /\ k <= Len(q) /\ k <= Len(t) /\ \A i \in 1..k : q[i] = t[i]
    BY <1>1, <1>2
  <2>2. t \in Seq(Entry) /\ Sums(q, f) /\ Sums(t, g)
    BY <1>2, <1>3, <1>4
  <2> HIDE DEF n
  <2> QED
    BY <2>1, <2>2, SumsAgree
<1>6. \A i \in 1..n : f[i] = f[i - 1] + Size[q[i].p] /\ Size[q[i].p] \in Nat /\ f[i - 1] \in Nat
  <2>1. \A x \in Entry : Size[x.p] \in Nat
    BY SpoolAssumption DEF Entry
  <2>2. \A i \in 1..n : q[i] \in Entry /\ i - 1 \in 0..n
    BY <1>1
  <2>3. \A i \in 1..n : f[i] = f[i - 1] + Size[q[i].p]
    BY <1>3 DEF Sums
  <2>4. f \in [0..n -> Nat]
    OBVIOUS
  <2> HIDE DEF n
  <2> QED
    BY <2>1, <2>2, <2>3, <2>4
<1> DEFINE S == {j \in Nat : k + j <= n => f[k] <= f[k + j]}
<1>7. S = Nat
  <2> HIDE DEF n
  <2>a. f \in [0..n -> Nat]
    BY DEF n
  <2>1. 0 \in S
    <3>1. k + 0 = k /\ k \in 0..n
      BY <1>1
    <3>2. f[k] \in Nat
      BY <2>a, <3>1
    <3> QED
      BY <3>1, <3>2
  <2>2. ASSUME NEW j \in S PROVE j + 1 \in S
    <3> SUFFICES ASSUME k + (j + 1) <= n PROVE f[k] <= f[k + (j + 1)]
      OBVIOUS
    <3>1. /\ j \in Nat /\ k + j <= n /\ k + (j + 1) \in 1..n /\ (k + (j + 1)) - 1 = k + j
          /\ k \in 0..n
      BY <1>1
    <3>2. f[k] <= f[k + j] /\ f[k] \in Nat
      BY <2>a, <3>1
    <3>3. /\ f[k + (j + 1)] = f[k + j] + Size[q[k + (j + 1)].p]
          /\ Size[q[k + (j + 1)].p] \in Nat /\ f[k + j] \in Nat
      BY <1>6, <3>1
    <3> QED
      BY ONLY <3>2, <3>3
  <2> HIDE DEF S
  <2>3. S \in SUBSET Nat
    BY DEF S
  <2> QED
    BY <2>1, <2>2, <2>3, AllNumbers
<1>8. f[k] <= f[n]
  <2>1. n - k \in Nat /\ k + (n - k) = n
    BY <1>1
  <2> HIDE DEF n
  <2> QED
    BY <1>7, <2>1
<1> QED
  BY <1>2, <1>3, <1>4, <1>5, <1>8 DEF t

LEMMA BytesOfOneMore ==
  ASSUME NEW q \in Seq(Entry), NEW n \in 1..Len(q)
  PROVE  /\ Bytes(SubSeq(q, 1, n)) = Bytes(SubSeq(q, 1, n - 1)) + Size[q[n].p]
         /\ Bytes(SubSeq(q, 1, n - 1)) \in Nat
<1> DEFINE s == SubSeq(q, 1, n - 1)
<1>1. q[n] \in Entry /\ s \in Seq(Entry)
  OBVIOUS
<1>2. SubSeq(q, 1, n) = s \o <<q[n]>>
  BY SubSeqRecursiveSecond
<1> HIDE DEF s
<1>3. SubSeq(q, 1, n) = Append(s, q[n])
  BY <1>1, <1>2, AppendIsConcat
<1> QED
  BY <1>1, <1>3, BytesOf DEF s

(* One entry more. *)
LEMMA OneMoreEntry ==
  ASSUME NEW s \in Seq(Entry), NEW e \in Entry
  PROVE  Append(s, e) \in Seq(Entry) /\ ToSet(Append(s, e)) = ToSet(s) \cup {e}
<1>1. /\ Append(s, e) \in Seq(Entry)
      /\ Len(s) \in Nat /\ DOMAIN s = 1..Len(s)
      /\ DOMAIN Append(s, e) = 1..(Len(s) + 1)
      /\ \A j \in 1..Len(s) : Append(s, e)[j] = s[j]
      /\ Append(s, e)[Len(s) + 1] = e
  BY AppendProperties
<1>2. \A j : j \in 1..(Len(s) + 1) <=> j \in 1..Len(s) \/ j = Len(s) + 1
  BY <1>1
<1>3. \A x : x \in ToSet(Append(s, e)) <=> x \in ToSet(s) \/ x = e
  BY <1>1, <1>2 DEF ToSet
<1> QED
  BY <1>1, <1>3

(* What the loop of Expire keeps: the entries that are not aged, and no    *)
(* more bytes than there were.                                             *)
LEMMA UnexpiredIs ==
  ASSUME NEW q \in Seq(Entry), NEW at
  PROVE  /\ Unexpired(q, at) \in Seq(Entry)
         /\ \A x : x \in ToSet(Unexpired(q, at)) <=> x \in ToSet(q) /\ ~Expired(x, at)
         /\ Bytes(Unexpired(q, at)) <= Bytes(q)
<1> DEFINE n == Len(q)
           V == Seq(Entry)
           G == [z \in (1..n) \X V |->
                   IF Expired(q[z[1]], at) THEN z[2] ELSE Append(z[2], q[z[1]])]
           Eq(f) == f = [i \in 0..n |->
                           IF i = 0 THEN <<>>
                           ELSE IF Expired(q[i], at) THEN f[i - 1] ELSE Append(f[i - 1], q[i])]
           kept == CHOOSE f : Eq(f)
<1>1. n \in Nat /\ (\A i \in 1..n : q[i] \in Entry) /\ <<>> \in V
  OBVIOUS
<1>2. G \in [(1..n) \X V -> V]
  <2>1. \A z \in (1..n) \X V :
          (IF Expired(q[z[1]], at) THEN z[2] ELSE Append(z[2], q[z[1]])) \in V
    BY <1>1
  <2> QED
    BY <2>1
<1>3. PICK g \in [0..n -> V] : g[0] = <<>> /\ \A i \in 1..n : g[i] = G[<<i, g[i - 1]>>]
  <2> HIDE DEF G, n, V
  <2>1. HasValues(V, <<>>, n, G)
    BY <1>1, <1>2, Recursion
  <2> QED
    BY <2>1 DEF HasValues
<1>4. \A i \in 1..n : g[i] = IF Expired(q[i], at) THEN g[i - 1] ELSE Append(g[i - 1], q[i])
  <2>1. \A i \in 1..n : i - 1 \in 0..n
    BY <1>1
  <2>2. \A i \in 1..n : g[i - 1] \in V
    BY <2>1
  <2> QED
    BY <1>3, <2>2
<1> HIDE DEF G, n, V
<1>5. Eq(g)
  <2>1. \A i \in 0..n : i = 0 \/ (i \in 1..n /\ i # 0)
    BY <1>1
  <2>2. \A i \in 0..n :
          g[i] = IF i = 0 THEN <<>>
                 ELSE IF Expired(q[i], at) THEN g[i - 1] ELSE Append(g[i - 1], q[i])
    BY <1>3, <1>4, <2>1
  <2> QED
    BY <1>3, <2>2
<1>6. Eq(kept)
  BY <1>5
<1>7. Unexpired(q, at) = kept[n]
  BY DEF Unexpired, n
<1> HIDE DEF kept
<1>8. /\ kept[0] = <<>>
      /\ \A i \in 1..n : Expired(q[i], at) => kept[i] = kept[i - 1]
      /\ \A i \in 1..n : ~Expired(q[i], at) => kept[i] = Append(kept[i - 1], q[i])
  <2>1. \A i \in 0..n :
          kept[i] = IF i = 0 THEN <<>>
                    ELSE IF Expired(q[i], at) THEN kept[i - 1] ELSE Append(kept[i - 1], q[i])
    BY <1>6
  <2>2. 0 \in 0..n /\ \A i \in 1..n : i \in 0..n /\ i # 0
    BY <1>1
  <2> QED
    BY <2>1, <2>2
<1>9. PICK f \in [0..n -> Nat] : Sums(q, f) /\ Bytes(q) = f[n]
  BY Summing DEF n
<1> DEFINE Good(i) ==
             /\ kept[i] \in Seq(Entry)
             /\ \A x : x \in ToSet(kept[i]) <=> \E j \in 1..i : x = q[j] /\ ~Expired(x, at)
             /\ Bytes(kept[i]) <= f[i]
           S == {i \in Nat : i <= n => Good(i)}
<1>10. Good(0)
  <2>1. ToSet(<<>>) = {} /\ 1..0 = {}
    BY DEF ToSet
  <2>2. f[0] = 0 /\ Bytes(<<>>) = 0
    BY <1>9, BytesOf DEF Sums
  <2>3. /\ kept[0] \in Seq(Entry)
        /\ Bytes(kept[0]) <= f[0]
    BY <1>8, <2>2
  <2>4. \A x : x \in ToSet(kept[0]) <=> \E j \in 1..0 : x = q[j] /\ ~Expired(x, at)
    BY ONLY <1>8, <2>1
  <2> QED
    BY <2>3, <2>4
<1>11. ASSUME NEW i \in Nat, i + 1 <= n, Good(i)
       PROVE  Good(i + 1)
  <2>1. /\ i + 1 \in 1..n /\ (i + 1) - 1 = i /\ i \in 0..n /\ i + 1 \in 0..n
        /\ \A j : j \in 1..(i + 1) <=> j \in 1..i \/ j = i + 1
    BY <1>1, <1>11
  <2>2. /\ f[i + 1] = f[i] + Size[q[i + 1].p] /\ Size[q[i + 1].p] \in Nat
        /\ f[i] \in Nat
    <3>1. f[i + 1] = f[i] + Size[q[i + 1].p] /\ f[i] \in Nat
      BY <1>9, <2>1 DEF Sums, n
    <3>2. q[i + 1] \in Entry
      BY <1>1, <2>1
    <3> QED
      BY <3>1, <3>2, SpoolAssumption DEF Entry
  <2>3. Bytes(kept[i]) \in Nat
    BY <1>11, BytesOf
  <2>4. CASE Expired(q[i + 1], at)
    <3>1. kept[i + 1] = kept[i]
      BY <1>8, <2>1, <2>4
    <3>2. Bytes(kept[i + 1]) <= f[i + 1]
      BY <1>11, <2>2, <2>3, <3>1
    <3>3. \A x : (\E j \in 1..(i + 1) : x = q[j] /\ ~Expired(x, at)) <=>
                 \E j \in 1..i : x = q[j] /\ ~Expired(x, at)
      BY <2>1, <2>4
    <3> QED
      BY <1>11, <3>1, <3>2, <3>3
  <2>5. CASE ~Expired(q[i + 1], at)
    <3>1. kept[i + 1] = Append(kept[i], q[i + 1]) /\ q[i + 1] \in Entry
      BY <1>1, <1>8, <2>1, <2>5
    <3>2. /\ kept[i + 1] \in Seq(Entry)
          /\ Bytes(kept[i + 1]) = Bytes(kept[i]) + Size[q[i + 1].p]
      BY <1>11, <3>1, BytesOf
    <3>3. Bytes(kept[i + 1]) <= f[i + 1]
      BY <1>11, <2>2, <2>3, <3>2
    <3>4. \A x : x \in ToSet(kept[i + 1]) <=> x \in ToSet(kept[i]) \/ x = q[i + 1]
      BY <1>11, <3>1, OneMoreEntry
    <3>5. \A x : (\E j \in 1..(i + 1) : x = q[j] /\ ~Expired(x, at)) <=>
                 x = q[i + 1] \/ \E j \in 1..i : x = q[j] /\ ~Expired(x, at)
      BY <2>1, <2>5
    <3> QED
      BY <1>11, <3>2, <3>3, <3>4, <3>5
  <2> QED
    BY <2>4, <2>5
<1>12. Good(n)
  <2> HIDE DEF Good
  <2>1. 0 \in S
    BY <1>10
  <2>2. ASSUME NEW i \in S PROVE i + 1 \in S
    <3>1. i \in Nat /\ (i + 1 <= n => i <= n)
      BY <1>1
    <3> QED
      BY <1>11, <3>1
  <2> HIDE DEF S
  <2>3. S \in SUBSET Nat
    BY DEF S
  <2>4. S = Nat
    BY <2>1, <2>2, <2>3, AllNumbers
  <2>5. n \in S /\ n <= n
    BY <1>1, <2>4
  <2> QED
    BY ONLY <2>5 DEF S
<1>13. \A x : x \in ToSet(q) <=> \E j \in 1..n : x = q[j]
  BY DEF ToSet, n
<1> QED
  BY <1>7, <1>9, <1>12, <1>13

(* What the ceiling keeps: the longest end of a file that is within it.    *)
LEMMA NewestIs ==
  ASSUME NEW q \in Seq(Entry)
  PROVE  /\ Newest(q) \in Seq(Entry)
         /\ Bytes(Newest(q)) <= Limit
         /\ ToSet(Newest(q)) \subseteq ToSet(q)
         /\ IsSuffix(Newest(q), q)
         /\ \A i \in DOMAIN q : Bytes(SubSeq(q, i, Len(q))) <= Limit =>
                                q[i].p \in PayloadsIn(Newest(q))
<1> DEFINE n == Len(q)
           S == {i \in 1..(n + 1) : Bytes(SubSeq(q, i, n)) <= Limit}
           first == Min(S)
           keep == SubSeq(q, first, n)
<1>1. n \in Nat
  OBVIOUS
<1>2. n + 1 \in S
  <2>1. SubSeq(q, n + 1, n) = <<>>
    BY <1>1
  <2>2. n + 1 \in 1..(n + 1) /\ 0 <= Limit
    BY <1>1, SpoolAssumption
  <2> HIDE DEF n
  <2> QED
    BY <2>1, <2>2, BytesOf
<1>3. Newest(q) = keep
  BY DEF Newest
<1>4. first \in S /\ \A i \in S : first <= i
  <2>1. S \in SUBSET Nat /\ S # {}
    BY <1>1, <1>2
  <2> HIDE DEF S
  <2> QED
    BY <2>1, MinOf
<1>5. first \in 1..(n + 1) /\ Bytes(keep) <= Limit
  BY <1>4
<1> HIDE DEF first, S
<1>6. /\ keep \in Seq(Entry) /\ Len(keep) = (n - first) + 1
      /\ \A i \in 1..((n - first) + 1) : keep[i] = q[(first + i) - 1]
  <2>1. CASE first = n + 1
    <3>1. keep = <<>> /\ (n - first) + 1 = 0 /\ 1..0 = {}
      BY <1>1, <2>1
    <3> QED
      BY <3>1
  <2>2. CASE first # n + 1
    <3>1. first \in 1..n
      BY <1>1, <1>5, <2>2
    <3> QED
      BY <1>1, <3>1
  <2> QED
    BY <2>1, <2>2
<1> HIDE DEF keep
<1>7. IsSuffix(keep, q)
  <2> DEFINE m == (n - first) + 1
             r == Reverse(keep)
             t == Reverse(q)
  <2>1. m \in Nat /\ m <= n
    BY <1>1, <1>5
  <2>2. r \in Seq(Entry) /\ Len(r) = m /\ \A i \in 1..m : r[i] = keep[(m - i) + 1]
    <3>1. Len(keep) = m
      BY <1>6
    <3> HIDE DEF m
    <3>2. r = [i \in 1..m |-> keep[(m - i) + 1]]
      BY <3>1 DEF Reverse
    <3>3. \A i \in 1..m : keep[(m - i) + 1] \in Entry
      BY <1>6, <2>1, <3>1
    <3> QED
      BY <2>1, <3>2, <3>3
  <2>3. t \in Seq(Entry) /\ Len(t) = n /\ \A i \in 1..n : t[i] = q[(n - i) + 1]
    BY <1>1 DEF Reverse
  <2>4. \A i \in 1..m : r[i] = t[i]
    <3>1. \A i \in 1..m : /\ i \in 1..n /\ (m - i) + 1 \in 1..m
                          /\ (first + ((m - i) + 1)) - 1 = (n - i) + 1
      BY <1>1, <1>5
    <3>2. \A i \in 1..m : keep[i] = q[(first + i) - 1]
      BY <1>6
    <3> HIDE DEF r, t, m
    <3>3. \A i \in 1..m : r[i] = q[(first + ((m - i) + 1)) - 1]
      BY <2>2, <3>1, <3>2
    <3>4. \A i \in 1..m : t[i] = q[(n - i) + 1]
      BY <2>3, <3>1
    <3> QED
      BY ONLY <3>1, <3>3, <3>4
  <2> HIDE DEF r, t, m
  <2>5. SubSeq(r, 1, m) = SubSeq(t, 1, m)
    BY <1>1, <2>1, <2>2, <2>3, <2>4
  <2>6. IsPrefix(r, t)
    BY <1>1, <2>1, <2>2, <2>3, <2>5 DEF IsPrefix
  <2> QED
    BY <2>6 DEF IsSuffix, r, t
<1>8. ASSUME NEW i \in DOMAIN q, Bytes(SubSeq(q, i, n)) <= Limit
      PROVE  q[i].p \in PayloadsIn(keep)
  <2>1. i \in 1..n
    BY <1>1
  <2>2. first <= i
    BY <1>1, <1>4, <1>8, <2>1 DEF S
  <2>3. (i - first) + 1 \in 1..((n - first) + 1) /\ (first + ((i - first) + 1)) - 1 = i
    BY <1>1, <1>5, <2>1, <2>2
  <2>4. keep[(i - first) + 1] = q[i] /\ (i - first) + 1 \in DOMAIN keep
    BY <1>6, <2>3
  <2> QED
    BY <2>4 DEF PayloadsIn
<1>9. ToSet(keep) \subseteq ToSet(q)
  <2>1. \A i \in 1..((n - first) + 1) : (first + i) - 1 \in DOMAIN q
    BY <1>1, <1>5
  <2> QED
    BY <1>6, <2>1 DEF ToSet
<1> QED
  BY <1>3, <1>5, <1>6, <1>7, <1>8, <1>9
-----------------------------------------------------------------------------
(* The invariant.  What a call has in mind when it replaces a file comes   *)
(* from the file it read, whatever became of the file since.               *)

(* A drain has dealt with the entries before the next one: each was taken  *)
(* or is kept.                                                             *)
Drained(t, tk) ==
  /\ t.next <= Len(t.buf) + 1
  /\ t.pc = "write" => t.next = Len(t.buf) + 1
  /\ \A i \in 1..(t.next - 1) : t.buf[i].p \in tk \cup PayloadsIn(t.keep)
  /\ ToSet(t.keep) \subseteq ToSet(t.buf)
  /\ Bytes(t.keep) <= Bytes(SubSeq(t.buf, 1, t.next - 1))
  /\ Bytes(t.buf) <= Limit

(* A call t, when the collector has taken tk and the clock is n. *)
CallInv(t, tk, n) ==
  /\ t.at <= n
  /\ t.pc = "idle" => t = Resting
  /\ t.pc = "read" => t.buf = <<>> /\ t.keep = <<>> /\ t.next = 1
  /\ t.pc = "consume" => t.op = "drain"
  /\ t.pc = "write" => t.op # "none"
  /\ t.op # "append" => t.new = <<>>
  /\ t.op = "append" /\ t.pc = "write" => t.keep = Newest(t.buf \o t.new)
  /\ t.op = "expire" /\ t.pc = "write" =>
       /\ ToSet(t.keep) = {x \in ToSet(t.buf) : ~Expired(x, t.at)}
       /\ Bytes(t.keep) <= Limit
  /\ t.op = "drain" /\ t.pc \in {"consume", "write"} => Drained(t, tk)

Calls == \A q \in Procs : CallInv(proc[q], taken, now)

(* The entries that are somewhere.  Each was stamped once. *)
Held(t) == ToSet(t.new) \cup ToSet(t.buf) \cup ToSet(t.keep)

EntriesIn(f, calls) ==
  (UNION {ToSet(f[s]) : s \in Sources}) \cup (UNION {Held(calls[q]) : q \in Procs})

Entries == EntriesIn(file, proc)

Stamped ==
  /\ \A x \in Entries : x.p \in called
  /\ \A x, y \in Entries : x.p = y.p => x.at = y.at

SpoolInv ==
  /\ TypeOK
  /\ Calls
  /\ Stamped
  /\ FileWithinLimit
  /\ EveryPayloadIsAccountedFor
-----------------------------------------------------------------------------
(* The parts of a call. *)
LEMMA CallIs ==
  ASSUME NEW t \in Call
  PROVE  /\ t = [op |-> t.op, pc |-> t.pc, todo |-> t.todo, at |-> t.at, new |-> t.new,
                buf |-> t.buf, keep |-> t.keep, next |-> t.next]
         /\ t.op \in {"none", "append", "drain", "expire"}
         /\ t.pc \in {"idle", "read", "consume", "write"}
         /\ t.todo \in SUBSET Sources /\ t.at \in Nat
         /\ t.new \in Seq(Entry) /\ t.buf \in Seq(Entry) /\ t.keep \in Seq(Entry)
         /\ t.next \in Nat \ {0}
BY DEF Call

LEMMA NoEntries == ToSet(<<>>) = {} /\ PayloadsIn(<<>>) = {} /\ <<>> \in Seq(Entry)
BY DEF ToSet, PayloadsIn

(* What a sequence of entries holds. *)
LEMMA EntriesOf ==
  ASSUME NEW q \in Seq(Entry)
  PROVE  /\ ToSet(q) \subseteq Entry
         /\ PayloadsIn(q) = {x.p : x \in ToSet(q)}
         /\ PayloadsIn(q) \subseteq Payloads
<1>1. \A i \in DOMAIN q : q[i] \in Entry
  OBVIOUS
<1>2. \A x \in Entry : x.p \in Payloads
  BY DEF Entry
<1> QED
  BY <1>1, <1>2 DEF ToSet, PayloadsIn

(* Two files' entries, one after the other. *)
LEMMA EntriesOfBoth ==
  ASSUME NEW q \in Seq(Entry), NEW r \in Seq(Entry)
  PROVE  q \o r \in Seq(Entry) /\ ToSet(q \o r) = ToSet(q) \cup ToSet(r)
<1>1. /\ q \o r \in Seq(Entry) /\ DOMAIN (q \o r) = 1..(Len(q) + Len(r))
      /\ DOMAIN q = 1..Len(q) /\ DOMAIN r = 1..Len(r) /\ Len(q) \in Nat /\ Len(r) \in Nat
      /\ \A i \in 1..(Len(q) + Len(r)) : (q \o r)[i] = IF i <= Len(q) THEN q[i] ELSE r[i - Len(q)]
  BY ConcatProperties, LenProperties
<1>2. \A i \in 1..(Len(q) + Len(r)) : i \in 1..Len(q) \/ (~(i <= Len(q)) /\ i - Len(q) \in 1..Len(r))
  BY <1>1
<1>3. /\ \A i \in 1..Len(q) : i \in 1..(Len(q) + Len(r)) /\ (q \o r)[i] = q[i]
      /\ \A i \in 1..Len(r) : /\ Len(q) + i \in 1..(Len(q) + Len(r))
                              /\ (q \o r)[Len(q) + i] = r[i]
  BY <1>1
<1>4. /\ ToSet(q) = {q[i] : i \in 1..Len(q)} /\ ToSet(r) = {r[i] : i \in 1..Len(r)}
      /\ ToSet(q \o r) = {(q \o r)[i] : i \in 1..(Len(q) + Len(r))}
  BY ONLY <1>1 DEF ToSet
<1>5. \A i \in 1..(Len(q) + Len(r)) : (q \o r)[i] \in ToSet(q) \cup ToSet(r)
  <2> SUFFICES ASSUME NEW i \in 1..(Len(q) + Len(r))
               PROVE  (q \o r)[i] \in ToSet(q) \cup ToSet(r)
    OBVIOUS
  <2>1. CASE i \in 1..Len(q)
    BY <1>3, <1>4, <2>1
  <2>2. CASE ~(i <= Len(q)) /\ i - Len(q) \in 1..Len(r)
    <3>1. (q \o r)[i] = r[i - Len(q)]
      BY <1>1, <2>2
    <3> QED
      BY <1>4, <2>2, <3>1
  <2> QED
    BY <1>2, <2>1, <2>2
<1>6. ToSet(q \o r) \subseteq ToSet(q) \cup ToSet(r)
  BY <1>4, <1>5
<1>7. ToSet(q) \subseteq ToSet(q \o r)
  BY <1>3, <1>4
<1>8. ToSet(r) \subseteq ToSet(q \o r)
  BY <1>3, <1>4
<1> QED
  BY <1>1, <1>6, <1>7, <1>8

LEMMA RestingIs ==
  /\ Resting \in Call /\ Resting.pc = "idle" /\ Resting.op = "none" /\ Resting.todo = {}
  /\ Resting.new = <<>> /\ Held(Resting) = {}
  /\ \A tk, n : n \in Nat => CallInv(Resting, tk, n)
<1>1. /\ Resting.op = "none" /\ Resting.pc = "idle" /\ Resting.todo = {} /\ Resting.at = 0
      /\ Resting.new = <<>> /\ Resting.buf = <<>> /\ Resting.keep = <<>> /\ Resting.next = 1
  BY DEF Resting
<1>2. Resting \in Call
  BY NoEntries DEF Resting, Call
<1>3. Held(Resting) = {}
  BY <1>1, NoEntries DEF Held
<1>4. \A tk, n : n \in Nat => CallInv(Resting, tk, n)
  BY <1>1 DEF CallInv
<1> QED
  BY <1>1, <1>2, <1>3, <1>4

LEMMA EntriesAre ==
  ASSUME NEW f, NEW calls
  PROVE  \A x : x \in EntriesIn(f, calls) <=> \/ \E s \in Sources : x \in ToSet(f[s])
                                            \/ \E q \in Procs : x \in Held(calls[q])
<1> DEFINE A == {ToSet(f[s]) : s \in Sources}
           B == {Held(calls[q]) : q \in Procs}
<1> SUFFICES ASSUME NEW x
             PROVE  x \in EntriesIn(f, calls) <=> \/ \E s \in Sources : x \in ToSet(f[s])
                                                \/ \E q \in Procs : x \in Held(calls[q])
  OBVIOUS
<1>1. x \in EntriesIn(f, calls) <=> (\E T \in A : x \in T) \/ (\E T \in B : x \in T)
  <2>1. EntriesIn(f, calls) = (UNION A) \cup (UNION B)
    BY DEF EntriesIn
  <2> HIDE DEF A, B
  <2> QED
    BY <2>1
<1>2. (\E T \in A : x \in T) <=> \E s \in Sources : x \in ToSet(f[s])
  OBVIOUS
<1>3. (\E T \in B : x \in T) <=> \E q \in Procs : x \in Held(calls[q])
  OBVIOUS
<1> HIDE DEF A, B
<1> QED
  BY <1>1, <1>2, <1>3

(* Time passes and payloads are taken: the other calls do not mind. *)
LEMMA CallStays ==
  ASSUME NEW t \in Call, NEW tk, NEW n \in Nat, CallInv(t, tk, n),
         NEW tk2, tk \subseteq tk2, NEW n2 \in Nat, n <= n2
  PROVE  CallInv(t, tk2, n2)
<1>1. t.at <= n2
  BY CallIs DEF CallInv
<1>2. Drained(t, tk) => Drained(t, tk2)
  BY DEF Drained
<1> QED
  BY <1>1, <1>2 DEF CallInv

(* A step of one call that leaves the files alone. *)
LEMMA CallChanges ==
  ASSUME SpoolInv, NEW q \in Procs, NEW t \in Call,
         proc' = [proc EXCEPT ![q] = t],
         file' = file, called' = called, now' = now,
         taken \subseteq taken', taken' \subseteq Payloads,
         fate' \in Fate, fate.refused \subseteq fate'.refused,
         fate.dropped = fate'.dropped, fate.expired = fate'.expired,
         fate.overwritten = fate'.overwritten,
         t.todo = {} <=> t.pc = "idle",
         CallInv(t, taken', now),
         Held(t) \subseteq Entries,
         PayloadsIn(proc[q].new) \subseteq PayloadsIn(t.new) \cup fate'.refused
  PROVE  SpoolInv'
<1>1. /\ TypeOK /\ Calls /\ Stamped /\ FileWithinLimit /\ EveryPayloadIsAccountedFor
  BY DEF SpoolInv
<1>2. /\ proc \in [Procs -> Call] /\ proc' \in [Procs -> Call]
      /\ proc'[q] = t /\ \A r \in Procs \ {q} : proc'[r] = proc[r]
  BY <1>1 DEF TypeOK
<1>3. TypeOK'
  BY <1>1, <1>2 DEF TypeOK
<1>4. Calls'
  <2>1. \A r \in Procs \ {q} : CallInv(proc[r], taken', now)
    <3> SUFFICES ASSUME NEW r \in Procs \ {q} PROVE CallInv(proc[r], taken', now)
      OBVIOUS
    <3>1. proc[r] \in Call /\ CallInv(proc[r], taken, now) /\ now \in Nat /\ now <= now
      BY <1>1, <1>2 DEF Calls, TypeOK
    <3> QED
      BY <3>1, CallStays
  <2> QED
    BY <1>2, <2>1 DEF Calls
<1>5. Stamped'
  <2>1. Entries' \subseteq Entries
    <3>1. \A r \in Procs \ {q} : Held(proc'[r]) = Held(proc[r])
      BY <1>2
    <3>2. \A x : x \in EntriesIn(file', proc') => x \in Entries
      BY <1>2, <3>1, EntriesAre DEF Entries
    <3>3. Entries' = EntriesIn(file', proc')
      BY DEF Entries
    <3> QED
      BY <3>2, <3>3
  <2> QED
    BY <1>1, <2>1 DEF Stamped
<1>6. FileWithinLimit'
  BY <1>1 DEF FileWithinLimit
<1>7. EveryPayloadIsAccountedFor'
  <2>1. Appending \subseteq Appending' \cup fate'.refused
    <3>1. \A h \in Hooks : PayloadsIn(proc[h].new) \subseteq PayloadsIn(proc'[h].new) \cup fate'.refused
      BY <1>2 DEF Procs
    <3>2. Appending' = UNION {PayloadsIn(proc'[h].new) : h \in Hooks}
      BY DEF Appending
    <3> QED
      BY <3>1, <3>2 DEF Appending
  <2>2. InFiles' = InFiles
    BY DEF InFiles
  <2> QED
    BY <1>1, <2>1, <2>2 DEF EveryPayloadIsAccountedFor
<1> QED
  BY <1>3, <1>4, <1>5, <1>6, <1>7 DEF SpoolInv

(* What SpoolInv says of one process. *)
LEMMA CallOf ==
  ASSUME SpoolInv, NEW q \in Procs
  PROVE  /\ proc[q] \in Call /\ CallInv(proc[q], taken, now)
         /\ proc[q].todo = {} <=> proc[q].pc = "idle"
         /\ Held(proc[q]) \subseteq Entries
         /\ proc[q].pc # "idle" => Source(q) \in proc[q].todo /\ Source(q) \in Sources
         /\ fate \in Fate /\ taken \subseteq Payloads /\ now \in Nat
         /\ \A s \in Sources : /\ file[s] \in Seq(Entry)
                               /\ ToSet(file[s]) \subseteq Entries
                               /\ Bytes(file[s]) <= Limit
<1>1. /\ proc[q] \in Call /\ CallInv(proc[q], taken, now)
      /\ proc[q].todo = {} <=> proc[q].pc = "idle"
      /\ fate \in Fate /\ taken \subseteq Payloads /\ now \in Nat
      /\ \A s \in Sources : file[s] \in Seq(Entry) /\ Bytes(file[s]) <= Limit
  BY DEF SpoolInv, TypeOK, Calls, FileWithinLimit
<1>2. Held(proc[q]) \subseteq Entries /\ \A s \in Sources : ToSet(file[s]) \subseteq Entries
  <2>1. \A x : (\E s \in Sources : x \in ToSet(file[s])) \/ (\E r \in Procs : x \in Held(proc[r]))
              => x \in Entries
    BY EntriesAre DEF Entries
  <2>2. \A x \in Held(proc[q]) : x \in Entries
    BY <2>1
  <2>3. \A s \in Sources : \A x \in ToSet(file[s]) : x \in Entries
    BY <2>1
  <2> QED
    BY <2>2, <2>3
<1>3. ASSUME proc[q].pc # "idle" PROVE Source(q) \in proc[q].todo /\ Source(q) \in Sources
  <2>1. proc[q].todo \in SUBSET Sources /\ proc[q].todo # {}
    BY <1>1, <1>3, CallIs
  <2>2. proc[q].todo \in SUBSET Nat
    BY <2>1, SpoolAssumption
  <2>3. Min(proc[q].todo) \in proc[q].todo
    BY <2>1, <2>2, MinOf
  <2> QED
    BY <2>1, <2>3 DEF Source
<1> QED
  BY <1>1, <1>2, <1>3

(* A call begins with nothing read. *)
LEMMA Begins ==
  ASSUME NEW t \in Call, t.pc = "read", t.op # "none", t.new = <<>> \/ t.op = "append",
         t.buf = Resting.buf, t.keep = Resting.keep, t.next = Resting.next,
         NEW n \in Nat, t.at <= n, NEW tk
  PROVE  CallInv(t, tk, n) /\ Held(t) = ToSet(t.new)
<1>1. t.buf = <<>> /\ t.keep = <<>> /\ t.next = 1
  BY DEF Resting
<1> QED
  BY <1>1, NoEntries DEF CallInv, Held

(* The next source, or the end of a call. *)
LEMMA DoneIs ==
  ASSUME NEW t \in Call, NEW tk, NEW n \in Nat, CallInv(t, tk, n)
  PROVE  /\ Done(t) \in Call
         /\ Done(t).todo = {} <=> Done(t).pc = "idle"
         /\ CallInv(Done(t), tk, n)
         /\ Held(Done(t)) \subseteq ToSet(t.new)
         /\ Done(t) = Resting \/ Done(t).new = t.new
<1> DEFINE rest == t.todo \ {Min(t.todo)}
<1>1. CASE rest = {}
  <2>1. Done(t) = Resting
    BY <1>1 DEF Done
  <2> QED
    BY <2>1, RestingIs
<1>2. CASE rest # {}
  <2>1. Done(t) = [t EXCEPT !.todo = rest, !.pc = "read", !.buf = <<>>, !.keep = <<>>, !.next = 1]
    BY <1>2 DEF Done
  <2>2. rest \in SUBSET Sources
    BY CallIs
  <2> HIDE DEF rest
  <2>3. Done(t) = [op |-> t.op, pc |-> "read", todo |-> rest, at |-> t.at, new |-> t.new,
                   buf |-> <<>>, keep |-> <<>>, next |-> 1]
    BY <2>1, CallIs
  <2>4. Done(t) \in Call
    BY <2>2, <2>3, CallIs, NoEntries DEF Call
  <2>5. CallInv(Done(t), tk, n)
    BY <2>3 DEF CallInv
  <2>6. Held(Done(t)) \subseteq ToSet(t.new)
    BY <2>3, NoEntries DEF Held
  <2> QED
    BY <1>2, <2>3, <2>4, <2>5, <2>6
<1> QED
  BY <1>1, <1>2

LEMMA StartSweepOrDrain ==
  ASSUME SpoolInv, NEW q \in Procs, StartExpire(q) \/ (q = Server /\ StartDrain)
  PROVE  SpoolInv'
<1> DEFINE t == IF StartExpire(q)
                THEN [Resting EXCEPT !.op = "expire", !.pc = "read", !.todo = NonEmpty, !.at = now]
                ELSE [Resting EXCEPT !.op = "drain", !.pc = "read", !.todo = NonEmpty]
<1>1. /\ proc[q].pc = "idle" /\ NonEmpty # {} /\ NonEmpty \in SUBSET Sources
      /\ proc' = [proc EXCEPT ![q] = t]
      /\ now' = now /\ file' = file /\ called' = called /\ taken' = taken /\ fate' = fate
  <2>1. NonEmpty \in SUBSET Sources
    BY DEF NonEmpty
  <2> QED
    BY <2>1 DEF StartExpire, StartDrain
<1>2. now \in Nat /\ fate \in Fate /\ taken \subseteq Payloads /\ proc[q].new = <<>>
  BY <1>1, CallOf, RestingIs DEF CallInv
<1>3. /\ t \in Call /\ t.todo # {} /\ t.pc = "read" /\ t.op # "none" /\ t.new = Resting.new
      /\ t.at <= now /\ t.buf = Resting.buf /\ t.keep = Resting.keep /\ t.next = Resting.next
  <2>1. Resting \in Call /\ Resting.at = 0 /\ Resting.at <= now
    BY <1>2, RestingIs DEF Resting
  <2>2. CASE StartExpire(q)
    <3>1. t = [Resting EXCEPT !.op = "expire", !.pc = "read", !.todo = NonEmpty, !.at = now]
      BY <2>2
    <3> HIDE DEF t
    <3>2. /\ t \in Call /\ t.todo = NonEmpty /\ t.pc = "read" /\ t.op = "expire"
          /\ t.new = Resting.new /\ t.at = now /\ t.buf = Resting.buf
          /\ t.keep = Resting.keep /\ t.next = Resting.next
      BY ONLY <1>1, <1>2, <2>1, <3>1 DEF Call
    <3> QED
      BY <1>1, <1>2, <3>2
  <2>3. CASE ~StartExpire(q)
    <3>1. t = [Resting EXCEPT !.op = "drain", !.pc = "read", !.todo = NonEmpty]
      BY <2>3
    <3> HIDE DEF t
    <3>2. /\ t \in Call /\ t.todo = NonEmpty /\ t.pc = "read" /\ t.op = "drain"
          /\ t.new = Resting.new /\ t.at = Resting.at /\ t.buf = Resting.buf
          /\ t.keep = Resting.keep /\ t.next = Resting.next
      BY ONLY <1>1, <2>1, <3>1 DEF Call
    <3> QED
      BY <1>1, <2>1, <3>2
  <2> QED
    BY <2>2, <2>3
<1>4. CallInv(t, taken, now) /\ Held(t) = {}
  <2> HIDE DEF t
  <2> QED
    BY <1>2, <1>3, RestingIs, NoEntries, Begins
<1> HIDE DEF t
<1> QED
  BY <1>1, <1>2, <1>3, <1>4, NoEntries, CallChanges

(* A call that fails on a line, or is killed: its entries are refused. *)
LEMMA EndedCallKeeps ==
  ASSUME SpoolInv, NEW q \in Procs, ReadFails(q) \/ Crash(q)
  PROVE  SpoolInv'
<1>1. /\ proc' = [proc EXCEPT ![q] = Resting]
      /\ fate' = [fate EXCEPT !.refused = fate.refused \cup PayloadsIn(proc[q].new)]
      /\ now' = now /\ file' = file /\ called' = called /\ taken' = taken
  BY DEF ReadFails, Crash
<1>2. /\ fate' \in Fate /\ fate'.refused = fate.refused \cup PayloadsIn(proc[q].new)
      /\ fate'.dropped = fate.dropped /\ fate'.expired = fate.expired
      /\ fate'.overwritten = fate.overwritten
  <2> DEFINE new == PayloadsIn(proc[q].new)
  <2>1. fate \in Fate /\ new \subseteq Payloads
    BY CallOf, CallIs, EntriesOf
  <2> HIDE DEF new
  <2>2. fate' = [fate EXCEPT !.refused = fate.refused \cup new]
    BY <1>1 DEF new
  <2>3. /\ fate' \in Fate /\ fate'.refused = fate.refused \cup new
        /\ fate'.dropped = fate.dropped /\ fate'.expired = fate.expired
        /\ fate'.overwritten = fate.overwritten
    BY <2>1, <2>2 DEF Fate
  <2> QED
    BY <2>3 DEF new
<1>3. CallInv(Resting, taken, now) /\ taken \subseteq Payloads
  BY CallOf, RestingIs
<1> QED
  BY <1>1, <1>2, <1>3, RestingIs, CallChanges

LEMMA ReadForAppendKeeps ==
  ASSUME SpoolInv, NEW h \in Hooks, ReadForAppend(h)
  PROVE  SpoolInv'
<1> DEFINE buf == file[Source(h)]
           keep == Newest(buf \o proc[h].new)
           t == [proc[h] EXCEPT !.buf = buf, !.pc = "write", !.keep = keep]
<1>1. /\ proc[h].pc = "read" /\ proc[h].op = "append" /\ h \in Procs
      /\ now' = now /\ file' = file /\ called' = called /\ taken' = taken /\ fate' = fate
  BY DEF ReadForAppend, Procs
<1>2. /\ proc[h] \in Call /\ CallInv(proc[h], taken, now)
      /\ proc[h].todo # {} /\ Held(proc[h]) \subseteq Entries
      /\ buf \in Seq(Entry) /\ ToSet(buf) \subseteq Entries
      /\ fate \in Fate /\ taken \subseteq Payloads
  BY <1>1, CallOf
<1>3. /\ keep \in Seq(Entry)
      /\ ToSet(keep) \subseteq ToSet(buf) \cup ToSet(proc[h].new)
  <2> DEFINE all == buf \o proc[h].new
  <2>1. proc[h].new \in Seq(Entry)
    BY <1>2, CallIs
  <2>2. all \in Seq(Entry) /\ ToSet(all) \subseteq ToSet(buf) \cup ToSet(proc[h].new)
    <3> HIDE DEF buf
    <3> QED
      BY <1>2, <2>1, EntriesOfBoth
  <2> HIDE DEF all
  <2>3. Newest(all) \in Seq(Entry) /\ ToSet(Newest(all)) \subseteq ToSet(all)
    BY <2>2, NewestIs
  <2> QED
    BY <2>2, <2>3 DEF all
<1>4. proc' = [proc EXCEPT ![h] = t]
  BY DEF ReadForAppend
<1> HIDE DEF keep, buf
<1>5. /\ t \in Call /\ t.op = proc[h].op /\ t.pc = "write" /\ t.todo = proc[h].todo
      /\ t.at = proc[h].at /\ t.new = proc[h].new /\ t.buf = buf /\ t.keep = keep
  BY ONLY <1>2, <1>3 DEF Call
<1> HIDE DEF t
<1>6. CallInv(t, taken, now)
  BY <1>1, <1>2, <1>5 DEF CallInv, keep
<1>7. Held(t) \subseteq Entries
  BY <1>2, <1>3, <1>5 DEF Held
<1> QED
  BY <1>1, <1>2, <1>4, <1>5, <1>6, <1>7, CallChanges

LEMMA ReadForExpireKeeps ==
  ASSUME SpoolInv, NEW q \in Procs, ReadForExpire(q)
  PROVE  SpoolInv'
<1> DEFINE buf == file[Source(q)]
           keep == Unexpired(buf, proc[q].at)
           u == [proc[q] EXCEPT !.buf = buf, !.keep = keep, !.pc = "write"]
           t == IF Len(keep) = Len(buf) THEN Done(proc[q]) ELSE u
<1>1. /\ proc[q].pc = "read" /\ proc[q].op = "expire"
      /\ proc' = [proc EXCEPT ![q] = t]
      /\ now' = now /\ file' = file /\ called' = called /\ taken' = taken /\ fate' = fate
  BY DEF ReadForExpire
<1>2. /\ proc[q] \in Call /\ CallInv(proc[q], taken, now) /\ now \in Nat
      /\ proc[q].todo # {} /\ Held(proc[q]) \subseteq Entries
      /\ buf \in Seq(Entry) /\ ToSet(buf) \subseteq Entries /\ Bytes(buf) <= Limit
      /\ fate \in Fate /\ taken \subseteq Payloads
  BY <1>1, CallOf
<1>3. /\ keep \in Seq(Entry)
      /\ ToSet(keep) = {x \in ToSet(buf) : ~Expired(x, proc[q].at)}
      /\ Bytes(keep) <= Limit
  <2> HIDE DEF buf
  <2>1. /\ Unexpired(buf, proc[q].at) \in Seq(Entry)
        /\ \A x : x \in ToSet(Unexpired(buf, proc[q].at)) <=> x \in ToSet(buf) /\ ~Expired(x, proc[q].at)
        /\ Bytes(Unexpired(buf, proc[q].at)) <= Bytes(buf)
    BY <1>2, UnexpiredIs
  <2>2. Bytes(keep) \in Nat /\ Bytes(buf) \in Nat /\ Limit \in Nat
    BY <1>2, <2>1, BytesOf, SpoolAssumption
  <2> HIDE DEF keep
  <2>3. /\ keep \in Seq(Entry) /\ Bytes(keep) <= Bytes(buf)
        /\ \A x : x \in ToSet(keep) <=> x \in ToSet(buf) /\ ~Expired(x, proc[q].at)
    BY <2>1 DEF keep
  <2> QED
    BY <1>2, <2>2, <2>3
<1> HIDE DEF keep, buf
<1>4. proc[q].new = <<>>
  BY <1>1, <1>2 DEF CallInv
<1>5. /\ u \in Call /\ u.op = proc[q].op /\ u.pc = "write" /\ u.todo = proc[q].todo
      /\ u.at = proc[q].at /\ u.new = proc[q].new /\ u.buf = buf /\ u.keep = keep
  BY ONLY <1>2, <1>3 DEF Call
<1> HIDE DEF u
<1>6. CallInv(u, taken, now) /\ Held(u) \subseteq Entries
  <2>1. CallInv(u, taken, now)
    BY <1>1, <1>2, <1>3, <1>5 DEF CallInv
  <2>2. Held(u) \subseteq Entries
    BY <1>2, <1>3, <1>5 DEF Held
  <2> QED
    BY <2>1, <2>2
<1>7. /\ t \in Call /\ (t.todo = {} <=> t.pc = "idle")
      /\ CallInv(t, taken, now) /\ Held(t) \subseteq Entries
  <2>1. /\ Done(proc[q]) \in Call /\ (Done(proc[q]).todo = {} <=> Done(proc[q]).pc = "idle")
        /\ CallInv(Done(proc[q]), taken, now) /\ Held(Done(proc[q])) \subseteq ToSet(proc[q].new)
    BY <1>2, DoneIs
  <2>2. ToSet(proc[q].new) \subseteq Entries
    BY <1>4, NoEntries
  <2> QED
    BY <1>2, <1>5, <1>6, <2>1, <2>2
<1> HIDE DEF t
<1> QED
  BY <1>1, <1>2, <1>4, <1>7, NoEntries, CallChanges

LEMMA ReadForDrainKeeps ==
  ASSUME SpoolInv, ReadForDrain
  PROVE  SpoolInv'
<1> DEFINE buf == file[Source(Server)]
           t == [proc[Server] EXCEPT !.buf = buf, !.pc = "consume"]
<1>1. /\ proc[Server].pc = "read" /\ proc[Server].op = "drain" /\ Server \in Procs
      /\ now' = now /\ file' = file /\ called' = called /\ taken' = taken /\ fate' = fate
  BY DEF ReadForDrain, Procs
<1>2. /\ proc[Server] \in Call /\ CallInv(proc[Server], taken, now)
      /\ proc[Server].todo # {} /\ Held(proc[Server]) \subseteq Entries
      /\ buf \in Seq(Entry) /\ ToSet(buf) \subseteq Entries /\ Bytes(buf) <= Limit
      /\ fate \in Fate /\ taken \subseteq Payloads
  BY <1>1, CallOf
<1>3. proc[Server].keep = <<>> /\ proc[Server].next = 1 /\ proc[Server].new = <<>>
  BY <1>1, <1>2 DEF CallInv
<1>4. proc' = [proc EXCEPT ![Server] = t]
  BY DEF ReadForDrain
<1> HIDE DEF buf
<1>5. /\ t \in Call /\ t.op = proc[Server].op /\ t.pc = "consume" /\ t.todo = proc[Server].todo
      /\ t.at = proc[Server].at /\ t.new = proc[Server].new /\ t.buf = buf
      /\ t.keep = proc[Server].keep /\ t.next = proc[Server].next
  BY ONLY <1>2 DEF Call
<1> HIDE DEF t
<1>6. Drained(t, taken)
  <2>1. Len(buf) \in Nat /\ 1 <= Len(buf) + 1 /\ 1 - 1 = 0 /\ 1..0 = {}
    BY <1>2
  <2>2. SubSeq(buf, 1, 0) = <<>>
    BY <1>2
  <2>3. Bytes(<<>>) <= Bytes(<<>>)
    BY BytesOf
  <2> QED
    BY <1>2, <1>3, <1>5, <2>1, <2>2, <2>3, NoEntries DEF Drained
<1>7. CallInv(t, taken, now)
  BY <1>1, <1>2, <1>3, <1>5, <1>6 DEF CallInv
<1>8. Held(t) \subseteq Entries
  BY <1>2, <1>3, <1>5, NoEntries DEF Held
<1> QED
  BY <1>1, <1>2, <1>4, <1>5, <1>7, <1>8, CallChanges

(* Each answer to a drain deals with one more entry. *)
LEMMA ConsumeKeeps ==
  ASSUME SpoolInv, NEW accepted \in BOOLEAN, Consume(accepted)
  PROVE  SpoolInv'
<1> DEFINE c == proc[Server]
           n == c.next
           entry == c.buf[n]
           keep == IF accepted THEN c.keep ELSE Append(c.keep, entry)
           t == [c EXCEPT !.next = n + 1, !.keep = keep]
<1>1. /\ c.pc = "consume" /\ n <= Len(c.buf) /\ Server \in Procs
      /\ taken' = IF accepted THEN taken \cup {entry.p} ELSE taken
      /\ now' = now /\ file' = file /\ called' = called /\ fate' = fate
  BY DEF Consume, Procs
<1>2. /\ c \in Call /\ CallInv(c, taken, now) /\ c.todo # {} /\ Held(c) \subseteq Entries
      /\ fate \in Fate /\ taken \subseteq Payloads /\ now \in Nat
  BY <1>1, CallOf
<1>3. /\ c.op = "drain" /\ Drained(c, taken) /\ c.new = <<>>
      /\ c.buf \in Seq(Entry) /\ c.keep \in Seq(Entry)
      /\ n \in Nat \ {0} /\ n \in 1..Len(c.buf) /\ Len(c.buf) \in Nat
  BY <1>1, <1>2, CallIs DEF CallInv
<1>4. proc' = [proc EXCEPT ![Server] = t]
  BY DEF Consume
<1> HIDE DEF c
<1>5. entry \in Entry /\ entry \in ToSet(c.buf) /\ entry.p \in Payloads
  <2> DEFINE q == c.buf
  <2>1. q \in Seq(Entry) /\ n \in 1..Len(q)
    BY <1>3
  <2> HIDE DEF q, n
  <2>2. q[n] \in Entry /\ q[n] \in ToSet(q)
    BY <2>1 DEF ToSet
  <2>3. entry = q[n]
    BY DEF q
  <2> HIDE DEF entry
  <2>4. entry \in Entry /\ entry \in ToSet(q)
    BY <2>2, <2>3
  <2> QED
    BY <2>4 DEF q, Entry
<1> HIDE DEF n, entry
<1>6. /\ keep \in Seq(Entry) /\ ToSet(keep) \subseteq ToSet(c.keep) \cup {entry}
      /\ PayloadsIn(c.keep) \subseteq PayloadsIn(keep)
      /\ entry.p \in taken' \cup PayloadsIn(keep)
      /\ Bytes(keep) <= Bytes(c.keep) + Size[entry.p]
  <2>1. /\ Append(c.keep, entry) \in Seq(Entry)
        /\ ToSet(Append(c.keep, entry)) = ToSet(c.keep) \cup {entry}
        /\ Bytes(Append(c.keep, entry)) = Bytes(c.keep) + Size[entry.p]
        /\ Bytes(c.keep) \in Nat /\ Size[entry.p] \in Nat
    BY <1>3, <1>5, OneMoreEntry, BytesOf, SpoolAssumption
  <2>2. /\ PayloadsIn(Append(c.keep, entry)) = {x.p : x \in ToSet(Append(c.keep, entry))}
        /\ PayloadsIn(c.keep) = {x.p : x \in ToSet(c.keep)}
    BY <1>3, <2>1, EntriesOf
  <2>3. CASE accepted
    BY <1>1, <1>3, <2>1, <2>3
  <2>4. CASE ~accepted
    BY <2>1, <2>2, <2>4
  <2> QED
    BY <2>3, <2>4
<1> HIDE DEF keep
<1>7. /\ t \in Call /\ t.op = c.op /\ t.pc = c.pc /\ t.todo = c.todo
      /\ t.at = c.at /\ t.new = c.new /\ t.buf = c.buf
      /\ t.keep = keep /\ t.next = n + 1
  <2>1. n + 1 \in Nat \ {0}
    BY <1>3
  <2> QED
    BY ONLY <1>2, <1>6, <2>1 DEF Call
<1> HIDE DEF t
<1>8. Drained(t, taken')
  <2>1. /\ n <= Len(c.buf) + 1
        /\ \A i \in 1..(n - 1) : c.buf[i].p \in taken \cup PayloadsIn(c.keep)
        /\ ToSet(c.keep) \subseteq ToSet(c.buf)
        /\ Bytes(c.keep) <= Bytes(SubSeq(c.buf, 1, n - 1))
        /\ Bytes(c.buf) <= Limit
    BY <1>3 DEF Drained, n
  <2>2. n + 1 <= Len(c.buf) + 1 /\ (n + 1) - 1 = n
    BY <1>3
  <2>3. \A i \in 1..n : c.buf[i].p \in taken' \cup PayloadsIn(keep)
    <3>1. \A i \in 1..n : i \in 1..(n - 1) \/ i = n
      BY <1>3
    <3>2. taken \subseteq taken'
      BY <1>1
    <3> QED
      BY <1>6, <2>1, <3>1, <3>2 DEF entry
  <2>4. Bytes(keep) <= Bytes(SubSeq(c.buf, 1, n))
    <3>1. /\ Bytes(SubSeq(c.buf, 1, n)) = Bytes(SubSeq(c.buf, 1, n - 1)) + Size[entry.p]
          /\ Bytes(SubSeq(c.buf, 1, n - 1)) \in Nat
      BY <1>3, BytesOfOneMore DEF entry
    <3>2. Bytes(keep) \in Nat /\ Bytes(c.keep) \in Nat /\ Size[entry.p] \in Nat
      BY <1>3, <1>5, <1>6, BytesOf, SpoolAssumption
    <3> QED
      BY <1>6, <2>1, <3>1, <3>2
  <2>5. t.pc # "write" /\ ToSet(keep) \subseteq ToSet(c.buf)
    BY <1>1, <1>5, <1>6, <1>7, <2>1
  <2> QED
    BY <1>7, <2>1, <2>2, <2>3, <2>4, <2>5 DEF Drained
<1>9. CallInv(t, taken', now)
  BY <1>1, <1>2, <1>3, <1>7, <1>8 DEF CallInv
<1>10. Held(t) \subseteq Entries
  BY <1>2, <1>5, <1>6, <1>7 DEF Held
<1>11. taken \subseteq taken' /\ taken' \subseteq Payloads
  BY <1>1, <1>2, <1>5
<1> QED
  BY <1>1, <1>2, <1>3, <1>4, <1>7, <1>9, <1>10, <1>11, CallChanges DEF c

LEMMA ConsumedKeeps ==
  ASSUME SpoolInv, Consumed
  PROVE  SpoolInv'
<1> DEFINE c == proc[Server]
           t == [c EXCEPT !.pc = "write"]
<1>1. /\ c.pc = "consume" /\ c.next > Len(c.buf) /\ Server \in Procs
      /\ taken' = taken
      /\ now' = now /\ file' = file /\ called' = called /\ fate' = fate
  BY DEF Consumed, Procs
<1>2. /\ c \in Call /\ CallInv(c, taken, now) /\ c.todo # {} /\ Held(c) \subseteq Entries
      /\ fate \in Fate /\ taken \subseteq Payloads /\ now \in Nat
  BY <1>1, CallOf
<1>3. /\ c.op = "drain" /\ Drained(c, taken) /\ c.next \in Nat /\ Len(c.buf) \in Nat
  BY <1>1, <1>2, CallIs DEF CallInv
<1>4. proc' = [proc EXCEPT ![Server] = t]
  BY DEF Consumed
<1> HIDE DEF c
<1>5. /\ t \in Call /\ t.op = c.op /\ t.pc = "write" /\ t.todo = c.todo
      /\ t.at = c.at /\ t.new = c.new /\ t.buf = c.buf
      /\ t.keep = c.keep /\ t.next = c.next
  BY ONLY <1>2 DEF Call
<1> HIDE DEF t
<1>6. Drained(t, taken)
  BY <1>1, <1>3, <1>5 DEF Drained
<1>7. CallInv(t, taken, now)
  BY <1>1, <1>2, <1>3, <1>5, <1>6 DEF CallInv
<1>8. Held(t) \subseteq Entries
  BY <1>2, <1>5 DEF Held
<1> QED
  BY <1>1, <1>2, <1>4, <1>5, <1>7, <1>8, CallChanges DEF c

(* New payloads: nothing has been stamped for them before. *)
LEMMA StartAppendKeeps ==
  ASSUME SpoolInv, NEW h \in Hooks, NEW s \in Sources, NEW group \in Groups,
         StartAppend(h, s, group)
  PROVE  SpoolInv'
<1> DEFINE new == [i \in DOMAIN group |-> [p |-> group[i], at |-> now]]
           t == [Resting EXCEPT !.op = "append", !.pc = "read", !.todo = {s}, !.new = new]
<1>1. /\ proc[h].pc = "idle" /\ ToSet(group) \cap called = {} /\ h \in Procs
      /\ called' = called \cup ToSet(group) /\ proc' = [proc EXCEPT ![h] = t]
      /\ now' = now /\ file' = file /\ taken' = taken /\ fate' = fate
  BY DEF StartAppend, Procs
<1>2. /\ TypeOK /\ Calls /\ Stamped /\ FileWithinLimit /\ EveryPayloadIsAccountedFor
      /\ now \in Nat
  BY DEF SpoolInv, TypeOK
<1>3. /\ new \in Seq(Entry)
      /\ \A x : x \in ToSet(new) => x.p \in ToSet(group) /\ x.at = now
      /\ PayloadsIn(new) = ToSet(group) /\ ToSet(group) \subseteq Payloads
  <2>1. /\ Len(group) \in Nat /\ DOMAIN group = 1..Len(group)
        /\ \A i \in 1..Len(group) : group[i] \in Payloads
    BY SpoolAssumption
  <2>2. /\ DOMAIN new = 1..Len(group)
        /\ \A i \in 1..Len(group) : /\ new[i] \in Entry /\ new[i].p = group[i]
                                    /\ new[i].at = now
    BY <1>2, <2>1 DEF Entry
  <2>3. new \in [1..Len(group) -> Entry]
    BY <2>1, <2>2
  <2>4. new \in Seq(Entry)
    BY <2>1, <2>3
  <2> HIDE DEF new
  <2>5. \A x : x \in ToSet(new) => x.p \in ToSet(group) /\ x.at = now
    BY <2>1, <2>2 DEF ToSet
  <2>6. PayloadsIn(new) = ToSet(group)
    BY <2>1, <2>2 DEF PayloadsIn, ToSet
  <2>7. ToSet(group) \subseteq Payloads
    BY <2>1 DEF ToSet
  <2> QED
    BY <2>4, <2>5, <2>6, <2>7
<1> HIDE DEF new
<1>4. /\ t \in Call /\ t.todo # {} /\ t.pc = "read" /\ t.op = "append" /\ t.new = new
      /\ t.at <= now /\ t.buf = Resting.buf /\ t.keep = Resting.keep /\ t.next = Resting.next
  <2>1. Resting \in Call /\ Resting.at = 0 /\ Resting.at <= now /\ {s} \in SUBSET Sources
    BY <1>2, RestingIs DEF Resting
  <2>2. /\ t \in Call /\ t.todo = {s} /\ t.pc = "read" /\ t.op = "append"
        /\ t.new = new /\ t.at = Resting.at /\ t.buf = Resting.buf
        /\ t.keep = Resting.keep /\ t.next = Resting.next
    BY ONLY <1>3, <2>1 DEF Call
  <2> HIDE DEF t
  <2> QED
    BY <2>1, <2>2
<1> HIDE DEF t
<1>5. CallInv(t, taken, now) /\ Held(t) = ToSet(new)
  BY <1>2, <1>4, Begins
<1>6. /\ proc \in [Procs -> Call] /\ proc' \in [Procs -> Call]
      /\ proc'[h] = t /\ \A r \in Procs \ {h} : proc'[r] = proc[r]
  BY <1>1, <1>2, <1>4 DEF TypeOK
<1>7. TypeOK'
  BY <1>1, <1>2, <1>3, <1>4, <1>6 DEF TypeOK
<1>8. Calls'
  BY <1>1, <1>2, <1>5, <1>6 DEF Calls
<1>9. Stamped'
  <2>1. \A x \in Entries' : x \in Entries \/ x \in ToSet(new)
    <3>1. Entries' = EntriesIn(file, proc')
      BY <1>1 DEF Entries
    <3>2. \A r \in Procs \ {h} : Held(proc'[r]) = Held(proc[r])
      BY <1>6
    <3>3. \A x : x \in EntriesIn(file, proc') => x \in EntriesIn(file, proc) \/ x \in ToSet(new)
      BY <1>5, <1>6, <3>2, EntriesAre
    <3> QED
      BY <3>1, <3>3 DEF Entries
  <2>2. /\ \A x \in Entries : x.p \in called
        /\ \A x, y \in Entries : x.p = y.p => x.at = y.at
    BY <1>2 DEF Stamped
  <2>3. \A x \in ToSet(new) : x.p \in called' /\ x.p \notin called /\ x.at = now
    BY <1>1, <1>3
  <2>4. \A x \in Entries' : x.p \in called'
    BY <1>1, <2>1, <2>2, <2>3
  <2>5. \A x, y \in Entries' : x.p = y.p => x.at = y.at
    BY <2>1, <2>2, <2>3
  <2> QED
    BY <2>4, <2>5 DEF Stamped
<1>10. FileWithinLimit'
  BY <1>1, <1>2 DEF FileWithinLimit
<1>11. EveryPayloadIsAccountedFor'
  <2>1. Appending \cup ToSet(group) \subseteq Appending'
    <3>1. proc[h].new = <<>>
      BY <1>1, <1>2, RestingIs DEF Calls, CallInv
    <3>2. \A r \in Hooks : PayloadsIn(proc[r].new) \subseteq PayloadsIn(proc'[r].new)
      BY <1>6, <3>1, NoEntries DEF Procs
    <3>3. ToSet(group) \subseteq PayloadsIn(proc'[h].new)
      BY <1>3, <1>4, <1>6
    <3>4. Appending' = UNION {PayloadsIn(proc'[r].new) : r \in Hooks}
      BY DEF Appending
    <3> QED
      BY <3>2, <3>3, <3>4 DEF Appending
  <2>2. InFiles' = InFiles
    BY <1>1 DEF InFiles
  <2> QED
    BY <1>1, <1>2, <2>1, <2>2 DEF EveryPayloadIsAccountedFor
<1> QED
  BY <1>7, <1>8, <1>9, <1>10, <1>11 DEF SpoolInv

(* What a call installs is within the limit, and what it read or brought is*)
(* kept, taken or cut.                                                     *)
LEMMA Installs ==
  ASSUME NEW t \in Call, NEW tk, NEW n, CallInv(t, tk, n), t.pc = "write"
  PROVE  /\ Bytes(t.keep) <= Limit
         /\ t.op = "drain" => PayloadsIn(t.buf) \subseteq tk \cup PayloadsIn(t.keep)
         /\ t.op \in {"append", "expire", "drain"}
         /\ t.op # "append" => t.new = <<>>
         /\ PayloadsIn(t.buf \o t.new) = PayloadsIn(t.buf) \cup PayloadsIn(t.new)
<1>1. /\ t.op \in {"append", "expire", "drain"}
      /\ t.op # "append" => t.new = <<>>
      /\ t.buf \in Seq(Entry) /\ t.new \in Seq(Entry) /\ t.keep \in Seq(Entry)
  BY CallIs DEF CallInv
<1>2. t.op = "append" => Bytes(t.keep) <= Limit
  <2> SUFFICES ASSUME t.op = "append" PROVE Bytes(t.keep) <= Limit
    OBVIOUS
  <2>1. t.keep = Newest(t.buf \o t.new)
    BY DEF CallInv
  <2>2. t.buf \o t.new \in Seq(Entry)
    BY <1>1
  <2>3. Bytes(Newest(t.buf \o t.new)) <= Limit
    BY <2>2, NewestIs
  <2> QED
    BY ONLY <2>1, <2>3
<1>3. t.op = "drain" => /\ Bytes(t.keep) <= Limit
                        /\ PayloadsIn(t.buf) \subseteq tk \cup PayloadsIn(t.keep)
  <2> SUFFICES ASSUME t.op = "drain"
               PROVE  /\ Bytes(t.keep) <= Limit
                      /\ PayloadsIn(t.buf) \subseteq tk \cup PayloadsIn(t.keep)
    OBVIOUS
  <2>1. Drained(t, tk)
    BY DEF CallInv
  <2>2. /\ t.next - 1 = Len(t.buf) /\ Len(t.buf) \in 0..Len(t.buf) /\ DOMAIN t.buf = 1..Len(t.buf)
    BY <1>1, <2>1 DEF Drained
  <2>3. /\ Bytes(t.keep) <= Bytes(SubSeq(t.buf, 1, Len(t.buf)))
        /\ Bytes(t.buf) <= Limit
        /\ \A i \in 1..Len(t.buf) : t.buf[i].p \in tk \cup PayloadsIn(t.keep)
    BY <2>1, <2>2 DEF Drained
  <2>4. SubSeq(t.buf, 1, Len(t.buf)) = t.buf
    BY <1>1, SubSeqFull
  <2>5. Bytes(SubSeq(t.buf, 1, Len(t.buf))) = Bytes(t.buf)
    BY ONLY <2>4
  <2>6. Bytes(t.keep) \in Nat /\ Bytes(t.buf) \in Nat /\ Limit \in Nat
    BY <1>1, BytesOf, SpoolAssumption
  <2>7. \A k, m, l \in Nat : k <= m /\ m <= l => k <= l
    OBVIOUS
  <2>8. Bytes(t.keep) <= Limit
    <3>1. Bytes(t.keep) <= Bytes(t.buf)
      BY ONLY <2>3, <2>5
    <3> QED
      BY ONLY <2>3, <2>6, <2>7, <3>1
  <2>9. PayloadsIn(t.buf) \subseteq tk \cup PayloadsIn(t.keep)
    BY <2>2, <2>3 DEF PayloadsIn
  <2> QED
    BY <2>8, <2>9
<1>4. t.op = "expire" => Bytes(t.keep) <= Limit
  BY DEF CallInv
<1>5. PayloadsIn(t.buf \o t.new) = PayloadsIn(t.buf) \cup PayloadsIn(t.new)
  <2> DEFINE all == t.buf \o t.new
  <2>1. all \in Seq(Entry) /\ ToSet(all) = ToSet(t.buf) \cup ToSet(t.new)
    BY <1>1, EntriesOfBoth
  <2> HIDE DEF all
  <2>2. /\ PayloadsIn(all) = {x.p : x \in ToSet(all)}
        /\ PayloadsIn(t.buf) = {x.p : x \in ToSet(t.buf)}
        /\ PayloadsIn(t.new) = {x.p : x \in ToSet(t.new)}
    BY <1>1, <2>1, EntriesOf
  <2> QED
    BY <2>1, <2>2 DEF all
<1> QED
  BY <1>1, <1>2, <1>3, <1>4, <1>5

LEMMA RewriteKeeps ==
  ASSUME SpoolInv, NEW q \in Procs, Rewrite(q)
  PROVE  SpoolInv'
<1> DEFINE t == proc[q]
           s == Source(q)
           cut == PayloadsIn(t.buf \o t.new) \ PayloadsIn(t.keep)
           over == (PayloadsIn(file[s]) \ PayloadsIn(t.buf)) \ PayloadsIn(t.keep)
<1>1. /\ TypeOK /\ Calls /\ Stamped /\ FileWithinLimit /\ EveryPayloadIsAccountedFor
  BY DEF SpoolInv
<1>2. /\ t.pc = "write"
      /\ file' = [file EXCEPT ![s] = t.keep]
      /\ proc' = [proc EXCEPT ![q] = Done(t)]
      /\ fate' = [fate EXCEPT !.dropped = IF t.op = "append" THEN @ \cup cut ELSE @,
                             !.expired = IF t.op = "expire" THEN @ \cup cut ELSE @,
                             !.overwritten = @ \cup over]
      /\ now' = now /\ called' = called /\ taken' = taken
  BY <1>1 DEF Rewrite, TypeOK
<1>3. /\ t \in Call /\ CallInv(t, taken, now) /\ Held(t) \subseteq Entries
      /\ s \in Sources /\ now \in Nat /\ fate \in Fate
      /\ \A r \in Sources : file[r] \in Seq(Entry) /\ ToSet(file[r]) \subseteq Entries
  BY <1>2, CallOf
<1>4. t.new \in Seq(Entry) /\ t.buf \in Seq(Entry) /\ t.keep \in Seq(Entry)
  BY <1>3, CallIs
<1> HIDE DEF s
<1>5. /\ file \in [Sources -> Seq(Entry)] /\ file' \in [Sources -> Seq(Entry)]
      /\ file'[s] = t.keep /\ \A r \in Sources \ {s} : file'[r] = file[r]
  BY <1>1, <1>2, <1>3, <1>4 DEF TypeOK
<1>6. /\ Done(t) \in Call /\ (Done(t).todo = {} <=> Done(t).pc = "idle")
      /\ CallInv(Done(t), taken, now) /\ Held(Done(t)) \subseteq ToSet(t.new)
  BY <1>3, DoneIs
<1>7. /\ proc \in [Procs -> Call] /\ proc' \in [Procs -> Call]
      /\ proc'[q] = Done(t) /\ \A r \in Procs \ {q} : proc'[r] = proc[r]
  BY <1>1, <1>2, <1>6 DEF TypeOK
<1>8. /\ Bytes(t.keep) <= Limit
      /\ (t.op = "drain" => PayloadsIn(t.buf) \subseteq taken \cup PayloadsIn(t.keep))
      /\ t.op \in {"append", "expire", "drain"}
      /\ (t.op # "append" => t.new = <<>>)
      /\ PayloadsIn(t.buf \o t.new) = PayloadsIn(t.buf) \cup PayloadsIn(t.new)
  BY <1>2, <1>3, Installs
<1>9. PayloadsIn(t.buf) \subseteq Payloads /\ PayloadsIn(t.new) \subseteq Payloads
      /\ PayloadsIn(file[s]) \subseteq Payloads
  BY <1>3, <1>4, EntriesOf
<1>10. cut \subseteq Payloads /\ over \subseteq Payloads
  BY <1>8, <1>9
<1>11. cut = (PayloadsIn(t.buf) \cup PayloadsIn(t.new)) \ PayloadsIn(t.keep)
  BY <1>8
<1> HIDE DEF t, cut
<1>12. /\ fate' \in Fate /\ fate'.refused = fate.refused
       /\ fate'.dropped = IF t.op = "append" THEN fate.dropped \cup cut ELSE fate.dropped
       /\ fate'.expired = IF t.op = "expire" THEN fate.expired \cup cut ELSE fate.expired
       /\ fate'.overwritten = fate.overwritten \cup over
  <2> HIDE DEF over
  <2> QED
    BY ONLY <1>2, <1>3, <1>10 DEF Fate
<1>13. TypeOK'
  BY <1>1, <1>2, <1>5, <1>6, <1>7, <1>12 DEF TypeOK
<1>14. Calls'
  BY <1>1, <1>2, <1>6, <1>7 DEF Calls
<1>15. Stamped'
  <2>1. Entries' = EntriesIn(file', proc')
    BY DEF Entries
  <2>2. ToSet(t.new) \subseteq Entries /\ ToSet(t.keep) \subseteq Entries
    BY <1>3 DEF Held
  <2>3. \A r \in Procs : Held(proc'[r]) \subseteq Entries
    <3>1. \A r \in Procs \ {q} : Held(proc'[r]) \subseteq Entries
      BY <1>7, EntriesAre DEF Entries
    <3> QED
      BY <1>6, <1>7, <2>2, <3>1
  <2>4. \A r \in Sources : ToSet(file'[r]) \subseteq Entries
    BY <1>3, <1>5, <2>2
  <2>5. Entries' \subseteq Entries
    BY <2>1, <2>3, <2>4, EntriesAre
  <2> QED
    BY <1>1, <1>2, <2>5 DEF Stamped
<1>16. FileWithinLimit'
  BY <1>1, <1>5, <1>8 DEF FileWithinLimit
<1>17. EveryPayloadIsAccountedFor'
  <2> DEFINE gone == taken \cup fate'.refused \cup fate'.dropped \cup fate'.expired
                           \cup fate'.overwritten
  <2>1. /\ taken \subseteq gone /\ fate.refused \subseteq gone /\ fate.dropped \subseteq gone
        /\ fate.expired \subseteq gone /\ fate.overwritten \subseteq gone /\ over \subseteq gone
        /\ fate'.dropped \subseteq gone /\ fate'.expired \subseteq gone
    BY <1>12
  <2> HIDE DEF gone
  <2>2. InFiles' = UNION {PayloadsIn(file'[r]) : r \in Sources}
    BY DEF InFiles
  <2>3. PayloadsIn(t.keep) \subseteq InFiles'
    BY <1>3, <1>5, <2>2
  <2>4. PayloadsIn(t.buf) \subseteq InFiles' \cup gone
    <3>1. CASE t.op = "append"
      BY <1>11, <1>12, <2>1, <2>3, <3>1
    <3>2. CASE t.op = "expire"
      BY <1>11, <1>12, <2>1, <2>3, <3>2
    <3>3. CASE t.op = "drain"
      BY <1>8, <2>1, <2>3, <3>3
    <3> QED
      BY <1>8, <3>1, <3>2, <3>3
  <2>5. PayloadsIn(t.new) \subseteq InFiles' \cup gone
    <3>1. CASE t.op = "append"
      BY <1>11, <1>12, <2>1, <2>3, <3>1
    <3>2. CASE t.op # "append"
      BY <1>8, <3>2, NoEntries
    <3> QED
      BY <3>1, <3>2
  <2>6. InFiles \subseteq InFiles' \cup gone
    <3>1. \A r \in Sources \ {s} : PayloadsIn(file[r]) \subseteq InFiles'
      BY <1>5, <2>2
    <3>2. PayloadsIn(file[s]) \subseteq over \cup PayloadsIn(t.buf) \cup PayloadsIn(t.keep)
      OBVIOUS
    <3> HIDE DEF over
    <3>3. PayloadsIn(file[s]) \subseteq InFiles' \cup gone
      BY <2>1, <2>3, <2>4, <3>2
    <3>4. \A r \in Sources : PayloadsIn(file[r]) \subseteq InFiles' \cup gone
      BY <3>1, <3>3
    <3> QED
      BY <3>4 DEF InFiles
  <2>7. Appending \subseteq Appending' \cup InFiles' \cup gone
    <3>1. Appending' = UNION {PayloadsIn(proc'[h].new) : h \in Hooks}
      BY DEF Appending
    <3>2. PayloadsIn(proc[q].new) \subseteq InFiles' \cup gone
      BY <2>5 DEF t
    <3>3. \A h \in Hooks \ {q} : PayloadsIn(proc[h].new) \subseteq Appending'
      BY <1>7, <3>1 DEF Procs
    <3>4. \A h \in Hooks : PayloadsIn(proc[h].new) \subseteq Appending' \cup InFiles' \cup gone
      BY <3>2, <3>3
    <3> QED
      BY <3>4 DEF Appending
  <2>8. called \subseteq InFiles \cup taken \cup Appending \cup fate.refused \cup fate.dropped
                          \cup fate.expired \cup fate.overwritten
    BY <1>1 DEF EveryPayloadIsAccountedFor
  <2>9. called \subseteq InFiles' \cup Appending' \cup gone
    BY ONLY <2>1, <2>6, <2>7, <2>8
  <2> QED
    BY <1>2, <2>9 DEF gone, EveryPayloadIsAccountedFor
<1> QED
  BY <1>13, <1>14, <1>15, <1>16, <1>17 DEF SpoolInv

LEMMA TickKeeps ==
  ASSUME SpoolInv, Tick
  PROVE  SpoolInv'
<1>1. /\ TypeOK /\ Calls /\ Stamped /\ FileWithinLimit /\ EveryPayloadIsAccountedFor
  BY DEF SpoolInv
<1>2. /\ now \in Nat /\ now' \in Nat /\ now <= now'
      /\ file' = file /\ proc' = proc /\ called' = called /\ taken' = taken /\ fate' = fate
  BY <1>1 DEF Tick, TypeOK
<1>3. TypeOK'
  BY <1>1, <1>2 DEF TypeOK
<1>4. Calls'
  <2> SUFFICES ASSUME NEW q \in Procs PROVE CallInv(proc[q], taken, now')
    BY <1>2 DEF Calls
  <2>1. proc[q] \in Call /\ CallInv(proc[q], taken, now) /\ taken \subseteq taken
    BY <1>1 DEF Calls, TypeOK
  <2> QED
    BY <1>2, <2>1, CallStays
<1>5. Stamped' /\ FileWithinLimit' /\ EveryPayloadIsAccountedFor'
  BY <1>1, <1>2 DEF Stamped, Entries, FileWithinLimit, EveryPayloadIsAccountedFor, InFiles, Appending
<1> QED
  BY <1>3, <1>4, <1>5 DEF SpoolInv
-----------------------------------------------------------------------------
(* The invariant holds in every state. *)

LEMMA SpoolInvHolds == Init => SpoolInv
<1> SUFFICES ASSUME Init PROVE SpoolInv
  OBVIOUS
<1>1. /\ now = 0 /\ file = [s \in Sources |-> <<>>] /\ proc = [q \in Procs |-> Resting]
      /\ called = {} /\ taken = {} /\ fate = NoFate
  BY DEF Init
<1>2. TypeOK
  BY <1>1, NoEntries, RestingIs DEF TypeOK, NoFate, Fate
<1>3. Calls
  BY <1>1, RestingIs DEF Calls
<1>4. Stamped
  <2>1. \A x : x \notin Entries
    BY <1>1, EntriesAre, NoEntries, RestingIs DEF Entries
  <2> QED
    BY <2>1 DEF Stamped
<1>5. FileWithinLimit
  BY <1>1, BytesOf, NoEntries, SpoolAssumption DEF FileWithinLimit
<1>6. EveryPayloadIsAccountedFor
  BY <1>1 DEF EveryPayloadIsAccountedFor
<1> QED
  BY <1>2, <1>3, <1>4, <1>5, <1>6 DEF SpoolInv

LEMMA SpoolInvStays == SpoolInv /\ [Next]_vars => SpoolInv'
<1> SUFFICES ASSUME SpoolInv, [Next]_vars PROVE SpoolInv'
  OBVIOUS
<1>1. CASE UNCHANGED vars
  BY <1>1 DEF vars, SpoolInv, TypeOK, Calls, Stamped, Entries, FileWithinLimit,
              EveryPayloadIsAccountedFor, InFiles, Appending
<1>2. CASE \E h \in Hooks, s \in Sources, group \in Groups : StartAppend(h, s, group)
  BY <1>2, StartAppendKeeps
<1>3. ASSUME NEW q \in Procs, StartExpire(q) \/ Work(q) \/ Crash(q) PROVE SpoolInv'
  <2>1. CASE StartExpire(q)
    BY <2>1, StartSweepOrDrain
  <2>2. CASE Crash(q) \/ ReadFails(q)
    BY <2>2, EndedCallKeeps
  <2>3. CASE ReadForExpire(q)
    BY <2>3, ReadForExpireKeeps
  <2>4. CASE Rewrite(q)
    BY <2>4, RewriteKeeps
  <2>5. CASE q \in Hooks /\ ReadForAppend(q)
    BY <2>5, ReadForAppendKeeps
  <2>6. CASE ReadForDrain
    BY <2>6, ReadForDrainKeeps
  <2>7. CASE Consumed
    BY <2>7, ConsumedKeeps
  <2>8. CASE \E a \in BOOLEAN : Consume(a)
    BY <2>8, ConsumeKeeps
  <2> QED
    BY <1>3, <2>1, <2>2, <2>3, <2>4, <2>5, <2>6, <2>7, <2>8 DEF Work
<1>4. CASE StartDrain
  <2>1. Server \in Procs
    BY DEF Procs
  <2> QED
    BY <1>4, <2>1, StartSweepOrDrain
<1>5. CASE Tick
  BY <1>5, TickKeeps
<1> QED
  BY <1>1, <1>2, <1>3, <1>4, <1>5 DEF Next

LEMMA SpoolInvAlways == Spec => []SpoolInv
BY SpoolInvHolds, SpoolInvStays, PTL DEF Spec
-----------------------------------------------------------------------------
(* What follows from it. *)

(* Two entries of one payload are of one time, so an entry the sweep takes *)
(* leaves nothing of its payload behind.                                   *)
LEMMA SweepFollows == SpoolInv => SweepTakesExactlyTheAged
<1> SUFFICES ASSUME SpoolInv, NEW q \in Procs, proc[q].op = "expire", proc[q].pc = "write",
                    NEW i \in DOMAIN proc[q].buf
             PROVE  /\ proc[q].buf[i].at + MaxAge < proc[q].at =>
                         proc[q].buf[i].p \notin PayloadsIn(proc[q].keep)
                    /\ proc[q].buf[i].p \notin PayloadsIn(proc[q].keep) =>
                         proc[q].buf[i].at + MaxAge < now
  BY DEF SweepTakesExactlyTheAged
<1> DEFINE t == proc[q]
           x == t.buf[i]
<1>1. /\ t \in Call /\ CallInv(t, taken, now) /\ Held(t) \subseteq Entries /\ now \in Nat
  BY CallOf
<1>2. /\ t.at <= now /\ t.op = "expire" /\ t.pc = "write" /\ t.at \in Nat
      /\ t.buf \in Seq(Entry) /\ t.keep \in Seq(Entry) /\ i \in DOMAIN t.buf
  BY <1>1, CallIs DEF CallInv
<1>3. ToSet(t.keep) = {y \in ToSet(t.buf) : ~Expired(y, t.at)}
  BY <1>1, <1>2 DEF CallInv
<1> HIDE DEF t
<1>4. x \in ToSet(t.buf) /\ x \in Entry /\ x.at \in Nat /\ MaxAge \in Nat
  <2>1. x \in Entry
    BY <1>2
  <2>2. x \in ToSet(t.buf)
    BY <1>2 DEF ToSet
  <2> QED
    BY <2>1, <2>2, SpoolAssumption DEF Entry
<1>5. PayloadsIn(t.keep) = {y.p : y \in ToSet(t.keep)}
  BY <1>2, EntriesOf
<1> HIDE DEF x
<1>6. ASSUME x.at + MaxAge < t.at PROVE x.p \notin PayloadsIn(t.keep)
  <2> SUFFICES ASSUME NEW y \in ToSet(t.keep), y.p = x.p PROVE FALSE
    BY <1>5
  <2>1. y \in Entries /\ x \in Entries
    BY <1>1, <1>4 DEF Held
  <2>2. y.at = x.at
    BY <2>1 DEF SpoolInv, Stamped
  <2> QED
    BY <1>3, <1>6, <2>2 DEF Expired
<1>7. ASSUME x.p \notin PayloadsIn(t.keep) PROVE x.at + MaxAge < now
  <2>1. x \notin ToSet(t.keep)
    BY <1>5, <1>7
  <2>2. x.at + MaxAge < t.at
    BY <1>3, <1>4, <2>1 DEF Expired
  <2> QED
    BY <1>1, <1>2, <1>4, <2>2
<1> QED
  BY <1>6, <1>7 DEF t, x

(* What an Append is about to install is the end of what it read and       *)
(* brought, and as much of it as fits.                                     *)
LEMMA CeilingFollows == SpoolInv => CeilingHolds
<1> SUFFICES ASSUME SpoolInv PROVE KeepsNewest
  BY DEF SpoolInv, CeilingHolds
<1> SUFFICES ASSUME NEW h \in Hooks, proc[h].op = "append", proc[h].pc = "write"
             PROVE  LET all == proc[h].buf \o proc[h].new
                    IN /\ IsSuffix(proc[h].keep, all)
                       /\ \A i \in DOMAIN all :
                            Bytes(SubSeq(all, i, Len(all))) <= Limit =>
                              all[i].p \in PayloadsIn(proc[h].keep)
  BY DEF KeepsNewest
<1> DEFINE all == proc[h].buf \o proc[h].new
<1>1. proc[h] \in Call /\ CallInv(proc[h], taken, now)
  BY CallOf DEF Procs
<1>2. all \in Seq(Entry)
  BY <1>1, CallIs
<1>3. proc[h].keep = Newest(all)
  BY <1>1 DEF CallInv
<1> HIDE DEF all
<1>4. /\ IsSuffix(Newest(all), all)
      /\ \A i \in DOMAIN all : Bytes(SubSeq(all, i, Len(all))) <= Limit =>
                                 all[i].p \in PayloadsIn(Newest(all))
  BY <1>2, NewestIs
<1> QED
  BY <1>3, <1>4 DEF all
-----------------------------------------------------------------------------
(* The spool's files hold spooled entries and nothing else, and a process  *)
(* inside a call always has a file to work on (spool.go, whatever process  *)
(* replaces a file another one has read).                                  *)
THEOREM SpoolTypes == Spec => []TypeOK
<1>1. SpoolInv => TypeOK
  BY DEF SpoolInv
<1> QED
  BY <1>1, SpoolInvAlways, PTL

(* Every payload a hook was asked to spool is in a file, on its way there, *)
(* taken by the collector, or lost in one of the four ways that have a     *)
(* name: no crash, refusal, sweep or drain loses it silently (spool.go,    *)
(* appendLocked, Expire, Drain and rewrite).                               *)
THEOREM PayloadsAreAccountedFor == Spec => []EveryPayloadIsAccountedFor
<1>1. SpoolInv => EveryPayloadIsAccountedFor
  BY DEF SpoolInv
<1> QED
  BY <1>1, SpoolInvAlways, PTL

(* A sweep takes the entries that are too old and only those, however the  *)
(* clock moves while it works (spool.go, Expire).                          *)
THEOREM SweepIsExact == Spec => []SweepTakesExactlyTheAged
BY SpoolInvAlways, SweepFollows, PTL

(* A file never outgrows the limit, and what an Append drops for it is the *)
(* oldest and no more than it must (spool.go, appendLocked and rewrite).   *)
THEOREM CeilingStays == Spec => []CeilingHolds
BY SpoolInvAlways, CeilingFollows, PTL
=============================================================================
