-------------------------- MODULE FairQueueProofs ---------------------------
(***************************************************************************)
(* Theorems about FairQueue for any tenants, requests, costs, quantum and  *)
(* capacities.  The bound on overtaking is not inductive by itself: it     *)
(* follows from what the visits since then have paid into the deficit.     *)
(***************************************************************************)
EXTENDS FairQueue, SetTheorems, SequenceTheorems

(* The tenant u has its turn before the tenant t.                            *)
Ahead(s, u, t) == \E i, j \in DOMAIN s : i < j /\ s[i] = u /\ s[j] = t

Distinct(s) == \A i, j \in DOMAIN s : s[i] = s[j] => i = j

(* How often t was visited, at least, since its head request is its head, if *)
(* u was served `overtaken' times: between two servings of u there is a      *)
(* visit of t, and a last one if u is ahead again.                           *)
Passed(t, u) ==
  IF Ahead(order, u, t) THEN overtaken[t][u] ELSE overtaken[t][u] - 1

(* Each of p visits paid a quantum, and the request is not yet covered.      *)
Paid(p, saved, cost) == p >= 1 => p * Quantum <= saved /\ saved < cost

PassedIsPaid ==
  \A t \in Range(order), u \in Tenant : Paid(Passed(t, u), deficit[t], Head(line[t]).cost)

IInv == TypeOK /\ TurnsAreForWaiting /\ PassedIsPaid

----------------------------------------------------------------------------
(* Arithmetic of rounds *)

(* More rounds add more.                                                     *)
LEMMA Multiples ==
  ASSUME NEW m \in Nat, NEW n \in Nat
  PROVE  /\ m * Quantum \in Nat
         /\ (m + 1) * Quantum = m * Quantum + Quantum
         /\ m <= n => m * Quantum <= n * Quantum
<1>1. Quantum \in Nat
  BY QueueAssumption
<1>2. m * Quantum \in Nat /\ (m + 1) * Quantum = m * Quantum + Quantum
  BY <1>1
<1>3. ASSUME m <= n PROVE m * Quantum <= n * Quantum
  <2>1. PICK k \in Nat : n = m + k
    <3>1. n - m \in Nat /\ n = m + (n - m)
      BY <1>3
    <3> QED
      BY <3>1
  <2>2. n * Quantum = m * Quantum + k * Quantum /\ k * Quantum \in Nat
    BY <1>1, <2>1
  <2> QED
    BY <1>2, <2>2
<1> QED
  BY <1>2, <1>3

(* ceil(cost / quantum) rounds cover a cost, and no fewer do.                *)
LEMMA RoundsCover ==
  ASSUME NEW cost \in Nat \ {0}
  PROVE  /\ Rounds(cost) \in Nat \ {0}
         /\ cost <= Rounds(cost) * Quantum
         /\ \A k \in Nat : k * Quantum < cost => k < Rounds(cost)
<1> DEFINE x == cost + Quantum - 1
           q == x \div Quantum
<1>1. Quantum \in Nat \ {0} /\ x \in Nat
  BY QueueAssumption
<1>2. q \in Nat /\ q * Quantum <= x /\ x < q * Quantum + Quantum
  BY <1>1
<1>3. Rounds(cost) = q
  BY DEF Rounds
<1> HIDE DEF q
<1>4. cost <= q * Quantum
  BY <1>1, <1>2
<1>5. q # 0
  <2> SUFFICES ASSUME q = 0 PROVE FALSE
    OBVIOUS
  <2>1. q * Quantum = 0
    BY <1>1
  <2> QED
    BY <1>4, <2>1
<1>6. ASSUME NEW k \in Nat, k * Quantum < cost PROVE k < q
  <2> SUFFICES ASSUME q <= k PROVE FALSE
    BY <1>2
  <2>1. q * Quantum <= k * Quantum /\ k * Quantum \in Nat /\ q * Quantum \in Nat
    BY <1>2, Multiples
  <2> QED
    BY <1>4, <1>6, <2>1
<1> QED
  BY <1>2, <1>3, <1>4, <1>5, <1>6

----------------------------------------------------------------------------
(* Turns: sequences of tenants *)

(* A sequence has finitely many elements.                                    *)
LEMMA Elements ==
  ASSUME NEW S, NEW s \in Seq(S)
  PROVE  /\ Len(s) \in Nat /\ DOMAIN s = 1 .. Len(s)
         /\ \A i \in DOMAIN s : s[i] \in S
         /\ Range(s) \subseteq S
         /\ IsFiniteSet(Range(s))
         /\ s = <<>> <=> Len(s) = 0
         /\ s = <<>> <=> Range(s) = {}
<1>1. Len(s) \in Nat /\ DOMAIN s = 1 .. Len(s) /\ \A i \in DOMAIN s : s[i] \in S
  OBVIOUS
<1>2. Range(s) \subseteq S
  BY <1>1 DEF Range
<1>3. s \in Surjection(1 .. Len(s), Range(s))
  BY <1>1 DEF Surjection, Range
<1>4. IsFiniteSet(1 .. Len(s))
  BY <1>1, FS_Interval
<1>5. IsFiniteSet(Range(s))
  BY <1>3, <1>4, FS_Surjection
<1>6. s = <<>> <=> Len(s) = 0
  BY EmptySeq
<1>7. s = <<>> <=> Range(s) = {}
  <2>1. Len(s) = 0 => Range(s) = {}
    BY <1>1 DEF Range
  <2>2. Len(s) # 0 => s[1] \in Range(s)
    BY <1>1 DEF Range
  <2> QED
    BY <1>6, <2>1, <2>2
<1> QED
  BY <1>1, <1>2, <1>5, <1>6, <1>7

(* The turns after i visits, of which the first k go to the end.             *)
Turned(s, i, k) == SubSeq(s, i + 1, Len(s)) \o SubSeq(s, 1, k)

LEMMA RotatedPlaces ==
  ASSUME NEW S, NEW s \in Seq(S), NEW i \in 1 .. Len(s), NEW k \in 0 .. i
  PROVE  /\ Turned(s, i, k) \in Seq(S) /\ DOMAIN Turned(s, i, k) = 1 .. Len(s) - i + k
         /\ \A p \in 1 .. Len(s) - i : Turned(s, i, k)[p] = s[i + p]
         /\ \A p \in 1 .. k : Turned(s, i, k)[Len(s) - i + p] = s[p]
<1> DEFINE n == Len(s)
           r == Turned(s, i, k)
           a == SubSeq(s, i + 1, n)
           b == SubSeq(s, 1, k)
<1>1. n \in Nat /\ i \in 1 .. n /\ \A j \in 1 .. n : s[j] \in S
  OBVIOUS
<1>2. a \in Seq(S) /\ Len(a) = n - i /\ \A p \in 1 .. n - i : a[p] = s[i + p]
  BY <1>1, SubSeqProperties
<1>3. b \in Seq(S) /\ Len(b) = k /\ \A p \in 1 .. k : b[p] = s[p]
  BY <1>1, SubSeqProperties
<1> HIDE DEF a, b
<1>4. r = a \o b
  BY DEF a, b, Turned
<1> HIDE DEF r
<1>5. /\ r \in Seq(S) /\ Len(r) = n - i + k
      /\ \A p \in 1 .. n - i + k : r[p] = IF p <= n - i THEN a[p] ELSE b[p - (n - i)]
  <2>1. /\ a \o b \in Seq(S) /\ Len(a \o b) = Len(a) + Len(b)
        /\ \A p \in 1 .. Len(a) + Len(b) :
             (a \o b)[p] = IF p <= Len(a) THEN a[p] ELSE b[p - Len(a)]
    <3>1. a \in Seq(S) /\ b \in Seq(S)
      BY <1>2, <1>3
    <3> QED
      BY ONLY <3>1, ConcatProperties
  <2>2. Len(a) = n - i /\ Len(b) = k
    BY <1>2, <1>3
  <2> QED
    BY ONLY <1>4, <2>1, <2>2, Zenon
<1>6. DOMAIN r = 1 .. n - i + k
  BY ONLY <1>5, Elements
<1> HIDE DEF n
<1>7. ASSUME NEW p \in 1 .. n - i PROVE r[p] = s[i + p]
  <2>1. p \in 1 .. n - i + k /\ p <= n - i
    BY ONLY <1>1, p \in 1 .. n - i, k \in 0 .. i
  <2>2. r[p] = a[p]
    BY ONLY <1>5, <2>1
  <2> QED
    BY ONLY <1>2, <2>2, p \in 1 .. n - i
<1>8. ASSUME NEW p \in 1 .. k PROVE r[n - i + p] = s[p]
  <2>1. n - i + p \in 1 .. n - i + k /\ ~ (n - i + p <= n - i) /\ n - i + p - (n - i) = p
    BY ONLY <1>1, p \in 1 .. k, k \in 0 .. i
  <2> QED
    BY ONLY <1>1, <1>3, <1>5, <2>1, p \in 1 .. k, k \in 0 .. i
<1> QED
  BY <1>5, <1>6, <1>7, <1>8 DEF n, r

(* After such a rotation the one served is behind all others, and those      *)
(* behind his place have nobody new ahead of them.                           *)
LEMMA Rotation ==
  ASSUME NEW n \in Nat, NEW i \in 1 .. n, NEW k \in Nat, k = i \/ k = i - 1,
         NEW s, NEW r, DOMAIN s = 1 .. n, DOMAIN r = 1 .. n - i + k, Distinct(s),
         \A p \in 1 .. n - i : r[p] = s[i + p],
         \A p \in 1 .. k : r[n - i + p] = s[p]
  PROVE  /\ Distinct(r)
         /\ Range(r) = IF k = i THEN Range(s) ELSE Range(s) \ {s[i]}
         /\ \A u : ~ Ahead(r, s[i], u)
         /\ \A j \in 1 .. n : \A u : i < j /\ Ahead(r, u, s[j]) => Ahead(s, u, s[j])
<1>1. \A j, l \in 1 .. n : s[j] = s[l] => j = l
  BY DEF Distinct
<1>2. PICK P : \A p \in DOMAIN r : P[p] = IF p <= n - i THEN i + p ELSE p - (n - i)
  <2>1. \A p \in DOMAIN r : [q \in DOMAIN r |-> IF q <= n - i THEN i + q ELSE q - (n - i)][p]
                             = IF p <= n - i THEN i + p ELSE p - (n - i)
    OBVIOUS
  <2> QED
    BY <2>1
<1>3. \A p \in DOMAIN r : P[p] \in 1 .. n /\ r[p] = s[P[p]]
  <2> SUFFICES ASSUME NEW p \in DOMAIN r PROVE P[p] \in 1 .. n /\ r[p] = s[P[p]]
    OBVIOUS
  <2>1. CASE p <= n - i
    BY <1>2, <2>1
  <2>2. CASE ~ (p <= n - i)
    <3>1. p - (n - i) \in 1 .. k /\ n - i + (p - (n - i)) = p
      BY <2>2
    <3> QED
      BY <1>2, <2>2, <3>1
  <2> QED
    BY <2>1, <2>2
<1>4. \A p, q \in DOMAIN r : P[p] = P[q] => p = q
  <2> SUFFICES ASSUME NEW p \in DOMAIN r, NEW q \in DOMAIN r, P[p] = P[q] PROVE p = q
    OBVIOUS
  <2>1. /\ p <= n - i => P[p] > i
        /\ q <= n - i => P[q] > i
        /\ ~ (p <= n - i) => P[p] <= i
        /\ ~ (q <= n - i) => P[q] <= i
    BY <1>2
  <2>2. CASE p <= n - i /\ q <= n - i
    BY <1>2, <2>2
  <2>3. CASE ~ (p <= n - i) /\ ~ (q <= n - i)
    BY <1>2, <2>3
  <2> QED
    BY <1>3, <2>1, <2>2, <2>3
<1>5. Distinct(r)
  BY <1>1, <1>3, <1>4 DEF Distinct
<1>6. \A p \in DOMAIN r : r[p] = s[i] => k = i /\ p = n
  <2> SUFFICES ASSUME NEW p \in DOMAIN r, r[p] = s[i] PROVE k = i /\ p = n
    OBVIOUS
  <2>1. P[p] = i
    BY <1>1, <1>3
  <2> QED
    BY <1>2, <2>1
<1>7. ASSUME NEW j \in 1 .. n, k = i \/ j # i PROVE \E p \in DOMAIN r : r[p] = s[j]
  <2>1. CASE i < j
    <3>1. j - i \in 1 .. n - i /\ i + (j - i) = j /\ j - i \in DOMAIN r
      BY <2>1
    <3> QED
      BY <3>1
  <2>2. CASE j <= i
    <3>1. j \in 1 .. k /\ n - i + j \in DOMAIN r
      BY <1>7, <2>2
    <3> QED
      BY <3>1
  <2> QED
    BY <2>1, <2>2
<1>8. Range(r) = IF k = i THEN Range(s) ELSE Range(s) \ {s[i]}
  <2>1. ASSUME NEW x, x \in Range(r) PROVE x \in Range(s) /\ (k = i \/ x # s[i])
    <3>1. PICK p \in DOMAIN r : x = r[p]
      BY ONLY <2>1 DEF Range
    <3>2. P[p] \in DOMAIN s /\ x = s[P[p]]
      BY <1>3, <3>1
    <3>3. x = s[i] => k = i
      BY ONLY <1>6, <3>1
    <3> QED
      BY ONLY <3>2, <3>3 DEF Range
  <2>2. \A j \in 1 .. n : k = i \/ j # i => s[j] \in Range(r)
    BY <1>7 DEF Range
  <2>3. \A x : x \in Range(s) /\ (k = i \/ x # s[i]) => x \in Range(r)
    BY <2>2 DEF Range
  <2> QED
    BY <2>1, <2>3
<1>9. \A u : ~ Ahead(r, s[i], u)
  <2> SUFFICES ASSUME NEW p \in DOMAIN r, NEW q \in DOMAIN r, p < q, r[p] = s[i] PROVE FALSE
    BY DEF Ahead
  <2>1. p = n /\ k = i
    BY <1>6
  <2> QED
    BY <2>1
<1>10. ASSUME NEW j \in 1 .. n, NEW u, i < j, Ahead(r, u, s[j]) PROVE Ahead(s, u, s[j])
  <2>1. PICK p \in DOMAIN r, q \in DOMAIN r : p < q /\ r[p] = u /\ r[q] = s[j]
    BY <1>10 DEF Ahead
  <2>2. P[q] = j
    BY <1>1, <1>3, <2>1
  <2>3. P[p] < j
    BY <1>2, <1>10, <2>1, <2>2
  <2>4. P[p] \in 1 .. n /\ s[P[p]] = u
    BY <1>3, <2>1
  <2> QED
    BY <2>3, <2>4 DEF Ahead
<1> QED
  BY <1>5, <1>8, <1>9, <1>10

(* Without one element the others keep their order.                          *)
LEMMA Removal ==
  ASSUME NEW S, NEW s \in Seq(S), NEW i \in 1 .. Len(s)
  PROVE  /\ RemoveAt(s, i) \in Seq(S) /\ Len(RemoveAt(s, i)) = Len(s) - 1
         /\ DOMAIN RemoveAt(s, i) = 1 .. Len(s) - 1
         /\ \A p \in 1 .. i - 1 : RemoveAt(s, i)[p] = s[p]
         /\ \A p \in i .. Len(s) - 1 : RemoveAt(s, i)[p] = s[p + 1]
<1> DEFINE n == Len(s)
           r == RemoveAt(s, i)
           a == SubSeq(s, 1, i - 1)
           b == SubSeq(s, i + 1, n)
<1>1. n \in Nat /\ i \in 1 .. n /\ \A j \in 1 .. n : s[j] \in S
  OBVIOUS
<1>2. a \in Seq(S) /\ Len(a) = i - 1 /\ \A p \in 1 .. i - 1 : a[p] = s[p]
  BY <1>1, SubSeqProperties
<1>3. b \in Seq(S) /\ Len(b) = n - i /\ \A p \in 1 .. n - i : b[p] = s[i + p]
  BY <1>1, SubSeqProperties
<1> HIDE DEF a, b
<1>4. r = a \o b
  BY DEF a, b, RemoveAt
<1> HIDE DEF r
<1>5. /\ r \in Seq(S) /\ Len(r) = i - 1 + (n - i)
      /\ \A p \in 1 .. i - 1 + (n - i) : r[p] = IF p <= i - 1 THEN a[p] ELSE b[p - (i - 1)]
  <2>1. /\ a \o b \in Seq(S) /\ Len(a \o b) = Len(a) + Len(b)
        /\ \A p \in 1 .. Len(a) + Len(b) :
             (a \o b)[p] = IF p <= Len(a) THEN a[p] ELSE b[p - Len(a)]
    <3>1. a \in Seq(S) /\ b \in Seq(S)
      BY <1>2, <1>3
    <3> QED
      BY ONLY <3>1, ConcatProperties
  <2>2. Len(a) = i - 1 /\ Len(b) = n - i
    BY <1>2, <1>3
  <2> QED
    BY ONLY <1>4, <2>1, <2>2, Zenon
<1>6. DOMAIN r = 1 .. Len(r)
  BY ONLY <1>5, Elements
<1> HIDE DEF n
<1>7. i - 1 + (n - i) = n - 1
  BY ONLY <1>1
<1>8. \A p \in 1 .. i - 1 : r[p] = s[p]
  BY ONLY <1>1, <1>2, <1>5
<1>9. ASSUME NEW p \in i .. n - 1 PROVE r[p] = s[p + 1]
  <2>1. /\ p \in 1 .. i - 1 + (n - i) /\ ~ (p <= i - 1)
        /\ p - (i - 1) \in 1 .. n - i /\ i + (p - (i - 1)) = p + 1
    BY ONLY <1>1, p \in i .. n - 1
  <2> QED
    BY ONLY <1>3, <1>5, <2>1
<1> QED
  BY <1>5, <1>6, <1>7, <1>8, <1>9 DEF n, r

(* A tenant that leaves the turns leaves those of the others as they are.    *)
LEMMA Leaving ==
  ASSUME NEW S, NEW s \in Seq(S), Distinct(s), NEW i \in 1 .. Len(s)
  PROVE  /\ Distinct(RemoveAt(s, i))
         /\ Range(RemoveAt(s, i)) = Range(s) \ {s[i]}
         /\ \A t, u : Ahead(RemoveAt(s, i), u, t) => Ahead(s, u, t)
<1>0. PICK n, r : n = Len(s) /\ r = RemoveAt(s, i)
  OBVIOUS
<1>a. /\ n \in Nat /\ i \in 1 .. n /\ DOMAIN s = 1 .. n
      /\ DOMAIN r = 1 .. n - 1
      /\ \A p \in 1 .. i - 1 : r[p] = s[p]
      /\ \A p \in i .. n - 1 : r[p] = s[p + 1]
  <2>1. Len(s) \in Nat /\ DOMAIN s = 1 .. Len(s)
    BY Elements
  <2>2. /\ DOMAIN RemoveAt(s, i) = 1 .. Len(s) - 1
        /\ \A p \in 1 .. i - 1 : RemoveAt(s, i)[p] = s[p]
        /\ \A p \in i .. Len(s) - 1 : RemoveAt(s, i)[p] = s[p + 1]
    BY Removal
  <2> QED
    BY <1>0, <2>1, <2>2, Zenon
<1>1. \A j, l \in 1 .. n : s[j] = s[l] => j = l
  BY <1>a DEF Distinct
<1> DEFINE P == [p \in DOMAIN r |-> IF p < i THEN p ELSE p + 1]
<1>2. \A p \in DOMAIN r : P[p] = IF p < i THEN p ELSE p + 1
  OBVIOUS
<1> HIDE DEF P
<1>3. \A p \in DOMAIN r : P[p] \in 1 .. n /\ P[p] # i /\ r[p] = s[P[p]]
  BY ONLY <1>a, <1>2
<1>4. \A p, q \in DOMAIN r : p < q <=> P[p] < P[q]
  BY ONLY <1>a, <1>2
<1>5. \A p, q \in DOMAIN r : P[p] = P[q] => p = q
  BY ONLY <1>a, <1>2
<1>6. ASSUME NEW j \in 1 .. n, j # i PROVE \E p \in DOMAIN r : r[p] = s[j]
  <2>1. CASE j < i
    <3>1. j \in DOMAIN r /\ j \in 1 .. i - 1
      BY ONLY <1>a, <2>1, <1>6
    <3> QED
      BY ONLY <1>a, <3>1
  <2>2. CASE i < j
    <3>1. j - 1 \in DOMAIN r /\ j - 1 \in i .. n - 1 /\ j - 1 + 1 = j
      BY ONLY <1>a, <2>2, <1>6
    <3> QED
      BY ONLY <1>a, <3>1
  <2> QED
    BY ONLY <1>a, <1>6, <2>1, <2>2
<1>7. Distinct(r)
  BY ONLY <1>a, <1>1, <1>3, <1>5 DEF Distinct
<1>8. Range(r) = Range(s) \ {s[i]}
  <2>1. \A x : x \in Range(r) => x \in Range(s) /\ x # s[i]
    BY ONLY <1>a, <1>1, <1>3 DEF Range
  <2>2. \A j \in 1 .. n : j # i => s[j] \in Range(r)
    BY ONLY <1>a, <1>6 DEF Range
  <2>3. \A x : x \in Range(s) /\ x # s[i] => x \in Range(r)
    BY ONLY <1>a, <2>2 DEF Range
  <2> QED
    BY <2>1, <2>3
<1>9. \A t, u : Ahead(r, u, t) => Ahead(s, u, t)
  BY ONLY <1>a, <1>3, <1>4 DEF Ahead
<1> QED
  BY <1>0, <1>7, <1>8, <1>9

(* A tenant that joins has its turn after all others.                        *)
LEMMA Joining ==
  ASSUME NEW S, NEW s \in Seq(S), Distinct(s), NEW x \in S, x \notin Range(s)
  PROVE  /\ Append(s, x) \in Seq(S) /\ Distinct(Append(s, x))
         /\ Range(Append(s, x)) = Range(s) \cup {x}
         /\ \A t, u : t # x /\ Ahead(Append(s, x), u, t) => Ahead(s, u, t)
<1> DEFINE r == Append(s, x)
<1> DEFINE n == Len(s)
<1>1. n \in Nat /\ DOMAIN s = 1 .. n /\ \A j \in 1 .. n : s[j] # x
  BY Elements DEF Range
<1>2. /\ r \in Seq(S) /\ Len(r) = n + 1 /\ r[n + 1] = x
      /\ \A p \in 1 .. n : r[p] = s[p]
  BY AppendProperties
<1> HIDE DEF r
<1>3. DOMAIN r = 1 .. n + 1
  BY <1>2, Elements
<1>4. \A p \in DOMAIN r : p \in 1 .. n \/ p = n + 1
  BY <1>1, <1>3
<1>5. Distinct(r)
  BY <1>1, <1>2, <1>4 DEF Distinct
<1>6. Range(r) = Range(s) \cup {x}
  <2>1. \A y : y \in Range(r) => y \in Range(s) \cup {x}
    BY <1>1, <1>2, <1>4 DEF Range
  <2>2. \A y \in Range(s) : y \in Range(r)
    BY <1>1, <1>2, <1>3 DEF Range
  <2>3. x \in Range(r)
    BY <1>1, <1>2, <1>3 DEF Range
  <2> QED
    BY <2>1, <2>2, <2>3
<1>7. ASSUME NEW t, NEW u, t # x, Ahead(r, u, t) PROVE Ahead(s, u, t)
  <2>1. PICK p \in DOMAIN r, q \in DOMAIN r : p < q /\ r[p] = u /\ r[q] = t
    BY <1>7 DEF Ahead
  <2>2. q \in 1 .. n
    BY <1>2, <1>4, <1>7, <2>1
  <2>3. p \in 1 .. n
    BY <1>1, <1>3, <2>1, <2>2
  <2> QED
    BY <1>1, <1>2, <2>1, <2>2, <2>3 DEF Ahead
<1> QED
  BY <1>2, <1>5, <1>6, <1>7 DEF r

----------------------------------------------------------------------------
(* What the visits of one pop() pay *)

(* The head request of a waiting tenant.                                     *)
LEMMA Waiting ==
  ASSUME TypeOK, TurnsAreForWaiting, NEW t \in Range(order)
  PROVE  /\ t \in Tenant /\ line[t] \in Seq(Entry) /\ line[t] # <<>>
         /\ Head(line[t]).cost \in Nat \ {0}
         /\ deficit[t] \in Nat
<1>1. t \in Tenant /\ line[t] # <<>>
  BY DEF TurnsAreForWaiting
<1>2. line[t] \in Seq(Entry) /\ deficit[t] \in Nat
  BY <1>1, QueueAssumption DEF TypeOK
<1>3. Head(line[t]) \in Entry
  BY <1>1, <1>2, HeadTailProperties
<1>4. Head(line[t]).cost \in Nat \ {0}
  BY <1>3, QueueAssumption DEF Entry
<1> QED
  BY <1>1, <1>2, <1>4

(* The visits of a tenant until it is served are as many as needed, no more. *)
LEMMA VisitsNeeded ==
  ASSUME TypeOK, TurnsAreForWaiting, NEW t \in Range(order)
  PROVE  /\ Visits(t) \in Nat \ {0}
         /\ Head(line[t]).cost <= deficit[t] + Visits(t) * Quantum
         /\ \A n \in Nat \ {0} :
              n < Visits(t) => deficit[t] + n * Quantum < Head(line[t]).cost
<1> DEFINE cost == Head(line[t]).cost
           B == {n \in 1 .. Rounds(cost) : cost <= deficit[t] + n * Quantum}
<1>1. cost \in Nat \ {0} /\ deficit[t] \in Nat /\ Quantum \in Nat
  BY Waiting, QueueAssumption
<1>2. Visits(t) = Min(B)
  BY DEF Visits
<1> HIDE DEF cost
<1>3. Rounds(cost) \in Nat \ {0} /\ cost <= Rounds(cost) * Quantum
  BY ONLY <1>1, RoundsCover
<1>4. Rounds(cost) * Quantum \in Nat
  BY <1>1, <1>3
<1>5. Rounds(cost) \in B
  BY <1>1, <1>3, <1>4
<1>6. B \subseteq Nat /\ B # {}
  BY <1>5
<1>7. Min(B) \in B /\ \A n \in B : Min(B) <= n
  BY <1>6, MinIsLeast
<1>8. Visits(t) \in 1 .. Rounds(cost) /\ cost <= deficit[t] + Visits(t) * Quantum
  BY <1>2, <1>7
<1>9. ASSUME NEW n \in Nat \ {0}, n < Visits(t) PROVE deficit[t] + n * Quantum < cost
  <2>1. n \in 1 .. Rounds(cost) /\ n * Quantum \in Nat
    BY <1>1, <1>3, <1>8, <1>9
  <2>2. n \notin B
    BY <1>2, <1>7, <1>8, <1>9, <1>3
  <2> QED
    BY <1>1, <2>1, <2>2
<1> QED
  BY <1>3, <1>8, <1>9 DEF cost

(* pop() returns in the first round in which a request is covered, at the    *)
(* first place where one is.                                                 *)
LEMMA LastVisit ==
  ASSUME TypeOK, TurnsAreForWaiting, order # <<>>
  PROVE  /\ LastRound \in Nat \ {0}
         /\ LastPlace \in DOMAIN order
         /\ Visits(order[LastPlace]) = LastRound
         /\ \A j \in DOMAIN order :
              /\ LastRound <= Visits(order[j])
              /\ j < LastPlace => LastRound < Visits(order[j])
<1> DEFINE V == {Visits(t) : t \in Range(order)}
           I == {i \in DOMAIN order : Visits(order[i]) = LastRound}
<1>1. order \in Seq(Tenant)
  BY DEF TypeOK
<1>2. Range(order) # {} /\ DOMAIN order = 1 .. Len(order) /\ Len(order) \in Nat
  BY ONLY <1>1, Elements, order # <<>>
<1>3. V \subseteq Nat \ {0} /\ V # {}
  BY <1>2, VisitsNeeded
<1>4. LastRound \in V /\ \A v \in V : LastRound <= v
  BY <1>3, MinIsLeast DEF LastRound
<1>5. \A j \in DOMAIN order : order[j] \in Range(order)
  BY DEF Range
<1>6. I # {}
  BY <1>4 DEF Range
<1>7. I \subseteq Nat
  BY <1>2
<1>8. LastPlace \in I /\ \A j \in I : LastPlace <= j
  BY <1>6, <1>7, MinIsLeast DEF LastPlace
<1>9. ASSUME NEW j \in DOMAIN order
      PROVE  /\ LastRound <= Visits(order[j])
             /\ j < LastPlace => LastRound < Visits(order[j])
  <2>1. Visits(order[j]) \in V
    BY <1>5
  <2>2. LastRound <= Visits(order[j]) /\ LastRound \in Nat /\ Visits(order[j]) \in Nat
    BY <1>3, <1>4, <2>1
  <2>3. j < LastPlace => Visits(order[j]) # LastRound
    BY <1>7, <1>8
  <2> QED
    BY <2>2, <2>3
<1> QED
  BY <1>3, <1>4, <1>8, <1>9

(* pop() covers the request it takes.  A tenant before it has had at least   *)
(* one visit, a tenant behind it perhaps none, and neither is covered by     *)
(* what it was paid.                                                         *)
LEMMA VisitsPay ==
  ASSUME TypeOK, TurnsAreForWaiting, order # <<>>
  PROVE  /\ \A t \in Tenant : Credited(t) \in Nat
         /\ \A t \in Tenant \ Range(order) : Credited(t) = deficit[t]
         /\ Head(line[order[LastPlace]]).cost <= Credited(order[LastPlace])
         /\ \A j \in DOMAIN order : j < LastPlace =>
              /\ deficit[order[j]] + Quantum <= Credited(order[j])
              /\ Credited(order[j]) < Head(line[order[j]]).cost
         /\ \A j \in DOMAIN order : LastPlace < j =>
              /\ deficit[order[j]] <= Credited(order[j])
              /\ \/ Credited(order[j]) = deficit[order[j]]
                 \/ Credited(order[j]) < Head(line[order[j]]).cost
<1>1. Quantum \in Nat /\ Len(order) \in Nat /\ DOMAIN order = 1 .. Len(order)
  BY QueueAssumption, Elements DEF TypeOK
<1>2. /\ LastRound \in Nat \ {0} /\ LastPlace \in 1 .. Len(order)
      /\ Visits(order[LastPlace]) = LastRound
      /\ \A j \in 1 .. Len(order) : /\ LastRound <= Visits(order[j])
                                    /\ j < LastPlace => LastRound < Visits(order[j])
  BY <1>1, LastVisit
<1>3. \A j \in 1 .. Len(order) : order[j] \in Range(order)
  BY <1>1 DEF Range
<1>4. ASSUME NEW j \in 1 .. Len(order)
      PROVE  Credited(order[j]) = deficit[order[j]] + Credit(j)
  <2>1. (CHOOSE k \in DOMAIN order : order[k] = order[j]) = j
    BY <1>1 DEF TurnsAreForWaiting
  <2> QED
    BY <1>3, <2>1 DEF Credited
<1>5. /\ LastRound * Quantum \in Nat /\ (LastRound - 1) * Quantum \in Nat
      /\ Quantum <= LastRound * Quantum
      /\ LastRound = 1 => (LastRound - 1) * Quantum = 0
  <2>1. LastRound - 1 \in Nat /\ LastRound \in Nat /\ LastRound = LastRound - 1 + 1
    BY <1>2
  <2>2. LastRound * Quantum \in Nat /\ (LastRound - 1) * Quantum \in Nat
    BY <2>1, Multiples
  <2>3. LastRound * Quantum = (LastRound - 1) * Quantum + Quantum
    BY <2>1, Multiples
  <2>4. 0 * Quantum = 0
    BY <1>1
  <2> QED
    BY <1>1, <2>2, <2>3, <2>4
<1>6. ASSUME NEW j \in 1 .. Len(order), j <= LastPlace
      PROVE  Credited(order[j]) = deficit[order[j]] + LastRound * Quantum
  BY <1>4, <1>6 DEF Credit
<1>7. ASSUME NEW j \in 1 .. Len(order), LastPlace < j
      PROVE  Credited(order[j]) = deficit[order[j]] + (LastRound - 1) * Quantum
  <2>1. ~ (j <= LastPlace)
    BY <1>2, <1>7
  <2> QED
    BY <1>4, <2>1 DEF Credit
<1>8. \A t \in Tenant \ Range(order) : Credited(t) = deficit[t]
  BY DEF Credited
<1>9. \A t \in Tenant : deficit[t] \in Nat
  BY QueueAssumption DEF TypeOK
<1>10. ASSUME NEW t \in Tenant PROVE Credited(t) \in Nat
  <2>1. CASE t \notin Range(order)
    BY <1>8, <1>9, <2>1
  <2>2. CASE t \in Range(order)
    <3>1. PICK j \in 1 .. Len(order) : t = order[j]
      BY <1>1, <2>2 DEF Range
    <3>2. deficit[order[j]] \in Nat
      BY <1>9, <3>1
    <3>3. Credited(order[j]) \in Nat
      BY <1>2, <1>5, <1>6, <1>7, <3>2
    <3> QED
      BY <3>1, <3>3
  <2> QED
    BY <2>1, <2>2
<1>11. Head(line[order[LastPlace]]).cost <= Credited(order[LastPlace])
  <2>1. Head(line[order[LastPlace]]).cost
          <= deficit[order[LastPlace]] + Visits(order[LastPlace]) * Quantum
    BY <1>2, <1>3, VisitsNeeded
  <2>2. Credited(order[LastPlace]) = deficit[order[LastPlace]] + LastRound * Quantum
    BY <1>2, <1>6
  <2> QED
    BY <1>2, <2>1, <2>2
<1>12. ASSUME NEW j \in 1 .. Len(order), j < LastPlace
       PROVE  /\ deficit[order[j]] + Quantum <= Credited(order[j])
              /\ Credited(order[j]) < Head(line[order[j]]).cost
  <2>1. deficit[order[j]] + LastRound * Quantum < Head(line[order[j]]).cost
    BY <1>2, <1>3, <1>12, VisitsNeeded
  <2>2. Credited(order[j]) = deficit[order[j]] + LastRound * Quantum
    BY <1>2, <1>6, <1>12
  <2>3. deficit[order[j]] \in Nat
    BY <1>3, Waiting
  <2> QED
    BY <1>1, <1>5, <2>1, <2>2, <2>3
<1>13. ASSUME NEW j \in 1 .. Len(order), LastPlace < j
       PROVE  /\ deficit[order[j]] <= Credited(order[j])
              /\ \/ Credited(order[j]) = deficit[order[j]]
                 \/ Credited(order[j]) < Head(line[order[j]]).cost
  <2>1. Credited(order[j]) = deficit[order[j]] + (LastRound - 1) * Quantum
    BY <1>7, <1>13
  <2>2. deficit[order[j]] \in Nat
    BY <1>3, Waiting
  <2>3. CASE LastRound = 1
    BY <1>5, <2>1, <2>2, <2>3
  <2>4. CASE LastRound # 1
    <3>1. LastRound - 1 \in Nat \ {0} /\ LastRound - 1 < Visits(order[j])
      <4>1. Visits(order[j]) \in Nat /\ LastRound <= Visits(order[j])
        BY <1>2, <1>3, VisitsNeeded
      <4> QED
        BY <1>2, <2>4, <4>1
    <3>2. deficit[order[j]] + (LastRound - 1) * Quantum < Head(line[order[j]]).cost
      BY <1>3, <3>1, VisitsNeeded
    <3> QED
      BY <1>5, <2>1, <2>2, <3>2
  <2> QED
    BY <2>3, <2>4
<1> QED
  BY <1>1, <1>8, <1>10, <1>11, <1>12, <1>13

----------------------------------------------------------------------------
(* Steps of the queue *)

(* What one element contributes to a sum, nothing if it does not belong.     *)
LEMMA Share ==
  ASSUME NEW R, IsFiniteSet(R), NEW t, NEW h, \A x \in R \cup {t} : h[x] \in Int,
         t \notin R => h[t] = 0
  PROVE  /\ SumFunctionOnSet(h, R \ {t}) \in Int
         /\ SumFunctionOnSet(h, R) = SumFunctionOnSet(h, R \ {t}) + h[t]
<1>1. IsFiniteSet(R \ {t})
  BY FS_RemoveElement
<1>2. SumFunctionOnSet(h, R \ {t}) \in Int
  BY <1>1, SumInt
<1>3. CASE t \in R
  BY <1>2, <1>3, SumRemove
<1>4. CASE t \notin R
  <2>1. R \ {t} = R /\ h[t] = 0
    BY <1>4
  <2>2. SumFunctionOnSet(h, R \ {t}) = SumFunctionOnSet(h, R)
    BY <2>1, Zenon
  <2> QED
    BY ONLY <1>2, <2>1, <2>2
<1> QED
  BY <1>3, <1>4

(* The size counts requests, whichever tenants there are.                    *)
LEMMA SizeIsCount ==
  ASSUME TypeOK
  PROVE  size \in Nat
<1>1. IsFiniteSet(Range(order)) /\ Range(order) \subseteq Tenant
  BY Elements DEF TypeOK
<1>2. \A t \in Range(order) : [u \in Tenant |-> Len(line[u])][t] \in Nat
  BY <1>1 DEF TypeOK
<1> QED
  BY <1>1, <1>2, SumNat DEF TypeOK

(* A step that changes the line of one tenant.                               *)
LEMMA LineChanges ==
  ASSUME TypeOK, TurnsAreForWaiting,
         NEW t \in Tenant, NEW l \in Seq(Entry), Len(l) <= TenantCapacity,
         line' = [line EXCEPT ![t] = l],
         order' \in Seq(Tenant), Distinct(order'),
         Range(order') = IF l = <<>> THEN Range(order) \ {t} ELSE Range(order) \cup {t},
         size' = size + Len(l) - Len(line[t]), size' <= TotalCapacity,
         deficit' \in [Tenant -> 0..MaxDeficit],
         \A u \in Tenant \ Range(order') : deficit'[u] = 0,
         overtaken' \in [Tenant -> [Tenant -> Nat]]
  PROVE  TypeOK' /\ TurnsAreForWaiting'
<1> DEFINE h == [u \in Tenant |-> Len(line[u])]
           k == [u \in Tenant |-> Len(line'[u])]
<1>1. /\ Range(order) \subseteq Tenant /\ IsFiniteSet(Range(order))
      /\ Range(order') \subseteq Tenant /\ IsFiniteSet(Range(order'))
  BY Elements DEF TypeOK
<1>2. /\ line \in [Tenant -> Seq(Entry)] /\ line'[t] = l
      /\ \A u \in Tenant \ {t} : line'[u] = line[u]
      /\ line' \in [Tenant -> Seq(Entry)]
  BY DEF TypeOK
<1>3. \A u \in Tenant : Len(line[u]) \in Nat /\ Len(line'[u]) \in Nat
  BY <1>2
<1>4. \A u \in Tenant : u \in Range(order) <=> line[u] # <<>>
  BY DEF TurnsAreForWaiting
<1>5. t \in Range(order') <=> l # <<>>
  OBVIOUS
<1>6. \A u : u # t => (u \in Range(order') <=> u \in Range(order))
  OBVIOUS
<1>7. Range(order') = {u \in Tenant : line'[u] # <<>>}
  BY <1>1, <1>2, <1>4, <1>5, <1>6
<1>8. \A u \in Tenant : Len(line'[u]) <= TenantCapacity
  BY <1>2 DEF TypeOK
<1>9. SumFunctionOnSet(k, Range(order')) = size + Len(l) - Len(line[t])
  <2>1. \A u \in Tenant : h[u] \in Int /\ k[u] \in Int
    BY <1>3
  <2>2. \A u \in Tenant \ {t} : h[u] = k[u]
    BY <1>2
  <2>3. h[t] = Len(line[t]) /\ k[t] = Len(l)
    BY <1>2
  <2>4. (t \notin Range(order) => h[t] = 0) /\ (t \notin Range(order') => k[t] = 0)
    BY <1>4, <1>5, <2>3, EmptySeq
  <2>5. size = SumFunctionOnSet(h, Range(order))
    BY DEF TypeOK
  <2>6. Range(order) \ {t} = Range(order') \ {t}
    BY <1>6
  <2> HIDE DEF h, k
  <2>7. \A u \in Range(order) \cup Range(order') \cup {t} : h[u] \in Int /\ k[u] \in Int
    BY <1>1, <2>1
  <2>8. \A u \in Range(order) \ {t} : h[u] = k[u]
    BY <1>1, <2>2
  <2>9. /\ SumFunctionOnSet(h, Range(order) \ {t}) \in Int
        /\ SumFunctionOnSet(h, Range(order)) = SumFunctionOnSet(h, Range(order) \ {t}) + h[t]
    BY ONLY <1>1, <2>4, <2>7, Share
  <2>10. SumFunctionOnSet(k, Range(order')) = SumFunctionOnSet(k, Range(order') \ {t}) + k[t]
    BY ONLY <1>1, <2>4, <2>7, Share
  <2>11. SumFunctionOnSet(k, Range(order') \ {t}) = SumFunctionOnSet(k, Range(order) \ {t})
    BY ONLY <2>6, Zenon
  <2>12. SumFunctionOnSet(h, Range(order) \ {t}) = SumFunctionOnSet(k, Range(order) \ {t})
    <3>1. IsFiniteSet(Range(order) \ {t})
      BY <1>1, FS_RemoveElement
    <3> QED
      BY ONLY <2>7, <2>8, <3>1, SumSame
  <2>13. Len(line[t]) \in Nat /\ Len(l) \in Nat
    BY <1>2, <1>3
  <2> QED
    BY ONLY <2>3, <2>5, <2>9, <2>10, <2>11, <2>12, <2>13
<1>10. TypeOK'
  BY <1>2, <1>8, <1>9 DEF TypeOK
<1>11. TurnsAreForWaiting'
  BY <1>7 DEF TurnsAreForWaiting, Distinct
<1> QED
  BY <1>10, <1>11

(* Put a request into a line.                                                *)
LEMMA PutKeepsTurns ==
  ASSUME TypeOK, TurnsAreForWaiting,
         NEW t \in Tenant, NEW r \in Request, NEW cost \in Cost, Put(t, r, cost)
  PROVE  /\ TypeOK' /\ TurnsAreForWaiting'
         /\ \A x \in Range(order') : x \in Range(order) \/ overtaken'[x] = None
         /\ \A x \in Range(order) :
              /\ overtaken'[x] = overtaken[x] /\ deficit'[x] = deficit[x]
              /\ Head(line'[x]) = Head(line[x])
              /\ \A u : Ahead(order', u, x) => Ahead(order, u, x)
<1> DEFINE l == Append(line[t], [id |-> r, cost |-> cost])
<1>1. [id |-> r, cost |-> cost] \in Entry /\ line[t] \in Seq(Entry)
  BY DEF Entry, TypeOK
<1>2. /\ l \in Seq(Entry) /\ l # <<>> /\ Len(l) = Len(line[t]) + 1
      /\ Head(l) = IF line[t] = <<>> THEN [id |-> r, cost |-> cost] ELSE Head(line[t])
  BY ONLY <1>1, AppendProperties, HeadTailAppend
<1>3. order \in Seq(Tenant) /\ Distinct(order) /\ (t \in Range(order) <=> line[t] # <<>>)
  BY DEF TypeOK, TurnsAreForWaiting, Distinct
<1>4. /\ order' \in Seq(Tenant) /\ Distinct(order')
      /\ Range(order') = Range(order) \cup {t}
      /\ \A x \in Range(order) : \A u : Ahead(order', u, x) => Ahead(order, u, x)
  <2>1. CASE line[t] = <<>>
    <3>1. order' = Append(order, t) /\ t \notin Range(order)
      BY <1>3, <2>1 DEF Put
    <3>2. /\ order' \in Seq(Tenant) /\ Distinct(order')
          /\ Range(order') = Range(order) \cup {t}
          /\ \A x, u : x # t /\ Ahead(order', u, x) => Ahead(order, u, x)
      BY <1>3, <3>1, Joining
    <3> QED
      BY ONLY <3>1, <3>2
  <2>2. CASE line[t] # <<>>
    BY <1>3, <2>2 DEF Put
  <2> QED
    BY <2>1, <2>2
<1>5. Len(l) <= TenantCapacity /\ size' = size + Len(l) - Len(line[t]) /\ size' <= TotalCapacity
  <2>1. size \in Nat /\ Len(line[t]) \in Nat
    BY <1>1, SizeIsCount
  <2>2. size < TotalCapacity /\ Len(line[t]) < TenantCapacity /\ size' = size + 1
    BY DEF Put
  <2> HIDE DEF l
  <2> QED
    BY <1>2, <2>1, <2>2, QueueAssumption
<1>6. /\ line' = [line EXCEPT ![t] = l] /\ deficit' = deficit
      /\ overtaken' = IF line[t] = <<>> THEN [overtaken EXCEPT ![t] = None] ELSE overtaken
  BY DEF Put
<1> HIDE DEF l
<1>7. None \in [Tenant -> Nat] /\ overtaken \in [Tenant -> [Tenant -> Nat]]
  BY DEF None, TypeOK
<1>8. overtaken' \in [Tenant -> [Tenant -> Nat]]
  BY <1>6, <1>7
<1>9. deficit' \in [Tenant -> 0..MaxDeficit] /\ \A u \in Tenant \ Range(order') : deficit'[u] = 0
  BY <1>4, <1>6 DEF TypeOK, TurnsAreForWaiting
<1>10. Range(order') = IF l = <<>> THEN Range(order) \ {t} ELSE Range(order) \cup {t}
  BY <1>2, <1>4
<1>11. TypeOK' /\ TurnsAreForWaiting'
  BY <1>2, <1>4, <1>5, <1>6, <1>8, <1>9, <1>10, LineChanges
<1>12. \A x \in Range(order') : x \in Range(order) \/ overtaken'[x] = None
  BY <1>3, <1>4, <1>6, <1>7
<1>13. ASSUME NEW x \in Range(order)
       PROVE  overtaken'[x] = overtaken[x] /\ Head(line'[x]) = Head(line[x])
  <2>1. x \in Tenant /\ line[x] # <<>>
    BY DEF TurnsAreForWaiting
  <2>2. overtaken'[x] = overtaken[x]
    BY <1>6, <1>7, <2>1
  <2>3. line'[x] = IF x = t THEN l ELSE line[x]
    BY <1>6, <2>1 DEF TypeOK
  <2> QED
    BY <1>2, <2>1, <2>2, <2>3
<1> QED
  BY <1>4, <1>6, <1>11, <1>12, <1>13

(* The turns after pop() served the tenant s at place i.                     *)
LEMMA PopTurns ==
  ASSUME TypeOK, TurnsAreForWaiting, Pop, NEW i, i = LastPlace, NEW s, s = order[i]
  PROVE  /\ i \in 1 .. Len(order) /\ s \in Range(order)
         /\ order' \in Seq(Tenant) /\ Distinct(order')
         /\ Range(order') = IF Len(line[s]) > 1 THEN Range(order) ELSE Range(order) \ {s}
         /\ \A u : ~ Ahead(order', s, u)
         /\ \A j \in 1 .. Len(order) : \A u :
              i < j /\ Ahead(order', u, order[j]) => Ahead(order, u, order[j])
<1>1. order \in Seq(Tenant) /\ Distinct(order) /\ order # <<>>
  BY DEF TypeOK, TurnsAreForWaiting, Distinct, Pop
<1>2. Len(order) \in Nat /\ DOMAIN order = 1 .. Len(order)
  BY <1>1, Elements
<1>3. i \in 1 .. Len(order)
  BY <1>1, <1>2, LastVisit
<1>4. s \in Range(order)
  BY <1>2, <1>3 DEF Range
<1>5. PICK k : k = IF Len(line[s]) > 1 THEN i ELSE i - 1
  OBVIOUS
<1>6. k \in 0 .. i /\ k \in Nat /\ (k = i \/ k = i - 1) /\ (k = i <=> Len(line[s]) > 1)
  BY <1>2, <1>3, <1>5
<1>7. order' = Turned(order, i, k)
  BY <1>5 DEF Pop, Rotated, Turned
<1>8. /\ order' \in Seq(Tenant) /\ DOMAIN order' = 1 .. Len(order) - i + k
      /\ \A p \in 1 .. Len(order) - i : order'[p] = order[i + p]
      /\ \A p \in 1 .. k : order'[Len(order) - i + p] = order[p]
  <2>1. /\ Turned(order, i, k) \in Seq(Tenant)
        /\ DOMAIN Turned(order, i, k) = 1 .. Len(order) - i + k
        /\ \A p \in 1 .. Len(order) - i : Turned(order, i, k)[p] = order[i + p]
        /\ \A p \in 1 .. k : Turned(order, i, k)[Len(order) - i + p] = order[p]
    BY ONLY <1>1, <1>3, <1>6, RotatedPlaces
  <2> QED
    BY ONLY <1>7, <2>1, Zenon
<1>9. /\ Distinct(order')
      /\ Range(order') = IF k = i THEN Range(order) ELSE Range(order) \ {order[i]}
      /\ \A u : ~ Ahead(order', order[i], u)
      /\ \A j \in 1 .. Len(order) : \A u :
           i < j /\ Ahead(order', u, order[j]) => Ahead(order, u, order[j])
  BY ONLY <1>1, <1>2, <1>3, <1>6, <1>8, Rotation
<1> QED
  BY <1>3, <1>4, <1>6, <1>8, <1>9

(* pop() takes a request out of a line.                                      *)
LEMMA PopKeepsTurns ==
  ASSUME TypeOK, TurnsAreForWaiting, Pop, NEW s, s = order[LastPlace]
  PROVE  /\ TypeOK' /\ TurnsAreForWaiting'
         /\ overtaken'[s] = None
         /\ \A x \in Range(order) \ {s} :
              /\ overtaken'[x] = [overtaken[x] EXCEPT ![s] = @ + 1]
              /\ deficit'[x] = Credited(x)
              /\ line'[x] = line[x]
<1> DEFINE l == Tail(line[s])
<1>1. /\ s \in Range(order) /\ order' \in Seq(Tenant) /\ Distinct(order')
      /\ Range(order') = IF Len(line[s]) > 1 THEN Range(order) ELSE Range(order) \ {s}
  BY PopTurns
<1>2. order # <<>> /\ Range(order) \subseteq Tenant
  BY DEF Pop, TurnsAreForWaiting
<1>3. /\ s \in Tenant /\ line[s] \in Seq(Entry) /\ line[s] # <<>>
      /\ Head(line[s]).cost \in Nat
  BY <1>1, Waiting
<1>4. l \in Seq(Entry) /\ Len(l) = Len(line[s]) - 1 /\ Len(line[s]) \in Nat
  BY ONLY <1>3, HeadTailProperties, LenProperties
<1>5. l = <<>> <=> ~ (Len(line[s]) > 1)
  <2>1. l = <<>> <=> Len(l) = 0
    BY ONLY <1>4, EmptySeq
  <2>2. Len(l) \in Nat
    BY ONLY <1>4, LenProperties
  <2> HIDE DEF l
  <2> QED
    BY ONLY <1>4, <2>1, <2>2
<1>6. /\ line' = [line EXCEPT ![s] = l] /\ size' = size - 1
      /\ \A u \in Tenant : Credited(u) <= MaxDeficit
      /\ deficit' = [u \in Tenant |->
                       IF u # s THEN Credited(u)
                       ELSE IF Len(line[s]) > 1 THEN Credited(u) - Head(line[s]).cost ELSE 0]
      /\ overtaken' = [u \in Tenant |->
                         IF u = s THEN None
                         ELSE IF u \in Range(order) THEN [overtaken[u] EXCEPT ![s] = @ + 1]
                         ELSE overtaken[u]]
  BY DEF Pop
<1> HIDE DEF l
<1>7. Range(order') = IF l = <<>> THEN Range(order) \ {s} ELSE Range(order) \cup {s}
  BY <1>1, <1>5
<1>8. /\ \A t \in Tenant : Credited(t) \in Nat
      /\ \A t \in Tenant \ Range(order) : Credited(t) = deficit[t]
      /\ Head(line[s]).cost <= Credited(s)
  BY <1>2, VisitsPay
<1>9. ASSUME NEW u \in Tenant PROVE deficit'[u] \in 0 .. MaxDeficit
  <2>1. Credited(u) \in 0 .. MaxDeficit
    BY <1>6, <1>8, QueueAssumption
  <2>2. CASE u # s
    BY <1>6, <2>1, <2>2
  <2>3. CASE u = s /\ Len(line[s]) > 1
    <3>1. deficit'[u] = Credited(u) - Head(line[s]).cost
      BY <1>6, <2>3
    <3> QED
      BY <1>3, <1>8, <2>1, <2>3, <3>1, QueueAssumption
  <2>4. CASE u = s /\ ~ (Len(line[s]) > 1)
    BY <1>6, <2>4, QueueAssumption
  <2> QED
    BY <2>2, <2>3, <2>4
<1>10. deficit' \in [Tenant -> 0 .. MaxDeficit]
  <2>1. DOMAIN deficit' = Tenant /\ deficit' = [u \in Tenant |-> deficit'[u]]
    BY <1>6
  <2> QED
    BY <1>9, <2>1
<1>11. ASSUME NEW u \in Tenant, u \notin Range(order') PROVE deficit'[u] = 0
  <2>1. CASE u = s
    BY <1>1, <1>6, <1>11, <2>1
  <2>2. CASE u # s
    <3>1. u \notin Range(order)
      BY <1>1, <1>11, <2>2
    <3> QED
      BY <1>6, <1>8, <2>2, <3>1 DEF TurnsAreForWaiting
  <2> QED
    BY <2>1, <2>2
<1>12. None \in [Tenant -> Nat] /\ overtaken \in [Tenant -> [Tenant -> Nat]]
  BY DEF None, TypeOK
<1>13. overtaken' \in [Tenant -> [Tenant -> Nat]]
  <2>1. ASSUME NEW u \in Tenant PROVE [overtaken[u] EXCEPT ![s] = @ + 1] \in [Tenant -> Nat]
    BY <1>3, <1>12
  <2> QED
    BY <1>6, <1>12, <2>1
<1>14. Len(l) <= TenantCapacity /\ size' = size + Len(l) - Len(line[s]) /\ size' <= TotalCapacity
  <2>1. size \in Nat /\ size <= TotalCapacity /\ Len(line[s]) <= TenantCapacity
    BY <1>3, SizeIsCount DEF TypeOK
  <2> QED
    BY <1>4, <1>6, <2>1, QueueAssumption
<1>15. TypeOK' /\ TurnsAreForWaiting'
  BY <1>1, <1>3, <1>4, <1>6, <1>7, <1>10, <1>11, <1>13, <1>14, LineChanges
<1>16. line \in [Tenant -> Seq(Entry)]
  BY DEF TypeOK
<1> QED
  BY <1>2, <1>3, <1>6, <1>15, <1>16

(* remove() takes a request out of a line, wherever it is.                   *)
LEMMA RemoveKeepsTurns ==
  ASSUME TypeOK, TurnsAreForWaiting, NEW r \in Request, RemoveRequest(r)
  PROVE  /\ TypeOK' /\ TurnsAreForWaiting'
         /\ Range(order') \subseteq Range(order)
         /\ \A x \in Range(order') :
              \/ overtaken'[x] = None
              \/ /\ overtaken'[x] = overtaken[x] /\ deficit'[x] = deficit[x]
                 /\ Head(line'[x]) = Head(line[x])
         /\ \A x, u : Ahead(order', u, x) => Ahead(order, u, x)
<1>0. PICK t \in Tenant : \E i \in DOMAIN line[t] :
        /\ line[t][i].id = r
        /\ line' = [line EXCEPT ![t] = RemoveAt(@, i)]
        /\ IF Len(line[t]) = 1
           THEN /\ order' = RemoveAt(order, CHOOSE j \in DOMAIN order : order[j] = t)
                /\ deficit' = [deficit EXCEPT ![t] = 0]
           ELSE UNCHANGED <<order, deficit>>
        /\ size' = size - 1
        /\ overtaken' = IF i = 1 THEN [overtaken EXCEPT ![t] = None] ELSE overtaken
  BY DEF RemoveRequest
<1>1. PICK i \in DOMAIN line[t] :
        /\ line' = [line EXCEPT ![t] = RemoveAt(@, i)]
        /\ IF Len(line[t]) = 1
           THEN /\ order' = RemoveAt(order, CHOOSE j \in DOMAIN order : order[j] = t)
                /\ deficit' = [deficit EXCEPT ![t] = 0]
           ELSE UNCHANGED <<order, deficit>>
        /\ size' = size - 1
        /\ overtaken' = IF i = 1 THEN [overtaken EXCEPT ![t] = None] ELSE overtaken
  BY <1>0
<1> DEFINE l == RemoveAt(line[t], i)
<1>2. line[t] \in Seq(Entry) /\ line \in [Tenant -> Seq(Entry)] /\ order \in Seq(Tenant)
  BY DEF TypeOK
<1>3. Len(line[t]) \in Nat /\ i \in 1 .. Len(line[t]) /\ line[t] # <<>>
  BY <1>2, Elements
<1>4. /\ l \in Seq(Entry) /\ Len(l) = Len(line[t]) - 1 /\ DOMAIN l = 1 .. Len(line[t]) - 1
      /\ \A p \in 1 .. i - 1 : l[p] = line[t][p]
  BY ONLY <1>2, <1>3, Removal
<1>5. l = <<>> <=> Len(line[t]) = 1
  <2>1. l = <<>> <=> Len(l) = 0
    BY ONLY <1>4, EmptySeq
  <2> QED
    BY ONLY <1>3, <1>4, <2>1
<1>6. line' = [line EXCEPT ![t] = l]
  BY <1>1
<1> HIDE DEF l
<1>7. t \in Range(order) /\ Distinct(order)
  BY <1>3 DEF TurnsAreForWaiting, Distinct
<1>8. /\ order' \in Seq(Tenant) /\ Distinct(order')
      /\ Range(order') = IF l = <<>> THEN Range(order) \ {t} ELSE Range(order) \cup {t}
      /\ \A x, u : Ahead(order', u, x) => Ahead(order, u, x)
  <2>1. CASE l = <<>>
    <3>1. PICK j : j = CHOOSE k \in DOMAIN order : order[k] = t
      OBVIOUS
    <3>2. j \in DOMAIN order /\ order[j] = t
      <4>1. \E k \in DOMAIN order : order[k] = t
        BY <1>7 DEF Range
      <4> QED
        BY <3>1, <4>1
    <3>3. DOMAIN order = 1 .. Len(order) /\ Len(order) \in Nat
      BY <1>2, Elements
    <3>a. j \in 1 .. Len(order)
      BY <3>2, <3>3
    <3>4. order' = RemoveAt(order, j)
      BY <1>1, <1>5, <2>1, <3>1
    <3>5. /\ order' \in Seq(Tenant) /\ DOMAIN order' = 1 .. Len(order) - 1
          /\ \A p \in 1 .. j - 1 : order'[p] = order[p]
          /\ \A p \in j .. Len(order) - 1 : order'[p] = order[p + 1]
      BY ONLY <1>2, <3>a, <3>4, Removal
    <3>6. /\ Distinct(order') /\ Range(order') = Range(order) \ {order[j]}
          /\ \A x, u : Ahead(order', u, x) => Ahead(order, u, x)
      <4>1. /\ Distinct(RemoveAt(order, j))
            /\ Range(RemoveAt(order, j)) = Range(order) \ {order[j]}
            /\ \A x, u : Ahead(RemoveAt(order, j), u, x) => Ahead(order, u, x)
        BY ONLY <1>2, <1>7, <3>a, Leaving
      <4> QED
        BY ONLY <3>4, <4>1, Zenon
    <3> QED
      BY <2>1, <3>2, <3>5, <3>6
  <2>2. CASE l # <<>>
    BY <1>1, <1>2, <1>5, <1>7, <2>2
  <2> QED
    BY <2>1, <2>2
<1>9. None \in [Tenant -> Nat] /\ overtaken \in [Tenant -> [Tenant -> Nat]]
  BY DEF None, TypeOK
<1>10. overtaken' \in [Tenant -> [Tenant -> Nat]]
  BY <1>1, <1>9
<1>11. deficit \in [Tenant -> 0 .. MaxDeficit] /\ 0 \in 0 .. MaxDeficit
  BY QueueAssumption DEF TypeOK
<1>12. deficit' = IF l = <<>> THEN [deficit EXCEPT ![t] = 0] ELSE deficit
  BY <1>1, <1>5
<1>13. deficit' \in [Tenant -> 0 .. MaxDeficit]
  BY <1>11, <1>12
<1>14. \A u \in Tenant \ Range(order') : deficit'[u] = 0
  BY <1>7, <1>8, <1>11, <1>12 DEF TurnsAreForWaiting
<1>15. Len(l) <= TenantCapacity /\ size' = size + Len(l) - Len(line[t]) /\ size' <= TotalCapacity
  <2>1. /\ size \in Nat /\ size <= TotalCapacity /\ Len(line[t]) <= TenantCapacity
        /\ size' = size - 1
    BY <1>1, SizeIsCount DEF TypeOK
  <2> QED
    BY <1>3, <1>4, <2>1, QueueAssumption
<1>16. TypeOK' /\ TurnsAreForWaiting'
  BY <1>4, <1>6, <1>8, <1>10, <1>13, <1>14, <1>15, LineChanges
<1>17. Range(order') \subseteq Range(order)
  BY <1>7, <1>8
<1>18. ASSUME NEW x \in Range(order'), overtaken'[x] # None
       PROVE  /\ overtaken'[x] = overtaken[x] /\ deficit'[x] = deficit[x]
              /\ Head(line'[x]) = Head(line[x])
  <2>1. x \in Tenant
    BY <1>17 DEF TurnsAreForWaiting
  <2>2. x # t \/ i # 1
    BY <1>1, <1>9, <1>18
  <2>3. overtaken'[x] = overtaken[x]
    BY <1>1, <1>9, <2>1, <2>2
  <2>4. x = t => l # <<>>
    BY <1>8, <1>18
  <2>5. deficit'[x] = deficit[x]
    BY <1>11, <1>12, <2>1, <2>4
  <2>6. CASE x # t
    BY <1>2, <1>6, <2>1, <2>3, <2>5, <2>6
  <2>7. CASE x = t
    <3>1. l[1] = line[t][1]
      BY ONLY <1>3, <1>4, <2>2, <2>7
    <3>2. Head(l) = l[1] /\ Head(line[t]) = line[t][1]
      BY <1>2, <1>3, <1>4, <2>4, <2>7
    <3>3. line'[x] = l
      BY <1>2, <1>6, <2>7
    <3> QED
      BY ONLY <2>3, <2>5, <2>7, <3>1, <3>2, <3>3
  <2> QED
    BY <2>6, <2>7
<1> QED
  BY <1>8, <1>16, <1>17, <1>18

----------------------------------------------------------------------------
(* The bound on overtaking *)

(* Fewer visits are paid by what more visits paid, also when more is added,  *)
(* as long as the request stays uncovered.                                   *)
LEMMA StillPaid ==
  ASSUME NEW p \in Int, NEW q \in Int, NEW d \in Nat, NEW e \in Nat, NEW c \in Nat,
         Paid(p, d, c), q <= p, d <= e, e = d \/ e < c
  PROVE  Paid(q, e, c)
<1> SUFFICES ASSUME q >= 1 PROVE q * Quantum <= e /\ e < c
  BY DEF Paid
<1>1. p \in Nat /\ q \in Nat /\ Quantum \in Nat /\ p >= 1
  BY QueueAssumption
<1>2. p * Quantum <= d /\ d < c
  BY <1>1 DEF Paid
<1>3. q * Quantum <= p * Quantum /\ q * Quantum \in Nat /\ p * Quantum \in Nat
  BY <1>1, Multiples
<1> QED
  BY <1>2, <1>3

(* One more visit adds a quantum.                                            *)
LEMMA OneMorePaid ==
  ASSUME NEW p \in Int, NEW q \in Int, NEW d \in Nat, NEW e \in Nat, NEW c \in Nat,
         Paid(p, d, c), q <= p + 1, d + Quantum <= e, e < c
  PROVE  Paid(q, e, c)
<1>1. Quantum \in Nat
  BY QueueAssumption
<1>2. CASE p >= 1
  <2>1. p \in Nat /\ p * Quantum <= d
    BY <1>2 DEF Paid
  <2>2. p * Quantum \in Nat /\ (p + 1) * Quantum = p * Quantum + Quantum
    BY <2>1, Multiples
  <2>3. Paid(p + 1, e, c)
    BY <1>1, <2>1, <2>2 DEF Paid
  <2> QED
    BY <2>1, <2>3, StillPaid
<1>3. CASE ~ (p >= 1)
  <2>1. 1 * Quantum <= e
    BY <1>1
  <2>2. Paid(1, e, c)
    BY <2>1 DEF Paid
  <2>3. q <= 1
    BY <1>3
  <2> QED
    BY <2>2, <2>3, StillPaid
<1> QED
  BY <1>2, <1>3

(* Nobody has passed a request that just became the head.                    *)
LEMMA ResetIsPaid ==
  ASSUME NEW x \in Tenant, NEW u \in Tenant, overtaken'[x] = None
  PROVE  Paid(Passed(x, u)', deficit'[x], Head(line'[x]).cost)
<1>1. overtaken'[x][u] = 0
  BY DEF None
<1>2. ~ (Passed(x, u)' >= 1)
  BY <1>1 DEF Passed
<1> QED
  BY <1>2 DEF Paid

(* Where the head request, the deficit and the turns ahead stay.             *)
LEMMA KeptIsPaid ==
  ASSUME TypeOK, TurnsAreForWaiting, PassedIsPaid, NEW x \in Range(order), NEW u \in Tenant,
         overtaken'[x] = overtaken[x], deficit'[x] = deficit[x],
         Head(line'[x]) = Head(line[x]),
         Ahead(order', u, x) => Ahead(order, u, x)
  PROVE  Paid(Passed(x, u)', deficit'[x], Head(line'[x]).cost)
<1>1. Head(line[x]).cost \in Nat /\ deficit[x] \in Nat /\ x \in Tenant
  BY Waiting
<1>2. overtaken[x][u] \in Nat
  BY <1>1 DEF TypeOK
<1>3. Passed(x, u) \in Int /\ Passed(x, u)' \in Int /\ Passed(x, u)' <= Passed(x, u)
  BY <1>2 DEF Passed
<1>4. Paid(Passed(x, u), deficit[x], Head(line[x]).cost)
  BY DEF PassedIsPaid
<1>5. Paid(Passed(x, u)', deficit[x], Head(line[x]).cost)
  BY <1>1, <1>3, <1>4, StillPaid
<1> QED
  BY <1>5

(* pop() serves s: a tenant that it visits before may have been passed once  *)
(* more, and has one quantum more; one behind s has nobody new ahead.        *)
LEMMA PopIsPaid ==
  ASSUME TypeOK, TurnsAreForWaiting, PassedIsPaid, Pop,
         NEW x \in Range(order'), NEW u \in Tenant
  PROVE  Paid(Passed(x, u)', deficit'[x], Head(line'[x]).cost)
<1>1. PICK i, s : i = LastPlace /\ s = order[i]
  OBVIOUS
<1>2. /\ i \in 1 .. Len(order) /\ s \in Range(order)
      /\ Range(order') = IF Len(line[s]) > 1 THEN Range(order) ELSE Range(order) \ {s}
      /\ \A v : ~ Ahead(order', s, v)
      /\ \A j \in 1 .. Len(order) : \A v :
           i < j /\ Ahead(order', v, order[j]) => Ahead(order, v, order[j])
  BY <1>1, PopTurns
<1>3. /\ overtaken'[s] = None
      /\ \A y \in Range(order) \ {s} :
           /\ overtaken'[y] = [overtaken[y] EXCEPT ![s] = @ + 1]
           /\ deficit'[y] = Credited(y) /\ line'[y] = line[y]
  BY <1>1, PopKeepsTurns
<1>4. x \in Range(order) /\ s \in Tenant /\ x \in Tenant
  BY <1>2 DEF TurnsAreForWaiting
<1>5. CASE x = s
  BY <1>3, <1>4, <1>5, ResetIsPaid
<1>6. CASE x # s
  <2>1. /\ overtaken'[x] = [overtaken[x] EXCEPT ![s] = @ + 1]
        /\ deficit'[x] = Credited(x) /\ line'[x] = line[x]
    BY <1>3, <1>4, <1>6
  <2>2. /\ overtaken[x][u] \in Nat
        /\ overtaken'[x][u] = IF u = s THEN overtaken[x][u] + 1 ELSE overtaken[x][u]
    BY <1>4, <2>1 DEF TypeOK
  <2>3. Passed(x, u) \in Int /\ Passed(x, u)' \in Int
    BY <2>2 DEF Passed
  <2>4. Head(line[x]).cost \in Nat /\ deficit[x] \in Nat /\ Credited(x) \in Nat
    BY <1>4, Waiting, VisitsPay DEF Pop
  <2>5. Paid(Passed(x, u), deficit[x], Head(line[x]).cost)
    BY <1>4 DEF PassedIsPaid
  <2>6. DOMAIN order = 1 .. Len(order) /\ Len(order) \in Nat /\ order # <<>>
    BY Elements DEF TypeOK, Pop
  <2>7. PICK j \in 1 .. Len(order) : x = order[j]
    BY <1>4, <2>6 DEF Range
  <2>8. j # i
    BY <1>1, <1>6, <2>7
  <2>9. CASE j < i
    <3>1. deficit[x] + Quantum <= Credited(x) /\ Credited(x) < Head(line[x]).cost
      BY <1>1, <2>6, <2>7, <2>9, VisitsPay
    <3>2. ~ Ahead(order, s, x)
      <4>1. ASSUME NEW a \in DOMAIN order, NEW b \in DOMAIN order,
                   a < b, order[a] = s, order[b] = x
            PROVE  FALSE
        <5>1. a = i /\ b = j
          BY <1>1, <1>2, <2>6, <2>7, <4>1 DEF TurnsAreForWaiting
        <5> QED
          BY <1>2, <2>9, <4>1, <5>1
      <4> QED
        BY <4>1 DEF Ahead
    <3>3. ~ Ahead(order', s, x)
      BY <1>2
    <3>4. Passed(x, u)' <= Passed(x, u) + 1
      <4>1. CASE u = s
        BY <2>2, <3>2, <3>3, <4>1 DEF Passed
      <4>2. CASE u # s
        BY <2>2, <4>2 DEF Passed
      <4> QED
        BY <4>1, <4>2
    <3>5. Paid(Passed(x, u)', Credited(x), Head(line[x]).cost)
      BY <2>3, <2>4, <2>5, <3>1, <3>4, OneMorePaid
    <3> QED
      BY <2>1, <3>5
  <2>10. CASE i < j
    <3>1. /\ deficit[x] <= Credited(x)
          /\ Credited(x) = deficit[x] \/ Credited(x) < Head(line[x]).cost
      BY <1>1, <2>6, <2>7, <2>10, VisitsPay
    <3>2. Ahead(order, s, x)
      BY <1>1, <1>2, <2>6, <2>7, <2>10 DEF Ahead
    <3>3. ~ Ahead(order', s, x)
      BY <1>2
    <3>4. Ahead(order', u, x) => Ahead(order, u, x)
      BY <1>2, <2>7, <2>10
    <3>5. Passed(x, u)' <= Passed(x, u)
      <4>1. CASE u = s
        BY <2>2, <3>2, <3>3, <4>1 DEF Passed
      <4>2. CASE u # s
        BY <2>2, <3>4, <4>2 DEF Passed
      <4> QED
        BY <4>1, <4>2
    <3>6. Paid(Passed(x, u)', Credited(x), Head(line[x]).cost)
      BY <2>3, <2>4, <2>5, <3>1, <3>5, StillPaid
    <3> QED
      BY <2>1, <3>6
  <2> QED
    BY <1>2, <2>6, <2>8, <2>9, <2>10
<1> QED
  BY <1>5, <1>6

(* The invariant holds initially.                                            *)
LEMMA InitialInvariant == Init => IInv
<1> SUFFICES ASSUME Init PROVE IInv
  OBVIOUS
<1>1. Range(order) = {} /\ <<>> \in Seq(Tenant) /\ <<>> \in Seq(Entry)
  BY DEF Init, Range
<1>2. SumFunctionOnSet([t \in Tenant |-> Len(line[t])], Range(order)) = 0
  BY <1>1, SumEmpty
<1>3. TypeOK
  BY <1>1, <1>2, QueueAssumption DEF Init, TypeOK, None
<1>4. TurnsAreForWaiting
  BY <1>1 DEF Init, TurnsAreForWaiting, None
<1>5. PassedIsPaid
  BY <1>1 DEF PassedIsPaid
<1> QED
  BY <1>3, <1>4, <1>5 DEF IInv

(* Every step preserves it.                                                  *)
LEMMA InductiveStep == IInv /\ [Next]_vars => IInv'
<1> SUFFICES ASSUME IInv, [Next]_vars PROVE IInv'
  OBVIOUS
<1>1. TypeOK /\ TurnsAreForWaiting /\ PassedIsPaid
  BY DEF IInv
<1>2. ASSUME NEW t \in Tenant, NEW r \in Request, NEW cost \in Cost, Put(t, r, cost)
      PROVE  IInv'
  <2>1. /\ TypeOK' /\ TurnsAreForWaiting'
        /\ \A x \in Range(order') : x \in Range(order) \/ overtaken'[x] = None
        /\ \A x \in Range(order) :
             /\ overtaken'[x] = overtaken[x] /\ deficit'[x] = deficit[x]
             /\ Head(line'[x]) = Head(line[x])
             /\ \A u : Ahead(order', u, x) => Ahead(order, u, x)
    BY <1>1, <1>2, PutKeepsTurns
  <2>2. ASSUME NEW x \in Range(order'), NEW u \in Tenant
        PROVE  Paid(Passed(x, u)', deficit'[x], Head(line'[x]).cost)
    <3>1. CASE x \in Range(order)
      BY <1>1, <2>1, <3>1, KeptIsPaid
    <3>2. CASE overtaken'[x] = None
      <4>1. x \in Tenant
        BY <2>1 DEF TurnsAreForWaiting
      <4> QED
        BY <3>2, <4>1, ResetIsPaid
    <3> QED
      BY <2>1, <3>1, <3>2
  <2> QED
    BY <2>1, <2>2 DEF IInv, PassedIsPaid
<1>3. ASSUME Pop PROVE IInv'
  <2>1. PICK s : s = order[LastPlace]
    OBVIOUS
  <2>2. TypeOK' /\ TurnsAreForWaiting'
    BY <1>1, <1>3, <2>1, PopKeepsTurns
  <2>3. ASSUME NEW x \in Range(order'), NEW u \in Tenant
        PROVE  Paid(Passed(x, u)', deficit'[x], Head(line'[x]).cost)
    BY <1>1, <1>3, PopIsPaid
  <2> QED
    BY <2>2, <2>3 DEF IInv, PassedIsPaid
<1>4. ASSUME NEW r \in Request, RemoveRequest(r) PROVE IInv'
  <2>1. /\ TypeOK' /\ TurnsAreForWaiting'
        /\ Range(order') \subseteq Range(order)
        /\ \A x \in Range(order') :
             \/ overtaken'[x] = None
             \/ /\ overtaken'[x] = overtaken[x] /\ deficit'[x] = deficit[x]
                /\ Head(line'[x]) = Head(line[x])
        /\ \A x, u : Ahead(order', u, x) => Ahead(order, u, x)
    BY <1>1, <1>4, RemoveKeepsTurns
  <2>2. ASSUME NEW x \in Range(order'), NEW u \in Tenant
        PROVE  Paid(Passed(x, u)', deficit'[x], Head(line'[x]).cost)
    <3>1. x \in Range(order) /\ x \in Tenant
      BY <1>1, <2>1 DEF TurnsAreForWaiting
    <3>2. CASE overtaken'[x] = None
      BY <3>1, <3>2, ResetIsPaid
    <3>3. CASE /\ overtaken'[x] = overtaken[x] /\ deficit'[x] = deficit[x]
               /\ Head(line'[x]) = Head(line[x])
      BY <1>1, <2>1, <3>1, <3>3, KeptIsPaid
    <3> QED
      BY <2>1, <3>2, <3>3
  <2> QED
    BY <2>1, <2>2 DEF IInv, PassedIsPaid
<1>5. ASSUME Drain PROVE IInv'
  <2>1. /\ order' = <<>> /\ line' = [t \in Tenant |-> <<>>] /\ deficit' = None /\ size' = 0
        /\ overtaken' = [t \in Tenant |-> None]
    BY <1>5 DEF Drain
  <2>2. Range(order') = {} /\ <<>> \in Seq(Tenant) /\ <<>> \in Seq(Entry)
    BY <2>1 DEF Range
  <2>3. SumFunctionOnSet([t \in Tenant |-> Len(line'[t])], Range(order')) = 0
    BY <2>2, SumEmpty
  <2>4. TypeOK'
    BY <2>1, <2>2, <2>3, QueueAssumption DEF TypeOK, None
  <2>5. TurnsAreForWaiting'
    BY <2>1, <2>2 DEF TurnsAreForWaiting, None
  <2>6. PassedIsPaid'
    BY <2>2 DEF PassedIsPaid
  <2> QED
    BY <2>4, <2>5, <2>6 DEF IInv
<1>6. CASE UNCHANGED vars
  BY <1>1, <1>6 DEF vars, IInv, TypeOK, TurnsAreForWaiting, PassedIsPaid, Passed
<1> QED
  BY <1>2, <1>3, <1>4, <1>5, <1>6 DEF Next

(* A request that was passed at least once since it is covered by no visit   *)
(* can have been passed only in as many rounds as do not cover it.           *)
LEMMA PaidBoundsOvertaking == IInv => BoundedOvertaking
<1> SUFFICES ASSUME IInv, NEW t \in Range(order), NEW u \in Tenant
             PROVE  overtaken[t][u] <= Rounds(Head(line[t]).cost)
  BY DEF BoundedOvertaking
<1>1. TypeOK /\ TurnsAreForWaiting /\ Paid(Passed(t, u), deficit[t], Head(line[t]).cost)
  BY DEF IInv, PassedIsPaid
<1>2. Head(line[t]).cost \in Nat \ {0} /\ deficit[t] \in Nat /\ t \in Tenant
  BY <1>1, Waiting
<1>3. PICK cost \in Nat \ {0} : cost = Head(line[t]).cost
  BY <1>2
<1>4. /\ Rounds(cost) \in Nat \ {0}
      /\ \A k \in Nat : k * Quantum < cost => k < Rounds(cost)
  BY RoundsCover
<1>5. overtaken[t][u] \in Nat
  BY <1>1, <1>2 DEF TypeOK
<1>6. Passed(t, u) \in Int /\ overtaken[t][u] <= Passed(t, u) + 1
  BY <1>5 DEF Passed
<1>7. CASE Passed(t, u) >= 1
  <2>1. Passed(t, u) \in Nat
    BY <1>6, <1>7
  <2>2. Passed(t, u) * Quantum \in Nat
    BY <2>1, Multiples
  <2>3. Passed(t, u) * Quantum < cost
    BY <1>1, <1>2, <1>3, <1>7, <2>2 DEF Paid
  <2>4. Passed(t, u) < Rounds(cost)
    BY <1>4, <2>1, <2>3
  <2> QED
    BY <1>3, <1>4, <1>5, <1>6, <2>4
<1>8. CASE ~ (Passed(t, u) >= 1)
  BY <1>3, <1>4, <1>5, <1>6, <1>8
<1> QED
  BY <1>7, <1>8

----------------------------------------------------------------------------
(* The counter that both capacities are checked against is the number of     *)
(* waiting requests, in every state put(), pop(), remove() and drain() reach.*)
THEOREM TypeCorrect == Spec => []TypeOK
<1>1. IInv => TypeOK
  BY DEF IInv
<1> QED
  BY <1>1, InitialInvariant, InductiveStep, PTL DEF Spec

(* pop() finds a request at every turn, a tenant has one turn a round, and   *)
(* who waits for nothing has no deficit.                                     *)
THEOREM TurnsMatchLines == Spec => []TurnsAreForWaiting
<1>1. IInv => TurnsAreForWaiting
  BY DEF IInv
<1> QED
  BY <1>1, InitialInvariant, InductiveStep, PTL DEF Spec

(* No request at the head of its line sees another tenant served more than   *)
(* ceil(cost / quantum) times, for any costs, quantum and deficits.          *)
THEOREM OvertakingIsBounded == Spec => []BoundedOvertaking
  BY InitialInvariant, InductiveStep, PaidBoundsOvertaking, PTL DEF Spec
=============================================================================
