------------------------- MODULE SupportLists_proofs -------------------------
(***************************************************************************)
(* Theorems about the supporting components whose state is in an order:    *)
(* the lists of the wallet rotator and the pages of the queries.           *)
(***************************************************************************)
EXTENDS Support, Sequences, FiniteSetTheorems, SequenceTheorems, TLAPS

-----------------------------------------------------------------------------
\* Remainders

LEMMA Division ==
    ASSUME NEW a \in Nat, NEW n \in Nat \ {0}
    PROVE  a \div n \in Nat /\ a % n \in 0 .. n - 1 /\ a = (a \div n) * n + (a % n)
<1>1. a \div n \in Nat /\ a % n \in 0 .. n - 1
  OBVIOUS
<1>2. a % n = a - (a \div n) * n
  BY Z3T(60)
<1> QED
  BY <1>1, <1>2

LEMMA Remainder ==
    ASSUME NEW q \in Nat, NEW n \in Nat \ {0}, NEW j \in 0 .. n - 1
    PROVE  (q * n + j) % n = j
BY SMTT(60)

LEMMA RemainderOfSum ==
    ASSUME NEW a \in Nat, NEW n \in Nat \ {0}, NEW i \in 0 .. n
    PROVE  (a + i) % n = IF (a % n) + i < n THEN (a % n) + i ELSE (a % n) + i - n
<1> DEFINE q == a \div n
           k == a % n
<1>1. q \in Nat /\ k \in 0 .. n - 1 /\ a = q * n + k
  BY Division
<1> HIDE DEF q, k
<1>2. CASE k + i < n
  <2>1. k + i \in 0 .. n - 1 /\ a + i = q * n + (k + i)
    BY <1>1, <1>2
  <2>2. (q * n + (k + i)) % n = k + i
    BY <1>1, <2>1, Remainder
  <2> QED
    BY <1>2, <2>1, <2>2 DEF k
<1>3. CASE ~ k + i < n
  <2>1. k + i - n \in 0 .. n - 1 /\ q + 1 \in Nat
    BY <1>1, <1>3
  <2>2. (q + 1) * n = q * n + n
    BY <1>1
  <2>3. a + i = (q + 1) * n + (k + i - n)
    BY <1>1, <2>1, <2>2
  <2>4. ((q + 1) * n + (k + i - n)) % n = k + i - n
    BY <2>1, Remainder
  <2> QED
    BY <1>3, <2>3, <2>4 DEF k
<1> QED
  BY <1>2, <1>3

-----------------------------------------------------------------------------
\* WalletRotator: orders

\* Wallets one after the other, none of them twice, and all of those.
IsOrder(s, all) ==
    /\ s \in Seq(Members)
    /\ \A i, j \in DOMAIN s : s[i] = s[j] => i = j
    /\ \A w \in all : \E i \in DOMAIN s : s[i] = w

LEMMA RotatorConstants ==
    SupportAssumption => IsFiniteSet(Members) /\ IsFiniteSet(Rotators)
BY DEF SupportAssumption, Rotator!RotatorAssumption, Rotator!IsFiniteSet, IsFiniteSet

LEMMA ListsAsOrders ==
    ASSUME SupportAssumption
    PROVE  IsOrder(Rotator!SetToSeq(Members), Members)
<1> DEFINE n == Cardinality(Members)
           s == Rotator!SetToSeq(Members)
<1>1. n \in Nat /\ ExistsBijection(1 .. n, Members)
  BY RotatorConstants, FS_CardinalityType
<1>2. PICK f \in Bijection(1 .. n, Members) : TRUE
  BY <1>1 DEF ExistsBijection
<1>3. f \in [1 .. n -> Members] /\ \A a, b \in DOMAIN f : f[a] = f[b] => a = b
  BY DEF Bijection, Injection, IsInjective
<1>4. s = CHOOSE g \in [1 .. n -> Members] : \A a, b \in DOMAIN g : g[a] = g[b] => a = b
  BY DEF Rotator!SetToSeq, Rotator!Cardinality, Cardinality, Rotator!IsInjective
<1>5. s \in [1 .. n -> Members] /\ \A a, b \in DOMAIN s : s[a] = s[b] => a = b
  <2> HIDE DEF n, s
  <2> QED
    BY <1>3, <1>4
<1> HIDE DEF s
<1>6. s \in Injection(1 .. n, Members)
  BY <1>5 DEF Injection, IsInjective
<1>7. IsFiniteSet(1 .. n) /\ Cardinality(1 .. n) = n
  <2>1. 1 \in Int /\ n \in Int /\ (IF 1 > n THEN 0 ELSE n - 1 + 1) = n
    BY <1>1
  <2> HIDE DEF n
  <2> QED
    BY <2>1, FS_Interval
<1>8. s \in Surjection(1 .. n, Members)
  <2>1. IsFiniteSet(Members) /\ Cardinality(Members) = n
    BY RotatorConstants
  <2> HIDE DEF n
  <2> QED
    BY <1>6, <1>7, <2>1, FS_Injection
<1>9. \A w \in Members : \E i \in 1 .. n : s[i] = w
  BY <1>8 DEF Surjection
<1>10. s \in Seq(Members)
  BY <1>1, <1>5
<1> HIDE DEF n
<1> QED
  BY <1>5, <1>9, <1>10 DEF IsOrder, s

\* A permutation of an order is one.
LEMMA Permuted ==
    ASSUME SupportAssumption, NEW list, NEW all, IsOrder(list, all),
           NEW s \in Rotator!SetToSeqs(Rotator!ToSet(list))
    PROVE  IsOrder(s, all)
<1> DEFINE S == {list[i] : i \in DOMAIN list}
           n == Cardinality(S)
<1>1. S \subseteq Members /\ IsFiniteSet(S) /\ n \in Nat
  <2>1. S \in SUBSET Members
    BY DEF IsOrder
  <2> QED
    BY <2>1, RotatorConstants, FS_Subset, FS_CardinalityType
<1>2. s \in {f \in [1 .. n -> S] : \A i, j \in 1 .. n : i # j => f[i] # f[j]}
  BY DEF Rotator!SetToSeqs, Rotator!ToSet, Rotator!Cardinality, Cardinality
<1>3. s \in [1 .. n -> S] /\ \A i, j \in DOMAIN s : s[i] = s[j] => i = j
  <2> HIDE DEF n, S
  <2> QED
    BY <1>2
<1>4. IsFiniteSet(1 .. n) /\ Cardinality(1 .. n) = n
  <2>1. 1 \in Int /\ n \in Int /\ (IF 1 > n THEN 0 ELSE n - 1 + 1) = n
    BY <1>1
  <2> HIDE DEF n
  <2> QED
    BY <2>1, FS_Interval
<1>5. Cardinality(S) = n
  OBVIOUS
<1>6. \A w \in all : w \in S
  BY DEF IsOrder
<1> HIDE DEF n, S
<1>7. s \in Surjection(1 .. n, S)
  <2>1. s \in Injection(1 .. n, S)
    BY <1>3 DEF Injection, IsInjective
  <2> QED
    BY <1>1, <1>4, <1>5, <2>1, FS_Injection
<1>8. \A w \in S : \E i \in 1 .. n : s[i] = w
  BY <1>7 DEF Surjection
<1>9. s \in Seq(Members)
  BY <1>1, <1>3
<1> QED
  BY <1>3, <1>6, <1>8, <1>9 DEF IsOrder

\* The order from the index on, which is the order itself after whole turns.
LEMMA TurnedOrder ==
    ASSUME NEW list, NEW all, IsOrder(list, all), rotation_index \in Nat
    PROVE  /\ IsOrder(Rotator!FromIndex(list), all)
           /\ Len(list) > 0 /\ rotation_index % Len(list) = 0 => Rotator!FromIndex(list) = list
<1> DEFINE n == Len(list)
           x == rotation_index
           s == Rotator!FromIndex(list)
<1>1. n \in Nat /\ DOMAIN list = 1 .. n /\ \A i \in 1 .. n : list[i] \in Members
  BY DEF IsOrder
<1>2. s = [i \in 1 .. n |-> list[((x + i - 1) % n) + 1]]
  BY <1>1 DEF Rotator!FromIndex
<1>3. ASSUME NEW i \in 1 .. n
      PROVE  /\ n \in Nat \ {0} /\ i - 1 \in 0 .. n /\ x + i - 1 = x + (i - 1)
             /\ x % n \in 0 .. n - 1
             /\ (x + i - 1) % n = IF (x % n) + (i - 1) < n THEN (x % n) + (i - 1)
                                  ELSE (x % n) + (i - 1) - n
             /\ ((x + i - 1) % n) + 1 \in 1 .. n
  <2>1. n \in Nat \ {0} /\ i - 1 \in 0 .. n /\ x + i - 1 = x + (i - 1) /\ x \in Nat
    BY <1>1
  <2> HIDE DEF n, x
  <2>2. x % n \in 0 .. n - 1
    BY <2>1, Division
  <2>3. (x + (i - 1)) % n = IF (x % n) + (i - 1) < n THEN (x % n) + (i - 1)
                             ELSE (x % n) + (i - 1) - n
    BY <2>1, RemainderOfSum
  <2> QED
    BY <2>1, <2>2, <2>3
<1> HIDE DEF s, x
<1>4. DOMAIN s = 1 .. n /\ s \in Seq(Members)
  <2>1. s \in [1 .. n -> Members]
    BY <1>1, <1>2, <1>3
  <2> QED
    BY <1>1, <2>1
<1>5. \A i, j \in 1 .. n : s[i] = s[j] => i = j
  <2> SUFFICES ASSUME NEW i \in 1 .. n, NEW j \in 1 .. n, s[i] = s[j] PROVE i = j
    OBVIOUS
  <2>1. ((x + i - 1) % n) + 1 = ((x + j - 1) % n) + 1
    BY <1>1, <1>2, <1>3 DEF IsOrder
  <2> HIDE DEF n
  <2>2. (x + i - 1) % n = (x + j - 1) % n
    BY <1>3, <2>1
  <2> QED
    BY <1>1, <1>3, <2>2
<1>6. \A w \in all : \E i \in 1 .. n : s[i] = w
  <2> SUFFICES ASSUME NEW w \in all PROVE \E i \in 1 .. n : s[i] = w
    OBVIOUS
  <2>1. PICK k \in 1 .. n : list[k] = w
    BY <1>1 DEF IsOrder
  <2>2. n \in Nat \ {0} /\ x % n \in 0 .. n - 1
    BY <1>3, <2>1
  <2> HIDE DEF n
  <2> DEFINE i == IF k > x % n THEN k - (x % n) ELSE k - (x % n) + n
  <2>3. i \in 1 .. n
    BY <2>2
  <2>4. ((x + i - 1) % n) + 1 = k
    BY <1>3, <2>2, <2>3
  <2>5. s[i] = w
    BY <1>2, <2>1, <2>3, <2>4
  <2> QED
    BY <2>3, <2>5
<1>7. IsOrder(s, all)
  BY <1>4, <1>5, <1>6 DEF IsOrder
<1>8. ASSUME x % n = 0 PROVE s = list
  <2>1. \A i \in 1 .. n : ((x + i - 1) % n) + 1 = i
    <3> HIDE DEF n
    <3> QED
      BY <1>1, <1>3, <1>8
  <2>2. \A i \in 1 .. n : s[i] = list[i]
    BY <1>2, <2>1
  <2>3. list = [i \in 1 .. n |-> list[i]]
    BY <1>1 DEF IsOrder
  <2> QED
    BY <1>2, <2>2, <2>3
<1> QED
  BY <1>7, <1>8 DEF s, x

-----------------------------------------------------------------------------
\* WalletRotator: the invariant

Unmoved == Members \ moved

Orderly(r) == job[r].at # "idle" => IsOrder(job[r].order, Unmoved)

Todo(r) ==
    job[r].at \in {"counting", "recounting"} =>
        /\ job[r].todo \in Seq(Members)
        /\ \A i, j \in DOMAIN job[r].todo : job[r].todo[i] = job[r].todo[j] => i = j

\* The rotations that have still to count the wallet.
Awaits(w, r) ==
    job[r].at \in {"counting", "recounting"} /\ \E i \in DOMAIN job[r].todo : job[r].todo[i] = w

Awaiting(w) == {r \in Rotators : Awaits(w, r)}

JobType ==
    {Rotator!NoJob}
    \cup [at : {"ordering"}, passes : {1, 2}, order : Seq(Members)]
    \cup [at : {"counting", "recounting"}, passes : {1, 2}, order : Seq(Members), todo : Seq(Members)]

RotatorTypes ==
    /\ strategy \in {"RoundRobin", "LeastUsed", "Random"}
    /\ IsOrder(listed, Unmoved)
    /\ rotation_index \in Nat
    /\ total_rotations \in [Members -> Nat]
    /\ job \in [Rotators -> JobType]
    /\ \A r \in Rotators : Orderly(r) /\ Todo(r)
    /\ moved \subseteq Members

\* What has been counted and what is still to be, together, is the same of all.
Balanced ==
    \A v, w \in Unmoved :
        total_rotations[v] + Cardinality(Awaiting(v)) = total_rotations[w] + Cardinality(Awaiting(w))

\* Round robin has made whole turns, of the one list there was.
WholeTurns ==
    strategy = "RoundRobin" /\ moved = {} =>
        /\ Len(listed) > 0 => rotation_index % Len(listed) = 0
        /\ \A r \in Rotators : job[r].at # "idle" => job[r].order = listed

RotatorInv == RotatorTypes /\ Balanced /\ WholeTurns

LEMMA RotatorStart == SupportAssumption /\ Rotator!Init => RotatorInv
<1> SUFFICES ASSUME SupportAssumption, Rotator!Init PROVE RotatorInv
  OBVIOUS
<1> USE DEF Rotator!Init
<1>1. IsOrder(listed, Unmoved)
  BY ListsAsOrders DEF Unmoved
<1>2. \A r \in Rotators : job[r] = Rotator!NoJob /\ job[r].at = "idle"
  BY DEF Rotator!NoJob
<1>3. RotatorTypes
  BY <1>1, <1>2 DEF RotatorTypes, JobType, Orderly, Todo
<1>4. \A w \in Members : Awaiting(w) = {} /\ total_rotations[w] = 0
  BY <1>2 DEF Awaiting, Awaits
<1>5. Balanced
  BY <1>4 DEF Balanced, Unmoved
<1>6. Len(listed) > 0 => rotation_index % Len(listed) = 0
  <2>1. Len(listed) \in Nat
    BY <1>1 DEF IsOrder
  <2>2. \A n \in Nat : n > 0 => 0 % n = 0
    OBVIOUS
  <2> QED
    BY <2>1, <2>2
<1> QED
  BY <1>2, <1>3, <1>5, <1>6 DEF RotatorInv, WholeTurns

\* The same wallets or fewer to compare, each with one more in all or none.
LEMMA StaysBalanced ==
    ASSUME SupportAssumption, RotatorInv, NEW one \in {0, 1}, Unmoved' \subseteq Unmoved,
           \A w \in Unmoved' : total_rotations'[w] + Cardinality(Awaiting(w)')
                                = total_rotations[w] + Cardinality(Awaiting(w)) + one
    PROVE  Balanced'
BY DEF RotatorInv, Balanced

LEMMA AwaitingType ==
    ASSUME SupportAssumption, NEW w
    PROVE  IsFiniteSet(Awaiting(w)) /\ Cardinality(Awaiting(w)) \in Nat
           /\ IsFiniteSet(Rotator!Busy) /\ Cardinality(Rotator!Busy) \in Nat
           /\ Cardinality(Awaiting(w)) <= Cardinality(Rotator!Busy)
<1>1. IsFiniteSet(Rotator!Busy) /\ Awaiting(w) \in SUBSET Rotator!Busy
  BY RotatorConstants, FS_Subset DEF Rotator!Busy, Awaiting, Awaits
<1>2. IsFiniteSet(Awaiting(w)) /\ Cardinality(Awaiting(w)) <= Cardinality(Rotator!Busy)
  BY <1>1, FS_Subset
<1> QED
  BY <1>1, <1>2, FS_CardinalityType

\* A rotation whose order is complete awaits all that have not moved.
LEMMA StartsToCount ==
    ASSUME SupportAssumption, RotatorInv, NEW r \in Rotators,
           UNCHANGED <<moved, total_rotations>>,
           \A s \in Rotators \ {r} : job'[s] = job[s],
           \A w \in Unmoved : ~ Awaits(w, r) /\ Awaits(w, r)'
    PROVE  Balanced'
<1>1. Unmoved' = Unmoved
  BY DEF Unmoved
<1>2. ASSUME NEW w \in Unmoved
      PROVE  total_rotations'[w] + Cardinality(Awaiting(w)')
                = total_rotations[w] + Cardinality(Awaiting(w)) + 1
  <2>1. Awaiting(w)' = Awaiting(w) \cup {r} /\ r \notin Awaiting(w)
    BY DEF Awaiting, Awaits
  <2>2. Cardinality(Awaiting(w)') = Cardinality(Awaiting(w)) + 1
    BY <2>1, AwaitingType, FS_AddElement
  <2>3. total_rotations[w] \in Nat /\ Cardinality(Awaiting(w)) \in Nat
    BY AwaitingType DEF RotatorInv, RotatorTypes, Unmoved
  <2> QED
    BY <2>2, <2>3
<1> QED
  BY <1>1, <1>2, StaysBalanced

\* Nothing counted, nobody awaited more or less.
LEMMA CountsNothing ==
    ASSUME SupportAssumption, RotatorInv, Unmoved' \subseteq Unmoved, UNCHANGED total_rotations,
           \A r \in Rotators, w \in Unmoved' : Awaits(w, r)' <=> Awaits(w, r)
    PROVE  Balanced'
<1>1. ASSUME NEW w \in Unmoved'
      PROVE  total_rotations'[w] + Cardinality(Awaiting(w)')
                = total_rotations[w] + Cardinality(Awaiting(w)) + 0
  <2>1. Awaiting(w)' = Awaiting(w)
    BY DEF Awaiting
  <2>2. total_rotations[w] \in Nat /\ Cardinality(Awaiting(w)) \in Nat
    BY AwaitingType DEF RotatorInv, RotatorTypes, Unmoved
  <2> QED
    BY <2>1, <2>2
<1> QED
  BY <1>1, StaysBalanced

LEMMA RemovedOrder ==
    ASSUME NEW s, NEW all, IsOrder(s, all), NEW i \in DOMAIN s
    PROVE  IsOrder(Rotator!RemoveAt(s, i), all \ {s[i]})
<1> DEFINE n == Len(s)
           t == Rotator!RemoveAt(s, i)
<1>1. n \in Nat /\ i \in 1 .. n /\ DOMAIN s = 1 .. n /\ s \in Seq(Members)
      /\ \A j \in 1 .. n : s[j] \in Members
  BY DEF IsOrder
<1>2. SubSeq(s, 1, i - 1) \in Seq(Members) /\ Len(SubSeq(s, 1, i - 1)) = i - 1
      /\ \A j \in 1 .. i - 1 : SubSeq(s, 1, i - 1)[j] = s[j]
  BY <1>1
<1>3. SubSeq(s, i + 1, n) \in Seq(Members) /\ Len(SubSeq(s, i + 1, n)) = n - i
      /\ \A j \in 1 .. n - i : SubSeq(s, i + 1, n)[j] = s[i + j]
  <2> DEFINE m == i + 1
             b == SubSeq(s, m, n)
  <2>1. m \in Int /\ n \in Int /\ \A j \in m .. n : s[j] \in Members
    BY <1>1
  <2>2. (IF m <= n THEN n - m + 1 ELSE 0) = n - i /\ n - m + 1 = n - i
    BY <1>1
  <2>3. \A j \in 1 .. n - i : m + j - 1 = i + j
    BY <1>1
  <2> HIDE DEF m, n
  <2>4. /\ SubSeq(s, m, n) \in Seq(Members)
        /\ Len(SubSeq(s, m, n)) = IF m <= n THEN n - m + 1 ELSE 0
        /\ \A j \in 1 .. n - m + 1 : SubSeq(s, m, n)[j] = s[m + j - 1]
    BY <2>1, SubSeqProperties
  <2>5. b \in Seq(Members) /\ Len(b) = n - i /\ \A j \in 1 .. n - i : b[j] = s[i + j]
    BY <2>2, <2>3, <2>4
  <2> QED
    BY <2>5 DEF m, n
<1>4. t = SubSeq(s, 1, i - 1) \o SubSeq(s, i + 1, n)
  BY DEF Rotator!RemoveAt
<1> HIDE DEF t, n
<1>5. t \in Seq(Members) /\ Len(t) = n - 1
      /\ \A j \in 1 .. n - 1 : t[j] = IF j < i THEN s[j] ELSE s[j + 1]
  <2> DEFINE a == SubSeq(s, 1, i - 1)
             b == SubSeq(s, i + 1, n)
  <2>1. /\ a \in Seq(Members) /\ Len(a) = i - 1 /\ \A j \in 1 .. i - 1 : a[j] = s[j]
        /\ b \in Seq(Members) /\ Len(b) = n - i /\ \A j \in 1 .. n - i : b[j] = s[i + j]
        /\ t = a \o b
    BY <1>2, <1>3, <1>4
  <2> HIDE DEF a, b
  <2>2. /\ t \in Seq(Members) /\ Len(t) = Len(a) + Len(b)
        /\ \A j \in 1 .. Len(a) + Len(b) : t[j] = IF j <= Len(a) THEN a[j] ELSE b[j - Len(a)]
    BY <2>1, ConcatProperties
  <2>3. Len(a) + Len(b) = n - 1
    BY <1>1, <2>1
  <2>4. ASSUME NEW j \in 1 .. n - 1 PROVE t[j] = IF j < i THEN s[j] ELSE s[j + 1]
    <3>1. CASE j < i
      <4>1. j <= Len(a) /\ j \in 1 .. i - 1 /\ j \in 1 .. Len(a) + Len(b)
        BY <1>1, <2>1, <2>3, <3>1
      <4> QED
        BY <2>1, <2>2, <3>1, <4>1
    <3>2. CASE ~ j < i
      <4>1. ~ j <= Len(a) /\ j - Len(a) \in 1 .. n - i /\ j \in 1 .. Len(a) + Len(b)
            /\ i + (j - Len(a)) = j + 1
        BY <1>1, <2>1, <2>3, <3>2
      <4> QED
        BY <2>1, <2>2, <3>2, <4>1
    <3> QED
      BY <3>1, <3>2
  <2> QED
    BY <2>2, <2>3, <2>4
<1>6. \A j, k \in DOMAIN t : t[j] = t[k] => j = k
  <2> SUFFICES ASSUME NEW j \in 1 .. n - 1, NEW k \in 1 .. n - 1, t[j] = t[k] PROVE j = k
    BY <1>5
  <2> DEFINE at(m) == IF m < i THEN m ELSE m + 1
  <2>1. at(j) \in 1 .. n /\ at(k) \in 1 .. n /\ (at(j) = at(k) => j = k)
    BY <1>1
  <2>2. t[j] = s[at(j)] /\ t[k] = s[at(k)]
    BY <1>5
  <2> HIDE DEF at
  <2> QED
    BY <1>1, <2>1, <2>2 DEF IsOrder
<1>7. \A w \in all \ {s[i]} : \E j \in DOMAIN t : t[j] = w
  <2> SUFFICES ASSUME NEW w \in all \ {s[i]} PROVE \E j \in 1 .. n - 1 : t[j] = w
    BY <1>5
  <2>1. PICK k \in 1 .. n : s[k] = w
    BY <1>1 DEF IsOrder
  <2>2. CASE k < i
    BY <1>1, <1>5, <2>1, <2>2
  <2>3. CASE ~ k < i
    <3>1. k - 1 \in 1 .. n - 1 /\ ~ k - 1 < i /\ k - 1 + 1 = k
      BY <1>1, <2>1, <2>3
    <3> QED
      BY <1>5, <2>1, <3>1
  <2> QED
    BY <2>2, <2>3
<1> QED
  BY <1>5, <1>6, <1>7 DEF IsOrder, t

LEMMA AddedToOrder ==
    ASSUME NEW s, NEW all, IsOrder(s, all), NEW w \in Members, \A i \in DOMAIN s : s[i] # w
    PROVE  IsOrder(Append(s, w), all)
BY DEF IsOrder

LEMMA RestOfOrder ==
    ASSUME NEW s \in Seq(Members), \A i, j \in DOMAIN s : s[i] = s[j] => i = j, s # << >>
    PROVE  /\ Head(s) \in Members /\ Tail(s) \in Seq(Members)
           /\ \A i, j \in DOMAIN Tail(s) : Tail(s)[i] = Tail(s)[j] => i = j
           /\ \A w : (\E i \in DOMAIN Tail(s) : Tail(s)[i] = w)
                        <=> w # Head(s) /\ \E i \in DOMAIN s : s[i] = w
<1>1. Head(s) = s[1] /\ Len(s) \in Nat /\ Len(s) > 0 /\ DOMAIN s = 1 .. Len(s)
      /\ Tail(s) \in Seq(Members) /\ DOMAIN Tail(s) = 1 .. Len(s) - 1
      /\ \A i \in 1 .. Len(s) - 1 : Tail(s)[i] = s[i + 1]
  OBVIOUS
<1>2. \A i, j \in DOMAIN Tail(s) : Tail(s)[i] = Tail(s)[j] => i = j
  BY <1>1
<1>3. ASSUME NEW i \in DOMAIN Tail(s)
      PROVE  Tail(s)[i] # Head(s) /\ \E j \in DOMAIN s : s[j] = Tail(s)[i]
  BY <1>1
<1>4. ASSUME NEW j \in DOMAIN s, s[j] # Head(s) PROVE \E i \in DOMAIN Tail(s) : Tail(s)[i] = s[j]
  <2>1. j - 1 \in DOMAIN Tail(s) /\ j - 1 + 1 = j
    BY <1>1, <1>4
  <2> QED
    BY <1>1, <2>1
<1>5. \A w : (\E i \in DOMAIN Tail(s) : Tail(s)[i] = w)
                <=> w # Head(s) /\ \E i \in DOMAIN s : s[i] = w
  BY <1>3, <1>4
<1>6. Head(s) \in Members
  BY <1>1
<1> QED
  BY <1>1, <1>2, <1>5, <1>6

\* A step of the world, which may take a wallet away from those that stayed.
LEMMA WorldKeeps ==
    ASSUME SupportAssumption, RotatorInv,
           UNCHANGED <<strategy, rotation_index, total_rotations, job>>,
           moved \subseteq moved', moved' \subseteq Members, IsOrder(listed, Unmoved)',
           moved' = {} => listed' = listed
    PROVE  RotatorInv'
<1> USE DEF RotatorInv
<1>1. Unmoved' \subseteq Unmoved
  BY DEF Unmoved
<1>2. RotatorTypes'
  <2>1. \A r \in Rotators : Orderly(r)' /\ Todo(r)'
    BY <1>1 DEF RotatorTypes, Orderly, Todo, IsOrder
  <2> QED
    BY <2>1 DEF RotatorTypes
<1>3. \A r \in Rotators, w \in Unmoved' : Awaits(w, r)' <=> Awaits(w, r)
  BY DEF Awaits
<1>4. Balanced'
  BY <1>1, <1>3, CountsNothing
<1>5. WholeTurns'
  BY DEF WholeTurns
<1> QED
  BY <1>2, <1>4, <1>5

\* A step of one rotation.
LEMMA RotationKeeps ==
    ASSUME SupportAssumption, RotatorInv, NEW r \in Rotators, NEW to \in JobType,
           Rotator!Steps(r, to), rotation_index' \in Nat, total_rotations' \in [Members -> Nat],
           to.at # "idle" => IsOrder(to.order, Unmoved),
           to.at \in {"counting", "recounting"} =>
                \A i, j \in DOMAIN to.todo : to.todo[i] = to.todo[j] => i = j,
           strategy = "RoundRobin" /\ moved = {} =>
                /\ Len(listed) > 0 => rotation_index' % Len(listed) = 0
                /\ to.at # "idle" => to.order = listed,
           Balanced'
    PROVE  RotatorInv'
<1> USE DEF RotatorInv
<1>1. /\ job' \in [Rotators -> JobType] /\ job'[r] = to
      /\ \A s \in Rotators \ {r} : job'[s] = job[s]
      /\ UNCHANGED <<strategy, listed, moved>> /\ Unmoved' = Unmoved
  BY DEF Rotator!Steps, RotatorTypes, Unmoved
<1>2. to.at \in {"counting", "recounting"} => to.todo \in Seq(Members)
  BY DEF JobType, Rotator!NoJob
<1>3. \A s \in Rotators : Orderly(s)' /\ Todo(s)'
  BY <1>1, <1>2 DEF RotatorTypes, Orderly, Todo
<1>4. IsOrder(listed, Unmoved)'
  BY <1>1 DEF RotatorTypes, IsOrder
<1>5. RotatorTypes'
  BY <1>1, <1>3, <1>4 DEF RotatorTypes
<1>6. WholeTurns'
  BY <1>1 DEF WholeTurns
<1> QED
  BY <1>5, <1>6

LEMMA JobTypes ==
    ASSUME RotatorTypes, NEW r \in Rotators
    PROVE  /\ job[r].at \in {"idle", "ordering", "counting", "recounting"}
           /\ job[r].at = "ordering" =>
                job[r] \in [at : {"ordering"}, passes : {1, 2}, order : Seq(Members)]
           /\ job[r].at \in {"counting", "recounting"} =>
                job[r] \in [at : {"counting", "recounting"}, passes : {1, 2}, order : Seq(Members),
                            todo : Seq(Members)]
<1>1. job[r] \in JobType
  BY DEF RotatorTypes
<1> QED
  BY <1>1 DEF JobType, Rotator!NoJob

LEMMA CopyKeeps ==
    ASSUME SupportAssumption, RotatorInv, NEW r \in Rotators, NEW passes \in {1, 2},
           Rotator!Copy(r, passes)
    PROVE  RotatorInv'
<1>1. RotatorTypes /\ IsOrder(listed, Unmoved)
  BY DEF RotatorInv, RotatorTypes
<1>2. PICK order \in Rotator!Orders(listed) :
        Rotator!Steps(r, [at |-> "ordering", passes |-> passes, order |-> order])
  BY DEF Rotator!Copy
<1> DEFINE to == [at |-> "ordering", passes |-> passes, order |-> order]
<1>3. IsOrder(order, Unmoved) /\ (strategy = "RoundRobin" => order = listed)
  <2>1. CASE strategy = "RoundRobin"
    BY <1>1, <2>1 DEF Rotator!Orders
  <2>2. CASE strategy = "LeastUsed"
    BY <1>1, <2>2, Permuted DEF Rotator!Orders, Rotator!Sorted
  <2>3. CASE strategy = "Random"
    BY <1>1, <2>3, Permuted DEF Rotator!Orders
  <2> QED
    BY <1>1, <2>1, <2>2, <2>3 DEF RotatorTypes
<1>4. to \in JobType /\ to.at = "ordering" /\ to.order = order
  BY <1>3 DEF JobType, IsOrder
<1>5. job[r].at = "idle" /\ UNCHANGED <<rotation_index, total_rotations>>
      /\ Rotator!Steps(r, to)
  BY <1>2 DEF Rotator!Copy
<1> HIDE DEF to
<1>6. /\ Unmoved' = Unmoved /\ job'[r] = to /\ \A s \in Rotators \ {r} : job'[s] = job[s]
  BY <1>1, <1>5 DEF Rotator!Steps, RotatorTypes, Unmoved
<1>7. \A s \in Rotators, w \in Unmoved' : Awaits(w, s)' <=> Awaits(w, s)
  BY <1>4, <1>5, <1>6 DEF Awaits
<1>8. Balanced'
  BY <1>5, <1>6, <1>7, CountsNothing
<1>9. strategy = "RoundRobin" /\ moved = {} =>
        /\ Len(listed) > 0 => rotation_index' % Len(listed) = 0
        /\ to.order = listed
  BY <1>3, <1>4, <1>5 DEF RotatorInv, WholeTurns
<1>10. rotation_index' \in Nat /\ total_rotations' \in [Members -> Nat]
  BY <1>1, <1>5 DEF RotatorTypes
<1> QED
  BY <1>3, <1>4, <1>5, <1>8, <1>9, <1>10, RotationKeeps

LEMMA TurnKeeps ==
    ASSUME SupportAssumption, RotatorInv, NEW r \in Rotators, Rotator!Turn(r)
    PROVE  RotatorInv'
<1> DEFINE list == job[r].order
           order == IF strategy = "RoundRobin" THEN Rotator!FromIndex(list) ELSE list
           to == [at |-> "counting", passes |-> job[r].passes, order |-> order, todo |-> order]
<1>1. RotatorTypes /\ WholeTurns /\ rotation_index \in Nat
      /\ total_rotations \in [Members -> Nat]
  BY DEF RotatorInv, RotatorTypes
<1>2. /\ job[r].at = "ordering" /\ job[r].passes \in {1, 2} /\ IsOrder(list, Unmoved)
      /\ Len(list) \in Nat
  BY <1>1, JobTypes DEF Rotator!Turn, RotatorTypes, Orderly, IsOrder
<1>3. /\ Rotator!Steps(r, to) /\ UNCHANGED total_rotations
      /\ rotation_index' = IF strategy = "RoundRobin" THEN rotation_index + Len(list)
                           ELSE rotation_index
  BY DEF Rotator!Turn, Rotator!Rotated, Rotator!Advance
<1>4. IsOrder(order, Unmoved)
  BY <1>1, <1>2, TurnedOrder
<1>5. strategy = "RoundRobin" /\ moved = {} =>
        /\ Len(listed) > 0 => rotation_index' % Len(listed) = 0
        /\ order = listed
  <2> SUFFICES ASSUME strategy = "RoundRobin", moved = {}
               PROVE  /\ Len(listed) > 0 => rotation_index' % Len(listed) = 0
                      /\ order = listed
    OBVIOUS
  <2>1. list = listed /\ (Len(list) > 0 => rotation_index % Len(list) = 0)
    BY <1>1, <1>2 DEF WholeTurns
  <2>2. CASE Len(list) > 0
    <3>1. order = list
      BY <1>1, <1>2, <2>1, <2>2, TurnedOrder
    <3>2. (rotation_index + Len(list)) % Len(list) = 0
      <4> DEFINE n == Len(list)
      <4>1. n \in Nat \ {0} /\ n \in 0 .. n /\ rotation_index % n = 0
        BY <1>2, <2>1, <2>2
      <4> HIDE DEF n
      <4>2. (rotation_index + n) % n = IF (rotation_index % n) + n < n
                                       THEN (rotation_index % n) + n ELSE (rotation_index % n) + n - n
        BY <1>1, <4>1, RemainderOfSum
      <4>3. (rotation_index + n) % n = 0
        BY <4>1, <4>2
      <4> QED
        BY <4>3 DEF n
    <3> QED
      BY <1>3, <2>1, <3>1, <3>2
  <2>3. CASE ~ Len(list) > 0
    <3>1. DOMAIN list = {} /\ DOMAIN order = {} /\ list \in Seq(Members) /\ order \in Seq(Members)
      BY <1>2, <1>4, <2>3 DEF IsOrder, Rotator!FromIndex
    <3>2. order = list
      <4> HIDE DEF order, list
      <4>1. order = << >> /\ list = << >>
        BY <3>1
      <4> QED
        BY <4>1
    <3> QED
      BY <2>1, <2>3, <3>2
  <2> QED
    BY <2>2, <2>3
<1>6. rotation_index' \in Nat
  BY <1>1, <1>2, <1>3
<1> HIDE DEF order, list
<1>7. to \in JobType /\ to.at = "counting" /\ to.order = order /\ to.todo = order
  BY <1>2, <1>4 DEF JobType, IsOrder
<1> HIDE DEF to
<1>8. /\ Unmoved' = Unmoved /\ moved' = moved /\ job'[r] = to
      /\ \A s \in Rotators \ {r} : job'[s] = job[s]
  BY <1>1, <1>3 DEF Rotator!Steps, RotatorTypes, Unmoved
<1>9. \A w \in Unmoved : ~ Awaits(w, r) /\ Awaits(w, r)'
  BY <1>2, <1>4, <1>7, <1>8 DEF Awaits, IsOrder
<1>10. Balanced'
  BY <1>3, <1>8, <1>9, StartsToCount
<1>11. \A i, j \in DOMAIN to.todo : to.todo[i] = to.todo[j] => i = j
  BY <1>4, <1>7 DEF IsOrder
<1> QED
  BY <1>1, <1>3, <1>4, <1>5, <1>6, <1>7, <1>10, <1>11, RotationKeeps

LEMMA CountKeeps ==
    ASSUME SupportAssumption, RotatorInv, NEW r \in Rotators, Rotator!Count(r)
    PROVE  RotatorInv'
<1> DEFINE w0 == Head(job[r].todo)
           to == [job[r] EXCEPT !.todo = Tail(@)]
<1>1. RotatorTypes /\ WholeTurns /\ total_rotations \in [Members -> Nat] /\ rotation_index \in Nat
  BY DEF RotatorInv, RotatorTypes
<1>2. /\ job[r].at \in {"counting", "recounting"} /\ job[r].todo # << >>
      /\ total_rotations' = [total_rotations EXCEPT ![w0] = @ + 1]
      /\ Rotator!Steps(r, to) /\ UNCHANGED rotation_index
  BY DEF Rotator!Count
<1>3. /\ job[r] \in [at : {"counting", "recounting"}, passes : {1, 2}, order : Seq(Members),
                     todo : Seq(Members)]
      /\ IsOrder(job[r].order, Unmoved)
      /\ \A i, j \in DOMAIN job[r].todo : job[r].todo[i] = job[r].todo[j] => i = j
  BY <1>1, <1>2, JobTypes DEF RotatorTypes, Orderly, Todo
<1>4. /\ w0 \in Members /\ Tail(job[r].todo) \in Seq(Members)
      /\ \A i, j \in DOMAIN Tail(job[r].todo) :
            Tail(job[r].todo)[i] = Tail(job[r].todo)[j] => i = j
      /\ \A w : (\E i \in DOMAIN Tail(job[r].todo) : Tail(job[r].todo)[i] = w)
                    <=> w # w0 /\ \E i \in DOMAIN job[r].todo : job[r].todo[i] = w
  <2> DEFINE s == job[r].todo
  <2>1. s \in Seq(Members) /\ s # << >> /\ \A i, j \in DOMAIN s : s[i] = s[j] => i = j
    BY <1>2, <1>3
  <2> HIDE DEF s
  <2>2. /\ Head(s) \in Members /\ Tail(s) \in Seq(Members)
        /\ \A i, j \in DOMAIN Tail(s) : Tail(s)[i] = Tail(s)[j] => i = j
        /\ \A w : (\E i \in DOMAIN Tail(s) : Tail(s)[i] = w)
                    <=> w # Head(s) /\ \E i \in DOMAIN s : s[i] = w
    BY <2>1, RestOfOrder
  <2> QED
    BY <2>2 DEF s
<1>5. /\ to \in JobType /\ to.at = job[r].at /\ to.order = job[r].order
      /\ to.todo = Tail(job[r].todo)
  BY <1>3, <1>4 DEF JobType
<1>6. \E i \in DOMAIN job[r].todo : job[r].todo[i] = w0
  BY <1>2, <1>3
<1> HIDE DEF to, w0
<1>7. /\ Unmoved' = Unmoved /\ job'[r] = to /\ \A s \in Rotators \ {r} : job'[s] = job[s]
      /\ UNCHANGED <<strategy, listed, moved>>
  BY <1>1, <1>2 DEF Rotator!Steps, RotatorTypes, Unmoved
<1>8. \A w \in Members : Awaits(w, r)' <=> w # w0 /\ Awaits(w, r)
  <2>1. job'[r].at \in {"counting", "recounting"} /\ job'[r].todo = Tail(job[r].todo)
    BY <1>2, <1>5, <1>7
  <2>2. \A w : (\E i \in DOMAIN Tail(job[r].todo) : Tail(job[r].todo)[i] = w)
                 <=> w # w0 /\ \E i \in DOMAIN job[r].todo : job[r].todo[i] = w
    BY <1>4
  <2>3. \A w : Awaits(w, r)' <=> \E i \in DOMAIN Tail(job[r].todo) : Tail(job[r].todo)[i] = w
    BY <2>1 DEF Awaits
  <2>4. \A w : Awaits(w, r) <=> \E i \in DOMAIN job[r].todo : job[r].todo[i] = w
    BY <1>2 DEF Awaits
  <2> QED
    BY <2>2, <2>3, <2>4
<1>9. Awaits(w0, r)
  BY <1>2, <1>6 DEF Awaits
<1>10. ASSUME NEW w \in Members
       PROVE  total_rotations'[w] + Cardinality(Awaiting(w)')
                = total_rotations[w] + Cardinality(Awaiting(w)) + 0
  <2>1. total_rotations[w] \in Nat /\ Cardinality(Awaiting(w)) \in Nat /\ IsFiniteSet(Awaiting(w))
    BY <1>1, AwaitingType
  <2>2. CASE w = w0
    <3>1. Awaiting(w)' = Awaiting(w) \ {r} /\ r \in Awaiting(w)
      BY <1>7, <1>8, <1>9, <2>2 DEF Awaiting, Awaits
    <3>2. Cardinality(Awaiting(w)') = Cardinality(Awaiting(w)) - 1
      BY <2>1, <3>1, FS_RemoveElement
    <3>3. total_rotations'[w] = total_rotations[w] + 1
      BY <1>1, <1>2, <2>2
    <3> QED
      BY <2>1, <3>2, <3>3
  <2>3. CASE w # w0
    <3>1. Awaiting(w)' = Awaiting(w)
      BY <1>7, <1>8, <2>3 DEF Awaiting, Awaits
    <3>2. total_rotations'[w] = total_rotations[w]
      BY <1>1, <1>2, <2>3
    <3> QED
      BY <2>1, <3>1, <3>2
  <2> QED
    BY <2>2, <2>3
<1>11. Balanced'
  <2>1. Unmoved' \subseteq Unmoved /\ \A w \in Unmoved' : w \in Members
    BY <1>7 DEF Unmoved
  <2>2. \A w \in Unmoved' : total_rotations'[w] + Cardinality(Awaiting(w)')
                              = total_rotations[w] + Cardinality(Awaiting(w)) + 0
    BY <1>10, <2>1
  <2> QED
    BY <2>1, <2>2, StaysBalanced
<1>12. total_rotations' \in [Members -> Nat] /\ rotation_index' \in Nat
  BY <1>1, <1>2, <1>4
<1>13. strategy = "RoundRobin" /\ moved = {} =>
        /\ Len(listed) > 0 => rotation_index' % Len(listed) = 0
        /\ to.order = listed
  BY <1>1, <1>2, <1>5 DEF WholeTurns
<1>14. \A i, j \in DOMAIN to.todo : to.todo[i] = to.todo[j] => i = j
  BY <1>4, <1>5
<1> QED
  BY <1>2, <1>3, <1>5, <1>11, <1>12, <1>13, <1>14, RotationKeeps

\* The end of a rotation, which may be the start of a second one over the same order.
LEMMA EndKeeps ==
    ASSUME SupportAssumption, RotatorInv, NEW r \in Rotators,
           Rotator!Finish(r) \/ Rotator!FinishForced(r)
    PROVE  RotatorInv'
<1>1. RotatorTypes /\ WholeTurns /\ total_rotations \in [Members -> Nat] /\ rotation_index \in Nat
  BY DEF RotatorInv, RotatorTypes
<1>2. /\ job[r].at \in {"counting", "recounting"} /\ job[r].todo = << >>
      /\ UNCHANGED <<rotation_index, total_rotations>>
  BY DEF Rotator!Finish, Rotator!FinishForced
<1>3. /\ job[r] \in [at : {"counting", "recounting"}, passes : {1, 2}, order : Seq(Members),
                     todo : Seq(Members)]
      /\ IsOrder(job[r].order, Unmoved)
  BY <1>1, <1>2, JobTypes DEF RotatorTypes, Orderly
<1>4. \A w : ~ Awaits(w, r)
  BY <1>2 DEF Awaits
<1>5. CASE Rotator!Steps(r, Rotator!NoJob)
  <2> DEFINE to == Rotator!NoJob
  <2>1. to \in JobType /\ to.at = "idle"
    BY DEF JobType, Rotator!NoJob
  <2> HIDE DEF to
  <2>2. /\ Unmoved' = Unmoved /\ job'[r] = to /\ \A s \in Rotators \ {r} : job'[s] = job[s]
    BY <1>1, <1>5 DEF Rotator!Steps, RotatorTypes, Unmoved, to
  <2>3. \A s \in Rotators, w \in Unmoved' : Awaits(w, s)' <=> Awaits(w, s)
    BY <1>4, <2>1, <2>2 DEF Awaits
  <2>4. Balanced'
    BY <1>2, <2>2, <2>3, CountsNothing
  <2>5. strategy = "RoundRobin" /\ moved = {} =>
            (Len(listed) > 0 => rotation_index' % Len(listed) = 0)
    BY <1>1, <1>2 DEF WholeTurns
  <2>6. Rotator!Steps(r, to)
    BY <1>5 DEF to
  <2>7. total_rotations' \in [Members -> Nat] /\ rotation_index' \in Nat
    BY <1>1, <1>2
  <2> QED
    BY <2>1, <2>4, <2>5, <2>6, <2>7, RotationKeeps
<1>6. CASE ~ Rotator!Steps(r, Rotator!NoJob)
  <2> DEFINE to == [job[r] EXCEPT !.at = "recounting", !.todo = job[r].order]
  <2>1. Rotator!Steps(r, to)
    BY <1>6 DEF Rotator!Finish, Rotator!FinishForced, Rotator!Rotated
  <2>2. /\ to \in JobType /\ to.at = "recounting" /\ to.order = job[r].order
        /\ to.todo = job[r].order
    BY <1>3 DEF JobType
  <2> HIDE DEF to
  <2>3. /\ Unmoved' = Unmoved /\ moved' = moved /\ job'[r] = to
        /\ \A s \in Rotators \ {r} : job'[s] = job[s]
    BY <1>1, <2>1 DEF Rotator!Steps, RotatorTypes, Unmoved
  <2>4. \A w \in Unmoved : ~ Awaits(w, r) /\ Awaits(w, r)'
    <3>1. job'[r].at = "recounting" /\ job'[r].todo = job[r].order
      BY <2>2, <2>3
    <3>2. \A w \in Unmoved : \E i \in DOMAIN job[r].order : job[r].order[i] = w
      BY <1>3 DEF IsOrder
    <3>3. \A w \in Unmoved : Awaits(w, r)'
      BY <3>1, <3>2 DEF Awaits
    <3> QED
      BY <1>4, <3>3
  <2>5. Balanced'
    BY <1>2, <2>3, <2>4, StartsToCount
  <2>6. strategy = "RoundRobin" /\ moved = {} =>
            /\ Len(listed) > 0 => rotation_index' % Len(listed) = 0
            /\ to.order = listed
    BY <1>1, <1>2, <2>2 DEF WholeTurns
  <2>7. total_rotations' \in [Members -> Nat] /\ rotation_index' \in Nat
    BY <1>1, <1>2
  <2>8. \A i, j \in DOMAIN to.todo : to.todo[i] = to.todo[j] => i = j
    BY <1>3, <2>2 DEF IsOrder
  <2> QED
    BY <1>3, <2>1, <2>2, <2>5, <2>6, <2>7, <2>8, RotationKeeps
<1> QED
  BY <1>5, <1>6

LEMMA ListingKeeps ==
    ASSUME SupportAssumption, RotatorInv, NEW w \in Members, Rotator!Leave(w) \/ Rotator!Join(w)
    PROVE  RotatorInv'
<1>1. IsOrder(listed, Unmoved) /\ moved \subseteq Members
  BY DEF RotatorInv, RotatorTypes
<1>2. CASE Rotator!Leave(w)
  <2>1. PICK i \in DOMAIN listed : listed[i] = w /\ listed' = Rotator!RemoveAt(listed, i)
    BY <1>2 DEF Rotator!Leave
  <2>2. IsOrder(listed', Unmoved \ {w})
    BY <1>1, <2>1, RemovedOrder
  <2>3. moved' = moved \cup {w} /\ UNCHANGED <<strategy, rotation_index, total_rotations, job>>
    BY <1>2 DEF Rotator!Leave
  <2>4. Unmoved' = Unmoved \ {w}
    BY <2>3 DEF Unmoved
  <2>5. IsOrder(listed, Unmoved)'
    BY <2>2, <2>4 DEF IsOrder
  <2>6. moved \subseteq moved' /\ moved' \subseteq Members /\ (moved' = {} => listed' = listed)
    BY <1>1, <2>3
  <2> QED
    BY <2>3, <2>5, <2>6, WorldKeeps
<1>3. CASE Rotator!Join(w)
  <2>1. /\ ~ \E i \in DOMAIN listed : listed[i] = w
        /\ listed' = Append(listed, w)
        /\ UNCHANGED <<strategy, rotation_index, total_rotations, job, moved>>
    BY <1>1, <1>3 DEF Rotator!Join, Rotator!Contains, IsOrder
  <2>2. IsOrder(listed', Unmoved) /\ Unmoved' = Unmoved
    BY <1>1, <2>1, AddedToOrder DEF Unmoved
  <2>3. IsOrder(listed, Unmoved)'
    BY <2>2 DEF IsOrder
  <2>4. w \in moved
    BY <1>1, <2>1 DEF IsOrder, Unmoved
  <2>5. moved \subseteq moved' /\ moved' \subseteq Members /\ (moved' = {} => listed' = listed)
    BY <1>1, <2>1, <2>4
  <2> QED
    BY <2>1, <2>3, <2>5, WorldKeeps
<1> QED
  BY <1>2, <1>3

LEMMA RotatorSteps ==
    ASSUME SupportAssumption, RotatorInv, [Rotator!Next]_rotatorVars
    PROVE  RotatorInv'
<1>1. CASE UNCHANGED rotatorVars
  <2>1. IsOrder(listed, Unmoved)' /\ moved \subseteq moved' /\ moved' \subseteq Members
    BY <1>1 DEF RotatorInv, RotatorTypes, IsOrder, Unmoved, rotatorVars
  <2> QED
    BY <1>1, <2>1, WorldKeeps DEF rotatorVars
<1>2. ASSUME NEW w \in Members, Rotator!Leave(w) \/ Rotator!Join(w) PROVE RotatorInv'
  BY <1>2, ListingKeeps
<1>3. ASSUME NEW r \in Rotators, NEW passes \in {1, 2}, Rotator!Copy(r, passes) PROVE RotatorInv'
  BY <1>3, CopyKeeps
<1>4. ASSUME NEW r \in Rotators, Rotator!Turn(r) PROVE RotatorInv'
  BY <1>4, TurnKeeps
<1>5. ASSUME NEW r \in Rotators, Rotator!Count(r) PROVE RotatorInv'
  BY <1>5, CountKeeps
<1>6. ASSUME NEW r \in Rotators, Rotator!Finish(r) \/ Rotator!FinishForced(r) PROVE RotatorInv'
  BY <1>6, EndKeeps
<1> QED
  BY <1>1, <1>2, <1>3, <1>4, <1>5, <1>6 DEF Rotator!Next

LEMMA BalancedEnough ==
    SupportAssumption /\ RotatorInv => Rotator!RotationsBalanced
<1> SUFFICES ASSUME SupportAssumption, RotatorInv PROVE Rotator!RotationsBalanced
  OBVIOUS
<1>1. ASSUME NEW v \in Members \ moved, NEW w \in Members \ moved
      PROVE  total_rotations[v] <= total_rotations[w] + Rotator!Cardinality(Rotator!Busy)
  <2>1. /\ total_rotations[v] \in Nat /\ total_rotations[w] \in Nat
        /\ total_rotations[v] + Cardinality(Awaiting(v))
             = total_rotations[w] + Cardinality(Awaiting(w))
    BY <1>1 DEF RotatorInv, RotatorTypes, Balanced, Unmoved
  <2>2. /\ Cardinality(Awaiting(v)) \in Nat /\ Cardinality(Awaiting(w)) \in Nat
        /\ Cardinality(Rotator!Busy) \in Nat
        /\ Cardinality(Awaiting(w)) <= Cardinality(Rotator!Busy)
    BY AwaitingType
  <2>3. Rotator!Cardinality(Rotator!Busy) = Cardinality(Rotator!Busy)
    BY DEF Rotator!Cardinality, Cardinality
  <2> QED
    BY <2>1, <2>2, <2>3
<1>2. strategy = "RoundRobin" /\ moved = {} => \A r \in Rotator!Busy : job[r].order = listed
  BY DEF RotatorInv, WholeTurns, Rotator!Busy
<1> QED
  BY <1>1, <1>2 DEF Rotator!RotationsBalanced

\* However rotations overlap, and whatever the strategy, none of the wallets that stay in
\* the list is counted more often than another by more than the rotations under way; and
\* round robin gives a list that does not change back in its own order, since its index
\* moves by whole turns (rotate_round_robin, update_rotation_stats, force_rotation).
THEOREM RotationsStayBalanced == Spec => []RotationsBalanced
<1> DEFINE Inv == focus = "rotator" => RotatorInv
<1>1. Init => Inv
  BY SupportAssumption, RotatorStart DEF Init
<1>2. Inv /\ [Next]_vars => Inv'
  BY SupportAssumption, RotatorSteps DEF Next, vars
<1>3. Inv => RotationsBalanced
  BY SupportAssumption, BalancedEnough DEF RotationsBalanced
<1> QED
  BY <1>1, <1>2, <1>3, PTL DEF Spec

-----------------------------------------------------------------------------
\* TransactionQueries

Found == Queries!Matching(table, client.filters)

\* How many of the rows found come before this one.
Rank(r) == Cardinality({s \in Found : Queries!Newer(s, r)})

Skipped(p) == Queries!Offset(p, Queries!Capped(client.limit))

ClientType ==
    {[at |-> "idle"]}
    \cup [at : {"page", "count", "last"}, filters : Queries!Filters, limit : Limits,
          rows : SUBSET DOMAIN table]

QueryTypes ==
    /\ IsFiniteSet(DOMAIN table)
    /\ \A r \in DOMAIN table : table[r] \in [user : Users, status : Queries!Statuses, created_at : Nat]
    /\ client \in ClientType
    /\ page \in Nat
    /\ client.at # "idle" => due \subseteq Found

Certain == client.at # "idle" /\ ~ left /\ ~ Queries!Tied

\* What the client has yet to see does not lie before the page.
NonePassed ==
    Certain /\ client.at \in {"page", "count"} /\ page > 0 =>
        \A r \in due \ seen : Rank(r) >= Skipped(page)

\* Nor, once it has this page, before the next one, which there is then.
NonePassedNext ==
    Certain /\ client.at = "count" /\ page > 0 =>
        /\ \A r \in due \ (seen \cup client.rows) : Rank(r) >= Skipped(page + 1)
        /\ client.rows = {} => due \subseteq seen

QueryInv ==
    /\ QueryTypes
    /\ NonePassed
    /\ NonePassedNext
    /\ client.at = "count" => page > 0
    /\ Certain /\ client.at = "last" => due \subseteq seen

LEMMA QueryConstants ==
    SupportAssumption => Limits \subseteq Nat \ {0} /\ Cap \in Nat \ {0}
BY DEF SupportAssumption, Queries!QueryAssumption

LEMMA ClientTypes ==
    ASSUME SupportAssumption, client \in ClientType
    PROVE  /\ client.at \in {"idle", "page", "count", "last"}
           /\ client.at # "idle" =>
                /\ client \in [at : {"page", "count", "last"}, filters : Queries!Filters,
                               limit : Limits, rows : SUBSET DOMAIN table]
                /\ Queries!Capped(client.limit) \in Nat \ {0}
<1>1. client.at \in {"idle", "page", "count", "last"}
  BY DEF ClientType
<1>2. ASSUME client.at # "idle"
      PROVE  client \in [at : {"page", "count", "last"}, filters : Queries!Filters,
                         limit : Limits, rows : SUBSET DOMAIN table]
  BY <1>2 DEF ClientType
<1>3. ASSUME client.at # "idle" PROVE Queries!Capped(client.limit) \in Nat \ {0}
  BY <1>2, <1>3, QueryConstants DEF Queries!Capped
<1> QED
  BY <1>1, <1>2, <1>3

LEMMA QueryStart == Queries!Init => QueryInv
<1> SUFFICES ASSUME Queries!Init PROVE QueryInv
  OBVIOUS
<1>1. DOMAIN table = {} /\ client = [at |-> "idle"] /\ page = 1
  BY DEF Queries!Init
<1>2. IsFiniteSet(DOMAIN table)
  BY <1>1, FS_EmptySet
<1> QED
  BY <1>1, <1>2 DEF QueryInv, QueryTypes, ClientType, NonePassed, NonePassedNext, Certain

Ranked ==
    /\ Found \subseteq DOMAIN table /\ IsFiniteSet(Found) /\ Cardinality(Found) \in Nat
    /\ \A r : Rank(r) \in Nat /\ IsFiniteSet({s \in Found : Queries!Newer(s, r)})
    /\ \A r \in DOMAIN table : table[r].created_at \in Nat

LEMMA FoundRows == QueryTypes => Ranked
<1> SUFFICES ASSUME QueryTypes PROVE Ranked
  OBVIOUS
<1>1. Found \in SUBSET DOMAIN table
  BY DEF Found, Queries!Matching
<1>2. IsFiniteSet(Found)
  BY <1>1, FS_Subset DEF QueryTypes
<1>3. ASSUME NEW r PROVE IsFiniteSet({s \in Found : Queries!Newer(s, r)})
  <2>1. {s \in Found : Queries!Newer(s, r)} \in SUBSET Found
    OBVIOUS
  <2> QED
    BY <1>2, <2>1, FS_Subset
<1>4. \A r : Rank(r) \in Nat
  BY <1>3, FS_CardinalityType DEF Rank
<1>5. \A r \in DOMAIN table : table[r].created_at \in Nat
  BY DEF QueryTypes
<1> QED
  BY <1>1, <1>2, <1>3, <1>4, <1>5, FS_CardinalityType DEF Ranked

\* Without ties the statement has one answer, with each row at its rank.
LEMMA PlacedByRank ==
    ASSUME QueryTypes, ~ Queries!Tied, NEW order \in Queries!Orders(Found)
    PROVE  /\ DOMAIN order = 1 .. Cardinality(Found)
           /\ \A r \in Found : \E k \in DOMAIN order : order[k] = r /\ Rank(r) = k - 1
<1> DEFINE n == Cardinality(Found)
<1>1. n \in Nat /\ IsFiniteSet(Found) /\ Found \subseteq DOMAIN table
      /\ \A r \in DOMAIN table : table[r].created_at \in Nat
  BY FoundRows DEF Ranked
<1>2. order \in {f \in [1 .. n -> Found] : \A i, j \in 1 .. n : i # j => f[i] # f[j]}
  BY DEF Queries!Orders, Queries!SetToSeqs, Queries!Cardinality, Cardinality
<1>3. \A i, j \in DOMAIN order : i < j => ~ Queries!Newer(order[j], order[i])
  BY DEF Queries!Orders
<1>4. Cardinality(Found) = n
  OBVIOUS
<1>5. IsFiniteSet(1 .. n) /\ Cardinality(1 .. n) = n
  <2>1. 1 \in Int /\ n \in Int /\ (IF 1 > n THEN 0 ELSE n - 1 + 1) = n
    BY <1>1
  <2> HIDE DEF n
  <2> QED
    BY <2>1, FS_Interval
<1> HIDE DEF n
<1>6. order \in [1 .. n -> Found] /\ \A i, j \in 1 .. n : order[i] = order[j] => i = j
  BY <1>2
<1>7. order \in Surjection(1 .. n, Found)
  <2>1. order \in Injection(1 .. n, Found)
    BY <1>6 DEF Injection, IsInjective
  <2> QED
    BY <1>1, <1>4, <1>5, <2>1, FS_Injection
<1>8. ASSUME NEW r \in Found PROVE \E k \in 1 .. n : order[k] = r /\ Rank(r) = k - 1
  <2>1. PICK k \in 1 .. n : order[k] = r
    BY <1>7 DEF Surjection
  <2> DEFINE before == {s \in Found : Queries!Newer(s, r)}
             m == k - 1
  <2>2. \A i \in 1 .. n : Queries!Newer(order[i], r) <=> i < k
    <3> SUFFICES ASSUME NEW i \in 1 .. n PROVE Queries!Newer(order[i], r) <=> i < k
      OBVIOUS
    <3>1. order[i] \in DOMAIN table /\ r \in DOMAIN table /\ table[order[i]].created_at \in Nat
          /\ table[r].created_at \in Nat
      BY <1>1, <1>6
    <3>2. CASE i < k
      <4>1. order[i] # r /\ ~ Queries!Newer(r, order[i])
        BY <1>3, <1>6, <2>1, <3>2
      <4>2. table[order[i]].created_at # table[r].created_at
        BY <3>1, <4>1 DEF Queries!Tied
      <4> QED
        BY <3>1, <3>2, <4>1, <4>2 DEF Queries!Newer
    <3>3. CASE i = k
      BY <2>1, <3>1, <3>3 DEF Queries!Newer
    <3>4. CASE k < i
      BY <1>3, <1>6, <2>1, <3>4
    <3> QED
      BY <1>1, <3>2, <3>3, <3>4
  <2>3. m \in Nat /\ m \in Int /\ 1 \in Int /\ (IF 1 > m THEN 0 ELSE m - 1 + 1) = m
        /\ \A i : i \in 1 .. m <=> i \in 1 .. n /\ i < k
    BY <1>1
  <2>4. before = {order[i] : i \in 1 .. m}
    <3>1. ASSUME NEW s \in before PROVE s \in {order[i] : i \in 1 .. m}
      <4>1. PICK i \in 1 .. n : order[i] = s
        BY <1>7, <3>1 DEF Surjection
      <4> QED
        BY <2>2, <2>3, <3>1, <4>1
    <3>2. ASSUME NEW i \in 1 .. m PROVE order[i] \in before
      BY <1>6, <2>2, <2>3
    <3> QED
      BY <3>1, <3>2
  <2> HIDE DEF m
  <2>5. IsFiniteSet(1 .. m) /\ Cardinality(1 .. m) = m
    BY <2>3, FS_Interval
  <2> DEFINE g == [i \in 1 .. m |-> order[i]]
  <2>6. g \in Injection(1 .. m, before)
    BY <1>6, <2>3, <2>4 DEF Injection, IsInjective
  <2>7. g \in Surjection(1 .. m, before)
    BY <2>4, <2>6 DEF Surjection, Injection
  <2> HIDE DEF g
  <2>8. g \in Bijection(1 .. m, before) /\ ExistsBijection(1 .. m, before)
    BY <2>6, <2>7 DEF Bijection, ExistsBijection
  <2> HIDE DEF before
  <2>9. Cardinality(before) = m
    BY <2>3, <2>8, FS_CountingElements
  <2> QED
    BY <2>1, <2>9 DEF Rank, before, m
<1> QED
  BY <1>6, <1>8 DEF n

\* A step of the writers, which leaves the rows there are where they were.
LEMMA WritersKeep ==
    ASSUME SupportAssumption, QueryInv, QueryTypes', UNCHANGED <<client, page, seen>>,
           DOMAIN table \subseteq DOMAIN table',
           \A r \in DOMAIN table : table'[r].created_at = table[r].created_at,
           client.at # "idle" /\ ~ left' => ~ left /\ Found \subseteq Found' /\ due' \subseteq due
    PROVE  QueryInv'
<1>1. QueryTypes /\ NonePassed /\ NonePassedNext
      /\ (client.at # "idle" => due \subseteq Found) /\ Found \subseteq DOMAIN table
      /\ Ranked
  BY FoundRows DEF QueryInv, QueryTypes, Ranked
<1>0. Ranked'
  BY FoundRows, QueryTypes', PTL
<1>2. ~ Queries!Tied' => ~ Queries!Tied
  BY DEF Queries!Tied
<1>3. Certain' => Certain /\ due' \subseteq due /\ due \subseteq DOMAIN table
  BY <1>1, <1>2 DEF Certain
<1>4. ASSUME Certain', NEW r \in due PROVE Rank(r)' >= Rank(r)
  <2> DEFINE before == {s \in Found : Queries!Newer(s, r)}
             after == {s \in Found' : Queries!Newer(s, r)'}
  <2>1. r \in DOMAIN table /\ Found \subseteq Found'
    BY <1>3, <1>4 DEF Certain
  <2>2. before \in SUBSET after
    BY <1>1, <2>1 DEF Queries!Newer
  <2>3. IsFiniteSet(after) /\ Rank(r)' = Cardinality(after) /\ Rank(r) = Cardinality(before)
    BY <1>0 DEF Rank, Ranked
  <2>4. Cardinality(before) <= Cardinality(after) /\ Cardinality(before) \in Nat
        /\ Cardinality(after) \in Nat
    <3> HIDE DEF before, after
    <3> QED
      BY <2>2, <2>3, FS_Subset, FS_CardinalityType
  <2> QED
    BY <2>3, <2>4
<1>5. \A p : Skipped(p)' = Skipped(p)
  BY DEF Skipped
<1>6. client.at # "idle" /\ page \in Nat => Skipped(page) \in Int /\ Skipped(page + 1) \in Int
  BY <1>1, ClientTypes DEF QueryTypes, Skipped, Queries!Offset
<1>7. \A r : Rank(r) \in Nat /\ Rank(r)' \in Nat
  BY <1>0, <1>1 DEF Ranked
<1>8. NonePassed'
  <2> SUFFICES ASSUME Certain', client.at \in {"page", "count"}, page > 0, NEW r \in due' \ seen
               PROVE  Rank(r)' >= Skipped(page)'
    BY DEF NonePassed
  <2>1. r \in due \ seen /\ Rank(r) >= Skipped(page)
    BY <1>1, <1>3 DEF NonePassed
  <2> QED
    BY <1>1, <1>4, <1>5, <1>6, <1>7, <2>1 DEF QueryTypes
<1>9. NonePassedNext'
  <2> SUFFICES ASSUME Certain', client.at = "count", page > 0
               PROVE  /\ \A r \in due' \ (seen \cup client.rows) : Rank(r)' >= Skipped(page + 1)'
                      /\ client.rows = {} => due' \subseteq seen
    BY DEF NonePassedNext
  <2>1. /\ \A r \in due \ (seen \cup client.rows) : Rank(r) >= Skipped(page + 1)
        /\ client.rows = {} => due \subseteq seen
    BY <1>1, <1>3 DEF NonePassedNext
  <2>2. ASSUME NEW r \in due' \ (seen \cup client.rows) PROVE Rank(r)' >= Skipped(page + 1)'
    BY <1>1, <1>3, <1>4, <1>5, <1>6, <1>7, <2>1, <2>2 DEF QueryTypes
  <2> QED
    BY <1>3, <2>1, <2>2
<1>10. Certain' /\ client.at = "last" => due' \subseteq seen
  BY <1>3 DEF QueryInv
<1> QED
  BY <1>8, <1>9, <1>10 DEF QueryInv

LEMMA StoreKeeps ==
    ASSUME SupportAssumption, QueryInv, NEW r, NEW user \in Users, NEW created_at \in Nat,
           Queries!Store(r, user, created_at)
    PROVE  QueryInv'
<1>1. QueryTypes /\ r \notin DOMAIN table /\ UNCHANGED <<client, page, seen, due, left>>
  BY DEF QueryInv, Queries!Store
<1>2. /\ DOMAIN table' = DOMAIN table \cup {r}
      /\ \A x \in DOMAIN table : table'[x] = table[x]
      /\ table'[r] = [user |-> user, status |-> "pending", created_at |-> created_at]
  BY <1>1 DEF Queries!Store
<1>3. Found \subseteq Found'
  BY <1>1, <1>2 DEF Found, Queries!Matching
<1>4. IsFiniteSet(DOMAIN table')
  BY <1>1, <1>2, FS_AddElement DEF QueryTypes
<1>5. client' \in ClientType'
  BY <1>1, <1>2 DEF QueryTypes, ClientType
<1>6. \A x \in DOMAIN table' :
        table'[x] \in [user : Users, status : Queries!Statuses, created_at : Nat]
  BY <1>1, <1>2 DEF QueryTypes, Queries!Statuses
<1>7. QueryTypes'
  BY <1>1, <1>3, <1>4, <1>5, <1>6 DEF QueryTypes
<1> QED
  BY <1>1, <1>2, <1>3, <1>7, WritersKeep

LEMMA UpdateKeeps ==
    ASSUME SupportAssumption, QueryInv, NEW r, Queries!UpdateStatus(r)
    PROVE  QueryInv'
<1>1. QueryTypes /\ r \in DOMAIN table /\ UNCHANGED <<client, page, seen>>
      /\ table' = [table EXCEPT ![r].status = "confirmed"]
  BY DEF QueryInv, Queries!UpdateStatus
<1>2. table[r] \in [user : Users, status : Queries!Statuses, created_at : Nat]
  BY <1>1 DEF QueryTypes
<1>3. /\ DOMAIN table' = DOMAIN table
      /\ \A x \in DOMAIN table \ {r} : table'[x] = table[x]
      /\ table'[r] = [table[r] EXCEPT !.status = "confirmed"]
  BY <1>1
<1>4. /\ table'[r] \in [user : Users, status : Queries!Statuses, created_at : Nat]
      /\ table'[r].created_at = table[r].created_at
  BY <1>2, <1>3 DEF Queries!Statuses
<1>5. client.at # "idle" =>
        /\ due' = due \cap Found'
        /\ left' = (left \/ ~ Found \subseteq Found')
  BY <1>1 DEF Queries!UpdateStatus, Queries!Reading, Found
<1>6. QueryTypes'
  <2>1. client' \in ClientType'
    BY <1>1, <1>3 DEF QueryTypes, ClientType
  <2>2. \A x \in DOMAIN table' :
            table'[x] \in [user : Users, status : Queries!Statuses, created_at : Nat]
    BY <1>1, <1>3, <1>4 DEF QueryTypes
  <2> QED
    BY <1>1, <1>3, <1>5, <2>1, <2>2 DEF QueryTypes
<1>7. client.at # "idle" /\ ~ left' => ~ left /\ Found \subseteq Found' /\ due' \subseteq due
  BY <1>5
<1>8. \A x \in DOMAIN table : table'[x].created_at = table[x].created_at
  BY <1>1, <1>3, <1>4
<1> QED
  BY <1>1, <1>3, <1>6, <1>7, <1>8, WritersKeep

LEMMA PagesBegin ==
    ASSUME SupportAssumption, QueryInv, NEW filters \in Queries!Filters, NEW limit \in Limits,
           NEW first \in {0, 1}, Queries!Begin(filters, limit, first)
    PROVE  QueryInv'
<1>1. /\ QueryTypes /\ UNCHANGED table
      /\ client' = [at |-> "page", filters |-> filters, limit |-> limit, rows |-> {}]
      /\ page' = first /\ due' = Queries!Matching(table, filters)
  BY DEF QueryInv, Queries!Begin
<1>2. client'.at = "page" /\ client'.filters = filters /\ client' \in ClientType'
  BY <1>1 DEF ClientType
<1>3. due' = Found'
  BY <1>1, <1>2 DEF Found, Queries!Matching, Queries!Matches
<1>4. QueryTypes'
  BY <1>1, <1>2, <1>3 DEF QueryTypes
<1>5. \A r : Rank(r)' \in Nat
  <2>1. Ranked'
    BY <1>4, FoundRows, PTL
  <2> QED
    BY <2>1 DEF Ranked
<1>6. page' > 0 => Skipped(page)' = 0
  <2>1. Queries!Capped(client'.limit) \in Nat
    BY <1>1, QueryConstants DEF Queries!Capped
  <2> QED
    BY <1>1, <2>1 DEF Skipped, Queries!Offset, Queries!Capped
<1>7. NonePassed' /\ NonePassedNext'
  BY <1>2, <1>5, <1>6 DEF NonePassed, NonePassedNext
<1> QED
  BY <1>2, <1>4, <1>7 DEF QueryInv

LEMMA FetchKeeps ==
    ASSUME SupportAssumption, QueryInv, Queries!FetchPage
    PROVE  QueryInv'
<1> DEFINE n == Cardinality(Found)
           limit == Queries!Capped(client.limit)
           off == Skipped(page)
<1>1. /\ QueryTypes /\ Ranked /\ NonePassed /\ client.at = "page" /\ page \in Nat /\ page > 0
      /\ UNCHANGED <<table, page, seen, due, left>>
  BY FoundRows DEF QueryInv, QueryTypes, Queries!FetchPage
<1>2. PICK order \in Queries!Orders(Found) :
        client' = [client EXCEPT !.at = "count", !.rows = Queries!Slice(order, off, limit)]
  BY DEF Queries!FetchPage, Found, Skipped
<1> DEFINE rows == Queries!Slice(order, off, limit)
<1>3. /\ client \in [at : {"page", "count", "last"}, filters : Queries!Filters,
                     limit : Limits, rows : SUBSET DOMAIN table]
      /\ limit \in Nat \ {0}
  BY <1>1, ClientTypes DEF QueryTypes
<1>4. rows \subseteq Found
  <2>1. \A i \in DOMAIN order : order[i] \in Found
    BY <1>1 DEF Queries!Orders, Queries!SetToSeqs
  <2> QED
    BY <2>1 DEF Queries!Slice
<1>5. off = (page - 1) * limit /\ Skipped(page + 1) = ((page + 1) - 1) * limit
  BY DEF Skipped, Queries!Offset
<1>6. off \in Nat /\ Skipped(page + 1) = off + limit
  <2> HIDE DEF off, limit
  <2>1. ((page + 1) - 1) * limit = (page - 1) * limit + limit /\ (page - 1) * limit \in Nat
    BY <1>1, <1>3
  <2> QED
    BY <1>5, <2>1
<1>7. \A x : x \in rows <=> \E k \in DOMAIN order : k \in off + 1 .. off + limit /\ order[k] = x
  BY DEF Queries!Slice
<1> HIDE DEF off, limit, rows
<1>8. /\ client'.at = "count" /\ client'.rows = rows /\ client'.filters = client.filters
      /\ client'.limit = client.limit
      /\ client' \in [at : {"page", "count", "last"}, filters : Queries!Filters,
                      limit : Limits, rows : SUBSET DOMAIN table]
  <2>1. client' = [client EXCEPT !.at = "count", !.rows = rows]
    BY <1>2 DEF rows, off, limit
  <2>2. rows \in SUBSET DOMAIN table
    BY <1>1, <1>4 DEF Ranked
  <2> QED
    BY <1>3, <2>1, <2>2
<1>9. /\ Found' = Found /\ \A p : Skipped(p)' = Skipped(p)
      /\ (Certain' <=> Certain) /\ \A r : Rank(r)' = Rank(r)
  <2>1. Found' = Found
    BY <1>1, <1>8 DEF Found, Queries!Matching
  <2>2. \A p : Skipped(p)' = Skipped(p)
    BY <1>8 DEF Skipped
  <2>3. Certain' <=> Certain
    BY <1>1, <1>8 DEF Certain, Queries!Tied
  <2>4. \A r : Rank(r)' = Rank(r)
    BY <1>1, <2>1 DEF Rank, Queries!Newer
  <2> QED
    BY <2>1, <2>2, <2>3, <2>4
<1>10. QueryTypes'
  BY <1>1, <1>8, <1>9 DEF QueryTypes, ClientType
<1>11. ASSUME Certain, NEW r \in due \ seen
       PROVE  /\ Rank(r) >= Skipped(page) /\ rows # {}
              /\ r \notin rows => Rank(r) >= Skipped(page + 1)
  <2>1. /\ DOMAIN order = 1 .. n /\ n \in Nat
        /\ \A x \in Found : \E k \in DOMAIN order : order[k] = x /\ Rank(x) = k - 1
    BY <1>1, <1>11, PlacedByRank DEF Certain, Ranked
  <2>2. r \in Found /\ Rank(r) >= off
    BY <1>1, <1>11 DEF QueryTypes, NonePassed, off, Certain
  <2> HIDE DEF n
  <2>3. PICK k \in 1 .. n : order[k] = r /\ Rank(r) = k - 1
    BY <2>1, <2>2
  <2>4. off + 1 \in 1 .. n /\ off + 1 \in off + 1 .. off + limit
    BY <1>3, <1>6, <2>1, <2>2, <2>3
  <2>5. rows # {}
    BY <1>7, <2>1, <2>4
  <2>6. ASSUME r \notin rows PROVE Rank(r) >= off + limit
    <3>1. ~ k \in off + 1 .. off + limit
      BY <1>7, <2>1, <2>3, <2>6
    <3> QED
      BY <1>3, <1>6, <2>1, <2>2, <2>3, <3>1
  <2> QED
    BY <1>6, <2>2, <2>5, <2>6 DEF off
<1>12. NonePassed'
  BY <1>1, <1>9, <1>11 DEF NonePassed
<1>13. NonePassedNext'
  BY <1>1, <1>8, <1>9, <1>11 DEF NonePassedNext
<1> QED
  BY <1>1, <1>8, <1>10, <1>12, <1>13 DEF QueryInv

LEMMA CountRowsKeeps ==
    ASSUME SupportAssumption, QueryInv, Queries!CountRows
    PROVE  QueryInv'
<1>1. /\ QueryTypes /\ NonePassedNext /\ client.at = "count" /\ page \in Nat /\ page > 0
      /\ UNCHANGED <<table, due, left>> /\ seen' = seen \cup client.rows
      /\ page' = IF client.rows = {} THEN page ELSE page + 1
      /\ client' = [client EXCEPT !.at = IF client.rows = {} THEN "last" ELSE "page", !.rows = {}]
  BY DEF QueryInv, QueryTypes, Queries!CountRows
<1>2. client \in [at : {"page", "count", "last"}, filters : Queries!Filters,
                  limit : Limits, rows : SUBSET DOMAIN table]
  BY <1>1, ClientTypes DEF QueryTypes
<1>3. /\ client'.at = IF client.rows = {} THEN "last" ELSE "page"
      /\ client'.filters = client.filters /\ client'.limit = client.limit
      /\ client' \in [at : {"page", "count", "last"}, filters : Queries!Filters,
                      limit : Limits, rows : SUBSET DOMAIN table]
  BY <1>1, <1>2
<1>4. /\ Found' = Found /\ \A p : Queries!Offset(p, Queries!Capped(client.limit))'
                                    = Queries!Offset(p, Queries!Capped(client.limit))
      /\ (Certain' => Certain) /\ \A r : Rank(r)' = Rank(r)
  <2>1. Found' = Found
    BY <1>1, <1>3 DEF Found, Queries!Matching
  <2>2. \A p : Queries!Offset(p, Queries!Capped(client.limit))'
                 = Queries!Offset(p, Queries!Capped(client.limit))
    BY <1>3
  <2>3. Certain' => Certain
    BY <1>1, <1>3 DEF Certain, Queries!Tied
  <2>4. \A r : Rank(r)' = Rank(r)
    BY <1>1, <2>1 DEF Rank, Queries!Newer
  <2> QED
    BY <2>1, <2>2, <2>3, <2>4
<1>5. QueryTypes'
  <2>1. page' \in Nat /\ due' \subseteq Found'
    BY <1>1, <1>4 DEF QueryTypes
  <2> QED
    BY <1>1, <1>3, <2>1 DEF QueryTypes, ClientType
<1>6. CASE client.rows = {}
  <2>1. Certain' => due' \subseteq seen'
    BY <1>1, <1>4, <1>6 DEF NonePassedNext
  <2> QED
    BY <1>3, <1>5, <1>6, <2>1 DEF QueryInv, NonePassed, NonePassedNext
<1>7. CASE client.rows # {}
  <2>1. Skipped(page)' = Skipped(page + 1)
    BY <1>1, <1>3, <1>7 DEF Skipped, Queries!Offset
  <2>2. NonePassed'
    BY <1>1, <1>4, <2>1 DEF NonePassed, NonePassedNext
  <2> QED
    BY <1>3, <1>5, <1>7, <2>2 DEF QueryInv, NonePassedNext
<1> QED
  BY <1>6, <1>7

LEMMA FailKeeps ==
    ASSUME SupportAssumption, QueryInv, Queries!Fail
    PROVE  QueryInv'
<1>1. /\ QueryTypes /\ NonePassed /\ client.at = "count"
      /\ UNCHANGED <<table, page, seen, due, left>>
      /\ client' = [client EXCEPT !.at = "page", !.rows = {}]
  BY DEF QueryInv, Queries!Fail
<1>2. client \in [at : {"page", "count", "last"}, filters : Queries!Filters,
                  limit : Limits, rows : SUBSET DOMAIN table]
  BY <1>1, ClientTypes DEF QueryTypes
<1>3. /\ client'.at = "page" /\ client'.filters = client.filters /\ client'.limit = client.limit
      /\ client' \in [at : {"page", "count", "last"}, filters : Queries!Filters,
                      limit : Limits, rows : SUBSET DOMAIN table]
  BY <1>1, <1>2
<1>4. Found' = Found
  BY <1>1, <1>3 DEF Found, Queries!Matching
<1>5. \A r : Rank(r)' = Rank(r)
  BY <1>1, <1>4 DEF Rank, Queries!Newer
<1>6. Skipped(page)' = Skipped(page)
  BY <1>1, <1>3 DEF Skipped
<1>7. QueryTypes'
  BY <1>1, <1>3, <1>4 DEF QueryTypes, ClientType
<1>8. Certain' => Certain
  BY <1>1, <1>3 DEF Certain, Queries!Tied
<1>9. NonePassed' /\ NonePassedNext'
  BY <1>1, <1>3, <1>5, <1>6, <1>8 DEF NonePassed, NonePassedNext
<1> QED
  BY <1>3, <1>7, <1>9 DEF QueryInv

LEMMA QuerySteps ==
    ASSUME SupportAssumption, QueryInv, [Queries!Next]_queriesVars
    PROVE  QueryInv'
<1>1. QueryTypes
  BY DEF QueryInv
<1>2. CASE UNCHANGED queriesVars
  <2>1. QueryTypes'
    BY <1>1, <1>2 DEF queriesVars, QueryTypes, ClientType, Found, Queries!Matching
  <2>2. Found' = Found
    BY <1>2 DEF queriesVars, Found, Queries!Matching
  <2> QED
    BY <1>1, <1>2, <2>1, <2>2, WritersKeep DEF queriesVars
<1>3. ASSUME NEW r \in Rows, NEW user \in Users, NEW created_at \in 1 .. MaxMoment,
             Queries!Store(r, user, created_at)
      PROVE  QueryInv'
  <2>1. created_at \in Nat
    BY DEF SupportAssumption, Queries!QueryAssumption
  <2> QED
    BY <1>3, <2>1, StoreKeeps
<1>4. ASSUME NEW r \in Rows, Queries!UpdateStatus(r) PROVE QueryInv'
  BY <1>4, UpdateKeeps
<1>5. ASSUME NEW filters \in Queries!Filters, NEW limit \in Limits, NEW first \in {0, 1},
             Queries!Begin(filters, limit, first)
      PROVE  QueryInv'
  BY <1>5, PagesBegin
<1>6. CASE Queries!RefusePage \/ Queries!Stop
  <2>1. client' = [at |-> "idle"] /\ page' = 1 /\ UNCHANGED table
    BY <1>6 DEF Queries!RefusePage, Queries!Stop
  <2>2. client'.at = "idle"
    BY <2>1
  <2>3. QueryTypes'
    BY <1>1, <2>1, <2>2 DEF QueryTypes, ClientType
  <2> QED
    BY <2>2, <2>3 DEF QueryInv, NonePassed, NonePassedNext, Certain
<1>7. CASE Queries!FetchPage
  BY <1>7, FetchKeeps
<1>8. CASE Queries!CountRows
  BY <1>8, CountRowsKeeps
<1>9. CASE Queries!Fail
  BY <1>9, FailKeeps
<1> QED
  BY <1>2, <1>3, <1>4, <1>5, <1>6, <1>7, <1>8, <1>9 DEF Queries!Next

\* Pages are statements of their own with an OFFSET into a table that changes between
\* them; still a client that reads them to the end is shown every row that matched all
\* the while, unless a row left the query or two have one created_at
\* (get_user_transactions, search_transactions).
THEOREM PagesAreComplete == Spec => []PagesMissNothing
<1> DEFINE Inv == focus = "queries" => QueryInv
<1>1. Init => Inv
  BY SupportAssumption, QueryStart DEF Init
<1>2. Inv /\ [Next]_vars => Inv'
  BY SupportAssumption, QuerySteps DEF Next, vars
<1>3. Inv => PagesMissNothing
  BY DEF PagesMissNothing, Queries!PagesMissNothing, QueryInv, Certain
<1> QED
  BY <1>1, <1>2, <1>3, PTL DEF Spec

-----------------------------------------------------------------------------
\* Types

RotatorBounds == \A w \in Members : total_rotations[w] <= MaxRotations

LEMMA BoundsStart == SupportAssumption /\ Rotator!Init => RotatorBounds
<1> SUFFICES ASSUME SupportAssumption, Rotator!Init PROVE RotatorBounds
  OBVIOUS
<1>1. MaxRotations \in Nat
  BY DEF SupportAssumption, Rotator!RotatorAssumption
<1> QED
  BY <1>1 DEF Rotator!Init, RotatorBounds

LEMMA BoundsStay ==
    ASSUME SupportAssumption, RotatorInv, RotatorBounds, [Rotator!Next]_rotatorVars
    PROVE  RotatorBounds'
<1>1. MaxRotations \in Nat /\ total_rotations \in [Members -> Nat]
  BY DEF SupportAssumption, Rotator!RotatorAssumption, RotatorInv, RotatorTypes
<1>2. ASSUME UNCHANGED total_rotations PROVE RotatorBounds'
  BY <1>2 DEF RotatorBounds
<1>3. CASE UNCHANGED rotatorVars
  BY <1>2, <1>3 DEF rotatorVars
<1>4. ASSUME NEW w \in Members, Rotator!Leave(w) \/ Rotator!Join(w) PROVE RotatorBounds'
  BY <1>2, <1>4 DEF Rotator!Leave, Rotator!Join
<1>5. ASSUME NEW r \in Rotators, NEW passes, Rotator!Copy(r, passes) PROVE RotatorBounds'
  BY <1>2, <1>5 DEF Rotator!Copy
<1>6. ASSUME NEW r \in Rotators, Rotator!Turn(r) \/ Rotator!Finish(r) \/ Rotator!FinishForced(r)
      PROVE  RotatorBounds'
  BY <1>2, <1>6 DEF Rotator!Turn, Rotator!Finish, Rotator!FinishForced
<1>7. ASSUME NEW r \in Rotators, Rotator!Count(r) PROVE RotatorBounds'
  <2> DEFINE w0 == Head(job[r].todo)
  <2>1. /\ total_rotations[w0] < MaxRotations
        /\ total_rotations' = [total_rotations EXCEPT ![w0] = total_rotations[w0] + 1]
    BY <1>7 DEF Rotator!Count
  <2> HIDE DEF w0
  <2>2. \A w \in Members : total_rotations'[w] <= MaxRotations
    <3> SUFFICES ASSUME NEW w \in Members PROVE total_rotations'[w] <= MaxRotations
      OBVIOUS
    <3>1. total_rotations[w] \in Nat /\ total_rotations[w] <= MaxRotations
      BY <1>1 DEF RotatorBounds
    <3>2. total_rotations'[w] = IF w = w0 THEN total_rotations[w] + 1 ELSE total_rotations[w]
      BY <1>1, <2>1
    <3> QED
      BY <1>1, <2>1, <3>1, <3>2
  <2> QED
    BY <2>2 DEF RotatorBounds
<1> QED
  BY <1>3, <1>4, <1>5, <1>6, <1>7 DEF Rotator!Next

LEMMA OrdersAreShort ==
    ASSUME SupportAssumption, NEW s, NEW all, IsOrder(s, all)
    PROVE  Len(s) \in Nat /\ Cardinality(Members) \in Nat /\ Len(s) <= Cardinality(Members)
           /\ s \in [1 .. Len(s) -> Members]
<1> DEFINE n == Len(s)
<1>1. n \in Nat /\ s \in [1 .. n -> Members] /\ \A i, j \in 1 .. n : s[i] = s[j] => i = j
  BY DEF IsOrder
<1>2. IsFiniteSet(1 .. n) /\ Cardinality(1 .. n) = n
  <2>1. 1 \in Int /\ n \in Int /\ (IF 1 > n THEN 0 ELSE n - 1 + 1) = n
    BY <1>1
  <2> HIDE DEF n
  <2> QED
    BY <2>1, FS_Interval
<1> HIDE DEF n
<1>3. s \in Injection(1 .. n, Members)
  BY <1>1 DEF Injection, IsInjective
<1>4. IsFiniteSet(Members) /\ Cardinality(Members) \in Nat
  BY RotatorConstants, FS_CardinalityType
<1>5. Cardinality(1 .. n) <= Cardinality(Members)
  BY <1>2, <1>3, <1>4, FS_Injection
<1> QED
  BY <1>1, <1>2, <1>4, <1>5 DEF n

LEMMA RotatorTyped ==
    ASSUME SupportAssumption, RotatorInv, RotatorBounds
    PROVE  Rotator!TypeOK
<1>1. /\ RotatorTypes /\ IsOrder(listed, Unmoved) /\ total_rotations \in [Members -> Nat]
      /\ \A w \in Members : total_rotations[w] <= MaxRotations
      /\ MaxRotations \in Nat
  BY DEF RotatorInv, RotatorTypes, RotatorBounds, SupportAssumption, Rotator!RotatorAssumption
<1>2. listed \in Rotator!Lists
  <2> DEFINE n == Cardinality(Members)
             m == Len(listed)
  <2>1. m \in Nat /\ n \in Nat /\ m <= n /\ listed \in [1 .. m -> Members]
        /\ \A i, j \in DOMAIN listed : listed[i] = listed[j] => i = j
    <3>1. m \in Nat /\ n \in Nat /\ m <= n /\ listed \in [1 .. m -> Members]
      BY <1>1, OrdersAreShort
    <3> QED
      BY <1>1, <3>1 DEF IsOrder
  <2>2. Rotator!Cardinality(Members) = n
    BY DEF Rotator!Cardinality, Cardinality
  <2> HIDE DEF n, m
  <2>3. m \in 0 .. n
    BY <2>1
  <2>4. listed \in Rotator!BoundedSeq(Members, n)
    BY <2>1, <2>3 DEF Rotator!BoundedSeq, Rotator!SeqOf
  <2> QED
    BY <2>1, <2>2, <2>4 DEF Rotator!Lists, Rotator!IsInjective
<1>3. total_rotations \in [Members -> 0 .. MaxRotations]
  BY <1>1
<1>4. \A r \in Rotators : job[r].at \in {"idle", "ordering", "counting", "recounting"}
  BY <1>1, JobTypes
<1> QED
  BY <1>1, <1>2, <1>3, <1>4 DEF Rotator!TypeOK, RotatorTypes, RotatorBounds

\* A page that shows rows is not beyond the number of rows there can be.
QueryBounds ==
    /\ DOMAIN table \subseteq Rows
    /\ \A r \in DOMAIN table : table[r].created_at \in 1 .. MaxMoment
    /\ seen \cup due \subseteq DOMAIN table
    /\ left \in BOOLEAN
    /\ page <= Cardinality(Rows) + 1
    /\ client.at = "count" /\ client.rows # {} => page <= Cardinality(Rows)

LEMMA QueryRows ==
    SupportAssumption => IsFiniteSet(Rows) /\ Cardinality(Rows) \in Nat
<1>1. SupportAssumption => IsFiniteSet(Rows)
  BY DEF SupportAssumption, Queries!QueryAssumption, Queries!IsFiniteSet, IsFiniteSet
<1> QED
  BY <1>1, FS_CardinalityType

LEMMA PagesStart == SupportAssumption /\ Queries!Init => QueryBounds
<1> SUFFICES ASSUME SupportAssumption, Queries!Init PROVE QueryBounds
  OBVIOUS
<1>1. client.at = "idle" /\ page = 1 /\ DOMAIN table = {} /\ seen = {} /\ due = {}
  BY DEF Queries!Init
<1>2. page <= Cardinality(Rows) + 1
  BY <1>1, QueryRows
<1>3. left \in BOOLEAN
  BY DEF Queries!Init
<1> QED
  BY <1>1, <1>2, <1>3 DEF QueryBounds

LEMMA ShownRows ==
    ASSUME SupportAssumption, QueryInv, QueryBounds, Queries!FetchPage, client'.rows # {}
    PROVE  page <= Cardinality(Rows)
<1> DEFINE n == Cardinality(Found)
           limit == Queries!Capped(client.limit)
           off == (page - 1) * limit
<1>1. QueryTypes /\ client.at = "page" /\ page \in Nat /\ page > 0 /\ Ranked
  BY FoundRows DEF QueryInv, QueryTypes, Queries!FetchPage
<1>2. PICK order \in Queries!Orders(Found) :
        client' = [client EXCEPT !.at = "count", !.rows = Queries!Slice(order, off, limit)]
  BY DEF Queries!FetchPage, Found, Queries!Offset
<1>3. limit \in Nat \ {0}
      /\ client \in [at : {"page", "count", "last"}, filters : Queries!Filters,
                     limit : Limits, rows : SUBSET DOMAIN table]
  BY <1>1, ClientTypes DEF QueryTypes
<1>4. DOMAIN order = 1 .. n
  BY DEF Queries!Orders, Queries!SetToSeqs, Queries!Cardinality, Cardinality
<1>5. PICK k \in DOMAIN order : k \in off + 1 .. off + limit
  <2>1. client'.rows = Queries!Slice(order, off, limit)
    BY <1>2, <1>3
  <2> QED
    BY <2>1 DEF Queries!Slice
<1>6. n \in Nat /\ n <= Cardinality(Rows) /\ Cardinality(Rows) \in Nat
  <2>1. Found \in SUBSET Rows /\ n \in Nat
    BY <1>1 DEF Ranked, QueryBounds
  <2> HIDE DEF n
  <2>2. Cardinality(Found) <= Cardinality(Rows)
    BY <2>1, QueryRows, FS_Subset
  <2> QED
    BY <2>1, <2>2, QueryRows DEF n
<1> HIDE DEF limit, n
<1>7. off >= page - 1 /\ off \in Nat
  <2> DEFINE p == page - 1
  <2>1. p \in Nat
    BY <1>1
  <2> HIDE DEF p
  <2>2. p * limit >= p /\ p * limit \in Nat
    BY <1>3, <2>1
  <2> QED
    BY <2>2 DEF p
<1> HIDE DEF off
<1> QED
  BY <1>1, <1>3, <1>4, <1>5, <1>6, <1>7

LEMMA PagesStay ==
    ASSUME SupportAssumption, QueryInv, QueryBounds, [Queries!Next]_queriesVars
    PROVE  QueryBounds'
<1>1. /\ QueryTypes /\ page \in Nat /\ Cardinality(Rows) \in Nat /\ MaxMoment \in Nat
      /\ Found \subseteq DOMAIN table
  BY QueryRows, FoundRows
     DEF QueryInv, QueryTypes, SupportAssumption, Queries!QueryAssumption, Ranked
<1>2. client.at # "idle" =>
        client \in [at : {"page", "count", "last"}, filters : Queries!Filters,
                    limit : Limits, rows : SUBSET DOMAIN table]
  BY <1>1, ClientTypes DEF QueryTypes
<1>3. CASE UNCHANGED queriesVars
  BY <1>3 DEF queriesVars, QueryBounds
<1>4. ASSUME NEW r \in Rows, NEW user, NEW created_at \in 1 .. MaxMoment,
             Queries!Store(r, user, created_at)
      PROVE  QueryBounds'
  <2>1. /\ DOMAIN table' = DOMAIN table \cup {r} /\ r \notin DOMAIN table
        /\ \A x \in DOMAIN table : table'[x] = table[x]
        /\ table'[r].created_at = created_at
        /\ UNCHANGED <<client, page, seen, due, left>>
    BY <1>4 DEF Queries!Store
  <2>2. \A x \in DOMAIN table' : table'[x].created_at \in 1 .. MaxMoment
    BY <1>4, <2>1 DEF QueryBounds
  <2> QED
    BY <2>1, <2>2 DEF QueryBounds
<1>5. ASSUME NEW r, Queries!UpdateStatus(r) PROVE QueryBounds'
  <2>1. /\ r \in DOMAIN table /\ table' = [table EXCEPT ![r].status = "confirmed"]
        /\ UNCHANGED <<client, page, seen>>
    BY <1>5 DEF Queries!UpdateStatus
  <2>2. DOMAIN table' = DOMAIN table
    BY <2>1
  <2>3. \A x \in DOMAIN table : table'[x].created_at = table[x].created_at
    <3>1. table[r] \in [user : Users, status : Queries!Statuses, created_at : Nat]
      BY <1>1, <2>1 DEF QueryTypes
    <3>2. table'[r] = [table[r] EXCEPT !.status = "confirmed"]
      BY <2>1
    <3> QED
      BY <2>1, <3>1, <3>2
  <2>4. due' \subseteq DOMAIN table /\ left' \in BOOLEAN
    BY <1>5 DEF Queries!UpdateStatus, QueryBounds
  <2> QED
    BY <2>1, <2>2, <2>3, <2>4 DEF QueryBounds
<1>6. ASSUME NEW filters, NEW limit, NEW first \in {0, 1}, Queries!Begin(filters, limit, first)
      PROVE  QueryBounds'
  <2>1. /\ UNCHANGED table /\ client'.at = "page" /\ page' = first /\ seen' = {} /\ left' = FALSE
        /\ due' \subseteq DOMAIN table
    BY <1>6 DEF Queries!Begin, Queries!Matching
  <2>2. page' <= Cardinality(Rows) + 1
    BY <1>1, <2>1
  <2>3. left' \in BOOLEAN
    BY <2>1
  <2> QED
    BY <2>1, <2>2, <2>3 DEF QueryBounds
<1>7. CASE Queries!RefusePage \/ Queries!Stop
  <2>1. /\ UNCHANGED table /\ client'.at = "idle" /\ page' = 1 /\ seen' = {} /\ due' = {}
        /\ left' = FALSE
    BY <1>7 DEF Queries!RefusePage, Queries!Stop
  <2>2. page' <= Cardinality(Rows) + 1
    BY <1>1, <2>1
  <2>3. left' \in BOOLEAN
    BY <2>1
  <2> QED
    BY <2>1, <2>2, <2>3 DEF QueryBounds
<1>8. CASE Queries!FetchPage
  <2>1. UNCHANGED <<table, page, seen, due, left>>
    BY <1>8 DEF Queries!FetchPage
  <2>2. client'.rows # {} => page <= Cardinality(Rows)
    BY <1>8, ShownRows
  <2> QED
    BY <2>1, <2>2 DEF QueryBounds
<1>9. CASE Queries!CountRows
  <2>1. /\ client.at = "count" /\ UNCHANGED <<table, due, left>>
        /\ seen' = seen \cup client.rows
        /\ page' = IF client.rows = {} THEN page ELSE page + 1
        /\ client.rows \subseteq DOMAIN table
        /\ client'.at \in {"last", "page"}
    BY <1>2, <1>9 DEF Queries!CountRows
  <2>2. page' <= Cardinality(Rows) + 1
    BY <1>1, <2>1 DEF QueryBounds
  <2> QED
    BY <2>1, <2>2 DEF QueryBounds
<1>10. CASE Queries!Fail
  <2>1. UNCHANGED <<table, page, seen, due, left>> /\ client'.at = "page"
    BY <1>2, <1>10 DEF Queries!Fail
  <2> QED
    BY <2>1 DEF QueryBounds
<1> QED
  BY <1>3, <1>4, <1>5, <1>6, <1>7, <1>8, <1>9, <1>10 DEF Queries!Next

LEMMA QueriesTyped ==
    ASSUME SupportAssumption, QueryInv, QueryBounds
    PROVE  Queries!TypeOK
<1>1. /\ QueryTypes /\ page \in Nat /\ Cardinality(Rows) \in Nat
      /\ Queries!Cardinality(Rows) = Cardinality(Rows)
  BY QueryRows DEF QueryInv, QueryTypes, Queries!Cardinality, Cardinality
<1>2. client.at \in {"idle", "page", "count", "last"}
  BY <1>1, ClientTypes DEF QueryTypes
<1>3. \A r \in DOMAIN table :
        table[r] \in [user : Users, status : Queries!Statuses, created_at : 1 .. MaxMoment]
  <2> SUFFICES ASSUME NEW r \in DOMAIN table
               PROVE  table[r] \in [user : Users, status : Queries!Statuses,
                                    created_at : 1 .. MaxMoment]
    OBVIOUS
  <2>1. table[r] \in [user : Users, status : Queries!Statuses, created_at : Nat]
        /\ table[r].created_at \in 1 .. MaxMoment
    BY <1>1 DEF QueryTypes, QueryBounds
  <2> QED
    BY <2>1
<1>4. page \in 0 .. Cardinality(Rows) + 1
  BY <1>1 DEF QueryBounds
<1> QED
  BY <1>1, <1>2, <1>3, <1>4 DEF Queries!TypeOK, QueryBounds
=============================================================================
