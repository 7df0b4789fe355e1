--------------------------- MODULE OrderListProofs ---------------------------
(***************************************************************************)
(* What the loop of AddOrderCfg leaves of a list of any length: the orders *)
(* at the even places among the first ones, and the rest.                  *)
(***************************************************************************)
EXTENDS OrderList, SequenceTheorems, WellFoundedInduction, TLAPS

(* The list without its 1st, 3rd, ... (2 * m - 1)th order.                 *)
Dropped(list, m) ==
  [i \in 1..Len(list) - m |-> IF i <= m THEN list[2 * i] ELSE list[i + m]]

(* The deletions that find an order: no more than there are odd places.    *)
IsHalf(h, list) == h \in Nat /\ 2 * h \in {Len(list), Len(list) + 1}
Found(n, h) == IF n <= h THEN n ELSE h

-----------------------------------------------------------------------------
(* A set of natural numbers has a least one; it takes the place of         *)
(* induction below.                                                        *)
LEMMA Least ==
  ASSUME NEW T \in SUBSET Nat, T # {}
  PROVE  \E x \in T : \A y \in T : x <= y
<1> DEFINE Before == OpToRel(<, Nat)
<1>1. IsWellFoundedOn(Before, Nat)
  BY NatLessThanWellFounded
<1> HIDE DEF Before
<1>2. PICK x \in T : \A y \in T : <<y, x>> \notin Before
  BY <1>1, WFMin
<1>3. \A m, n \in Nat : m < n => <<m, n>> \in Before
  BY DEF Before, OpToRel
<1>4. ASSUME NEW y \in T PROVE x <= y
  BY <1>2, <1>3, x \in Nat, y \in Nat, ~(y < x) => x <= y
<1> QED BY <1>4

(* Every list has a half.                                                  *)
LEMMA HalfExists ==
  ASSUME NEW S, NEW list \in Seq(S)
  PROVE  \E h : IsHalf(h, list)
<1> DEFINE L == Len(list)
<1>1. L \in Nat
  BY LenProperties
<1> HIDE DEF L
<1>2. (L + 1) \div 2 \in Nat /\ 2 * ((L + 1) \div 2) \in {L, L + 1}
  BY <1>1
<1> QED BY <1>2 DEF IsHalf, L

(* What is left is a list of orders that were there.                       *)
LEMMA DroppedSeq ==
  ASSUME NEW S, NEW list \in Seq(S), NEW m \in Nat, 2 * m <= Len(list) + 1
  PROVE  /\ Dropped(list, m) \in Seq(S)
         /\ Len(Dropped(list, m)) = Len(list) - m
         /\ \A i \in 1..Len(list) - m :
              Dropped(list, m)[i] = IF i <= m THEN list[2 * i] ELSE list[i + m]
<1> DEFINE L == Len(list)
<1>1. L \in Nat /\ L - m \in Nat
  BY LenProperties
<1>2. ASSUME NEW i \in 1..L - m
      PROVE  (IF i <= m THEN list[2 * i] ELSE list[i + m]) \in S
  <2>1. i <= m => 2 * i \in 1..L
    BY <1>1
  <2>2. ~(i <= m) => i + m \in 1..L
    BY <1>1
  <2> QED BY <2>1, <2>2, ElementOfSeq
<1>3. Dropped(list, m) \in [1..L - m -> S]
  BY <1>2 DEF Dropped
<1> QED BY <1>1, <1>3 DEF Dropped

(* cJSON_DeleteItemFromArray closes the gap.                               *)
LEMMA RemoveAtSeq ==
  ASSUME NEW S, NEW list \in Seq(S), NEW k \in 1..Len(list)
  PROVE  /\ RemoveAt(list, k) \in Seq(S)
         /\ Len(RemoveAt(list, k)) = Len(list) - 1
         /\ \A i \in 1..Len(list) - 1 :
              RemoveAt(list, k)[i] = IF i < k THEN list[i] ELSE list[i + 1]
<1> DEFINE L == Len(list)
           a == SubSeq(list, 1, k - 1)
           b == SubSeq(list, k + 1, L)
<1>1. L \in Nat
  BY LenProperties
<1>2. a \in Seq(S) /\ Len(a) = k - 1 /\ \A i \in 1..k - 1 : a[i] = list[i]
  <2>1. \A i \in 1..k - 1 : list[i] \in S
    BY <1>1, ElementOfSeq
  <2> QED BY <1>1, <2>1, SubSeqProperties
<1>3. b \in Seq(S) /\ Len(b) = L - k /\ \A i \in 1..L - k : b[i] = list[k + i]
  <2>1. \A i \in k + 1..L : list[i] \in S
    BY <1>1, ElementOfSeq
  <2> QED BY <1>1, <2>1, SubSeqProperties
<1>4. /\ a \o b \in Seq(S) /\ Len(a \o b) = Len(a) + Len(b)
      /\ \A i \in 1..Len(a) + Len(b) : (a \o b)[i] = IF i <= Len(a) THEN a[i] ELSE b[i - Len(a)]
  BY <1>2, <1>3, ConcatProperties
<1> HIDE DEF a, b
<1>5. Len(a) + Len(b) = L - 1
  BY <1>1, <1>2, <1>3
<1>6. ASSUME NEW i \in 1..L - 1
      PROVE  (a \o b)[i] = IF i < k THEN list[i] ELSE list[i + 1]
  <2>1. CASE i < k
    BY <1>1, <1>2, <1>4, <1>5, <2>1
  <2>2. CASE ~(i < k)
    <3>1. i - (k - 1) \in 1..L - k /\ k + (i - (k - 1)) = i + 1
      BY <1>1, <2>2
    <3>2. (a \o b)[i] = b[i - (k - 1)]
      BY <1>1, <1>2, <1>4, <1>5, <2>2
    <3> QED BY <1>3, <2>2, <3>1, <3>2
  <2> QED BY <2>1, <2>2
<1> QED BY <1>1, <1>4, <1>5, <1>6 DEF RemoveAt, a, b

(* A round of the loop takes one more order, or finds none to take.        *)
LEMMA OneRound ==
  ASSUME NEW S, NEW list \in Seq(S), NEW h, IsHalf(h, list), NEW n \in Nat
  PROVE  DeleteItemFromArray(Dropped(list, Found(n, h)), n) = Dropped(list, Found(n + 1, h))
<1> DEFINE L == Len(list)
           m == Found(n, h)
           d == Dropped(list, m)
<1>1. L \in Nat /\ h \in Nat /\ 2 * h \in {L, L + 1}
  BY LenProperties DEF IsHalf
<1>2. m \in Nat /\ 2 * m <= L + 1
  BY <1>1 DEF Found
<1>3. /\ d \in Seq(S) /\ Len(d) = L - m
      /\ \A i \in 1..L - m : d[i] = IF i <= m THEN list[2 * i] ELSE list[i + m]
  BY <1>2, DroppedSeq
<1>4. CASE n < h
  <2>1. m = n /\ Found(n + 1, h) = n + 1 /\ n < Len(d) /\ 2 * (n + 1) <= L + 1
    BY <1>1, <1>3, <1>4 DEF Found
  <2> DEFINE r == RemoveAt(d, n + 1)
             e == Dropped(list, n + 1)
  <2>2. /\ r \in Seq(S) /\ Len(r) = L - n - 1
        /\ \A i \in 1..L - n - 1 : r[i] = IF i < n + 1 THEN d[i] ELSE d[i + 1]
    <3>1. n + 1 \in 1..Len(d)
      BY <1>1, <1>3, <2>1
    <3>2. Len(d) - 1 = L - n - 1
      BY <1>1, <1>3, <2>1
    <3> HIDE DEF d
    <3> QED BY <1>3, <3>1, <3>2, RemoveAtSeq
  <2>3. /\ e \in Seq(S) /\ Len(e) = L - (n + 1)
        /\ \A i \in 1..L - (n + 1) : e[i] = IF i <= n + 1 THEN list[2 * i] ELSE list[i + (n + 1)]
    <3>1. n + 1 \in Nat
      OBVIOUS
    <3> QED BY <2>1, <3>1, DroppedSeq
  <2> HIDE DEF r, e, d
  <2>4. ASSUME NEW i \in 1..L - n - 1 PROVE r[i] = e[i]
    <3>1. CASE i < n + 1
      <4>1. r[i] = d[i] /\ i \in 1..L - n
        BY <1>1, <2>2, <3>1
      <4>2. d[i] = list[2 * i]
        BY <1>1, <1>3, <2>1, <3>1, <4>1
      <4>3. e[i] = list[2 * i]
        BY <1>1, <2>3, <3>1
      <4> QED BY <4>1, <4>2, <4>3
    <3>2. CASE i = n + 1
      <4>1. r[i] = d[i + 1] /\ i + 1 \in 1..L - n
        BY <1>1, <2>2, <3>2
      <4>2. d[i + 1] = list[i + 1 + n]
        BY <1>1, <1>3, <2>1, <3>2, <4>1
      <4>3. e[i] = list[2 * i] /\ 2 * i = i + 1 + n
        BY <1>1, <2>3, <3>2
      <4> QED BY <4>1, <4>2, <4>3
    <3>3. CASE i > n + 1
      <4>1. r[i] = d[i + 1] /\ i + 1 \in 1..L - n
        BY <1>1, <2>2, <3>3
      <4>2. d[i + 1] = list[i + 1 + n]
        BY <1>1, <1>3, <2>1, <3>3, <4>1
      <4>3. e[i] = list[i + (n + 1)] /\ i + (n + 1) = i + 1 + n
        BY <1>1, <2>3, <3>3
      <4> QED BY <4>1, <4>2, <4>3
    <3> QED BY <1>1, <3>1, <3>2, <3>3
  <2>5. r = e
    BY <1>1, <2>2, <2>3, <2>4, SeqEqual
  <2> QED BY <2>1, <2>5 DEF DeleteItemFromArray, d, r, e
<1>5. CASE ~(n < h)
  <2>1. ~(n < Len(d)) /\ Found(n + 1, h) = m
    BY <1>1, <1>3, <1>5 DEF Found
  <2> QED BY <2>1 DEF DeleteItemFromArray
<1> QED BY <1>4, <1>5

(* The closed form of the loop, for a list of any length.                  *)
LEMMA TrimIsDropped ==
  ASSUME NEW S, NEW list \in Seq(S), NEW h, IsHalf(h, list)
  PROVE  Trim(list) = Dropped(list, Found(RemoveOldItem, h))
<1> DEFINE N == RemoveOldItem
           Round(f, n) == IF n = 0 THEN list ELSE DeleteItemFromArray(f[n - 1], n - 1)
           Loop(f) == [n \in 0..N |-> Round(f, n)]
           closed == [n \in 0..N |-> Dropped(list, Found(n, h))]
           after == CHOOSE f : f = Loop(f)
<1>1. N \in Nat /\ h \in Nat
  BY ItemsAssumption DEF IsHalf
<1>2. Dropped(list, Found(0, h)) = list
  <2>1. Found(0, h) = 0
    BY <1>1 DEF Found
  <2>2. /\ Dropped(list, 0) \in Seq(S) /\ Len(Dropped(list, 0)) = Len(list)
        /\ \A i \in 1..Len(list) : Dropped(list, 0)[i] = list[i]
    BY DroppedSeq, LenProperties
  <2> QED BY <2>1, <2>2, SeqEqual
<1>3. ASSUME NEW n \in 0..N PROVE closed[n] = Round(closed, n)
  <2>1. CASE n = 0
    BY <1>1, <1>2, <2>1
  <2>2. CASE n # 0
    <3>1. n - 1 \in Nat /\ n - 1 \in 0..N /\ (n - 1) + 1 = n
      BY <1>1, <2>2
    <3>2. DeleteItemFromArray(Dropped(list, Found(n - 1, h)), n - 1) = Dropped(list, Found(n, h))
      BY <3>1, OneRound
    <3> QED BY <2>2, <3>1, <3>2
  <2> QED BY <2>1, <2>2
<1>4. closed = Loop(closed)
  BY <1>3
<1>5. after = Loop(after)
  BY <1>4
<1> HIDE DEF after
<1>6. \A n \in 0..N : after[n] = Round(after, n)
  BY <1>5
<1>7. \A n \in 0..N : after[n] = closed[n]
  <2> DEFINE Wrong == {n \in 0..N : after[n] # closed[n]}
  <2>1. SUFFICES ASSUME Wrong # {} PROVE FALSE
    OBVIOUS
  <2>2. PICK n \in Wrong : \A k \in Wrong : n <= k
    <3>1. Wrong \in SUBSET Nat
      BY <1>1
    <3> HIDE DEF Wrong
    <3> QED BY <2>1, <3>1, Least
  <2>3. n # 0
    BY <1>3, <1>6
  <2>4. n - 1 \in 0..N /\ ~(n <= n - 1)
    BY <1>1, <2>3
  <2>5. after[n - 1] = closed[n - 1]
    BY <2>2, <2>4
  <2> QED BY <1>3, <1>6, <2>3, <2>5
<1>8. Trim(list) = after[N]
  BY DEF Trim, after
<1> QED BY <1>1, <1>7, <1>8

-----------------------------------------------------------------------------
(* The place in the list of the order that ends up at place i.             *)
Place(i, m) == IF i <= m THEN 2 * i ELSE i + m

(* The loop leaves a list of orders that were there, in their order, and   *)
(* takes at least the first.                                               *)
LEMMA TrimSeq ==
  ASSUME NEW S, NEW list \in Seq(S)
  PROVE  /\ Trim(list) \in Seq(S)
         /\ Len(Trim(list)) <= Len(list)
         /\ 0 < Len(list) => Len(Trim(list)) < Len(list)
         /\ \A i, j \in 1..Len(Trim(list)) : i < j =>
              \E p, q \in 1..Len(list) : /\ p < q
                                         /\ Trim(list)[i] = list[p]
                                         /\ Trim(list)[j] = list[q]
         /\ ToSet(Trim(list)) = {list[i] : i \in DOMAIN list
                                   \ {2 * k - 1 : k \in 1..RemoveOldItem}}
<1> DEFINE L == Len(list)
           N == RemoveOldItem
           t == Trim(list)
<1>1. PICK h : IsHalf(h, list)
  BY HalfExists
<1> DEFINE m == Found(N, h)
<1>2. L \in Nat /\ h \in Nat /\ 2 * h \in {L, L + 1} /\ N \in Nat /\ N >= 1
  BY <1>1, LenProperties, ItemsAssumption DEF IsHalf
<1>3. m \in Nat /\ 2 * m <= L + 1 /\ (m = N \/ (2 * m >= L /\ m < N)) /\ (0 < L => m >= 1)
  <2>1. CASE N <= h
    BY <1>2, <2>1 DEF Found
  <2>2. CASE ~(N <= h)
    BY <1>2, <2>2 DEF Found
  <2> QED BY <2>1, <2>2
<1> HIDE DEF m
<1>4. /\ t \in Seq(S) /\ Len(t) = L - m
      /\ \A i \in 1..L - m : t[i] = IF i <= m THEN list[2 * i] ELSE list[i + m]
  <2>1. t = Dropped(list, m)
    BY <1>1, TrimIsDropped DEF m
  <2> HIDE DEF t
  <2> QED BY <1>3, <2>1, DroppedSeq
<1> HIDE DEF t
<1>5. \A i \in 1..L - m : Place(i, m) \in 1..L /\ t[i] = list[Place(i, m)]
  <2> TAKE i \in 1..L - m
  <2>1. Place(i, m) \in 1..L
    BY <1>2, <1>3 DEF Place
  <2>2. t[i] = list[Place(i, m)]
    BY <1>4 DEF Place
  <2> QED BY <2>1, <2>2
<1>6. Len(t) <= L /\ (0 < L => Len(t) < L)
  BY <1>2, <1>3, <1>4
<1>7. ASSUME NEW i \in 1..Len(t), NEW j \in 1..Len(t), i < j
      PROVE  \E p, q \in 1..L : p < q /\ t[i] = list[p] /\ t[j] = list[q]
  <2>1. Place(i, m) < Place(j, m)
    BY <1>2, <1>3, <1>4, <1>7 DEF Place
  <2> QED BY <1>4, <1>5, <2>1
<1>8. ToSet(t) = {list[i] : i \in DOMAIN list \ {2 * k - 1 : k \in 1..N}}
  <2>1. DOMAIN t = 1..L - m /\ DOMAIN list = 1..L
    BY <1>4, LenProperties
  <2>2. ASSUME NEW i \in 1..L - m, NEW k \in 1..N PROVE Place(i, m) # 2 * k - 1
    BY <1>2, <1>3 DEF Place
  <2>3. ASSUME NEW p \in 1..L, \A k \in 1..N : p # 2 * k - 1
        PROVE  \E i \in 1..L - m : Place(i, m) = p
    <3>1. PICK k \in Nat : p = 2 * k \/ p = 2 * k - 1
      <4>1. (p + 1) \div 2 \in Nat /\ 2 * ((p + 1) \div 2) \in {p, p + 1}
        BY <1>2
      <4> QED BY <4>1
    <3>2. CASE p <= 2 * m
      <4>1. k \in 1..N \/ k > N
        BY <1>2, <1>3, <3>1
      <4>2. p = 2 * k /\ k <= m
        BY <1>2, <1>3, <2>3, <3>1, <3>2, <4>1
      <4>3. k \in 1..L - m /\ Place(k, m) = p
        BY <1>2, <1>3, <4>2 DEF Place
      <4> QED BY <4>3
    <3>3. CASE p > 2 * m
      <4>1. p - m \in 1..L - m /\ Place(p - m, m) = p
        BY <1>2, <1>3, <3>3 DEF Place
      <4> QED BY <4>1
    <3> QED BY <1>2, <1>3, <3>2, <3>3
  <2> DEFINE kept == DOMAIN list \ {2 * k - 1 : k \in 1..N}
  <2>4. \A i \in 1..L - m : Place(i, m) \in kept
    BY <1>5, <2>1, <2>2
  <2>5. \A p \in kept : \E i \in 1..L - m : Place(i, m) = p
    BY <2>1, <2>3
  <2> HIDE DEF kept
  <2>6. ASSUME NEW x \in ToSet(t) PROVE x \in {list[i] : i \in kept}
    BY <1>5, <2>1, <2>4 DEF ToSet
  <2>7. ASSUME NEW p \in kept PROVE list[p] \in ToSet(t)
    BY <1>5, <2>1, <2>5 DEF ToSet
  <2>8. ToSet(t) = {list[i] : i \in kept}
    BY <2>6, <2>7
  <2> QED BY <2>8 DEF kept
<1> QED BY <1>4, <1>6, <1>7, <1>8 DEF t

(* Append at the end of a list.                                            *)
LEMMA AppendSeq ==
  ASSUME NEW S, NEW list \in Seq(S), NEW sn \in S
  PROVE  /\ Append(list, sn) \in Seq(S)
         /\ Len(Append(list, sn)) = Len(list) + 1
         /\ Append(list, sn)[Len(list) + 1] = sn
         /\ \A i \in 1..Len(list) : Append(list, sn)[i] = list[i]
         /\ ToSet(Append(list, sn)) = ToSet(list) \cup {sn}
<1> DEFINE L == Len(list)
           a == Append(list, sn)
<1>1. L \in Nat /\ DOMAIN list = 1..L
  BY LenProperties
<1>2. a \in Seq(S) /\ Len(a) = L + 1 /\ a[L + 1] = sn /\ \A i \in 1..L : a[i] = list[i]
  BY AppendProperties
<1>3. DOMAIN a = 1..L + 1
  BY <1>2, LenProperties
<1> HIDE DEF a
<1>4. 1..L + 1 = 1..L \cup {L + 1}
  BY <1>1
<1>5. ToSet(a) = ToSet(list) \cup {sn}
  BY <1>1, <1>2, <1>3, <1>4 DEF ToSet
<1> QED BY <1>2, <1>5 DEF a

(* AddOrderCfg, as the tasks that store an order rely on it.               *)
LEMMA AddOrderCfgSeq ==
  ASSUME NEW S, NEW list \in Seq(S), NEW sn \in S
  PROVE  /\ AddOrderCfg(list, sn) \in Seq(S)
         /\ Len(list) <= MaxItem + 1 => Len(AddOrderCfg(list, sn)) <= MaxItem + 1
         /\ sn \in ToSet(AddOrderCfg(list, sn))
         /\ ToSet(AddOrderCfg(list, sn)) \subseteq ToSet(list) \cup {sn}
         /\ Len(list) <= MaxItem => ToSet(list) \subseteq ToSet(AddOrderCfg(list, sn))
         /\ IsInjective(list) /\ sn \notin ToSet(list) => IsInjective(AddOrderCfg(list, sn))
<1> DEFINE t == IF Len(list) > MaxItem THEN Trim(list) ELSE list
<1>1. Len(list) \in Nat /\ DOMAIN list = 1..Len(list) /\ MaxItem \in Nat
  BY LenProperties, ItemsAssumption
<1>2. t \in Seq(S)
  BY TrimSeq
<1>3. Len(list) <= MaxItem + 1 => Len(t) <= MaxItem
  <2>1. Len(Trim(list)) \in Nat /\ (0 < Len(list) => Len(Trim(list)) < Len(list))
    BY TrimSeq, LenProperties
  <2> QED BY <1>1, <2>1
<1>4. ToSet(t) \subseteq ToSet(list)
  <2>1. ToSet(Trim(list)) \subseteq ToSet(list)
    <3> DEFINE odd == {2 * k - 1 : k \in 1..RemoveOldItem}
    <3>1. ToSet(Trim(list)) = {list[i] : i \in DOMAIN list \ odd}
      BY TrimSeq
    <3> HIDE DEF odd
    <3> QED BY <3>1 DEF ToSet
  <2> QED BY <2>1
<1>5. Len(list) <= MaxItem => t = list
  BY <1>1
<1>6. IsInjective(list) => \A i, j \in 1..Len(t) : i < j => t[i] # t[j]
  <2> SUFFICES ASSUME IsInjective(list), NEW i \in 1..Len(t), NEW j \in 1..Len(t), i < j
               PROVE  t[i] # t[j]
    OBVIOUS
  <2>1. PICK p \in 1..Len(list), q \in 1..Len(list) : p < q /\ t[i] = list[p] /\ t[j] = list[q]
    BY TrimSeq
  <2> QED BY <1>1, <2>1 DEF IsInjective
<1> HIDE DEF t
<1> DEFINE a == Append(t, sn)
<1>7. /\ a \in Seq(S) /\ Len(a) = Len(t) + 1 /\ a[Len(t) + 1] = sn
      /\ \A i \in 1..Len(t) : a[i] = t[i]
      /\ ToSet(a) = ToSet(t) \cup {sn}
  BY <1>2, AppendSeq
<1>8. Len(t) \in Nat /\ DOMAIN t = 1..Len(t) /\ DOMAIN a = 1..Len(t) + 1
  BY <1>2, <1>7, LenProperties
<1> HIDE DEF a
<1>9. ASSUME IsInjective(list), sn \notin ToSet(list) PROVE IsInjective(a)
  <2>1. \A i \in 1..Len(t) : t[i] # sn
    BY <1>4, <1>8, <1>9 DEF ToSet
  <2>2. ASSUME NEW i \in 1..Len(t) + 1, NEW j \in 1..Len(t) + 1, i < j PROVE a[i] # a[j]
    <3>1. CASE j = Len(t) + 1
      BY <1>7, <1>8, <2>1, <2>2, <3>1
    <3>2. CASE j # Len(t) + 1
      BY <1>6, <1>7, <1>8, <1>9, <2>2, <3>2
    <3> QED BY <3>1, <3>2
  <2>3. \A i, j \in 1..Len(t) + 1 : i < j \/ i = j \/ j < i
    BY <1>8
  <2> QED BY <1>8, <2>2, <2>3 DEF IsInjective
<1>10. AddOrderCfg(list, sn) = a
  BY DEF AddOrderCfg, a, t
<1>11. Len(list) <= MaxItem + 1 => Len(a) <= MaxItem + 1
  BY <1>1, <1>3, <1>7, <1>8
<1> QED BY <1>4, <1>5, <1>7, <1>9, <1>10, <1>11

-----------------------------------------------------------------------------
(* An order stored in a list that is too long costs the 1st, 3rd, 5th...   *)
(* of the old ones, RemoveOldItem of them, since the indices shift with    *)
(* every deletion in the loop of AddOrderCfg, and no other order.          *)
THEOREM TrimIsEveryOther ==
  ASSUME NEW S, NEW list \in Seq(S), NEW sn \in S, Len(list) > MaxItem
  PROVE  ToSet(AddOrderCfg(list, sn)) =
           {sn} \cup {list[i] : i \in DOMAIN list \ {2 * k - 1 : k \in 1..RemoveOldItem}}
<1> DEFINE kept == {list[i] : i \in DOMAIN list \ {2 * k - 1 : k \in 1..RemoveOldItem}}
<1>1. Trim(list) \in Seq(S) /\ ToSet(Trim(list)) = kept
  BY TrimSeq
<1>2. AddOrderCfg(list, sn) = Append(Trim(list), sn)
  BY DEF AddOrderCfg
<1> HIDE DEF kept
<1>3. ToSet(Append(Trim(list), sn)) = ToSet(Trim(list)) \cup {sn}
  BY <1>1, AppendSeq
<1>4. ToSet(AddOrderCfg(list, sn)) = {sn} \cup kept
  BY <1>1, <1>2, <1>3
<1> QED BY <1>4 DEF kept
=============================================================================
