---------------------------- MODULE TariffProofs ----------------------------
(***************************************************************************)
(* What an order charges is bounded by what was metered, for any tariff,   *)
(* any limits and any length of a session.                                 *)
(***************************************************************************)
EXTENDS Tariff, WellFoundedInduction, TLAPS

(* The energy that was metered, summed up by segments.                     *)
Metered(m) == SumSegs([s \in Segs |-> SegSum(m, s)]) + m[Default]

(* Before the order is made, its record is empty and nothing has flowed.   *)
Fresh ==
  stat = "MAKE" =>
    /\ now \in 1 .. Day * Hour
    /\ meter = 0 /\ metered = [q \in Cells |-> 0]
    /\ period = [q \in Cells |-> NoPeriod]
    /\ total = [energy |-> 0, fee |-> 0, serv |-> 0]

(* After that, the session is no longer than MaxTime.                      *)
Going ==
  stat # "MAKE" =>
    tStart \in 1 .. Day * Hour + 1 /\ tStart <= now /\ now - tStart <= MaxTime

(* The reference accounts for the meter.                                   *)
Measured ==
  /\ Metered(metered) = meter
  /\ \A q \in Cells : metered[q] <= meter /\ period[q].start <= meter

(* A period that was opened was visited, the current one as the last.      *)
Visits ==
  stat # "MAKE" =>
    /\ \A q \in Cells : LET t == period[q].tStart
                        IN  t > 0 => tStart <= t /\ t <= now /\ JudgeSegState(t) = q
    /\ \E t \in tStart .. now : /\ JudgeSegState(t) = cur
                                /\ \A q \in Cells : period[q].tStart <= t

(* No period counts more than was metered in it, and none will if the next *)
(* pass still finds the session in its current period.                     *)
Charged ==
  stat # "MAKE" =>
    \/ Revisited
    \/ /\ total.energy <= meter /\ TotalFee(total) <= Worth(metered)
       /\ \A q \in Cells : period[q].energy <= metered[q]
       /\ LET p == period[cur]
          IN  JudgeSegState(now) = cur /\ p.tStart > 0 => meter - p.start <= metered[cur]

(* What a period may have missed before the order was made, and the        *)
(* periods the session has been in.                                        *)
Early(q) == IF q = JudgeSegState(tStart - 1) /\ q # JudgeSegState(tStart) THEN 1 ELSE 0
Seen == {JudgeSegState(t) : t \in tStart .. now}

(* What period q has missed so far, and its times: not entered, left,      *)
(* entered but not opened, or open.                                        *)
Missed(q) ==
  LET p == period[q]
  IN  /\ q \notin Seen => p = NoPeriod /\ metered[q] <= Early(q)
      /\ q \in Seen \ {cur} => metered[q] - p.energy <= 3 + Early(q)
      /\ q = cur /\ p.tStart = 0 => p = NoPeriod /\ metered[q] <= 1 + Early(q)
      /\ q = cur /\ p.tStart > 0 =>
           p.energy = meter - p.start /\ metered[q] - p.energy <= 2 + Early(q)

TimesOK(q) ==
  LET p == period[q]
  IN  p.tEnd # 0 =>
        \/ tStart <= p.tStart /\ p.tStart <= p.tEnd /\ p.tEnd <= now
        \/ p.tStart = 0 /\ p.tEnd = tStart + 1 /\ q = JudgeSegState(tStart)

(* A period that has been entered is opened before it is left, unless the  *)
(* order was made in its last moment.                                      *)
Opens ==
  period[cur].tStart = 0 => now = tStart \/ JudgeSegState(now + 1) = JudgeSegState(now)

(* As long as no limit stops the updates, cur follows the clock.           *)
Followed ==
  stat # "MAKE" /\ Unlimited =>
    /\ stat # "WAITSTOP" /\ cur = JudgeSegState(now)
    /\ Revisited \/ (Opens /\ \A q \in Cells : Missed(q) /\ TimesOK(q))

IInv == TypeOK /\ Fresh /\ Going /\ Measured /\ Visits /\ Charged /\ Followed

-----------------------------------------------------------------------------
(* A set of natural numbers has a least one; it takes the place of         *)
(* induction below.                                                        *)
LEMMA Least ==
  ASSUME NEW T \in SUBSET Nat, T # {}
  PROVE  \E x \in T : \A y \in T : x <= y
<1> DEFINE Before == OpToRel(<, Nat)
<1>1. IsWellFoundedOn(Before, Nat)
  BY NatLessThanWellFounded
<1> HIDE DEF Before
<1>2. PICK x \in T : \A y \in T : <<y, x>> \notin Before
  BY <1>1, WFMin
<1>3. \A m, n \in Nat : m < n => <<m, n>> \in Before
  BY DEF Before, OpToRel
<1>4. ASSUME NEW y \in T PROVE x <= y
  BY <1>2, <1>3, x \in Nat, y \in Nat, ~(y < x) => x <= y
<1> QED BY <1>4

-----------------------------------------------------------------------------
(* A segment has a number of periods.                                      *)
LEMMA PeriodCount ==
  ASSUME NEW s \in Segs
  PROVE  Len(SegTime[s]) \in Nat
BY TariffAssumption

(* The hour of the day.                                                    *)
LEMMA HourInDay ==
  ASSUME NEW t \in Nat
  PROVE  HourOf(t) \in 0 .. Day - 1
<1>1. Day \in Nat \ {0} /\ Hour \in Nat \ {0}
  BY TariffAssumption
<1>2. t \div Hour \in Int
  BY <1>1
<1>3. \A x \in Int : x % Day \in 0 .. Day - 1
  BY <1>1
<1> QED BY <1>2, <1>3 DEF HourOf

(* The loops over segments and periods find a period or fall back to the   *)
(* default one.                                                            *)
LEMMA JudgeInCells ==
  ASSUME NEW t \in Nat
  PROVE  JudgeSegState(t) \in Cells
<1> DEFINE h == HourOf(t)
           hit == {q \in Periods : IsTimeInclude(h, q)}
           first(q) == \A r \in hit : q[1] < r[1] \/ (q[1] = r[1] /\ q[2] <= r[2])
<1>1. h \in 0 .. Day - 1
  BY HourInDay
<1>2. JudgeSegState(t) = IF hit = {} THEN Default ELSE CHOOSE q \in hit : first(q)
  BY <1>1 DEF JudgeSegState, SegOfHour
<1>3. CASE hit = {}
  BY <1>2, <1>3 DEF Cells
<1>4. CASE hit # {}
  <2>1. ASSUME NEW q \in hit PROVE q[1] \in Nat /\ q[2] \in Nat /\ q = <<q[1], q[2]>>
    <3>1. PICK s \in Segs : \E p \in 1..Len(SegTime[s]) : q = <<s, p>>
      BY DEF Periods
    <3> QED BY <3>1, PeriodCount DEF Segs, SegMax
  <2> DEFINE segs == {q[1] : q \in hit}
  <2>2. PICK s \in segs : \A r \in segs : s <= r
    <3>1. segs \in SUBSET Nat /\ segs # {}
      BY <1>4, <2>1
    <3> HIDE DEF segs
    <3> QED BY <3>1, Least
  <2> DEFINE places == {q[2] : q \in {r \in hit : r[1] = s}}
  <2>3. PICK p \in places : \A r \in places : p <= r
    <3>1. places \in SUBSET Nat /\ places # {}
      BY <2>1, <2>2
    <3> HIDE DEF places
    <3> QED BY <3>1, Least
  <2>4. PICK q \in hit : q[1] = s /\ q[2] = p
    BY <2>3
  <2>5. ASSUME NEW r \in hit PROVE q[1] < r[1] \/ (q[1] = r[1] /\ q[2] <= r[2])
    <3>1. q[1] <= r[1]
      BY <2>2, <2>4
    <3>2. q[1] = r[1] => q[2] <= r[2]
      BY <2>3, <2>4
    <3> QED BY <2>1, <3>1, <3>2
  <2>6. first(q)
    BY <2>5
  <2>7. JudgeSegState(t) \in hit
    <3> HIDE DEF hit, first
    <3> QED BY <1>2, <1>4, <2>4, <2>6
  <2> QED BY <2>7 DEF Cells
<1> QED BY <1>3, <1>4

(* An hour is longer than a pass: a period that has just begun lasts.      *)
LEMMA JudgeLasts ==
  ASSUME NEW t \in Nat, JudgeSegState(t + 1) # JudgeSegState(t)
  PROVE  JudgeSegState(t + 2) = JudgeSegState(t + 1)
<1>1. Hour \in Nat /\ Hour >= 2
  BY TariffAssumption
<1> DEFINE k == t \div Hour
           r == t % Hour
<1>2. k \in Nat /\ r \in 0 .. Hour - 1 /\ t = Hour * k + r
  BY <1>1
<1>3. ASSUME NEW j \in Nat, NEW x \in 0 .. Hour - 1 PROVE (Hour * j + x) \div Hour = j
  BY <1>1
<1> HIDE DEF k, r
<1>4. (t + 1) \div Hour # k
  BY DEF JudgeSegState, HourOf, k
<1>5. r = Hour - 1
  <2>1. ASSUME r + 1 \in 0 .. Hour - 1 PROVE FALSE
    <3>1. (Hour * k + (r + 1)) \div Hour = k
      BY <1>2, <1>3, <2>1
    <3>2. t + 1 = Hour * k + (r + 1)
      BY <1>1, <1>2
    <3> QED BY <1>4, <3>1, <3>2
  <2> QED BY <1>1, <1>2, <2>1
<1>6. t + 1 = Hour * (k + 1) + 0 /\ t + 2 = Hour * (k + 1) + 1
  BY <1>1, <1>2, <1>5
<1>7. (t + 1) \div Hour = k + 1 /\ (t + 2) \div Hour = k + 1
  <2>1. k + 1 \in Nat /\ 0 \in 0 .. Hour - 1 /\ 1 \in 0 .. Hour - 1
    BY <1>1, <1>2
  <2>2. (Hour * (k + 1) + 0) \div Hour = k + 1
    BY <1>3, <2>1
  <2>3. (Hour * (k + 1) + 1) \div Hour = k + 1
    BY <1>3, <2>1
  <2> QED BY <1>6, <2>2, <2>3
<1> QED BY <1>7 DEF JudgeSegState, HourOf

-----------------------------------------------------------------------------
(* The loop over the periods of a segment.                                 *)
Loop(f, amount, s, N) == f = [n \in 0..N |-> IF n = 0 THEN 0 ELSE f[n - 1] + amount[<<s, n>>]]

(* The loop has a result, however many periods there are.                  *)
LEMMA LoopEnds ==
  ASSUME NEW amount, NEW s, NEW N \in Nat
  PROVE  \E f : Loop(f, amount, s, N)
<1> DEFINE Stuck == {n \in Nat : ~ \E f : Loop(f, amount, s, n)}
<1>1. SUFFICES ASSUME Stuck # {} PROVE FALSE
  OBVIOUS
<1>2. PICK n \in Stuck : \A k \in Stuck : n <= k
  <2>1. Stuck \in SUBSET Nat
    OBVIOUS
  <2> HIDE DEF Stuck
  <2> QED BY <1>1, <2>1, Least
<1>3. CASE n = 0
  <2>1. Loop([i \in 0..0 |-> 0], amount, s, 0)
    BY DEF Loop
  <2> QED BY <1>2, <1>3, <2>1
<1>4. CASE n # 0
  <2>1. n - 1 \in Nat /\ n - 1 \notin Stuck
    BY <1>2, <1>4
  <2>2. PICK f : Loop(f, amount, s, n - 1)
    BY <2>1
  <2> DEFINE g == [i \in 0..n |-> IF i = n THEN f[n - 1] + amount[<<s, n>>] ELSE f[i]]
  <2>3. ASSUME NEW i \in 0..n
        PROVE  g[i] = IF i = 0 THEN 0 ELSE g[i - 1] + amount[<<s, i>>]
    <3>1. CASE i = n
      <4>1. g[i] = f[n - 1] + amount[<<s, n>>] /\ n - 1 \in 0..n /\ n - 1 # n
        BY <2>1, <3>1
      <4>2. g[n - 1] = f[n - 1]
        BY <4>1
      <4> QED BY <1>4, <3>1, <4>1, <4>2
    <3>2. CASE i # n
      <4>1. i \in 0..n - 1
        BY <2>1, <3>2
      <4>2. g[i] = f[i]
        BY <3>2
      <4>3. f[i] = IF i = 0 THEN 0 ELSE f[i - 1] + amount[<<s, i>>]
        BY <2>2, <4>1 DEF Loop
      <4>4. i # 0 => i - 1 \in 0..n /\ i - 1 # n
        BY <2>1, <4>1
      <4>5. i # 0 => g[i - 1] = f[i - 1]
        BY <4>4
      <4> QED BY <4>2, <4>3, <4>5
    <3> QED BY <3>1, <3>2
  <2>4. Loop(g, amount, s, n)
    BY <2>3 DEF Loop
  <2> QED BY <1>2, <2>4
<1> QED BY <1>3, <1>4

(* What the loop adds up, round by round.                                  *)
LEMMA SegSumIs ==
  ASSUME NEW amount, NEW s \in Segs
  PROVE  \E f : /\ SegSum(amount, s) = f[Len(SegTime[s])] /\ f[0] = 0
                /\ \A n \in 1..Len(SegTime[s]) : f[n] = f[n - 1] + amount[<<s, n>>]
<1> DEFINE N == Len(SegTime[s])
           Sums(f) == [n \in 0..N |-> IF n = 0 THEN 0 ELSE f[n - 1] + amount[<<s, n>>]]
           sum == CHOOSE f : f = Sums(f)
<1>1. N \in Nat
  BY PeriodCount
<1>2. sum = Sums(sum)
  <2>1. PICK f : Loop(f, amount, s, N)
    BY <1>1, LoopEnds
  <2>2. f = Sums(f)
    BY <2>1 DEF Loop
  <2> HIDE DEF Sums
  <2> QED BY <2>2
<1>3. SegSum(amount, s) = sum[N]
  BY DEF SegSum
<1> HIDE DEF sum
<1>4. \A n \in 0..N : sum[n] = IF n = 0 THEN 0 ELSE sum[n - 1] + amount[<<s, n>>]
  BY <1>2
<1>5. 0 \in 0..N /\ \A n \in 1..N : n \in 0..N /\ n # 0
  BY <1>1
<1> HIDE DEF N
<1>6. sum[0] = 0 /\ \A n \in 1..N : sum[n] = sum[n - 1] + amount[<<s, n>>]
  BY <1>4, <1>5
<1> QED BY <1>3, <1>6 DEF N

(* A fact of the first round that each round hands on holds of the last.   *)
LEMMA Rounds ==
  ASSUME NEW N \in Nat, NEW T, 0 \in T, \A n \in 1..N : n - 1 \in T => n \in T
  PROVE  \A n \in 0..N : n \in T
<1> DEFINE Wrong == {n \in 0..N : n \notin T}
<1>1. SUFFICES ASSUME Wrong # {} PROVE FALSE
  OBVIOUS
<1>2. PICK n \in Wrong : \A k \in Wrong : n <= k
  <2>1. Wrong \in SUBSET Nat
    OBVIOUS
  <2> HIDE DEF Wrong
  <2> QED BY <1>1, <2>1, Least
<1>3. n \in 1..N /\ n - 1 \in 0..N /\ ~(n <= n - 1)
  BY <1>2
<1>4. n - 1 \in T
  BY <1>2, <1>3
<1> QED BY <1>2, <1>3, <1>4

(* Amounts add up to an amount.                                            *)
LEMMA SegSumNat ==
  ASSUME NEW s \in Segs, NEW a, \A n \in 1..Len(SegTime[s]) : a[<<s, n>>] \in Nat
  PROVE  SegSum(a, s) \in Nat
<1> DEFINE N == Len(SegTime[s])
<1>1. N \in Nat
  BY PeriodCount
<1>2. PICK f : /\ SegSum(a, s) = f[N] /\ f[0] = 0
               /\ \A n \in 1..N : f[n] = f[n - 1] + a[<<s, n>>]
  BY SegSumIs
<1> DEFINE T == {n \in 0..N : f[n] \in Nat}
<1> HIDE DEF N
<1>3. 0 \in T
  BY <1>1, <1>2
<1>4. ASSUME NEW n \in 1..N, n - 1 \in T PROVE n \in T
  <2>1. a[<<s, n>>] \in Nat
    BY DEF N
  <2>2. f[n] = f[n - 1] + a[<<s, n>>]
    BY <1>2
  <2> QED BY <1>1, <1>4, <2>1, <2>2
<1>5. \A n \in 0..N : n \in T
  <2> HIDE DEF T
  <2> QED BY <1>1, <1>3, <1>4, Rounds
<1> QED BY <1>1, <1>2, <1>5

(* Smaller amounts have a smaller sum.                                     *)
LEMMA SegSumLeq ==
  ASSUME NEW s \in Segs, NEW a, NEW b,
         \A n \in 1..Len(SegTime[s]) :
           a[<<s, n>>] \in Nat /\ b[<<s, n>>] \in Nat /\ a[<<s, n>>] <= b[<<s, n>>]
  PROVE  SegSum(a, s) <= SegSum(b, s)
<1> DEFINE N == Len(SegTime[s])
<1>1. N \in Nat
  BY PeriodCount
<1>2. PICK f : /\ SegSum(a, s) = f[N] /\ f[0] = 0
               /\ \A n \in 1..N : f[n] = f[n - 1] + a[<<s, n>>]
  BY SegSumIs
<1>3. PICK g : /\ SegSum(b, s) = g[N] /\ g[0] = 0
               /\ \A n \in 1..N : g[n] = g[n - 1] + b[<<s, n>>]
  BY SegSumIs
<1> DEFINE T == {n \in 0..N : f[n] \in Nat /\ g[n] \in Nat /\ f[n] <= g[n]}
<1> HIDE DEF N
<1>4. 0 \in T
  BY <1>1, <1>2, <1>3
<1>5. ASSUME NEW n \in 1..N, n - 1 \in T PROVE n \in T
  <2>1. a[<<s, n>>] \in Nat /\ b[<<s, n>>] \in Nat /\ a[<<s, n>>] <= b[<<s, n>>]
    BY DEF N
  <2>2. f[n] = f[n - 1] + a[<<s, n>>] /\ g[n] = g[n - 1] + b[<<s, n>>]
    BY <1>2, <1>3
  <2> QED BY <1>1, <1>5, <2>1, <2>2
<1>6. \A n \in 0..N : n \in T
  <2> HIDE DEF T
  <2> QED BY <1>1, <1>4, <1>5, Rounds
<1> QED BY <1>1, <1>2, <1>3, <1>6

(* An amount added to one period is added to the sum.                      *)
LEMMA SegSumAdd ==
  ASSUME NEW s \in Segs, NEW a, NEW b, NEW d \in Nat, NEW k \in 1..Len(SegTime[s]),
         \A n \in 1..Len(SegTime[s]) :
           a[<<s, n>>] \in Nat /\ b[<<s, n>>] = IF n = k THEN a[<<s, n>>] + d ELSE a[<<s, n>>]
  PROVE  SegSum(b, s) = SegSum(a, s) + d
<1> DEFINE N == Len(SegTime[s])
<1>1. N \in Nat
  BY PeriodCount
<1>2. PICK f : /\ SegSum(a, s) = f[N] /\ f[0] = 0
               /\ \A n \in 1..N : f[n] = f[n - 1] + a[<<s, n>>]
  BY SegSumIs
<1>3. PICK g : /\ SegSum(b, s) = g[N] /\ g[0] = 0
               /\ \A n \in 1..N : g[n] = g[n - 1] + b[<<s, n>>]
  BY SegSumIs
<1> DEFINE T == {n \in 0..N : f[n] \in Nat /\ g[n] = IF k <= n THEN f[n] + d ELSE f[n]}
<1>0. k \in 1..N
  OBVIOUS
<1> HIDE DEF N
<1>4. 0 \in T
  BY <1>0, <1>1, <1>2, <1>3
<1>5. ASSUME NEW n \in 1..N, n - 1 \in T PROVE n \in T
  <2>1. a[<<s, n>>] \in Nat /\ b[<<s, n>>] = IF n = k THEN a[<<s, n>>] + d ELSE a[<<s, n>>]
    BY DEF N
  <2>2. f[n] = f[n - 1] + a[<<s, n>>] /\ g[n] = g[n - 1] + b[<<s, n>>]
    BY <1>2, <1>3
  <2> QED BY <1>0, <1>1, <1>5, <2>1, <2>2
<1>6. \A n \in 0..N : n \in T
  <2> HIDE DEF T
  <2> QED BY <1>1, <1>4, <1>5, Rounds
<1> QED BY <1>0, <1>1, <1>2, <1>3, <1>6

(* The sum looks at the periods of its segment alone.                      *)
LEMMA SegSumSame ==
  ASSUME NEW s \in Segs, NEW a, NEW b,
         \A n \in 1..Len(SegTime[s]) : b[<<s, n>>] = a[<<s, n>>] /\ a[<<s, n>>] \in Nat
  PROVE  SegSum(b, s) = SegSum(a, s)
<1>1. SegSum(a, s) <= SegSum(b, s) /\ SegSum(b, s) <= SegSum(a, s)
  BY SegSumLeq
<1>2. SegSum(a, s) \in Nat /\ SegSum(b, s) \in Nat
  BY SegSumNat
<1> QED BY <1>1, <1>2

-----------------------------------------------------------------------------
(* The places of the loop are the periods.                                 *)
LEMMA LoopPeriods ==
  /\ \A s \in Segs : \A n \in 1..Len(SegTime[s]) : <<s, n>> \in Periods /\ <<s, n>> \in Cells
  /\ Default \in Cells /\ Default \notin Periods
  /\ \A q \in Periods : \E s \in Segs : \E n \in 1..Len(SegTime[s]) : q = <<s, n>>
<1>1. Len(SegTime[SegMax]) = 0
  BY TariffAssumption
<1> QED BY <1>1 DEF Periods, Cells, Default, Segs, SegMax

(* Truncation takes something away.                                        *)
LEMMA CutIs ==
  ASSUME NEW x \in Nat, NEW u \in Nat \ {0}
  PROVE  Cut(x, u) \in Nat /\ Cut(x, u) <= x
BY DEF Cut

(* The dearer of two amounts at one price is the larger.                   *)
LEMMA TimesLeq ==
  ASSUME NEW a \in Nat, NEW b \in Nat, NEW c \in Nat, a <= b
  PROVE  a * c \in Nat /\ a * c <= b * c
OBVIOUS

(* A sum over the segments is an amount, and grows with its terms.         *)
LEMMA SumSegsIs ==
  ASSUME NEW f \in [Segs -> Nat], NEW g \in [Segs -> Nat], \A s \in Segs : f[s] <= g[s]
  PROVE  SumSegs(f) \in Nat /\ SumSegs(f) <= SumSegs(g)
<1>1. 0 \in Segs /\ 1 \in Segs /\ 2 \in Segs /\ 3 \in Segs /\ SegMax \in Segs
  BY DEF Segs, SegMax
<1> QED BY <1>1 DEF SumSegs

(* The totals are amounts; as long as no period counts more than was       *)
(* metered in it, they are no more than the metered energy and its price.  *)
LEMMA TotalsLeq ==
  ASSUME NEW P, NEW m \in [Cells -> Nat],
         \A q \in Periods : P[q].energy \in Nat /\ P[q].energy <= m[q]
  PROVE  /\ Totals(P) \in [energy : Nat, fee : Nat, serv : Nat]
         /\ Totals(P).energy <= Metered(m)
         /\ TotalFee(Totals(P)) <= Worth(m)
<1> DEFINE a == [q \in Cells |-> P[q].energy]
           E == [s \in Segs |-> SegSum(a, s)]
           M == [s \in Segs |-> SegSum(m, s)]
           cut == [s \in Segs |-> Cut(E[s], Whole)]
           fee == [s \in Segs |-> E[s] * EnergyFee[s]]
           serv == [s \in Segs |-> E[s] * ServFee[s]]
           worth == [s \in Segs |-> M[s] * Price(s)]
<1>1. ASSUME NEW s \in Segs
      PROVE  SegSum(a, s) \in Nat /\ SegSum(m, s) \in Nat /\ SegSum(a, s) <= SegSum(m, s)
  <2>1. ASSUME NEW n \in 1..Len(SegTime[s])
        PROVE  a[<<s, n>>] \in Nat /\ m[<<s, n>>] \in Nat /\ a[<<s, n>>] <= m[<<s, n>>]
    <3>1. <<s, n>> \in Periods /\ <<s, n>> \in Cells
      BY LoopPeriods
    <3> QED BY <3>1
  <2> HIDE DEF a
  <2> QED BY <2>1, SegSumNat, SegSumLeq
<1>2. E \in [Segs -> Nat] /\ M \in [Segs -> Nat] /\ \A s \in Segs : E[s] <= M[s]
  BY <1>1
<1> HIDE DEF a, E, M
<1>3. m[Default] \in Nat
  BY LoopPeriods
<1>4. /\ Whole \in Nat \ {0} /\ Cent \in Nat \ {0}
      /\ \A s \in Segs : EnergyFee[s] \in Nat /\ ServFee[s] \in Nat
  BY TariffAssumption
<1>5. SumSegs(cut) \in Nat /\ SumSegs(cut) <= SumSegs(M)
  <2>1. ASSUME NEW s \in Segs PROVE cut[s] \in Nat /\ cut[s] <= M[s]
    <3>1. Cut(E[s], Whole) \in Nat /\ Cut(E[s], Whole) <= E[s]
      BY <1>2, <1>4, CutIs
    <3>2. E[s] \in Nat /\ M[s] \in Nat /\ E[s] <= M[s]
      BY <1>2
    <3> QED BY <3>1, <3>2
  <2>2. cut \in [Segs -> Nat]
    BY <2>1
  <2> HIDE DEF cut
  <2> QED BY <1>2, <2>1, <2>2, SumSegsIs
<1>6. /\ SumSegs(fee) \in Nat /\ SumSegs(serv) \in Nat /\ SumSegs(worth) \in Nat
      /\ SumSegs(fee) + SumSegs(serv) <= SumSegs(worth)
  <2>1. ASSUME NEW s \in Segs
        PROVE  /\ fee[s] \in Nat /\ serv[s] \in Nat /\ worth[s] \in Nat
               /\ fee[s] + serv[s] <= worth[s]
    <3>1. E[s] \in Nat /\ M[s] \in Nat /\ E[s] <= M[s]
      BY <1>2
    <3>2. EnergyFee[s] \in Nat /\ ServFee[s] \in Nat
      BY <1>4
    <3>3. E[s] * EnergyFee[s] <= M[s] * EnergyFee[s] /\ E[s] * ServFee[s] <= M[s] * ServFee[s]
      BY <3>1, <3>2, TimesLeq
    <3>4. M[s] * (EnergyFee[s] + ServFee[s]) = M[s] * EnergyFee[s] + M[s] * ServFee[s]
      BY <3>1, <3>2
    <3>5. E[s] * EnergyFee[s] \in Nat /\ E[s] * ServFee[s] \in Nat
      BY <3>1, <3>2
    <3>6. M[s] * EnergyFee[s] \in Nat /\ M[s] * ServFee[s] \in Nat
      BY <3>1, <3>2
    <3> QED BY <3>3, <3>4, <3>5, <3>6 DEF Price
  <2>2. 0 \in Segs /\ 1 \in Segs /\ 2 \in Segs /\ 3 \in Segs /\ SegMax \in Segs
    BY DEF Segs, SegMax
  <2> HIDE DEF fee, serv, worth
  <2> QED BY <2>1, <2>2 DEF SumSegs
<1>7. /\ Cut(SumSegs(fee), Cent) \in Nat /\ Cut(SumSegs(fee), Cent) <= SumSegs(fee)
      /\ Cut(SumSegs(serv), Cent) \in Nat /\ Cut(SumSegs(serv), Cent) <= SumSegs(serv)
  <2> HIDE DEF fee, serv
  <2> QED BY <1>4, <1>6, CutIs
<1>8. Totals(P) = [energy |-> SumSegs(cut), fee |-> Cut(SumSegs(fee), Cent),
                   serv |-> Cut(SumSegs(serv), Cent)]
  BY DEF Totals, E, a
<1>9. Metered(m) = SumSegs(M) + m[Default]
  BY DEF Metered, M
<1>10. Worth(m) = SumSegs(worth) + m[Default] * Price(SegMax)
  <2>1. worth = [s \in Segs |-> SegSum(m, s) * Price(s)]
    BY DEF M
  <2> QED BY <2>1 DEF Worth
<1>11. SumSegs(M) \in Nat
  BY <1>2, SumSegsIs
<1>12. m[Default] * Price(SegMax) \in Nat
  <2>1. Price(SegMax) \in Nat
    BY <1>4 DEF Price, Segs, SegMax
  <2> QED BY <1>3, <2>1
<1> HIDE DEF cut, fee, serv, worth
<1> QED BY <1>3, <1>5, <1>6, <1>7, <1>8, <1>9, <1>10, <1>11, <1>12 DEF TotalFee

(* Energy metered in one more pass is in the sum, and is worth something.  *)
LEMMA MeteredAdd ==
  ASSUME NEW m \in [Cells -> Nat], NEW c \in Cells, NEW d \in Nat
  PROVE  LET n == [m EXCEPT ![c] = @ + d]
         IN  Metered(n) = Metered(m) + d /\ Worth(m) <= Worth(n)
<1> DEFINE n == [m EXCEPT ![c] = @ + d]
<1>1. n \in [Cells -> Nat] /\ \A q \in Cells : n[q] = IF q = c THEN m[q] + d ELSE m[q]
  OBVIOUS
<1> HIDE DEF n
<1>2. ASSUME NEW s \in Segs
      PROVE  /\ SegSum(m, s) \in Nat /\ SegSum(n, s) \in Nat
             /\ SegSum(n, s) = IF c \in Periods /\ c[1] = s THEN SegSum(m, s) + d ELSE SegSum(m, s)
  <2>1. ASSUME NEW i \in 1..Len(SegTime[s])
        PROVE  /\ m[<<s, i>>] \in Nat /\ n[<<s, i>>] \in Nat
               /\ n[<<s, i>>] = IF <<s, i>> = c THEN m[<<s, i>>] + d ELSE m[<<s, i>>]
    <3>1. <<s, i>> \in Cells
      BY LoopPeriods
    <3> QED BY <1>1, <3>1
  <2>2. SegSum(m, s) \in Nat /\ SegSum(n, s) \in Nat
    BY <2>1, SegSumNat
  <2>3. CASE c \in Periods /\ c[1] = s
    <3>1. PICK k \in 1..Len(SegTime[s]) : c = <<s, k>>
      BY <2>3, LoopPeriods
    <3>2. \A i \in 1..Len(SegTime[s]) : <<s, i>> = c <=> i = k
      BY <3>1
    <3>3. \A i \in 1..Len(SegTime[s]) :
            m[<<s, i>>] \in Nat /\ n[<<s, i>>] = IF i = k THEN m[<<s, i>>] + d ELSE m[<<s, i>>]
      BY <2>1, <3>2
    <3>4. SegSum(n, s) = SegSum(m, s) + d
      BY <3>3, SegSumAdd
    <3> QED BY <2>2, <2>3, <3>4
  <2>4. CASE ~(c \in Periods /\ c[1] = s)
    <3>1. \A i \in 1..Len(SegTime[s]) : <<s, i>> # c
      BY <2>4, LoopPeriods
    <3>2. SegSum(n, s) = SegSum(m, s)
      BY <2>1, <3>1, SegSumSame
    <3> QED BY <2>2, <2>4, <3>2
  <2> QED BY <2>3, <2>4
<1> DEFINE M == [s \in Segs |-> SegSum(m, s)]
           N == [s \in Segs |-> SegSum(n, s)]
           worthM == [s \in Segs |-> SegSum(m, s) * Price(s)]
           worthN == [s \in Segs |-> SegSum(n, s) * Price(s)]
<1>3. 0 \in Segs /\ 1 \in Segs /\ 2 \in Segs /\ 3 \in Segs /\ SegMax \in Segs
  BY DEF Segs, SegMax
<1>4. Default \in Cells /\ m[Default] \in Nat /\ n[Default] \in Nat
  BY <1>1, LoopPeriods
<1>5. SumSegs(N) + n[Default] = SumSegs(M) + m[Default] + d
  <2>1. \A s \in Segs : M[s] \in Nat /\ N[s] \in Nat
                         /\ N[s] = IF c \in Periods /\ c[1] = s THEN M[s] + d ELSE M[s]
    BY <1>2
  <2> HIDE DEF M, N
  <2>2. CASE c \in Periods
    <3>1. c[1] \in {0, 1, 2, 3, SegMax} /\ c # Default
      BY <2>2, LoopPeriods DEF Segs, SegMax
    <3>2. n[Default] = m[Default]
      BY <1>1, <1>4, <3>1
    <3>3. SumSegs(N) = SumSegs(M) + d
      BY <1>3, <2>1, <2>2, <3>1 DEF SumSegs, SegMax
    <3>4. SumSegs(M) \in Nat
      BY <1>3, <2>1 DEF SumSegs
    <3> QED BY <1>4, <3>2, <3>3, <3>4
  <2>3. CASE c \notin Periods
    <3>1. c = Default
      BY <2>3 DEF Cells
    <3>2. n[Default] = m[Default] + d
      BY <1>1, <1>4, <3>1
    <3>3. SumSegs(N) = SumSegs(M) /\ SumSegs(M) \in Nat
      BY <1>3, <2>1, <2>3 DEF SumSegs
    <3> QED BY <1>4, <3>2, <3>3
  <2> QED BY <2>2, <2>3
<1>6. \A s \in Segs : Price(s) \in Nat
  BY TariffAssumption DEF Price
<1>7. SumSegs(worthM) <= SumSegs(worthN) /\ SumSegs(worthM) \in Nat /\ SumSegs(worthN) \in Nat
  <2>1. ASSUME NEW s \in Segs
        PROVE  worthM[s] \in Nat /\ worthN[s] \in Nat /\ worthM[s] <= worthN[s]
    <3>1. SegSum(m, s) \in Nat /\ SegSum(n, s) \in Nat /\ SegSum(m, s) <= SegSum(n, s)
      BY <1>2
    <3>2. SegSum(m, s) * Price(s) \in Nat /\ SegSum(n, s) * Price(s) \in Nat
      BY <1>6, <3>1
    <3>3. SegSum(m, s) * Price(s) <= SegSum(n, s) * Price(s)
      BY <1>6, <3>1, TimesLeq
    <3> QED BY <3>2, <3>3
  <2> HIDE DEF worthM, worthN
  <2> QED BY <1>3, <2>1 DEF SumSegs
<1>8. /\ m[Default] * Price(SegMax) <= n[Default] * Price(SegMax)
      /\ m[Default] * Price(SegMax) \in Nat /\ n[Default] * Price(SegMax) \in Nat
  <2>1. m[Default] <= n[Default] /\ Price(SegMax) \in Nat
    BY <1>1, <1>3, <1>4, <1>6
  <2> QED BY <1>4, <2>1, TimesLeq
<1>9. Worth(m) <= Worth(n)
  <2>1. Worth(m) = SumSegs(worthM) + m[Default] * Price(SegMax)
    BY DEF Worth
  <2>2. Worth(n) = SumSegs(worthN) + n[Default] * Price(SegMax)
    BY DEF Worth
  <2> HIDE DEF worthM, worthN
  <2> QED BY <1>7, <1>8, <2>1, <2>2
<1>10. Metered(n) = Metered(m) + d
  BY <1>5 DEF Metered
<1> QED BY <1>9, <1>10 DEF n

(* What was metered is worth an amount.                                    *)
LEMMA WorthInt ==
  ASSUME NEW m \in [Cells -> Nat]
  PROVE  Worth(m) \in Int /\ 0 <= Worth(m)
<1> DEFINE worth == [s \in Segs |-> SegSum(m, s) * Price(s)]
<1>1. \A s \in Segs : Price(s) \in Nat
  BY TariffAssumption DEF Price
<1>2. ASSUME NEW s \in Segs PROVE worth[s] \in Nat
  <2>1. \A n \in 1..Len(SegTime[s]) : m[<<s, n>>] \in Nat
    BY LoopPeriods
  <2>2. SegSum(m, s) \in Nat
    BY <2>1, SegSumNat
  <2> QED BY <1>1, <2>2
<1>3. 0 \in Segs /\ 1 \in Segs /\ 2 \in Segs /\ 3 \in Segs /\ SegMax \in Segs
  BY DEF Segs, SegMax
<1>4. m[Default] * Price(SegMax) \in Nat
  <2>1. m[Default] \in Nat
    BY LoopPeriods
  <2> QED BY <1>1, <1>3, <2>1
<1> HIDE DEF worth
<1>5. SumSegs(worth) \in Nat
  BY <1>2, <1>3 DEF SumSegs
<1> QED BY <1>4, <1>5 DEF Worth, worth

-----------------------------------------------------------------------------
(* Idle is no period.                                                      *)
LEMMA IdleIsNone == Idle \notin Cells
BY DEF Idle, Cells, Periods, Default, Segs, SegMax

Record == [tStart : Nat, tEnd : Nat, start : Nat, energy : Int]

(* What the account looks like between the passes, without the bounds.     *)
LEMMA Shape ==
  ASSUME TypeOK
  PROVE  /\ now \in Nat /\ tStart \in Nat /\ meter \in Nat
         /\ metered \in [Cells -> Nat] /\ period \in [Cells -> Record]
         /\ stat # "MAKE" => cur \in Cells
         /\ order \in [card : BOOLEAN, balance : Nat, energy : Nat, fee : Nat, time : Nat]
<1>1. Day * Hour + MaxTime + 1 \in Nat /\ MaxEnergy \in Nat
  BY TariffAssumption
<1>2. Times \subseteq Nat /\ Amounts \subseteq Nat /\ Amounts \subseteq Int
  BY <1>1 DEF Times, Amounts
<1>3. period \in [Cells -> Record]
  BY <1>2 DEF TypeOK, Record
<1>4. metered \in [Cells -> Nat]
  BY <1>2 DEF TypeOK
<1> HIDE DEF Cells
<1> QED BY <1>2, <1>3, <1>4, TariffAssumption DEF TypeOK

(* Between two passes clock and meter go on, and the energy is metered in  *)
(* the period before or after.                                             *)
LEMMA BetweenIs ==
  ASSUME TypeOK, NEW dt \in 0..1, NEW de \in 0..1, NEW run \in BOOLEAN, Between(dt, de, run)
  PROVE  /\ now' = now + dt /\ meter' = meter + de /\ meter' <= MaxEnergy /\ running' \in BOOLEAN
         /\ stat # "MAKE" => now' - tStart <= MaxTime
         /\ now' \in Nat /\ meter' \in Nat /\ metered' \in [Cells -> Nat]
         /\ \A q \in Cells : metered[q] <= metered'[q] /\ metered'[q] <= metered[q] + de
         /\ \A q \in Cells : q \notin {JudgeSegState(now), JudgeSegState(now')} =>
              metered'[q] = metered[q]
         /\ JudgeSegState(now) = JudgeSegState(now') =>
              metered'[JudgeSegState(now)] = metered[JudgeSegState(now)] + de
         /\ Metered(metered') = Metered(metered) + de
         /\ Worth(metered) <= Worth(metered')
<1>1. now \in Nat /\ meter \in Nat /\ metered \in [Cells -> Nat]
  BY Shape
<1>2. /\ now' = now + dt /\ meter' = meter + de /\ meter' <= MaxEnergy /\ running' \in BOOLEAN
      /\ stat # "MAKE" => now' - tStart <= MaxTime
  <2>1. /\ now' = now + dt /\ meter' = meter + de /\ meter + de <= MaxEnergy
        /\ stat # "MAKE" => now + dt - tStart <= MaxTime
    BY DEF Between
  <2>2. running' \in BOOLEAN
    <3>1. running' = run
      BY Zenon DEF Between
    <3> QED BY Zenon, <3>1
  <2>3. meter' <= MaxEnergy
    BY <2>1
  <2>4. stat # "MAKE" => now' - tStart <= MaxTime
    BY <1>1, <2>1, Shape, TariffAssumption
  <2> QED BY Zenon, <2>1, <2>2, <2>3, <2>4
<1>3. now' \in Nat /\ meter' \in Nat
  BY <1>1, <1>2
<1>4. PICK q \in {JudgeSegState(now), JudgeSegState(now')} : metered' = [metered EXCEPT ![q] = @ + de]
  BY <1>2 DEF Between
<1>5. JudgeSegState(now) \in Cells /\ JudgeSegState(now') \in Cells
  BY <1>1, <1>3, JudgeInCells
<1>6. q \in Cells
  BY <1>4, <1>5
<1>7. de \in Nat
  OBVIOUS
<1>8. Metered(metered') = Metered(metered) + de /\ Worth(metered) <= Worth(metered')
  BY <1>1, <1>4, <1>6, <1>7, MeteredAdd
<1>9. metered' \in [Cells -> Nat]
  BY <1>1, <1>4, <1>6, <1>7
<1>10. \A c \in Cells : metered'[c] = IF c = q THEN metered[c] + de ELSE metered[c]
  BY <1>1, <1>4
<1> QED BY <1>1, <1>2, <1>3, <1>4, <1>5, <1>7, <1>8, <1>9, <1>10

(* A visit changes the record of the current period alone: it closes it,   *)
(* counts in it, or opens it.                                              *)
LEMMA VisitIs ==
  ASSUME TypeOK, cur \in Cells, NEW t \in Nat, NEW e \in Nat, NEW st
  PROVE  LET P == SegmentUpdate(t, e, st)
             p == period[cur]
         IN  /\ P \in [Cells -> Record]
             /\ \A q \in Cells \ {cur} : P[q] = period[q]
             /\ JudgeSegState(t) # cur =>
                  P[cur] = [tStart |-> p.tStart, tEnd |-> t, start |-> p.start, energy |-> p.energy]
             /\ JudgeSegState(t) = cur =>
                  P[cur] = [tStart |-> IF p.tStart > 0 THEN p.tStart ELSE t,
                            tEnd   |-> IF st = "FINISH" THEN t ELSE p.tEnd,
                            start  |-> IF p.tStart > 0 THEN p.start ELSE e,
                            energy |-> IF p.tStart > 0 THEN e - p.start ELSE p.energy]
<1> DEFINE P == SegmentUpdate(t, e, st)
           p == period[cur]
<1>1. period \in [Cells -> Record] /\ p \in Record
  BY Shape
<1>2. P = [period EXCEPT ![cur] = IF st = "FINISH" THEN [PeriodUpdate(t, e) EXCEPT !.tEnd = t]
                                                    ELSE PeriodUpdate(t, e)]
  BY DEF SegmentUpdate
<1>3. CASE JudgeSegState(t) # cur
  <2>1. PeriodUpdate(t, e) = [p EXCEPT !.tEnd = t]
    BY <1>3 DEF PeriodUpdate
  <2>2. P[cur] = [tStart |-> p.tStart, tEnd |-> t, start |-> p.start, energy |-> p.energy]
    BY <1>1, <1>2, <2>1 DEF Record
  <2> QED BY <1>1, <1>2, <1>3, <2>1, <2>2 DEF Record
<1>4. CASE JudgeSegState(t) = cur /\ p.tStart > 0
  <2>1. PeriodUpdate(t, e) = [p EXCEPT !.energy = e - p.start]
    BY <1>4 DEF PeriodUpdate
  <2>2. P[cur] = [tStart |-> p.tStart, tEnd |-> IF st = "FINISH" THEN t ELSE p.tEnd,
                  start |-> p.start, energy |-> e - p.start]
    BY <1>1, <1>2, <2>1 DEF Record
  <2>3. P[cur] \in Record
    BY <1>1, <2>2 DEF Record
  <2> QED BY <1>1, <1>2, <1>4, <2>2, <2>3
<1>5. CASE JudgeSegState(t) = cur /\ ~(p.tStart > 0)
  <2>1. PeriodUpdate(t, e) = [p EXCEPT !.tStart = t, !.start = e]
    BY <1>5 DEF PeriodUpdate
  <2>2. P[cur] = [tStart |-> t, tEnd |-> IF st = "FINISH" THEN t ELSE p.tEnd,
                  start |-> e, energy |-> p.energy]
    BY <1>1, <1>2, <2>1 DEF Record
  <2>3. P[cur] \in Record
    BY <1>1, <2>2 DEF Record
  <2> QED BY <1>1, <1>2, <1>5, <2>2, <2>3
<1> QED BY <1>3, <1>4, <1>5

(* The final cuts take nothing but energy and fees away.                   *)
LEMMA CutTotalsIs ==
  ASSUME NEW T \in [energy : Nat, fee : Nat, serv : Nat],
         order \in [card : BOOLEAN, balance : Nat, energy : Nat, fee : Nat, time : Nat]
  PROVE  /\ CutTotals(T) \in [energy : Nat, fee : Nat, serv : Int]
         /\ CutTotals(T).energy <= T.energy
         /\ TotalFee(CutTotals(T)) <= TotalFee(T)
<1> DEFINE U == IF order.card /\ TotalFee(T) >= order.balance THEN CutFee(T, order.balance) ELSE T
<1>1. order.balance \in Nat /\ order.energy \in Nat /\ order.fee \in Nat
  OBVIOUS
<1>2. /\ U \in [energy : Nat, fee : Nat, serv : Int]
      /\ U.energy = T.energy /\ TotalFee(U) <= TotalFee(T)
  <2>1. CASE TotalFee(T) >= order.balance
    <3>1. /\ CutFee(T, order.balance) \in [energy : Nat, fee : Nat, serv : Int]
          /\ CutFee(T, order.balance).energy = T.energy
          /\ TotalFee(CutFee(T, order.balance)) = order.balance
      BY <1>1 DEF CutFee, TotalFee
    <3>2. TotalFee(T) \in Int /\ T \in [energy : Nat, fee : Nat, serv : Int]
      BY DEF TotalFee
    <3>3. U = CutFee(T, order.balance) \/ U = T
      OBVIOUS
    <3> HIDE DEF U
    <3> QED BY <1>1, <2>1, <3>1, <3>2, <3>3
  <2>2. CASE ~(TotalFee(T) >= order.balance)
    <3>1. U = T
      BY <2>2
    <3> QED BY <3>1 DEF TotalFee
  <2> QED BY <2>1, <2>2
<1>3. CutTotals(T) = IF order.energy # 0
                       THEN [U EXCEPT !.energy = IF @ > order.energy THEN order.energy ELSE @]
                     ELSE IF order.fee # 0 /\ TotalFee(U) > order.fee THEN CutFee(U, order.fee)
                     ELSE U
  BY DEF CutTotals
<1> HIDE DEF U
<1>4. TotalFee(T) \in Int /\ TotalFee(U) \in Int
  BY <1>2 DEF TotalFee
<1>5. CASE order.energy # 0
  <2>1. CutTotals(T) = [U EXCEPT !.energy = IF @ > order.energy THEN order.energy ELSE @]
    BY <1>3, <1>5
  <2> QED BY <1>1, <1>2, <2>1 DEF TotalFee
<1>6. CASE order.energy = 0 /\ order.fee # 0 /\ TotalFee(U) > order.fee
  <2>1. CutTotals(T) = CutFee(U, order.fee)
    BY <1>3, <1>6
  <2>2. /\ CutFee(U, order.fee) \in [energy : Nat, fee : Nat, serv : Int]
        /\ CutFee(U, order.fee).energy = U.energy
        /\ TotalFee(CutFee(U, order.fee)) = order.fee
    BY <1>1, <1>2 DEF CutFee, TotalFee
  <2> QED BY <1>1, <1>2, <1>4, <1>6, <2>1, <2>2
<1>7. CASE order.energy = 0 /\ ~(order.fee # 0 /\ TotalFee(U) > order.fee)
  <2>1. CutTotals(T) = U
    BY <1>3, <1>7
  <2> QED BY <1>2, <2>1
<1> QED BY <1>5, <1>6, <1>7

(* Where nothing has flowed, nothing is in the sum.                        *)
LEMMA NothingMetered == Metered([q \in Cells |-> 0]) = 0
<1> DEFINE z == [q \in Cells |-> 0]
<1>1. \A q \in Cells : z[q] = 0
  OBVIOUS
<1> HIDE DEF z
<1>2. ASSUME NEW s \in Segs PROVE SegSum(z, s) = 0
  <2> DEFINE N == Len(SegTime[s])
  <2>1. N \in Nat
    BY PeriodCount
  <2>2. PICK f : /\ SegSum(z, s) = f[N] /\ f[0] = 0
                 /\ \A n \in 1..N : f[n] = f[n - 1] + z[<<s, n>>]
    BY SegSumIs
  <2> DEFINE T == {n \in 0..N : f[n] = 0}
  <2>3. \A n \in 1..N : z[<<s, n>>] = 0
    BY <1>1, LoopPeriods
  <2> HIDE DEF N
  <2>4. 0 \in T
    BY <2>1, <2>2
  <2>5. ASSUME NEW n \in 1..N, n - 1 \in T PROVE n \in T
    <3>1. f[n] = f[n - 1] + z[<<s, n>>]
      BY <2>2
    <3>2. z[<<s, n>>] = 0
      BY <2>3
    <3> QED BY <2>1, <2>5, <3>1, <3>2
  <2>6. \A n \in 0..N : n \in T
    <3> HIDE DEF T
    <3> QED BY <2>1, <2>4, <2>5, Rounds
  <2> QED BY <2>1, <2>2, <2>6
<1>3. z[Default] = 0
  BY <1>1, LoopPeriods
<1>4. SumSegs([s \in Segs |-> SegSum(z, s)]) = 0
  <2> DEFINE S == [s \in Segs |-> SegSum(z, s)]
  <2>1. \A s \in {0, 1, 2, 3, SegMax} : S[s] = 0
    BY <1>2 DEF Segs, SegMax
  <2> HIDE DEF S
  <2>2. SumSegs(S) = 0
    BY <2>1 DEF SumSegs
  <2> QED BY <2>2 DEF S
<1>5. Metered(z) = 0
  BY <1>3, <1>4 DEF Metered
<1> QED BY <1>5 DEF z

-----------------------------------------------------------------------------
(* A new order begins with an empty record.                                *)
LEMMA InitInv == Init => IInv
<1> SUFFICES ASSUME Init PROVE IInv
  OBVIOUS
<1> USE DEF Init
<1>1. Day * Hour + MaxTime + 1 \in Nat /\ MaxEnergy \in Nat /\ Day * Hour \in Nat
  BY TariffAssumption
<1>2. /\ 0 \in Times /\ 0 \in Amounts
      /\ NoPeriod \in [tStart : Times, tEnd : Times, start : Amounts, energy : Amounts]
  BY <1>1 DEF Times, Amounts, NoPeriod
<1>3. now \in Times
  BY <1>1, TariffAssumption DEF Times
<1>4. TypeOK
  <2>1. metered \in [Cells -> Amounts]
    BY <1>2
  <2>2. period \in [Cells -> [tStart : Times, tEnd : Times, start : Amounts, energy : Amounts]]
    BY <1>2
  <2>3. total \in [energy : Nat, fee : Nat, serv : Int]
    OBVIOUS
  <2> QED BY <1>2, <1>3, <2>1, <2>2, <2>3 DEF TypeOK
<1>5. Measured
  <2>1. Metered(metered) = meter
    BY NothingMetered
  <2>2. \A q \in Cells : metered[q] <= meter /\ period[q].start <= meter
    BY DEF NoPeriod
  <2> QED BY <2>1, <2>2 DEF Measured
<1>6. Fresh /\ Going /\ Visits /\ Charged /\ Followed
  BY DEF Fresh, Going, Visits, Charged, Followed
<1> QED BY <1>4, <1>5, <1>6 DEF IInv

(* The next order is a new one.                                            *)
LEMMA NextOrderInv == NextOrder => IInv'
<1>1. NextOrder => Init'
  BY DEF NextOrder, OrderInit, Init
<1> QED BY <1>1, InitInv, PTL

-----------------------------------------------------------------------------
(* The bounds of clock, meter and reference after a pass.                  *)
LEMMA PassType ==
  ASSUME IInv, NEW dt \in 0..1, NEW de \in 0..1, NEW run \in BOOLEAN, Between(dt, de, run)
  PROVE  /\ now' \in Times /\ meter' \in Amounts /\ metered' \in [Cells -> Amounts]
         /\ \A q \in Cells : metered'[q] <= meter'
         /\ Metered(metered') = meter'
         /\ stat = "MAKE" => now' \in 1 .. Day * Hour + 1 /\ metered = [q \in Cells |-> 0]
         /\ stat # "MAKE" => /\ tStart \in 1 .. Day * Hour + 1 /\ tStart <= now /\ now <= now'
                             /\ now' - tStart <= MaxTime
<1>1. Day * Hour \in Nat /\ MaxTime \in Nat /\ MaxEnergy \in Nat
  BY TariffAssumption
<1>2. /\ now \in Nat /\ tStart \in Nat /\ meter \in Nat /\ metered \in [Cells -> Nat]
      /\ now' = now + dt /\ meter' = meter + de /\ meter' <= MaxEnergy
      /\ stat # "MAKE" => now' - tStart <= MaxTime
      /\ now' \in Nat /\ meter' \in Nat /\ metered' \in [Cells -> Nat]
      /\ \A q \in Cells : metered'[q] <= metered[q] + de
      /\ Metered(metered') = Metered(metered) + de
  BY Shape, BetweenIs DEF IInv
<1>3. Metered(metered) = meter /\ \A q \in Cells : metered[q] <= meter
  BY DEF IInv, Measured
<1>4. stat = "MAKE" => now \in 1 .. Day * Hour /\ metered = [q \in Cells |-> 0]
  BY DEF IInv, Fresh
<1>5. stat # "MAKE" => tStart \in 1 .. Day * Hour + 1 /\ tStart <= now
  BY DEF IInv, Going
<1>6. /\ stat = "MAKE" => now' \in 1 .. Day * Hour + 1
      /\ stat # "MAKE" => now <= now'
  BY <1>1, <1>2, <1>4
<1>7. now' \in Times
  <2>1. now' <= Day * Hour + MaxTime + 1
    BY <1>1, <1>2, <1>5, <1>6
  <2> QED BY <1>1, <1>2, <2>1 DEF Times
<1>8. \A q \in Cells : metered'[q] <= meter'
  <2> SUFFICES ASSUME NEW q \in Cells PROVE metered'[q] <= meter'
    OBVIOUS
  <2>1. metered[q] \in Nat /\ metered'[q] \in Nat /\ metered[q] <= meter /\ metered'[q] <= metered[q] + de
    BY <1>2, <1>3
  <2> QED BY <1>2, <2>1
<1>9. meter' \in Amounts /\ metered' \in [Cells -> Amounts]
  BY <1>1, <1>2, <1>8 DEF Amounts
<1> QED BY <1>2, <1>3, <1>4, <1>5, <1>6, <1>7, <1>8, <1>9

(* A visit in a pass: of an order under way, or of the finished one.       *)
Visit(st) ==
  /\ period' = SegmentUpdate(now', meter', st) /\ cur' = JudgeSegState(now')
  /\ tStart' = tStart /\ order' = order

(* A visit keeps the record within the session and the meter.              *)
LEMMA VisitType ==
  ASSUME IInv, NEW dt \in 0..1, NEW de \in 0..1, NEW run \in BOOLEAN, Between(dt, de, run),
         stat # "MAKE", NEW st, Visit(st)
  PROVE  /\ period' \in [Cells -> [tStart : Times, tEnd : Times, start : Amounts, energy : Amounts]]
         /\ \A q \in Cells : period'[q].start <= meter'
         /\ cur' \in Cells
<1>1. /\ now' \in Times /\ meter' \in Amounts /\ now' \in Nat /\ meter' \in Nat
      /\ meter \in Nat /\ meter <= meter' /\ meter' <= MaxEnergy
  <2>1. meter \in Nat
    BY Shape DEF IInv
  <2>2. meter' = meter + de /\ meter' <= MaxEnergy /\ now' \in Nat /\ meter' \in Nat
    BY BetweenIs DEF IInv
  <2> QED BY <2>1, <2>2, PassType
<1>2. cur' \in Cells
  BY <1>1, JudgeInCells DEF Visit
<1>3. cur \in Cells
  BY Shape DEF IInv
<1>4. period \in [Cells -> [tStart : Times, tEnd : Times, start : Amounts, energy : Amounts]]
  BY DEF IInv, TypeOK
<1>5. \A q \in Cells : period[q].start <= meter
  BY DEF IInv, Measured
<1> DEFINE P == SegmentUpdate(now', meter', st)
           p == period[cur]
<1>6. /\ P \in [Cells -> Record]
      /\ \A q \in Cells \ {cur} : P[q] = period[q]
      /\ JudgeSegState(now') # cur =>
           P[cur] = [tStart |-> p.tStart, tEnd |-> now', start |-> p.start, energy |-> p.energy]
      /\ JudgeSegState(now') = cur =>
           P[cur] = [tStart |-> IF p.tStart > 0 THEN p.tStart ELSE now',
                     tEnd   |-> IF st = "FINISH" THEN now' ELSE p.tEnd,
                     start  |-> IF p.tStart > 0 THEN p.start ELSE meter',
                     energy |-> IF p.tStart > 0 THEN meter' - p.start ELSE p.energy]
  BY <1>1, <1>3, VisitIs DEF IInv
<1>7. period' = P
  BY DEF Visit
<1> HIDE DEF P
<1>8. /\ p.tStart \in Times /\ p.tEnd \in Times /\ p.start \in Amounts /\ p.energy \in Amounts
      /\ p.start <= meter
  BY <1>3, <1>4, <1>5
<1>9. meter' - p.start \in Amounts
  <2>1. MaxEnergy \in Nat
    BY TariffAssumption
  <2>2. p.start \in Nat /\ p.start <= meter
    BY <1>8, <2>1 DEF Amounts
  <2> HIDE DEF p
  <2> QED BY <1>1, <2>1, <2>2 DEF Amounts
<1>10. P[cur] \in [tStart : Times, tEnd : Times, start : Amounts, energy : Amounts]
  <2> HIDE DEF p
  <2>1. CASE JudgeSegState(now') # cur
    BY <1>1, <1>6, <1>8, <2>1
  <2>2. CASE JudgeSegState(now') = cur
    BY <1>1, <1>6, <1>8, <1>9, <2>2
  <2> QED BY <2>1, <2>2
<1>11. P[cur].start <= meter'
  <2>1. meter \in Int /\ meter' \in Int /\ p.start \in Int
    BY <1>1, <1>8, TariffAssumption DEF Amounts
  <2> HIDE DEF p
  <2>2. P[cur].start \in {p.start, meter'}
    BY <1>6
  <2> QED BY <1>1, <1>8, <2>1, <2>2
<1>12. \A q \in Cells : P[q] \in [tStart : Times, tEnd : Times, start : Amounts, energy : Amounts]
  BY <1>4, <1>6, <1>10
<1>13. \A q \in Cells : P[q].start <= meter'
  <2> SUFFICES ASSUME NEW q \in Cells, q # cur PROVE P[q].start <= meter'
    BY <1>11
  <2>1. P[q] = period[q] /\ period[q].start \in Amounts /\ period[q].start <= meter
    BY <1>4, <1>5, <1>6
  <2>2. P[q].start \in Int
    BY <2>1, TariffAssumption DEF Amounts
  <2> QED BY <1>1, <2>1, <2>2
<1>14. P \in [Cells -> [tStart : Times, tEnd : Times, start : Amounts, energy : Amounts]]
  BY <1>6, <1>12
<1> QED BY <1>2, <1>7, <1>13, <1>14

(* What has been revisited remains so.                                     *)
LEMMA RevisitedStays ==
  ASSUME tStart' = tStart, tStart \in Nat, now \in Nat, now' \in Nat, now <= now', Revisited
  PROVE  Revisited'
<1>1. PICK a, c \in tStart .. now : \E b \in a .. c :
        JudgeSegState(a) = JudgeSegState(c) /\ JudgeSegState(b) # JudgeSegState(a)
  BY DEF Revisited
<1>2. a \in tStart' .. now' /\ c \in tStart' .. now'
  OBVIOUS
<1> QED BY <1>1, <1>2 DEF Revisited

(* Coming back to a period is a revisit.                                   *)
LEMMA BackAgain ==
  ASSUME tStart' = tStart, tStart \in Nat, now' \in Nat,
         NEW a \in Nat, NEW b \in Nat, tStart <= a, a <= b, b <= now',
         JudgeSegState(a) = JudgeSegState(now'), JudgeSegState(b) # JudgeSegState(a)
  PROVE  Revisited'
<1>1. a \in tStart' .. now' /\ now' \in tStart' .. now' /\ b \in a .. now'
  OBVIOUS
<1> QED BY <1>1 DEF Revisited

(* What the lemmas about a visit start from: clock, meter and the records  *)
(* before and after.                                                       *)
LEMMA VisitFacts ==
  ASSUME IInv, NEW dt \in 0..1, NEW de \in 0..1, NEW run \in BOOLEAN, Between(dt, de, run),
         stat # "MAKE", NEW st, Visit(st)
  PROVE  LET p == period[cur]
             n == period'[cur]
         IN  /\ now \in Nat /\ now' \in Nat /\ now' = now + dt /\ tStart \in Nat /\ tStart >= 1
             /\ tStart <= now /\ now <= now' /\ tStart' = tStart /\ order' = order
             /\ meter \in Nat /\ meter' \in Nat /\ meter' = meter + de
             /\ cur \in Cells /\ cur' \in Cells /\ cur' = JudgeSegState(now')
             /\ metered \in [Cells -> Nat] /\ metered' \in [Cells -> Nat]
             /\ \A q \in Cells : metered[q] <= metered'[q] /\ metered'[q] <= metered[q] + de
             /\ period \in [Cells -> Record] /\ period' \in [Cells -> Record]
             /\ \A q \in Cells \ {cur} : period'[q] = period[q]
             /\ cur' # cur => /\ n.tStart = p.tStart /\ n.tEnd = now'
                              /\ n.start = p.start /\ n.energy = p.energy
             /\ cur' = cur => /\ n.tStart = IF p.tStart > 0 THEN p.tStart ELSE now'
                              /\ n.tEnd = IF st = "FINISH" THEN now' ELSE p.tEnd
                              /\ n.start = IF p.tStart > 0 THEN p.start ELSE meter'
                              /\ n.energy = IF p.tStart > 0 THEN meter' - p.start ELSE p.energy
<1>1. TypeOK
  BY DEF IInv
<1>2. /\ now \in Nat /\ tStart \in Nat /\ meter \in Nat /\ cur \in Cells
      /\ metered \in [Cells -> Nat] /\ period \in [Cells -> Record]
  BY <1>1, Shape
<1>3. /\ now' = now + dt /\ meter' = meter + de /\ now' \in Nat /\ meter' \in Nat
      /\ metered' \in [Cells -> Nat]
      /\ \A q \in Cells : metered[q] <= metered'[q] /\ metered'[q] <= metered[q] + de
  BY <1>1, BetweenIs
<1>4. cur' = JudgeSegState(now') /\ period' = SegmentUpdate(now', meter', st)
      /\ tStart' = tStart /\ order' = order
  BY DEF Visit
<1>5. tStart >= 1 /\ tStart <= now /\ now <= now'
  BY <1>2, PassType
<1>6. cur' \in Cells
  BY <1>3, <1>4, JudgeInCells
<1> DEFINE p == period[cur]
           n == period'[cur]
<1>7. /\ period' \in [Cells -> Record]
      /\ \A q \in Cells \ {cur} : period'[q] = period[q]
      /\ cur' # cur =>
           n = [tStart |-> p.tStart, tEnd |-> now', start |-> p.start, energy |-> p.energy]
      /\ cur' = cur =>
           n = [tStart |-> IF p.tStart > 0 THEN p.tStart ELSE now',
                tEnd   |-> IF st = "FINISH" THEN now' ELSE p.tEnd,
                start  |-> IF p.tStart > 0 THEN p.start ELSE meter',
                energy |-> IF p.tStart > 0 THEN meter' - p.start ELSE p.energy]
  BY <1>1, <1>2, <1>3, <1>4, VisitIs
<1> HIDE DEF p, n
<1>8. cur' # cur => n.tStart = p.tStart /\ n.tEnd = now' /\ n.start = p.start /\ n.energy = p.energy
  BY <1>7
<1>9. cur' = cur => /\ n.tStart = IF p.tStart > 0 THEN p.tStart ELSE now'
                    /\ n.tEnd = IF st = "FINISH" THEN now' ELSE p.tEnd
                    /\ n.start = IF p.tStart > 0 THEN p.start ELSE meter'
                    /\ n.energy = IF p.tStart > 0 THEN meter' - p.start ELSE p.energy
  BY <1>7
<1> QED BY <1>2, <1>3, <1>4, <1>5, <1>6, <1>7, <1>8, <1>9 DEF p, n

(* A visit opens a period only while the clock is in it.                   *)
LEMMA VisitVisits ==
  ASSUME IInv, NEW dt \in 0..1, NEW de \in 0..1, NEW run \in BOOLEAN, Between(dt, de, run),
         stat # "MAKE", NEW st, Visit(st)
  PROVE  Visits'
<1> DEFINE p == period[cur]
<1>1. /\ now \in Nat /\ now' \in Nat /\ tStart \in Nat /\ tStart <= now /\ now <= now'
      /\ tStart' = tStart /\ cur \in Cells /\ cur' \in Cells /\ cur' = JudgeSegState(now')
      /\ period \in [Cells -> Record]
      /\ \A q \in Cells \ {cur} : period'[q] = period[q]
      /\ cur' # cur => period'[cur].tStart = p.tStart
      /\ cur' = cur => period'[cur].tStart = IF p.tStart > 0 THEN p.tStart ELSE now'
  BY VisitFacts
<1>2. \A q \in Cells : LET t == period[q].tStart
                       IN  t > 0 => tStart <= t /\ t <= now /\ JudgeSegState(t) = q
  BY DEF IInv, Visits
<1>3. \A q \in Cells : period[q].tStart \in Nat /\ period[q].tStart <= now
  <2> SUFFICES ASSUME NEW q \in Cells PROVE period[q].tStart \in Nat /\ period[q].tStart <= now
    OBVIOUS
  <2>1. period[q].tStart \in Nat
    BY <1>1 DEF Record
  <2> QED BY <1>1, <1>2, <2>1
<1>4. \A q \in Cells : period'[q].tStart \in {period[q].tStart, now'}
                      /\ (period'[q].tStart # period[q].tStart => q = cur')
  BY <1>1
<1>5. \A q \in Cells : LET t == period'[q].tStart
                       IN  t > 0 => tStart' <= t /\ t <= now' /\ JudgeSegState(t) = q
  BY <1>1, <1>2, <1>3, <1>4
<1>6. \A q \in Cells : period'[q].tStart <= now'
  BY <1>1, <1>3, <1>4
<1>7. now' \in tStart' .. now'
  BY <1>1
<1> QED BY <1>1, <1>5, <1>6, <1>7 DEF Visits

(* A visit counts no more in a period than was metered in it, unless the   *)
(* session has come back to it.                                            *)
LEMMA VisitCharged ==
  ASSUME IInv, NEW dt \in 0..1, NEW de \in 0..1, NEW run \in BOOLEAN, Between(dt, de, run),
         stat # "MAKE", NEW st, Visit(st), ~Revisited'
  PROVE  /\ \A q \in Cells : period'[q].energy <= metered'[q]
         /\ cur' = JudgeSegState(now')
         /\ period'[cur'].tStart > 0 => meter' - period'[cur'].start <= metered'[cur']
<1> DEFINE p == period[cur]
<1>1. /\ now \in Nat /\ now' \in Nat /\ tStart \in Nat /\ tStart <= now /\ now <= now'
      /\ tStart' = tStart /\ cur \in Cells /\ cur' \in Cells /\ cur' = JudgeSegState(now')
      /\ meter \in Nat /\ meter' \in Nat /\ meter' = meter + de
      /\ metered \in [Cells -> Nat] /\ metered' \in [Cells -> Nat]
      /\ period \in [Cells -> Record]
  BY VisitFacts
<1>2. \A q \in Cells : metered[q] <= metered'[q]
  BY VisitFacts
<1>3. \A q \in Cells \ {cur} : period'[q] = period[q]
  BY VisitFacts
<1>4. PICK t0 \in tStart .. now : JudgeSegState(t0) = cur /\ \A q \in Cells : period[q].tStart <= t0
  BY DEF IInv, Visits
<1>5. t0 \in Nat /\ tStart <= t0 /\ t0 <= now /\ t0 <= now'
  BY <1>1
<1>6. ~Revisited
  BY <1>1, RevisitedStays
<1>7. /\ \A q \in Cells : period[q].energy <= metered[q]
      /\ JudgeSegState(now) = cur /\ p.tStart > 0 => meter - p.start <= metered[cur]
  BY <1>6 DEF IInv, Charged
<1>8. \A q \in Cells : period[q].energy \in Int /\ period[q].start \in Nat /\ period[q].tStart \in Nat
  BY <1>1 DEF Record
<1>9. \A q \in Cells \ {cur} : period'[q].energy <= metered'[q]
  <2> SUFFICES ASSUME NEW q \in Cells \ {cur} PROVE period'[q].energy <= metered'[q]
    OBVIOUS
  <2>1. metered[q] \in Nat /\ metered'[q] \in Nat /\ metered[q] <= metered'[q]
    BY <1>1, <1>2
  <2>2. period'[q].energy = period[q].energy
    BY <1>3
  <2> QED BY <1>7, <1>8, <2>1, <2>2
<1>10. CASE cur' # cur
  <2>1. period'[cur].energy = p.energy
    BY <1>10, VisitFacts
  <2>2. period'[cur].energy <= metered'[cur]
    BY <1>1, <1>2, <1>7, <1>8, <2>1
  <2>3. period'[cur'] = period[cur']
    BY <1>1, <1>3, <1>10
  <2>4. ASSUME period[cur'].tStart > 0 PROVE FALSE
    <3> DEFINE a == period[cur'].tStart
    <3>1. a \in Nat /\ tStart <= a /\ a <= t0 /\ JudgeSegState(a) = cur'
      BY <1>1, <1>4, <1>8, <2>4 DEF IInv, Visits
    <3>2. JudgeSegState(t0) # cur'
      BY <1>4, <1>10
    <3> HIDE DEF a
    <3> QED BY <1>1, <1>5, <3>1, <3>2, BackAgain
  <2> QED BY <1>1, <1>9, <2>2, <2>3, <2>4
<1>11. CASE cur' = cur
  <2>1. JudgeSegState(now) = cur
    <3>1. SUFFICES ASSUME JudgeSegState(now) # cur PROVE FALSE
      OBVIOUS
    <3> QED BY <1>1, <1>4, <1>5, <1>11, <3>1, BackAgain
  <2>2. metered'[cur] = metered[cur] + de
    BY <1>1, <1>11, <2>1, BetweenIs DEF IInv
  <2>3. /\ p.tStart \in Nat /\ p.start \in Nat /\ p.energy \in Int
        /\ metered[cur] \in Nat /\ metered'[cur] \in Nat
    BY <1>1, <1>8
  <2>4. /\ period'[cur].energy = IF p.tStart > 0 THEN meter' - p.start ELSE p.energy
        /\ period'[cur].start = IF p.tStart > 0 THEN p.start ELSE meter'
    BY <1>11, VisitFacts
  <2>5. p.tStart > 0 => meter' - p.start <= metered'[cur]
    BY <1>1, <1>7, <2>1, <2>2, <2>3
  <2>6. p.energy <= metered'[cur]
    BY <1>1, <1>2, <1>7, <2>3
  <2> HIDE DEF p
  <2>7. period'[cur].energy <= metered'[cur]
    BY <2>3, <2>4, <2>5, <2>6
  <2>8. meter' - period'[cur].start <= metered'[cur]
    BY <1>1, <2>3, <2>4, <2>5
  <2> QED BY <1>1, <1>9, <1>11, <2>7, <2>8
<1> QED BY <1>10, <1>11

(* While no limit stops the updates, the visits follow the clock: each     *)
(* period misses what its passes of entering, opening and leaving meter,   *)
(* and is closed after it was opened.                                      *)
LEMMA VisitFollowed ==
  ASSUME IInv, NEW dt \in 0..1, NEW de \in 0..1, NEW run \in BOOLEAN, Between(dt, de, run),
         stat # "MAKE", NEW st, Visit(st), Unlimited, ~Revisited'
  PROVE  Opens' /\ \A q \in Cells : Missed(q)' /\ TimesOK(q)'
<1> DEFINE p == period[cur]
           n == period'[cur]
<1>1. /\ now \in Nat /\ now' \in Nat /\ now' = now + dt /\ tStart \in Nat /\ tStart >= 1
      /\ tStart <= now /\ now <= now' /\ tStart' = tStart
      /\ meter \in Nat /\ meter' \in Nat /\ meter' = meter + de
      /\ cur \in Cells /\ cur' \in Cells /\ cur' = JudgeSegState(now')
      /\ metered \in [Cells -> Nat] /\ metered' \in [Cells -> Nat]
      /\ period \in [Cells -> Record] /\ period' \in [Cells -> Record]
  BY VisitFacts
<1>2. \A q \in Cells : metered[q] <= metered'[q] /\ metered'[q] <= metered[q] + de
  BY VisitFacts
<1>3. \A q \in Cells \ {cur} : period'[q] = period[q]
  BY VisitFacts
<1>4. cur' # cur => n.tStart = p.tStart /\ n.tEnd = now' /\ n.start = p.start /\ n.energy = p.energy
  BY VisitFacts
<1>5. cur' = cur => /\ n.tStart = IF p.tStart > 0 THEN p.tStart ELSE now'
                    /\ n.tEnd = IF st = "FINISH" THEN now' ELSE p.tEnd
                    /\ n.start = IF p.tStart > 0 THEN p.start ELSE meter'
                    /\ n.energy = IF p.tStart > 0 THEN meter' - p.start ELSE p.energy
  BY VisitFacts
<1>6. ~Revisited
  BY <1>1, RevisitedStays
<1>7. cur = JudgeSegState(now) /\ Opens /\ \A q \in Cells : Missed(q) /\ TimesOK(q)
  BY <1>6 DEF IInv, Followed
<1>8. \A q \in Cells : /\ period[q].tStart \in Nat /\ period[q].tEnd \in Nat
                      /\ period[q].start \in Nat /\ period[q].energy \in Int
                      /\ metered[q] \in Nat /\ metered'[q] \in Nat
  BY <1>1 DEF Record
<1>9. \A q : Early(q)' = Early(q) /\ Early(q) \in {0, 1}
  BY <1>1 DEF Early
<1>10. Seen' = Seen \cup {cur'} /\ cur \in Seen
  <2>1. tStart' .. now' = (tStart .. now) \cup {now'}
    BY <1>1
  <2>2. now \in tStart .. now
    BY <1>1
  <2> QED BY <1>1, <1>7, <2>1, <2>2 DEF Seen
<1>11. cur' # cur => cur' \notin Seen /\ now' = now + 1
  <2> SUFFICES ASSUME cur' # cur PROVE cur' \notin Seen /\ now' = now + 1
    OBVIOUS
  <2>1. now' = now + 1
    BY <1>1, <1>7
  <2>2. ASSUME cur' \in Seen PROVE FALSE
    <3>1. PICK a \in tStart .. now : JudgeSegState(a) = cur'
      BY <2>2 DEF Seen
    <3>2. a \in Nat /\ tStart <= a /\ a <= now
      BY <1>1
    <3> QED BY <1>1, <1>7, <3>1, <3>2, BackAgain
  <2> QED BY <2>1, <2>2
<1>12. \A q \in Cells \ {cur, cur'} : metered'[q] = metered[q]
  BY <1>1, <1>7, BetweenIs DEF IInv
<1>13. p.tStart > 0 => tStart <= p.tStart /\ p.tStart <= now
  BY <1>1 DEF IInv, Visits
<1> HIDE DEF p, n
<1>17. PICK c \in Cells : c = cur
  BY <1>1
<1>18. PICK d \in Cells : d = cur'
  BY <1>1
<1>14. ASSUME NEW q \in Cells \ {cur, cur'} PROVE Missed(q)' /\ TimesOK(q)'
  <2>1. q \in Cells /\ Missed(q) /\ TimesOK(q) /\ period'[q] = period[q] /\ metered'[q] = metered[q]
    BY <1>3, <1>7, <1>12
  <2>2. Missed(q)'
    BY <1>9, <1>10, <2>1 DEF Missed
  <2>3. TimesOK(q)'
    <3>1. period[q].tEnd \in Nat
      BY <1>8, <2>1
    <3> QED BY <1>1, <2>1, <3>1 DEF TimesOK
  <2> QED BY <2>2, <2>3
<1>15. CASE cur' # cur
  <2>1. Missed(c)' /\ TimesOK(c)'
    <3>1. /\ p.tStart = 0 => p = NoPeriod /\ metered[cur] <= 1 + Early(cur)
          /\ p.tStart > 0 => metered[cur] - p.energy <= 2 + Early(cur)
      BY <1>1, <1>7 DEF Missed, p
    <3>2. /\ p.tStart \in Nat /\ p.energy \in Int /\ metered[cur] \in Nat /\ metered'[cur] \in Nat
          /\ metered'[cur] <= metered[cur] + de /\ Early(cur) \in {0, 1}
      BY <1>1, <1>2, <1>8, <1>9 DEF p
    <3>3. p = NoPeriod => p.energy = 0
      BY DEF NoPeriod
    <3>4. metered'[cur] - p.energy <= 3 + Early(cur)
      BY <3>1, <3>2, <3>3
    <3>5. Missed(c)'
      BY <1>4, <1>9, <1>10, <1>15, <1>17, <3>4 DEF Missed, n
    <3>6. p.tStart = 0 => now = tStart
      BY <1>1, <1>7, <1>11, <1>15 DEF Opens, p
    <3>7. TimesOK(c)'
      <4>1. CASE p.tStart = 0
        BY <1>1, <1>4, <1>7, <1>11, <1>15, <1>17, <3>6, <4>1 DEF TimesOK, n
      <4>2. CASE p.tStart > 0
        BY <1>1, <1>4, <1>13, <1>15, <1>17, <3>2, <4>2 DEF TimesOK, n
      <4> QED BY <3>2, <4>1, <4>2
    <3> QED BY <3>5, <3>7
  <2>2. Missed(d)' /\ TimesOK(d)' /\ period'[cur'] = NoPeriod
    <3>1. period[cur'] = NoPeriod /\ metered[cur'] <= Early(cur')
      BY <1>1, <1>7, <1>11, <1>15 DEF Missed
    <3>2. period'[cur'] = NoPeriod
      BY <1>1, <1>3, <1>15, <3>1
    <3>3. metered'[cur'] <= 1 + Early(cur')
      BY <1>1, <1>2, <1>8, <1>9, <3>1
    <3>4. NoPeriod.tStart = 0 /\ NoPeriod.tEnd = 0
      BY DEF NoPeriod
    <3>5. Early(d)' = Early(d) /\ d \in Seen' /\ Early(cur') = Early(d)
      BY <1>9, <1>10, <1>18 DEF Early
    <3>6. Missed(d)'
      BY <1>18, <3>2, <3>3, <3>4, <3>5 DEF Missed
    <3>7. TimesOK(d)'
      BY <1>18, <3>2, <3>4 DEF TimesOK
    <3> QED BY <3>2, <3>6, <3>7
  <2>3. Opens'
    <3>1. now' = now + 1 /\ JudgeSegState(now + 1) # JudgeSegState(now)
      BY <1>1, <1>7, <1>11, <1>15
    <3>2. JudgeSegState(now + 2) = JudgeSegState(now + 1)
      BY <1>1, <3>1, JudgeLasts
    <3>3. now' + 1 = now + 2
      BY <1>1, <3>1
    <3> QED BY <3>1, <3>2, <3>3 DEF Opens
  <2> QED BY <1>14, <1>17, <1>18, <2>1, <2>2, <2>3
<1>16. CASE cur' = cur
  <2>1. /\ p.tStart = 0 => p = NoPeriod /\ metered[cur] <= 1 + Early(cur)
        /\ p.tStart > 0 => p.energy = meter - p.start /\ metered[cur] - p.energy <= 2 + Early(cur)
    BY <1>1, <1>7 DEF Missed, p
  <2>2. /\ p.tStart \in Nat /\ p.tEnd \in Nat /\ p.start \in Nat /\ p.energy \in Int
        /\ metered[cur] \in Nat /\ metered'[cur] \in Nat
        /\ metered'[cur] <= metered[cur] + de /\ Early(cur) \in {0, 1}
    BY <1>1, <1>2, <1>8, <1>9 DEF p
  <2>3. p = NoPeriod => p.energy = 0 /\ p.tEnd = 0
    BY DEF NoPeriod
  <2>4. n.tStart \in Nat /\ n.tStart > 0
    BY <1>1, <1>5, <1>16, <2>2
  <2>5. n.energy = meter' - n.start /\ metered'[cur] - n.energy <= 2 + Early(cur)
    <3>1. CASE p.tStart > 0
      BY <1>1, <1>5, <1>16, <2>1, <2>2, <3>1
    <3>2. CASE p.tStart = 0
      BY <1>1, <1>5, <1>16, <2>1, <2>2, <2>3, <3>2
    <3> QED BY <2>2, <3>1, <3>2
  <2>6. Missed(c)'
    BY <1>9, <1>10, <1>16, <1>17, <2>4, <2>5 DEF Missed, n
  <2>7. TimesOK(c)'
    <3>1. n.tEnd # 0 => tStart <= n.tStart /\ n.tStart <= n.tEnd /\ n.tEnd <= now'
      <4>1. CASE p.tStart > 0 /\ st # "FINISH"
        <5>1. n.tStart = p.tStart /\ n.tEnd = p.tEnd
          BY <1>5, <1>16, <4>1
        <5>2. p.tEnd # 0 => tStart <= p.tStart /\ p.tStart <= p.tEnd /\ p.tEnd <= now
          BY <1>1, <1>7, <2>2, <4>1 DEF TimesOK, p
        <5> QED BY <1>1, <2>2, <5>1, <5>2
      <4>2. CASE p.tStart > 0 /\ st = "FINISH"
        BY <1>1, <1>5, <1>13, <1>16, <2>2, <4>2
      <4>3. CASE p.tStart = 0
        BY <1>1, <1>5, <1>16, <2>1, <2>2, <2>3, <4>3
      <4> QED BY <2>2, <4>1, <4>2, <4>3
    <3> QED BY <1>1, <1>17, <3>1 DEF TimesOK, n
  <2>8. Opens'
    BY <1>16, <2>4 DEF Opens, n
  <2> QED BY <1>14, <1>16, <1>17, <2>6, <2>7, <2>8
<1> QED BY <1>15, <1>16

-----------------------------------------------------------------------------
(* The parts of the invariant that every pass keeps.                       *)
LEMMA PassKeeps ==
  ASSUME IInv, NEW dt \in 0..1, NEW de \in 0..1, NEW run \in BOOLEAN, Between(dt, de, run),
         stat' # "MAKE",
         \/ stat = "MAKE" /\ tStart' = now'
         \/ stat # "MAKE" /\ tStart' = tStart
  PROVE  Fresh' /\ Going'
<1>1. Fresh'
  BY DEF Fresh
<1>2. now \in Nat /\ now' \in Nat /\ tStart \in Nat /\ now' = now + dt
  BY Shape, BetweenIs DEF IInv
<1>4. MaxTime \in Nat /\ Day * Hour \in Nat
  BY TariffAssumption
<1>3. tStart' \in 1 .. Day * Hour + 1 /\ tStart' <= now' /\ now' - tStart' <= MaxTime
  <2>1. CASE stat = "MAKE"
    <3>1. now' \in 1 .. Day * Hour + 1 /\ tStart' = now'
      BY <2>1, PassType
    <3>2. now' - now' = 0 /\ 0 <= MaxTime
      BY <1>2, <1>4
    <3> QED BY <1>2, <1>4, <3>1, <3>2
  <2>2. CASE stat # "MAKE"
    <3>1. tStart \in 1 .. Day * Hour + 1 /\ tStart <= now /\ now <= now' /\ now' - tStart <= MaxTime
      BY <2>2, PassType
    <3>2. tStart' = tStart
      BY <2>2
    <3> QED BY <1>2, <1>4, <3>1, <3>2
  <2> QED BY <2>1, <2>2
<1> QED BY <1>1, <1>3 DEF Going

(* The pass that makes the order.                                          *)
LEMMA MakeInv ==
  ASSUME IInv, NEW dt \in 0..1, NEW de \in 0..1, NEW run \in BOOLEAN, Between(dt, de, run), Make
  PROVE  IInv'
<1>1. /\ stat = "MAKE" /\ stat' = "UPDATE" /\ tStart' = now' /\ cur' = JudgeSegState(now')
      /\ period' = period /\ order' = order /\ tStop' = tStop /\ total' = Totals(period)
  BY DEF Make
<1>2. /\ now \in Nat /\ now' \in Nat /\ now' = now + dt /\ meter' \in Nat /\ meter' = meter + de
      /\ metered' \in [Cells -> Nat] /\ running' \in BOOLEAN
  BY Shape, BetweenIs DEF IInv
<1>3. cur' \in Cells /\ cur' # Idle
  BY <1>1, <1>2, JudgeInCells, IdleIsNone
<1>4. /\ meter = 0 /\ metered = [q \in Cells |-> 0] /\ period = [q \in Cells |-> NoPeriod]
  BY <1>1 DEF IInv, Fresh
<1>5. \A q \in Cells : period[q] = NoPeriod /\ metered[q] = 0
  BY <1>4
<1>6. NoPeriod.energy = 0 /\ NoPeriod.start = 0 /\ NoPeriod.tStart = 0 /\ NoPeriod.tEnd = 0
  BY DEF NoPeriod
<1>7. /\ total' \in [energy : Nat, fee : Nat, serv : Nat]
      /\ total'.energy <= Metered(metered') /\ TotalFee(total') <= Worth(metered')
  <2>1. \A q \in Periods : period[q].energy \in Nat /\ period[q].energy <= metered'[q]
    BY <1>2, <1>5, <1>6 DEF Cells
  <2> QED BY <1>1, <1>2, <2>1, TotalsLeq
<1>8. TypeOK'
  <2>1. now' \in Times /\ meter' \in Amounts /\ metered' \in [Cells -> Amounts]
    BY PassType
  <2>2. total' \in [energy : Nat, fee : Nat, serv : Int]
    BY <1>7
  <2> QED BY <1>1, <1>2, <1>3, <2>1, <2>2 DEF IInv, TypeOK
<1>9. Fresh' /\ Going'
  BY <1>1, PassKeeps
<1>10. Measured'
  <2>1. Metered(metered') = meter' /\ \A q \in Cells : metered'[q] <= meter'
    BY PassType
  <2> QED BY <1>1, <1>2, <1>5, <1>6, <2>1 DEF Measured
<1>11. Visits'
  <2>1. now' \in tStart' .. now'
    BY <1>1, <1>2
  <2> QED BY <1>1, <1>2, <1>5, <1>6, <2>1 DEF Visits
<1>12. Charged'
  <2>1. total'.energy <= meter'
    BY <1>7, PassType
  <2>2. \A q \in Cells : period'[q].energy <= metered'[q]
    BY <1>1, <1>2, <1>5, <1>6
  <2>3. ~(period'[cur'].tStart > 0)
    BY <1>1, <1>3, <1>5, <1>6
  <2> QED BY <1>7, <2>1, <2>2, <2>3 DEF Charged
<1>13. Followed'
  <2>1. Opens'
    BY <1>1 DEF Opens
  <2>2. ASSUME NEW q \in Cells PROVE Missed(q)' /\ TimesOK(q)'
    <3>1. period'[q] = NoPeriod /\ metered'[q] \in Nat
      BY <1>1, <1>2, <1>5
    <3>2. Seen' = {cur'}
      <4>1. tStart' .. now' = {now'}
        BY <1>1, <1>2
      <4> QED BY <1>1, <4>1 DEF Seen
    <3>3. metered'[q] <= 1
      BY <1>2, <1>5, BetweenIs DEF IInv
    <3>4. q \notin {JudgeSegState(now), JudgeSegState(now')} => metered'[q] = 0
      BY <1>5, BetweenIs DEF IInv
    <3>5. Early(q)' \in {0, 1}
      BY DEF Early
    <3>6. q # cur' /\ q = JudgeSegState(now) => Early(q)' = 1
      <4>1. SUFFICES ASSUME q # cur', q = JudgeSegState(now) PROVE Early(q)' = 1
        OBVIOUS
      <4>2. now' - 1 = now
        BY <1>1, <1>2, <4>1
      <4> QED BY <1>1, <4>1, <4>2 DEF Early
    <3>7. q \notin Seen' => metered'[q] <= Early(q)'
      BY <1>1, <3>1, <3>2, <3>3, <3>4, <3>5, <3>6
    <3>8. metered'[q] <= 1 + Early(q)'
      BY <3>1, <3>3, <3>5
    <3>9. Missed(q)'
      BY <1>6, <3>1, <3>2, <3>7, <3>8 DEF Missed
    <3>10. TimesOK(q)'
      BY <1>6, <3>1 DEF TimesOK
    <3> QED BY <3>9, <3>10
  <2> QED BY <1>1, <2>1, <2>2 DEF Followed
<1> QED BY <1>8, <1>9, <1>10, <1>11, <1>12, <1>13 DEF IInv

(* Waiting for the end of a stopped session changes no record.             *)
LEMMA WaitStopInv ==
  ASSUME IInv, NEW dt \in 0..1, NEW de \in 0..1, NEW run \in BOOLEAN, Between(dt, de, run), WaitStop
  PROVE  IInv'
<1>1. /\ stat = "WAITSTOP" /\ stat' \in {"WAITSTOP", "FINISH"}
      /\ order' = order /\ cur' = cur /\ period' = period /\ tStart' = tStart
      /\ tStop' = tStop /\ total' = total
  BY DEF WaitStop
<1>2. /\ now \in Nat /\ now' \in Nat /\ now' = now + dt
      /\ tStart \in Nat /\ tStart <= now /\ now <= now'
      /\ meter \in Nat /\ meter' \in Nat /\ meter' = meter + de /\ cur \in Cells
      /\ metered \in [Cells -> Nat] /\ metered' \in [Cells -> Nat] /\ running' \in BOOLEAN
      /\ period \in [Cells -> Record] /\ total \in [energy : Nat, fee : Nat, serv : Int]
  BY <1>1, Shape, BetweenIs, PassType DEF IInv, TypeOK
<1>3. \A q \in Cells : /\ metered[q] \in Nat /\ metered'[q] \in Nat /\ metered[q] <= metered'[q]
                      /\ period[q].energy \in Int /\ period[q].start \in Nat
                      /\ period[q].tStart \in Nat
  BY <1>2, BetweenIs DEF IInv, Record
<1>4. TypeOK'
  BY <1>1, <1>2, PassType DEF IInv, TypeOK
<1>5. Fresh' /\ Going'
  BY <1>1, PassKeeps
<1>6. Measured'
  <2>1. Metered(metered') = meter' /\ \A q \in Cells : metered'[q] <= meter'
    BY PassType
  <2>2. \A q \in Cells : period'[q].start <= meter'
    BY <1>1, <1>2, <1>3 DEF IInv, Measured
  <2> QED BY <2>1, <2>2 DEF Measured
<1>7. PICK t0 \in tStart .. now : JudgeSegState(t0) = cur /\ \A q \in Cells : period[q].tStart <= t0
  BY <1>1 DEF IInv, Visits
<1>8. Visits'
  <2>1. t0 \in tStart' .. now'
    BY <1>1, <1>2
  <2>2. \A q \in Cells : LET t == period[q].tStart
                         IN  t > 0 => tStart <= t /\ t <= now /\ JudgeSegState(t) = q
    BY <1>1 DEF IInv, Visits
  <2>3. \A q \in Cells : LET t == period'[q].tStart
                         IN  t > 0 => tStart' <= t /\ t <= now' /\ JudgeSegState(t) = q
    BY <1>1, <1>2, <1>3, <2>2
  <2> QED BY <1>1, <1>7, <2>1, <2>3 DEF Visits
<1>9. Charged'
  <2>1. SUFFICES ASSUME ~Revisited' PROVE Charged'
    BY DEF Charged
  <2>2. ~Revisited
    BY <1>1, <1>2, <2>1, RevisitedStays
  <2>3. /\ total.energy <= meter /\ TotalFee(total) <= Worth(metered)
        /\ \A q \in Cells : period[q].energy <= metered[q]
        /\ JudgeSegState(now) = cur /\ period[cur].tStart > 0 => meter - period[cur].start <= metered[cur]
    BY <1>1, <2>2 DEF IInv, Charged
  <2>4. total'.energy <= meter'
    BY <1>1, <1>2, <2>3
  <2>5. TotalFee(total') <= Worth(metered')
    <3>1. Worth(metered) <= Worth(metered') /\ Worth(metered) \in Int /\ Worth(metered') \in Int
      BY <1>2, BetweenIs, WorthInt DEF IInv
    <3>2. TotalFee(total) \in Int
      BY <1>2 DEF TotalFee
    <3> QED BY <1>1, <2>3, <3>1, <3>2
  <2>6. \A q \in Cells : period'[q].energy <= metered'[q]
    BY <1>1, <1>3, <2>3
  <2>7. ASSUME JudgeSegState(now') = cur, period[cur].tStart > 0
        PROVE  meter' - period[cur].start <= metered'[cur]
    <3>1. JudgeSegState(now) = cur
      <4>1. SUFFICES ASSUME JudgeSegState(now) # cur PROVE FALSE
        OBVIOUS
      <4>2. t0 \in Nat /\ tStart <= t0 /\ t0 <= now
        BY <1>2
      <4> QED BY <1>1, <1>2, <1>7, <2>1, <2>7, <4>1, <4>2, BackAgain
    <3>2. metered'[cur] = metered[cur] + de
      BY <2>7, <3>1, BetweenIs DEF IInv
    <3>3. meter - period[cur].start <= metered[cur] /\ period[cur].start \in Nat /\ metered[cur] \in Nat
      BY <1>2, <1>3, <2>3, <2>7, <3>1
    <3> QED BY <1>2, <3>2, <3>3
  <2> QED BY <1>1, <2>4, <2>5, <2>6, <2>7 DEF Charged
<1>10. Followed'
  <2>1. ~Unlimited
    BY <1>1 DEF IInv, Followed
  <2>2. ~Unlimited'
    <3>1. SUFFICES ASSUME Unlimited' PROVE Unlimited
      BY <2>1
    <3>2. order = NoLimits /\ now' - tStart < LimitTime
      BY <1>1, <3>1 DEF Unlimited
    <3>3. now - tStart < LimitTime
      <4>1. LimitTime \in Nat
        BY TariffAssumption
      <4> QED BY <1>2, <3>2, <4>1
    <3> QED BY <3>2, <3>3 DEF Unlimited
  <2> QED BY <2>2 DEF Followed
<1> QED BY <1>4, <1>5, <1>6, <1>8, <1>9, <1>10 DEF IInv

(* The two passes that visit a period differ in the totals they write: of  *)
(* the visited record, or what the final cuts leave of them.               *)
LEMMA VisitInv ==
  ASSUME IInv, NEW dt \in 0..1, NEW de \in 0..1, NEW run \in BOOLEAN, Between(dt, de, run),
         stat # "MAKE", NEW st, Visit(st),
         stat' \in {"UPDATE", "WAITSTOP", "FINISH", "WAITUSE"}, tStop' \in Times,
         total' \in {Totals(period'), CutTotals(Totals(period'))},
         Unlimited' => stat' # "WAITSTOP"
  PROVE  IInv'
<1>1. /\ now \in Nat /\ now' \in Nat /\ now' = now + dt /\ tStart \in Nat /\ now <= now'
      /\ tStart' = tStart /\ order' = order
      /\ meter' \in Nat /\ metered' \in [Cells -> Nat]
      /\ cur' \in Cells /\ cur' = JudgeSegState(now') /\ period' \in [Cells -> Record]
  BY VisitFacts
<1>2. /\ period' \in [Cells -> [tStart : Times, tEnd : Times, start : Amounts, energy : Amounts]]
      /\ \A q \in Cells : period'[q].start <= meter'
  BY VisitType
<1>3. \A q \in Periods : q \in Cells /\ period'[q].energy \in Nat
  BY <1>2, TariffAssumption DEF Amounts, Cells
<1>4. order \in [card : BOOLEAN, balance : Nat, energy : Nat, fee : Nat, time : Nat]
  BY Shape DEF IInv
<1>5. total' \in [energy : Nat, fee : Nat, serv : Int]
  <2> DEFINE m == [q \in Cells |-> IF q \in Periods THEN period'[q].energy ELSE 0]
             T == Totals(period')
  <2>1. m \in [Cells -> Nat]
    BY <1>3
  <2>2. \A q \in Periods : period'[q].energy \in Nat /\ period'[q].energy <= m[q]
    BY <1>3
  <2> HIDE DEF m
  <2>3. T \in [energy : Nat, fee : Nat, serv : Nat]
    BY <2>1, <2>2, TotalsLeq
  <2> HIDE DEF T
  <2>4. CutTotals(T) \in [energy : Nat, fee : Nat, serv : Int]
    BY <1>4, <2>3, CutTotalsIs
  <2>5. T \in [energy : Nat, fee : Nat, serv : Int]
    BY <2>3
  <2>6. total' \in {T, CutTotals(T)}
    BY DEF T
  <2> QED BY <2>4, <2>5, <2>6
<1>6. TypeOK'
  <2>1. now' \in Times /\ meter' \in Amounts /\ metered' \in [Cells -> Amounts]
    BY PassType
  <2>2. tStart' \in Times /\ order' \in Orders
    BY <1>1 DEF IInv, TypeOK
  <2>3. running' \in BOOLEAN
    BY BetweenIs DEF IInv
  <2>4. cur' \in Cells \cup {Idle} /\ (cur' = Idle <=> stat' = "MAKE")
    BY <1>1, IdleIsNone
  <2>5. stat' \in {"MAKE", "UPDATE", "WAITSTOP", "FINISH", "WAITUSE"}
    OBVIOUS
  <2> QED BY <1>2, <1>5, <2>1, <2>2, <2>3, <2>4, <2>5 DEF TypeOK
<1>7. Fresh' /\ Going'
  BY <1>1, PassKeeps
<1>8. Measured'
  BY <1>2, PassType DEF Measured
<1>9. Visits'
  BY VisitVisits
<1>10. Charged'
  <2>1. SUFFICES ASSUME ~Revisited' PROVE Charged'
    BY DEF Charged
  <2>2. /\ \A q \in Cells : period'[q].energy <= metered'[q]
        /\ period'[cur'].tStart > 0 => meter' - period'[cur'].start <= metered'[cur']
    BY <2>1, VisitCharged
  <2> DEFINE T == Totals(period')
  <2>3. /\ T \in [energy : Nat, fee : Nat, serv : Nat]
        /\ T.energy <= Metered(metered') /\ TotalFee(T) <= Worth(metered')
    <3>1. \A q \in Periods : period'[q].energy \in Nat /\ period'[q].energy <= metered'[q]
      BY <1>3, <2>2
    <3> QED BY <1>1, <3>1, TotalsLeq
  <2> HIDE DEF T
  <2>4. /\ CutTotals(T) \in [energy : Nat, fee : Nat, serv : Int]
        /\ CutTotals(T).energy <= T.energy /\ TotalFee(CutTotals(T)) <= TotalFee(T)
    BY <1>4, <2>3, CutTotalsIs
  <2>5. total' \in {T, CutTotals(T)}
    BY DEF T
  <2>6. Metered(metered') = meter'
    BY PassType
  <2> DEFINE e == meter'
             w == Worth(metered')
  <2>7. e \in Nat /\ w \in Int
    BY <1>1, WorthInt
  <2>8. T.energy <= e /\ TotalFee(T) <= w
    BY <2>3, <2>6
  <2> HIDE DEF e, w
  <2>9. /\ T.energy \in Nat /\ TotalFee(T) \in Int
        /\ CutTotals(T).energy \in Nat /\ TotalFee(CutTotals(T)) \in Int
    BY <2>3, <2>4 DEF TotalFee
  <2>10. CutTotals(T).energy <= e /\ TotalFee(CutTotals(T)) <= w
    BY <2>4, <2>7, <2>8, <2>9
  <2>11. total'.energy <= e /\ TotalFee(total') <= w
    BY <2>5, <2>8, <2>10
  <2> QED BY <2>2, <2>11 DEF Charged, e, w
<1>11. Followed'
  <2>1. SUFFICES ASSUME Unlimited'
                 PROVE  /\ stat' # "WAITSTOP"
                        /\ Revisited' \/ (Opens' /\ \A q \in Cells : Missed(q)' /\ TimesOK(q)')
    BY <1>1 DEF Followed
  <2>2. Unlimited
    <3>1. order = NoLimits /\ now' - tStart < LimitTime
      BY <1>1, <2>1 DEF Unlimited
    <3>2. now - tStart < LimitTime
      <4>1. LimitTime \in Nat
        BY TariffAssumption
      <4> QED BY <1>1, <3>1, <4>1
    <3> QED BY <3>1, <3>2 DEF Unlimited
  <2>3. ~Revisited' => Opens' /\ \A q \in Cells : Missed(q)' /\ TimesOK(q)'
    BY <2>2, VisitFollowed
  <2> QED BY <2>1, <2>3
<1> QED BY <1>6, <1>7, <1>8, <1>9, <1>10, <1>11 DEF IInv

(* A pass in UPDATE.  No limit stops an unlimited order.                   *)
LEMMA UpdateInv ==
  ASSUME IInv, NEW dt \in 0..1, NEW de \in 0..1, NEW run \in BOOLEAN, Between(dt, de, run), Update
  PROVE  IInv'
<1>1. PICK st \in {"UPDATE", "FINISH"} :
        /\ stat = "UPDATE" /\ Visit(st) /\ total' = Totals(period')
        /\ tStop' \in {now', tStop}
        /\ stat' = IF LimitReached(total', now') THEN "WAITSTOP" ELSE st
  BY DEF Update, Visit
<1>2. stat # "MAKE" /\ stat' \in {"UPDATE", "WAITSTOP", "FINISH", "WAITUSE"}
  BY <1>1
<1>3. tStop' \in Times
  <2>1. now' \in Times /\ tStop \in Times
    BY PassType DEF IInv, TypeOK
  <2> QED BY <1>1, <2>1
<1>4. Unlimited' => stat' # "WAITSTOP"
  <2>1. SUFFICES ASSUME Unlimited' PROVE ~LimitReached(total', now')
    BY <1>1
  <2>2. order = NoLimits /\ now' - tStart < LimitTime
    BY <1>1, <2>1 DEF Unlimited, Visit
  <2>3. ~order.card /\ order.energy = 0 /\ order.fee = 0 /\ order.time = 0
    BY <2>2 DEF NoLimits
  <2>4. ~(now' - tStart >= LimitTime)
    <3>1. now \in Nat /\ now' = now + dt /\ tStart \in Nat
      BY Shape, BetweenIs DEF IInv
    <3>2. LimitTime \in Nat
      BY TariffAssumption
    <3> QED BY <2>2, <3>1, <3>2
  <2> QED BY <2>3, <2>4 DEF LimitReached
<1> QED BY <1>1, <1>2, <1>3, <1>4, VisitInv

(* The pass that finishes the order.                                       *)
LEMMA FinishInv ==
  ASSUME IInv, NEW dt \in 0..1, NEW de \in 0..1, NEW run \in BOOLEAN, Between(dt, de, run), Finish
  PROVE  IInv'
<1>1. /\ stat = "FINISH" /\ Visit("FINISH") /\ total' = CutTotals(Totals(period'))
      /\ tStop' = now' /\ stat' = "WAITUSE"
  BY DEF Finish, Visit
<1>2. tStop' \in Times
  BY <1>1, PassType DEF IInv
<1> QED BY <1>1, <1>2, VisitInv

-----------------------------------------------------------------------------
(* A step without change.                                                  *)
LEMMA StutterInv ==
  ASSUME IInv, UNCHANGED vars
  PROVE  IInv'
BY DEF vars, IInv, TypeOK, Fresh, Going, Measured, Visits, Charged, Followed, Revisited,
       Unlimited, Opens, Missed, TimesOK, Early, Seen

(* The invariant is kept by every step.                                    *)
LEMMA NextInv == IInv /\ [Next]_vars => IInv'
<1> SUFFICES ASSUME IInv, [Next]_vars PROVE IInv'
  OBVIOUS
<1>1. CASE Pass
  <2>1. PICK dt \in 0..1, de \in 0..1, run \in BOOLEAN :
          Between(dt, de, run) /\ (Make \/ Update \/ WaitStop \/ Finish)
    BY <1>1 DEF Pass
  <2> QED BY <2>1, MakeInv, UpdateInv, WaitStopInv, FinishInv
<1>2. CASE NextOrder
  BY <1>2, NextOrderInv
<1>3. CASE UNCHANGED vars
  BY <1>3, StutterInv
<1> QED BY <1>1, <1>2, <1>3 DEF Next

(* The invariant always holds.                                             *)
LEMMA SpecInv == Spec => []IInv
BY InitInv, NextInv, PTL DEF Spec

(* The account keeps its types: the times of a record lie in the session,  *)
(* its energies below the meter, and the energy and the energy fee of an   *)
(* order are never negative, whatever its limits.                          *)
THEOREM TariffTypeCorrect == Spec => []TypeOK
<1>1. IInv => TypeOK
  BY DEF IInv
<1> QED BY <1>1, SpecInv, PTL

(* A session that does not come back to a period is never charged more     *)
(* energy than was metered, nor more than that energy's price, for any     *)
(* tariff and any limits.                                                  *)
THEOREM NeverTooMuch == Spec => []NeverOvercharged
<1>1. ASSUME IInv PROVE NeverOvercharged
  <2>1. CASE stat = "MAKE"
    <3>1. total.energy = 0 /\ TotalFee(total) = 0 /\ meter = 0
      BY <1>1, <2>1 DEF IInv, Fresh, TotalFee
    <3>2. metered \in [Cells -> Nat]
      BY <1>1, Shape DEF IInv
    <3>3. 0 <= Worth(metered)
      BY <3>2, WorthInt
    <3> QED BY <3>1, <3>3 DEF NeverOvercharged
  <2>2. CASE stat # "MAKE"
    BY <1>1, <2>2 DEF IInv, Charged, NeverOvercharged
  <2> QED BY <2>1, <2>2
<1> QED BY <1>1, SpecInv, PTL

(* An unlimited session that does not come back to a period loses in each  *)
(* at most what flows in three passes, and in the one it left while its    *)
(* order was made one more.                                                *)
THEOREM LossIsBounded == Spec => []LossBounded
<1>1. ASSUME IInv PROVE LossBounded
  <2>1. SUFFICES ASSUME stat # "MAKE", Unlimited, ~Revisited, NEW q \in Periods
        PROVE metered[q] - period[q].energy <=
                IF q = JudgeSegState(tStart - 1) /\ q # JudgeSegState(tStart) THEN 4 ELSE 3
    BY DEF LossBounded
  <2>2. q \in Cells /\ Missed(q) /\ Early(q) \in {0, 1}
    BY <1>1, <2>1 DEF IInv, Followed, Cells, Early
  <2>3. /\ metered[q] \in Nat /\ period[q].energy \in Int /\ period[q].tStart \in Nat
        /\ cur \in Cells
    BY <1>1, <2>1, <2>2, Shape DEF IInv, Record
  <2>4. NoPeriod.energy = 0
    BY DEF NoPeriod
  <2>5. metered[q] - period[q].energy <= 3 + Early(q)
    <3>1. CASE q \notin Seen
      BY <2>2, <2>3, <2>4, <3>1 DEF Missed
    <3>2. CASE q \in Seen \ {cur}
      BY <2>2, <3>2 DEF Missed
    <3>3. CASE q = cur
      BY <2>2, <2>3, <2>4, <3>3 DEF Missed
    <3> QED BY <3>1, <3>2, <3>3
  <2> QED BY <2>3, <2>5 DEF Early
<1> QED BY <1>1, SpecInv, PTL

(* The times of an unlimited session's periods lie in the session.         *)
THEOREM TimesAreInSession == Spec => []TimesInSession
<1>1. IInv => TimesInSession
  BY DEF IInv, Followed, TimesInSession, TimesOK
<1> QED BY <1>1, SpecInv, PTL
=============================================================================
