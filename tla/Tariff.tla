------------------------------- MODULE Tariff -------------------------------
(***************************************************************************)
(* What an order charges: the split of a session's energy over the tariff  *)
(* segments and their periods, the totals, the limits and the final cuts   *)
(* (order.c, and the states MAKE, UPDATE, WAITSTOP and FINISH of           *)
(* taskdata.c).  The data task sees clock and meter only when it passes;   *)
(* between two passes at most one unit of energy is metered and one unit   *)
(* of time goes by.  Amounts are integers: energy in units of the meter,   *)
(* Whole of them to 0.01 kWh; fees in fee per unit of energy, Cent of them *)
(* to 0.01 yuan.                                                           *)
(***************************************************************************)
EXTENDS Integers, Sequences

CONSTANTS
  Day,        \* hours of a day
  Hour,       \* units of time of an hour
  SegTime,    \* info.SegTime: for 0..4 the sequence of <<ucStart, ucEnd>>
  EnergyFee,  \* info.dSegEnergyFee, 0..4
  ServFee,    \* info.dSegServFee, 0..4
  Whole,      \* units of energy of 0.01 kWh
  Cent,       \* units of fee of 0.01 yuan
  Lead,       \* the 0.1 kWh by which a fee limit acts early
  LimitTime,  \* 85800 s: the longest session
  Orders,     \* [card, balance, energy, fee, time]: start type and limits
  MaxEnergy,  \* bound: energy of a session
  MaxTime     \* bound: length of a session

NoLimits == [card |-> FALSE, balance |-> 0, energy |-> 0, fee |-> 0, time |-> 0]
SegMax == 4                        \* STATE_SEG_DEFAULT, defOrderSegMax - 1
Segs == 0..SegMax
Idle == <<5, 1>>                   \* STATE_SEG_IDLE
Periods == UNION {{<<s, p>> : p \in 1..Len(SegTime[s])} : s \in Segs}
Default == <<SegMax, 1>>
Cells == Periods \cup {Default}    \* the entries of chargeSegStatus in use

ASSUME TariffAssumption ==
  /\ {Day, Whole, Cent} \subseteq Nat \ {0}
  /\ Hour \in Nat \ {0, 1}          \* 3600 s: no hour passes between two passes
  /\ {Lead, LimitTime, MaxEnergy, MaxTime} \subseteq Nat
  /\ \A s \in Segs : EnergyFee[s] \in Nat /\ ServFee[s] \in Nat
  /\ \A s \in Segs : SegTime[s] \in Seq(Nat \X Nat)
  /\ Orders \subseteq [card : BOOLEAN, balance : Nat, energy : Nat, fee : Nat, time : Nat]
  /\ SegTime[SegMax] = << >>       \* only SegTime[0..3] is ever configured

VARIABLES
  now,       \* the clock
  meter,     \* status.dChargingEnergy
  metered,   \* reference: the same energy by the period it flowed in
  running,   \* StartOK
  order,     \* the limits of the order, a member of Orders
  stat,      \* order.statOrder
  cur,       \* <<order.statOrderSeg, order.pos>>
  period,    \* order.chargeSegStatus
  tStart,    \* order.tStartTime
  tStop,     \* order.tStopTime
  total      \* order.dTotalEnergy, dTotalEnergyFee, dTotalServFee

vars == <<now, meter, metered, running, order, stat, cur, period, tStart, tStop, total>>

-----------------------------------------------------------------------------
(* Which period the clock is in.                                           *)
HourOf(t) == (t \div Hour) % Day

IsTimeInclude(h, q) ==
  LET se == SegTime[q[1]][q[2]]
  IN  se[1] <= h /\ h < se[2]

(* The first segment, and in it the first period, that holds the hour.     *)
SegOfHour ==
  [h \in 0 .. Day - 1 |->
     LET hit == {q \in Periods : IsTimeInclude(h, q)}
     IN  IF hit = {} THEN Default
         ELSE CHOOSE q \in hit : \A r \in hit :
                q[1] < r[1] \/ (q[1] = r[1] /\ q[2] <= r[2])]

JudgeSegState(t) == SegOfHour[HourOf(t)]

Price(s) == EnergyFee[s] + ServFee[s]

get_current_totalfee(t) == Price(JudgeSegState(t)[1])

-----------------------------------------------------------------------------
NoPeriod == [tStart |-> 0, tEnd |-> 0, start |-> 0, energy |-> 0]

(* Mutants of PeriodUpdate: the first visit forgets the meter; a visit     *)
(* counts from the visit before; the first visit forgets the clock.        *)
PeriodUpdateFromZero(t, e) ==
  LET p == period[cur]
  IN  IF JudgeSegState(t) # cur THEN [p EXCEPT !.tEnd = t]
      ELSE IF p.tStart > 0 THEN [p EXCEPT !.energy = e - p.start]
      ELSE [p EXCEPT !.tStart = t]

PeriodUpdateLastVisit(t, e) ==
  LET p == period[cur]
  IN  IF JudgeSegState(t) # cur THEN [p EXCEPT !.tEnd = t]
      ELSE IF p.tStart > 0 THEN [p EXCEPT !.energy = e - p.start, !.start = e]
      ELSE [p EXCEPT !.tStart = t, !.start = e]

PeriodUpdateUnstamped(t, e) ==
  LET p == period[cur]
  IN  IF JudgeSegState(t) # cur THEN [p EXCEPT !.tEnd = t]
      ELSE IF p.tStart > 0 THEN [p EXCEPT !.energy = e - p.start]
      ELSE [p EXCEPT !.start = e]

(* One visit to the current period at clock t with meter e.  A change of   *)
(* period only closes the old one; the first visit opens the new one.      *)
PeriodUpdate(t, e) ==
  LET p == period[cur]
  IN  IF JudgeSegState(t) # cur THEN [p EXCEPT !.tEnd = t]
      ELSE IF p.tStart > 0 THEN [p EXCEPT !.energy = e - p.start]
      ELSE [p EXCEPT !.tStart = t, !.start = e]

(* The loop over the configured periods of a segment; their number,        *)
(* SegTime[s].ucPeriodCont, is 0 for the default segment.                  *)
SegSum(amount, s) ==
  LET sum[n \in 0..Len(SegTime[s])] == IF n = 0 THEN 0 ELSE sum[n - 1] + amount[<<s, n>>]
  IN  sum[Len(SegTime[s])]

(* The loop over the defOrderSegMax segments.                              *)
SumSegs(amount) == amount[0] + amount[1] + amount[2] + amount[3] + amount[SegMax]

Cut(x, u) == (x \div u) * u

Totals(P) ==
  LET E == [s \in Segs |-> SegSum([q \in Cells |-> P[q].energy], s)]
  IN  [energy |-> SumSegs([s \in Segs |-> Cut(E[s], Whole)]),
       fee    |-> Cut(SumSegs([s \in Segs |-> E[s] * EnergyFee[s]]), Cent),
       serv   |-> Cut(SumSegs([s \in Segs |-> E[s] * ServFee[s]]), Cent)]

TotalFee(T) == T.fee + T.serv      \* order.dTotalFee

(* SegmentUpdate of an order under way with statOrder st: its periods. The *)
(* finished order also closes the period it has just visited.              *)
SegmentUpdate(t, e, st) ==
  LET p == PeriodUpdate(t, e)
  IN  [period EXCEPT ![cur] = IF st = "FINISH" THEN [p EXCEPT !.tEnd = t] ELSE p]

-----------------------------------------------------------------------------
(* Whether the limits of the order stop the session: state UPDATE after    *)
(* makeOrder.                                                              *)
NearLimit(T, t, limit) == TotalFee(T) + Lead * get_current_totalfee(t) >= limit

LimitReached(T, t) ==
  \/ order.card /\ NearLimit(T, t, order.balance)
  \/ t - tStart >= LimitTime
  \/ IF order.energy # 0   THEN T.energy >= order.energy
     ELSE IF order.fee # 0 THEN NearLimit(T, t, order.fee)
     ELSE order.time # 0 /\ t - tStart >= order.time

(* The final cuts of state FINISH: the customer pays no more than he has   *)
(* or asked for.  (The cut of the stop time does not last: see Finish.)    *)
CutFee(T, limit) == [T EXCEPT !.serv = limit - T.fee]

CutTotals(T) ==
  LET U == IF order.card /\ TotalFee(T) >= order.balance THEN CutFee(T, order.balance) ELSE T
  IN  IF order.energy # 0
        THEN [U EXCEPT !.energy = IF @ > order.energy THEN order.energy ELSE @]
      ELSE IF order.fee # 0 /\ TotalFee(U) > order.fee THEN CutFee(U, order.fee)
      ELSE U

-----------------------------------------------------------------------------
(* What happens between two passes of the data task: the clock, the meter, *)
(* and the end of the session.                                             *)
Between(dt, de, run) ==
  /\ stat # "MAKE" => now + dt - tStart <= MaxTime
  /\ meter + de <= MaxEnergy
  /\ running \/ (de = 0 /\ ~run)
  /\ now' = now + dt
  /\ meter' = meter + de
  /\ \E q \in {JudgeSegState(now), JudgeSegState(now + dt)} :
       metered' = [metered EXCEPT ![q] = @ + de]
  /\ running' = run

Make ==
  /\ stat = "MAKE"
  /\ tStart' = now'
  /\ cur' = JudgeSegState(now')
  /\ total' = Totals(period)
  /\ stat' = "UPDATE"
  /\ UNCHANGED <<order, period, tStop>>

(* A pass in UPDATE.  The pass that sees the end of the session updates    *)
(* the order as finished and looks at the limits all the same.  (The stop  *)
(* times that the saves of a running order stamp are left out.)            *)
Update ==
  /\ stat = "UPDATE"
  /\ LET st == IF running' THEN "UPDATE" ELSE "FINISH"
     IN  /\ period' = SegmentUpdate(now', meter', st)
         /\ cur' = JudgeSegState(now')
         /\ total' = Totals(period')
         /\ tStop' = IF st = "FINISH" THEN now' ELSE tStop
         /\ stat' = IF LimitReached(total', now') THEN "WAITSTOP" ELSE st
  /\ UNCHANGED <<order, tStart>>

WaitStop ==
  /\ stat = "WAITSTOP"
  /\ stat' = IF running' THEN stat ELSE "FINISH"
  /\ UNCHANGED <<order, cur, period, tStart, tStop, total>>

(* AddOrderTmp stamps the stop time after a time limit has cut it.         *)
Finish ==
  /\ stat = "FINISH"
  /\ period' = SegmentUpdate(now', meter', "FINISH")
  /\ total' = CutTotals(Totals(period'))
  /\ cur' = JudgeSegState(now')
  /\ tStop' = now'
  /\ stat' = "WAITUSE"
  /\ UNCHANGED <<order, tStart>>

Pass ==
  \E dt \in 0..1, de \in 0..1, run \in BOOLEAN :
    /\ Between(dt, de, run)
    /\ Make \/ Update \/ WaitStop \/ Finish

(* Mutant of OrderInit: the periods of the last order stay.                *)
OrderInitKeepsPeriods ==
  /\ cur' = Idle
  /\ period' = period
  /\ tStart' = 0 /\ tStop' = 0
  /\ total' = [energy |-> 0, fee |-> 0, serv |-> 0]

(* OrderInit: the record of the connector is cleared for the next order.   *)
OrderInit ==
  /\ cur' = Idle
  /\ period' = [q \in Cells |-> NoPeriod]
  /\ tStart' = 0 /\ tStop' = 0
  /\ total' = [energy |-> 0, fee |-> 0, serv |-> 0]

(* The next order of the connector, at any hour of the day: stored,        *)
(* cleared, and a session started for it.                                  *)
NextOrder ==
  /\ stat = "WAITUSE"
  /\ OrderInit
  /\ stat' = "MAKE" /\ running' = TRUE
  /\ order' \in Orders
  /\ now' \in 1 .. Day * Hour
  /\ meter' = 0 /\ metered' = [q \in Cells |-> 0]

Init ==
  /\ now \in 1 .. Day * Hour
  /\ meter = 0 /\ metered = [q \in Cells |-> 0]
  /\ running = TRUE
  /\ order \in Orders
  /\ stat = "MAKE" /\ cur = Idle
  /\ period = [q \in Cells |-> NoPeriod]
  /\ tStart = 0 /\ tStop = 0
  /\ total = [energy |-> 0, fee |-> 0, serv |-> 0]

Next == Pass \/ NextOrder

Spec == Init /\ [][Next]_vars

-----------------------------------------------------------------------------
(* Types: the record of an order and the reference.                        *)
Amounts == 0 .. MaxEnergy
Times == 0 .. Day * Hour + MaxTime + 1

TypeOK ==
  /\ now \in Times /\ tStart \in Times /\ tStop \in Times
  /\ meter \in Amounts /\ metered \in [Cells -> Amounts]
  /\ running \in BOOLEAN /\ order \in Orders
  /\ stat \in {"MAKE", "UPDATE", "WAITSTOP", "FINISH", "WAITUSE"}
  /\ cur \in Cells \cup {Idle} /\ (cur = Idle <=> stat = "MAKE")
  /\ period \in [Cells -> [tStart : Times, tEnd : Times, start : Amounts, energy : Amounts]]
  /\ total \in [energy : Nat, fee : Nat, serv : Int]

(* The session has left a period and come back to it: it has run into the  *)
(* same hours of the next day.                                             *)
Revisited ==
  \E a, c \in tStart .. now : \E b \in a .. c :
    JudgeSegState(a) = JudgeSegState(c) /\ JudgeSegState(b) # JudgeSegState(a)

(* What the metered energy costs, each unit at the price of the period it  *)
(* flowed in.                                                              *)
Worth(amount) ==
  SumSegs([s \in Segs |-> SegSum(amount, s) * Price(s)]) + amount[Default] * Price(SegMax)

(* NeverOvercharged: as long as a session does not come back to a period,  *)
(* the order shows no more energy than was metered and asks for no more    *)
(* than its price, each unit at the price of the period it flowed in --    *)
(* whichever passes meet the changes of period and the end of the session. *)
NeverOvercharged ==
  \/ total.energy <= meter /\ TotalFee(total) <= Worth(metered)
  \/ Revisited

(* No limit has stopped the updates of the order.                          *)
Unlimited == order = NoLimits /\ now - tStart < LimitTime

(* LossBounded: while no limit has stopped the updates and the session has *)
(* not come back to a period, a configured period misses at most the       *)
(* energy of three passes: the one that enters it, its first visit and the *)
(* one that leaves it.  The period that was left while the order was made  *)
(* misses one more.                                                        *)
LossBounded ==
  stat # "MAKE" /\ Unlimited =>
    \/ \A q \in Periods :
         metered[q] - period[q].energy <=
           IF q = JudgeSegState(tStart - 1) /\ q # JudgeSegState(tStart) THEN 4 ELSE 3
    \/ Revisited

(* TimesInSession: while no limit has stopped the updates and the session  *)
(* has not come back to a period, the times of the periods lie in the      *)
(* session, so that ulSegTotalTime adds up to no more than its length.  A  *)
(* period is closed without having been opened only when the hour turns    *)
(* between MAKE and the first UPDATE; come back to the next day, it is     *)
(* opened after its end.                                                   *)
TimesInSession ==
  stat # "MAKE" /\ Unlimited =>
    \/ \A q \in Cells :
         LET p == period[q]
         IN  p.tEnd # 0 =>
               \/ tStart <= p.tStart /\ p.tStart <= p.tEnd /\ p.tEnd <= now
               \/ p.tStart = 0 /\ p.tEnd = tStart + 1 /\ q = JudgeSegState(tStart)
    \/ Revisited

(* TotalIsMetered: order.h:129 calls dTotalEnergy the total energy of the  *)
(* order.  Violated: PeriodUpdate measures a period from its first visit,  *)
(* so a session that comes back to a period the next day bills what flowed *)
(* in between once more.                                                   *)
TotalIsMetered == stat = "WAITUSE" => total.energy <= meter

(* StopIsCut: an order limited by time alone shows no more time than was   *)
(* asked for (taskdata.c:239-242); AddOrderTmp is to stamp only an order   *)
(* that has no stop time yet (cfg_order.c:136).  Violated: it stamps the   *)
(* finished order too, after the cut.                                      *)
StopIsCut ==
  stat = "WAITUSE" /\ order.time # 0 /\ order.energy = 0 /\ order.fee = 0
    => tStop - tStart <= order.time

=============================================================================
