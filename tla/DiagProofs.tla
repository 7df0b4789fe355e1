----------------------------- MODULE DiagProofs -----------------------------
(***************************************************************************)
(* The types of the confirmation machines, and the relay that follows the  *)
(* voltage.                                                                *)
(***************************************************************************)
EXTENDS Diag, FiniteSetTheorems, TLAPS

(* Reported bad while confirmed so.  A start has seen the condition; when  *)
(* it is no longer fulfilled after that, the history knows it.             *)
Bad == Confirmed \cup {"OK_Dummy"}
Starting == {"checked", "closing"}

ReportOK ==
  q = "Volt" => /\ st \in Bad => ~ok
                /\ con # "off" /\ st \notin Bad => ok /\ ~late
                /\ con \in Starting /\ st \in Bad => late
                /\ con = "closing" => relay

IInv == TypeOK /\ ReportOK /\ RelayFollowsVoltage

-----------------------------------------------------------------------------
(* An alarm, or none.                                                      *)
LEMMA OneAlarm ==
  /\ Cardinality({}) <= 1
  /\ \A a : Cardinality({a}) <= 1
BY FS_EmptySet, FS_Singleton

(* The confirmed state of a confirming one.                                *)
LEMMA ConfirmedOf ==
  ASSUME st \in Confirming
  PROVE  (CHOOSE h \in Confirmed : DummyOf[h] = st) \in Confirmed
<1>1. \E h \in Confirmed : DummyOf[h] = st
  BY DEF Confirming, Confirmed, DummyOf
<1> QED BY <1>1

(* The alarm of a side is one alarm.                                       *)
LEMMA AlarmOfOne ==
  ASSUME NEW h
  PROVE  AlarmOf(h) \subseteq {"Low", "Up", "War", "Cri"} /\ Cardinality(AlarmOf(h)) <= 1
BY OneAlarm DEF AlarmOf

(* A pass of the voltage or frequency diagnosis keeps the types.           *)
LEMMA BandType ==
  ASSUME TypeOK, q \in Bands, UNCHANGED env,
         BandOK \/ BandConfirm \/ BandWait \/ BandBad \/ BandRecover
  PROVE  TypeOK'
<1> USE DEF TypeOK, env, power, Bands
<1>1. CASE BandOK
  <2>1. Handle(sample) # "OK" => DummyOf[Handle(sample)] \in Confirming
    BY DEF Handle, DummyOf, Confirmed, Confirming
  <2>2. Cardinality(alarm') <= 1 /\ alarm' \subseteq {"Low", "Up", "War", "Cri"}
    BY <1>1, OneAlarm DEF BandOK
  <2> QED BY <1>1, <2>1, <2>2 DEF BandOK, StartTimer
<1>2. CASE BandConfirm
  <2>1. st' \in Confirmed
    BY <1>2, ConfirmedOf DEF BandConfirm
  <2>2. late' \in BOOLEAN
    <3>1. CASE con \in Starting
      BY <1>2, <3>1 DEF BandConfirm, Starting
    <3>2. CASE con \notin Starting
      BY <1>2, <3>2 DEF BandConfirm, Starting
    <3> QED BY <3>1, <3>2
  <2>4. bit' \in BOOLEAN
    BY <1>2 DEF BandConfirm, DeleteTimer
  <2>5. relay' \in BOOLEAN
    BY <1>2 DEF BandConfirm
  <2>3. timer' = "off" /\ ok' = FALSE /\ alarm' = alarm
    BY <1>2 DEF BandConfirm, DeleteTimer
  <2> QED BY <2>1, <2>2, <2>3, <2>4, <2>5
<1>3. CASE BandWait
  <2>1. Handle(sample) # "OK" => DummyOf[Handle(sample)] \in Confirming
    BY DEF Handle, DummyOf, Confirmed, Confirming
  <2> QED BY <1>3, <2>1 DEF BandWait, DeleteTimer, StartTimer
<1>4. CASE BandBad
  <2>1. Cardinality(alarm') <= 1 /\ alarm' \subseteq {"Low", "Up", "War", "Cri"}
    BY <1>4, AlarmOfOne DEF BandBad
  <2> QED BY <1>4, <2>1 DEF BandBad, StartTimer
<1>5. CASE BandRecover
  <2>1. HandleTight(sample) # "OK" => HandleTight(sample) \in Confirmed
    BY DEF HandleTight, Confirmed
  <2> QED BY <1>5, <2>1 DEF BandRecover, DeleteTimer
<1> QED BY <1>1, <1>2, <1>3, <1>4, <1>5

(* So does a pass of the current diagnosis.                                *)
LEMMA CurrType ==
  ASSUME TypeOK, q = "Curr", UNCHANGED <<env, power>>,
         CurrInit \/ CurrDelay \/ CurrOK \/ CurrFix \/ CurrConfirm \/ CurrError
  PROVE  TypeOK'
<1> USE DEF TypeOK, env, power
<1>1. CASE CurrInit
  BY <1>1 DEF CurrInit, StartTimer
<1>2. CASE CurrDelay
  BY <1>2 DEF CurrDelay, DeleteTimer
<1>3. CASE CurrOK
  BY <1>3, OneAlarm DEF CurrOK, StartTimer
<1>4. CASE CurrFix
  <2>1. bit' \in BOOLEAN /\ timer' \in {"off", "fresh", "due"}
    BY <1>4 DEF CurrFix, DeleteTimer
  <2>2. Cardinality(alarm') <= 1 /\ alarm' \subseteq {"Low", "Up", "War", "Cri"}
    BY <1>4, OneAlarm DEF CurrFix
  <2> QED BY <1>4, <2>1, <2>2 DEF CurrFix
<1>5. CASE CurrConfirm
  <2>1. Cardinality(alarm') <= 1 /\ alarm' \subseteq {"Low", "Up", "War", "Cri"}
    BY <1>5, OneAlarm DEF CurrConfirm, CurrLeave
  <2> QED BY <1>5, <2>1 DEF CurrConfirm, CurrLeave, DeleteTimer
<1>6. CASE CurrError
  BY <1>6, OneAlarm DEF CurrError, CurrLeave
<1> QED BY <1>1, <1>2, <1>3, <1>4, <1>5, <1>6

(* The relay of a charging connector is switched in the same pass as its   *)
(* voltage is reported, whatever bits of earlier confirmations are left.   *)
LEMMA DiagnoseFollows ==
  ASSUME IInv, Diagnose
  PROVE  ReportOK' /\ RelayFollowsVoltage'
<1> USE DEF IInv, TypeOK, ReportOK, RelayFollowsVoltage, Bad, Starting, Cons, env, power,
            Diagnose, Bands
<1>1. CASE q # "Volt"
  BY <1>1
<1>2. CASE q = "Volt" /\ BandOK
  BY <1>2 DEF BandOK, DummyOf, Handle, Confirmed
<1>3. CASE q = "Volt" /\ BandConfirm
  <2>1. st' \in Confirmed
    BY <1>3, ConfirmedOf DEF BandConfirm
  <2> QED BY <1>3, <2>1 DEF BandConfirm, Confirming, Confirmed
<1>4. CASE q = "Volt" /\ BandWait
  BY <1>4 DEF BandWait, DummyOf, Handle, Confirmed, Confirming
<1>5. CASE q = "Volt" /\ BandBad
  BY <1>5 DEF BandBad
<1>6. CASE q = "Volt" /\ BandRecover
  <2>1. HandleTight(sample) # "OK" => HandleTight(sample) \in Confirmed
    BY DEF HandleTight, Confirmed
  <2> QED BY <1>6, <2>1 DEF BandRecover, Confirmed
<1> QED BY <1>1, <1>2, <1>3, <1>4, <1>5, <1>6

(* The machines start without a report, and no step breaks IInv.           *)
LEMMA Inductive == (Init => IInv) /\ (IInv /\ [Next]_vars => IInv')
<1>1. Init => IInv
  BY OneAlarm DEF Init, IInv, TypeOK, ReportOK, RelayFollowsVoltage, Bands, Samples, Bad,
                  Starting, Cons, Confirmed
<1>2. ASSUME IInv, Diagnose PROVE IInv'
  <2>1. TypeOK'
    BY <1>2, BandType, CurrType DEF IInv, Diagnose, env
  <2> QED BY <1>2, <2>1, DiagnoseFollows DEF IInv
<1>3. ASSUME IInv, Elapse \/ TimerCB \/ Sample \/ Plug PROVE IInv'
  <2> USE DEF IInv, TypeOK, ReportOK, RelayFollowsVoltage, env, power
  <2>1. CASE Elapse
    BY <1>3, <2>1 DEF Elapse
  <2>2. CASE TimerCB
    BY <1>3, <2>2 DEF TimerCB
  <2>3. CASE Sample
    BY <1>3, <2>3 DEF Sample
  <2>4. CASE Plug
    <3>1. plug' \in BOOLEAN
      BY <2>4 DEF Plug
    <3>2. UNCHANGED <<q, sample, con, st, timer, bit, ok, alarm, power>>
      BY <2>4 DEF Plug
    <3> QED BY <1>3, <3>1, <3>2
  <2> QED BY <1>3, <2>1, <2>2, <2>3, <2>4
<1>4. ASSUME IInv, Charge PROVE IInv'
  <2> USE <1>4 DEF IInv, TypeOK, Cons, Charge, Go, power
  <2>1. TypeOK'
    OBVIOUS
  <2>2. ReportOK' /\ RelayFollowsVoltage'
    BY DEF ReportOK, RelayFollowsVoltage, Starting
  <2> QED BY <2>1, <2>2
<1>5. ASSUME IInv, UNCHANGED vars PROVE IInv'
  BY <1>5 DEF IInv, TypeOK, ReportOK, RelayFollowsVoltage, vars
<1> QED BY <1>1, <1>2, <1>3, <1>4, <1>5 DEF Next

(* Type correctness; every quantity has one alarm at a time.               *)
THEOREM DiagTypeCorrect == Spec => []TypeOK
<1>1. IInv => TypeOK
  BY DEF IInv
<1> QED BY <1>1, Inductive, PTL DEF Spec

(* DiagVoltageError leaves the relay of a charging connector closed        *)
(* exactly while it reports VoltOK, but for a voltage confirmed bad        *)
(* between the check before the start and CHARGING.                        *)
THEOREM RelayIsProtected == Spec => []RelayFollowsVoltage
<1>1. IInv => RelayFollowsVoltage
  BY DEF IInv
<1> QED BY <1>1, Inductive, PTL DEF Spec
=============================================================================
