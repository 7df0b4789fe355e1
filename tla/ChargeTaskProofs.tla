-------------------------- MODULE ChargeTaskProofs --------------------------
(***************************************************************************)
(* The safety invariants of ChargeTask hold, and it implements Session,    *)
(* for any set of connectors, any set of faults and requests and any       *)
(* sampling bound.                                                         *)
(***************************************************************************)
EXTENDS ChargeRefinement, TLAPS

(* The states of a stop that did not succeed at once, and the states in    *)
(* which a session is under way.                                           *)
AfterStop == {"UNLOCK", "ERROR", "DEV_ERROR"}
InSession == {"CHARGING", "STOPCHARGE"}

(* Where a visit may sleep.                                                *)
SleepOK(c) ==
  /\ step[c] \in Rechecks \cup {"closing"} => state[c] = "STARTCHARGE"
  /\ step[c] \in {"s2wait", "opening", "settle"} => state[c] = "STOPCHARGE"

(* Power remains after a stop only with the retry counter left standing.   *)
PowerOK(c) ==
  Energised(c) =>
    \/ state[c] = "STARTCHARGE" /\ step[c] = "closing"
    \/ state[c] = "CHARGING"
    \/ state[c] = "STOPCHARGE" /\ step[c] # "settle"
    \/ state[c] \in AfterStop /\ stopTry[c] # 0

(* StartOK accompanies the session and a stop that failed.                 *)
StartedOK(c) ==
  state[c] \in InSession \/ (state[c] \in AfterStop /\ stopTry[c] # 0)
    => "StartOK" \in charge[c]

CountOK(c) ==
  /\ state[c] \notin {"STOPCHARGE", "RETURN"} \cup AfterStop => stopTry[c] = 0 /\ ~devErr[c]
  /\ state[c] = "STOPCHARGE" => stopTry[c] <= 4

PasteOK(c) ==
  "RelayPaste" \in fault[c] => state[c] = "ERROR" /\ ~devErr[c] /\ stopTry[c] # 0

SignalOK(c) ==
  state[c] \in {"STOPCHARGE"} \cup AfterStop => signal[c] # "Standby"

Good(c) ==
  SleepOK(c) /\ PowerOK(c) /\ StartedOK(c) /\ CountOK(c) /\ PasteOK(c) /\ SignalOK(c)

IInv == TypeOK /\ \A c \in CON : Good(c)

(* The visits of STARTCHARGE, up to the closing of the relay.              *)
Rechecked(c) ==
  Startcharge(c) \/ StartchargePlug(c) \/ StartchargeAuthed(c) \/ StartchargeUnlocked(c)

-----------------------------------------------------------------------------
(* CHARGING serves a request that is really pending: a non-empty set of    *)
(* requests has one of lowest rank.                                        *)
LEMMA FirstRequestIn ==
  ASSUME NEW E, E \subseteq DOMAIN Rank, E # {}
  PROVE  FirstRequest(E) \in E
<1> DEFINE First(r) == \A q \in E : Rank[r] <= Rank[q]
<1>1. \E r \in E : First(r)
  <2>1. CASE "LimitEnergy" \in E
    BY <2>1, SMT DEF Rank
  <2>2. CASE "LimitEnergy" \notin E /\ "LimitFee" \in E
    BY <2>2, SMT DEF Rank
  <2>3. CASE "LimitEnergy" \notin E /\ "LimitFee" \notin E /\ "LimitTime" \in E
    BY <2>3, SMT DEF Rank
  <2>4. CASE /\ "LimitEnergy" \notin E /\ "LimitFee" \notin E /\ "LimitTime" \notin E
             /\ "OfflineStop" \in E
    BY <2>4, SMT DEF Rank
  <2>5. CASE /\ "LimitEnergy" \notin E /\ "LimitFee" \notin E /\ "LimitTime" \notin E
             /\ "OfflineStop" \notin E /\ "RemoteStop" \in E
    BY <2>5, SMT DEF Rank
  <2>6. CASE /\ "LimitEnergy" \notin E /\ "LimitFee" \notin E /\ "LimitTime" \notin E
             /\ "OfflineStop" \notin E /\ "RemoteStop" \notin E
    BY <2>6, SMT DEF Rank
  <2> QED BY <2>1, <2>2, <2>3, <2>4, <2>5, <2>6
<1> QED BY <1>1 DEF FirstRequest

(* After start-up every connector is IDLE, without power or StartOK.       *)
LEMMA InitGood == Init => IInv
<1> SUFFICES ASSUME Init PROVE IInv
  OBVIOUS
<1>1. TypeOK
  BY TriesAssumption DEF Init, TypeOK, States, Steps, Rechecks, CPStates
<1>2. ASSUME NEW c \in CON PROVE Good(c)
  BY DEF Init, Good, SleepOK, Rechecks, PowerOK, StartedOK, CountOK, PasteOK,
         SignalOK, Energised, AfterStop, InSession
<1> QED BY <1>1, <1>2 DEF IInv

-----------------------------------------------------------------------------
(* A visit of the charge task preserves the types.  The retry counter stays *)
(* within 5 because STOPCHARGE is left with the fifth try.                  *)
LEMMA TaskType ==
  ASSUME IInv, NEW c \in CON, ChargeStep(c)
  PROVE  TypeOK'
<1>1. CASE Idle(c)
  BY <1>1 DEF IInv, TypeOK, Idle, At, Goto, Signal, bits, hw, pilot, faults,
         States
<1>2. CASE Pluged(c)
  <2>1. state' \in [CON -> States] /\ pwm' \in [CON -> BOOLEAN]
    BY <1>2 DEF IInv, TypeOK, Pluged, Goto, States
  <2> QED BY <1>2, <2>1 DEF IInv, TypeOK, Pluged, bits, pilot, faults
<1>3. CASE Precontract(c)
  BY <1>3 DEF IInv, TypeOK, Precontract, At, Goto, bits, hw, pilot, faults,
         States
<1>4. CASE PrecontractLoseplug(c)
  BY <1>4 DEF IInv, TypeOK, PrecontractLoseplug, At, Goto, DeleteTimer, hw,
         pilot, faults, States
<1>5. CASE Rechecked(c)
  <2> USE DEF IInv, TypeOK, Recheck, Goto, Sleep, bits, hw, pilot, faults, States, Steps,
              Rechecks
  <2>1. CASE Startcharge(c)
    BY <2>1 DEF Startcharge
  <2>2. CASE StartchargePlug(c)
    BY <2>2 DEF StartchargePlug
  <2>3. CASE StartchargeAuthed(c)
    BY <2>3 DEF StartchargeAuthed
  <2>4. CASE StartchargeUnlocked(c)
    BY <2>4 DEF StartchargeUnlocked
  <2> QED BY <1>5, <2>1, <2>2, <2>3, <2>4 DEF Rechecked
<1>6. CASE StartCharge(c)
  BY <1>6 DEF IInv, TypeOK, StartCharge, Sleep, bits, pilot, faults, Steps
<1>7. CASE StartChargeDone(c)
  BY <1>7 DEF IInv, TypeOK, StartChargeDone, Goto, Sleep, hw, pilot, faults,
         ChargeBits, States, Steps
<1>8. CASE ChargingFault(c)
  BY <1>8 DEF IInv, TypeOK, ChargingFault, At, Goto, Signal, bits, hw, pilot,
         faults, States
<1>9. CASE ChargingRequest(c)
  BY <1>9 DEF IInv, TypeOK, ChargingRequest, At, Signal, EndCharge, hw, pilot,
         faults, Goto, States
<1>10. CASE ChargingCondition(c)
  BY <1>10 DEF IInv, TypeOK, ChargingCondition, At, Signal, EndCharge, hw,
         pilot, faults, Goto, States
<1>11. CASE ChargingOn(c)
  BY <1>11 DEF IInv, TypeOK, ChargingOn, At, Signal, bits, hw, pilot, faults
<1>12. CASE StopCharge(c)
  <2>1. stopTry[c] \in 0..4
    BY <1>12 DEF IInv, TypeOK, Good, CountOK, StopCharge, At
  <2>2. /\ state' \in [CON -> States] /\ stopTry' \in [CON -> 0..5]
        /\ step' \in [CON -> Steps]
    BY <1>12, <2>1 DEF IInv, TypeOK, StopCharge, RetryStop, Goto, Sleep, States, Steps
  <2>3. relay' \in [CON -> BOOLEAN]
    BY <1>12 DEF IInv, TypeOK, StopCharge
  <2>4. age' \in [CON -> 0..TriesPerSample]
    <3>1. age[c] + 1 \in 0..TriesPerSample
      BY <1>12, TriesAssumption DEF IInv, TypeOK, StopCharge
    <3> QED BY <1>12, <3>1 DEF IInv, TypeOK, StopCharge
  <2> QED BY <1>12, <2>2, <2>3, <2>4 DEF IInv, TypeOK, StopCharge, Signal, faults
<1>13. CASE StopChargeOpen(c)
  BY <1>13 DEF IInv, TypeOK, StopChargeOpen, Sleep, bits, pilot, faults, Steps
<1>14. CASE StopChargeCheck(c)
  <2>1. stopTry[c] \in 0..4
    BY <1>14 DEF IInv, TypeOK, Good, SleepOK, CountOK, StopChargeCheck
  <2> QED BY <1>14, <2>1 DEF IInv, TypeOK, StopChargeCheck, RetryStop, Goto, Sleep,
             States, Steps, bits, hw, pilot, faults
<1>15. CASE StopChargeDone(c)
  BY <1>15 DEF IInv, TypeOK, StopChargeDone, Goto, Sleep, hw, pilot, faults,
         States, Steps
<1>16. CASE Unlock(c)
  BY <1>16 DEF IInv, TypeOK, Unlock, At, Goto, bits, hw, pilot, faults, States
<1>17. CASE Error(c)
  BY <1>17 DEF IInv, TypeOK, Error, At, Goto, Signal, bits, pilot, States
<1>18. CASE DevError(c)
  BY <1>18 DEF IInv, TypeOK, DevError, At, Goto, bits, hw, pilot, faults,
         States
<1>19. CASE Return(c)
  BY <1>19 DEF IInv, TypeOK, Return, At, Goto, pilot, faults, States
<1> QED BY <1>1, <1>2, <1>3, <1>4, <1>5, <1>6, <1>7, <1>8, <1>9, <1>10, <1>11,
         <1>12, <1>13, <1>14, <1>15, <1>16, <1>17, <1>18, <1>19 DEF ChargeStep, Rechecked

(* So does a step of the other tasks and of the hardware.                   *)
LEMMA OtherType ==
  ASSUME IInv, NEW c \in CON, Other(c)
  PROVE  TypeOK'
<1>1. CASE GetCPState(c)
  <2>1. ASSUME NEW v \in Levels, v # 0, NEW p \in BOOLEAN PROVE PilotState(v, p) \in CPStates
    BY <2>1, LevelsAssumption DEF PilotState, CPStates
  <2>2. cp' \in [CON -> CPStates] /\ cpErr' \in [CON -> 0..2]
    BY <1>1, <2>1 DEF IInv, TypeOK, GetCPState, CPStates
  <2>3. fault' \in [CON -> SUBSET (DevFaults \cup {"CP", "RelayPaste"})]
    BY <1>1 DEF IInv, TypeOK, GetCPState
  <2>4. pwm' \in [CON -> BOOLEAN]
    BY <1>1 DEF IInv, TypeOK, GetCPState
  <2>5. age' \in [CON -> 0..TriesPerSample]
    <3>1. 0 \in 0..TriesPerSample
      BY TriesAssumption
    <3> QED BY <1>1, <3>1 DEF IInv, TypeOK, GetCPState
  <2> QED BY <1>1, <2>2, <2>3, <2>4, <2>5 DEF IInv, TypeOK, GetCPState, task, bits
<1>2. CASE DiagPlugError(c)
  BY <1>2 DEF IInv, TypeOK, DiagPlugError, task, hw, pilot, faults,
         ChargeBits, ChargeCondition, CPSwitchCondition, Conditions
<1>3. CASE DiagLockError(c)
  BY <1>3 DEF IInv, TypeOK, DiagLockError, task, hw, pilot, faults,
         ChargeBits, ChargeCondition, CPSwitchCondition, Conditions
<1>4. CASE DiagCondition(c)
  BY <1>4, BitsAssumption DEF IInv, TypeOK, DiagCondition, task, hw, pilot,
         faults, ChargeBits, ChargeCondition, CPSwitchCondition, Conditions
<1>5. CASE DiagVoltBad(c)
  BY <1>5 DEF IInv, TypeOK, DiagVoltBad, task, pilot, faults
<1>6. CASE DiagVoltOK(c)
  BY <1>6 DEF IInv, TypeOK, DiagVoltOK, task, pilot, faults, ChargeBits,
         ChargeCondition, CPSwitchCondition, Conditions
<1>7. CASE DiagPwm(c)
  BY <1>7 DEF IInv, TypeOK, DiagPwm, task, bits, pilot, faults
<1>8. CASE Authorise(c)
  BY <1>8 DEF IInv, TypeOK, Authorise, task, hw, pilot, faults, ChargeBits,
         ChargeCondition, CPSwitchCondition, Conditions
<1>9. CASE Withdraw(c)
  BY <1>9 DEF IInv, TypeOK, Withdraw, task, hw, pilot, faults
<1>10. CASE RequestStop(c)
  BY <1>10 DEF IInv, TypeOK, RequestStop, task, hw, pilot, faults
<1>12. CASE TimerFires(c)
  BY <1>12 DEF IInv, TypeOK, TimerFires, task, hw, pilot, faults
<1>13. CASE TimerDeleted(c)
  BY <1>13 DEF IInv, TypeOK, TimerDeleted, task, bits, hw, pilot, faults
<1>14. CASE Weld(c)
  BY <1>14 DEF IInv, TypeOK, Weld, task, bits, pilot, faults
<1>15. CASE DeviceFaults(c)
  BY <1>15 DEF IInv, TypeOK, DeviceFaults, task, bits, hw, pilot
<1>16. CASE DiagWithdraw(c)
  BY <1>16 DEF IInv, TypeOK, DiagWithdraw, task, hw, pilot, faults
<1> QED BY <1>1, <1>2, <1>3, <1>4, <1>5, <1>6, <1>7, <1>8, <1>9, <1>10, <1>12,
         <1>13, <1>14, <1>15, <1>16 DEF Other, DiagStep, TaskStep

-----------------------------------------------------------------------------
(* A visit of connector c keeps every connector d good.                     *)
LEMMA TaskGood ==
  ASSUME IInv, NEW c \in CON, ChargeStep(c), NEW d \in CON
  PROVE  Good(d)'
<1> USE DEF IInv, TypeOK, Good, SleepOK, PowerOK, StartedOK, CountOK, PasteOK, SignalOK,
            Rechecks, Energised, AfterStop, InSession
<1>1. CASE Idle(c)
  BY <1>1 DEF Idle, At, Goto, Signal, bits, hw, pilot, faults
<1>2. CASE Pluged(c)
  BY <1>2 DEF Pluged, At, Goto, bits, pilot, faults
<1>3. CASE Precontract(c)
  BY <1>3 DEF Precontract, At, Goto, bits, hw, pilot, faults
<1>4. CASE PrecontractLoseplug(c)
  BY <1>4 DEF PrecontractLoseplug, At, Goto, hw, pilot, faults
<1>5. CASE Rechecked(c)
  <2> USE DEF Recheck, Goto, Sleep, bits, hw, pilot, faults
  <2>1. CASE Startcharge(c)
    BY <2>1 DEF Startcharge, At, Free, Has
  <2>2. CASE StartchargePlug(c)
    BY <2>2 DEF StartchargePlug
  <2>3. CASE StartchargeAuthed(c)
    BY <2>3 DEF StartchargeAuthed
  <2>4. CASE StartchargeUnlocked(c)
    BY <2>4 DEF StartchargeUnlocked
  <2> QED BY <1>5, <2>1, <2>2, <2>3, <2>4 DEF Rechecked
<1>6. CASE StartCharge(c)
  BY <1>6 DEF StartCharge, Sleep, bits, pilot, faults
<1>7. CASE StartChargeDone(c)
  BY <1>7 DEF StartChargeDone, Goto, Sleep, hw, pilot, faults
<1>8. CASE ChargingFault(c)
  BY <1>8 DEF ChargingFault, At, Goto, Signal, bits, hw, pilot, faults
<1>9. CASE ChargingRequest(c)
  BY <1>9 DEF ChargingRequest, At, Signal, EndCharge, hw, pilot, faults, Goto
<1>10. CASE ChargingCondition(c)
  BY <1>10 DEF ChargingCondition, At, Signal, EndCharge, hw, pilot, faults,
         Goto
<1>11. CASE ChargingOn(c)
  BY <1>11 DEF ChargingOn, At, Signal, bits, hw, pilot, faults
<1>12. CASE StopCharge(c)
  <2>1. state[c] = "STOPCHARGE" /\ step[c] = "run" /\ "StartOK" \in charge[c]
    BY <1>12 DEF StopCharge, At, Free
  <2>2. SleepOK(d)' /\ CountOK(d)'
    BY <1>12, <2>1 DEF StopCharge, RetryStop, Goto, Sleep
  <2>3. PowerOK(d)'
    BY <1>12, <2>1 DEF StopCharge, RetryStop, Goto, Sleep
  <2>4. StartedOK(d)'
    BY <1>12, <2>1 DEF StopCharge, RetryStop, Goto
  <2>5. PasteOK(d)' /\ SignalOK(d)'
    BY <1>12, <2>1 DEF StopCharge, RetryStop, Goto, Signal, faults
  <2> QED BY <2>2, <2>3, <2>4, <2>5
<1>13. CASE StopChargeOpen(c)
  BY <1>13 DEF StopChargeOpen, Sleep, bits, pilot, faults
<1>14. CASE StopChargeCheck(c)
  BY <1>14 DEF StopChargeCheck, Sleep, RetryStop, bits, hw, pilot, faults,
         Goto
<1>15. CASE StopChargeDone(c)
  BY <1>15 DEF StopChargeDone, Goto, Sleep, hw, pilot, faults
<1>16. CASE Unlock(c)
  BY <1>16 DEF Unlock, At, Goto, bits, hw, pilot, faults
<1>17. CASE Error(c)
  BY <1>17 DEF Error, At, Goto, Signal, bits, pilot
<1>18. CASE DevError(c)
  BY <1>18 DEF DevError, At, Goto, bits, hw, pilot, faults
<1>19. CASE Return(c)
  BY <1>19 DEF Return, At, Goto, pilot, faults
<1> QED BY <1>1, <1>2, <1>3, <1>4, <1>5, <1>6, <1>7, <1>8, <1>9, <1>10, <1>11,
         <1>12, <1>13, <1>14, <1>15, <1>16, <1>17, <1>18, <1>19 DEF ChargeStep, Rechecked

(* The diagnosis closes the relay only in CHARGING, and contacts weld only  *)
(* while they carry power: no step of another task energises a connector    *)
(* outside a session.                                                       *)
LEMMA OtherGood ==
  ASSUME IInv, NEW c \in CON, Other(c), NEW d \in CON
  PROVE  Good(d)'
<1> USE DEF IInv, TypeOK, Good, SleepOK, PowerOK, StartedOK, CountOK, PasteOK, SignalOK,
            Energised, AfterStop, InSession
<1>1. CASE GetCPState(c)
  BY <1>1 DEF GetCPState, task, bits
<1>2. CASE DiagPlugError(c)
  BY <1>2 DEF DiagPlugError, task, hw, pilot, faults
<1>3. CASE DiagLockError(c)
  BY <1>3 DEF DiagLockError, task, hw, pilot, faults
<1>4. CASE DiagCondition(c)
  BY <1>4, BitsAssumption DEF DiagCondition, task, hw, pilot, faults,
         Conditions
<1>5. CASE DiagVoltBad(c)
  BY <1>5 DEF DiagVoltBad, task, pilot, faults
<1>6. CASE DiagVoltOK(c)
  BY <1>6 DEF DiagVoltOK, task, pilot, faults
<1>7. CASE DiagPwm(c)
  BY <1>7 DEF DiagPwm, task, bits, pilot, faults
<1>8. CASE Authorise(c)
  BY <1>8 DEF Authorise, task, hw, pilot, faults
<1>9. CASE Withdraw(c)
  BY <1>9 DEF Withdraw, task, hw, pilot, faults
<1>10. CASE RequestStop(c)
  BY <1>10 DEF RequestStop, task, hw, pilot, faults
<1>12. CASE TimerFires(c)
  BY <1>12 DEF TimerFires, task, hw, pilot, faults
<1>13. CASE TimerDeleted(c)
  BY <1>13 DEF TimerDeleted, task, bits, hw, pilot, faults
<1>14. CASE Weld(c)
  BY <1>14 DEF Weld, task, bits, pilot, faults
<1>15. CASE DeviceFaults(c)
  BY <1>15, FaultsAssumption DEF DeviceFaults, task, bits, hw, pilot
<1>16. CASE DiagWithdraw(c)
  BY <1>16 DEF DiagWithdraw, task, hw, pilot, faults
<1> QED BY <1>1, <1>2, <1>3, <1>4, <1>5, <1>6, <1>7, <1>8, <1>9, <1>10, <1>12,
         <1>13, <1>14, <1>15, <1>16 DEF Other, DiagStep, TaskStep

(* Every step of the charge task and of the tasks around it preserves IInv.*)
LEMMA NextGood == IInv /\ [Next]_vars => IInv'
<1> SUFFICES ASSUME IInv, [Next]_vars PROVE IInv'
  OBVIOUS
<1>1. ASSUME NEW c \in CON, ChargeStep(c) PROVE IInv'
  BY <1>1, TaskType, TaskGood DEF IInv
<1>2. ASSUME NEW c \in CON, Other(c) PROVE IInv'
  BY <1>2, OtherType, OtherGood DEF IInv
<1>3. CASE ChargerFaults
  <2>1. TypeOK'
    BY <1>3 DEF IInv, TypeOK, ChargerFaults, task, bits, hw, pilot
  <2>2. ASSUME NEW d \in CON PROVE Good(d)'
    BY <1>3 DEF IInv, Good, SleepOK, PowerOK, StartedOK, CountOK, PasteOK, SignalOK,
                Energised, ChargerFaults, task, bits, hw, pilot
  <2> QED BY <2>1, <2>2 DEF IInv
<1>4. CASE UNCHANGED vars
  <2>1. TypeOK'
    BY <1>4 DEF IInv, TypeOK, vars, task, bits, hw, pilot, faults
  <2>2. ASSUME NEW d \in CON PROVE Good(d)'
    BY <1>4 DEF IInv, Good, SleepOK, PowerOK, StartedOK, CountOK, PasteOK, SignalOK,
                Energised, vars, task, bits, hw, pilot, faults
  <2> QED BY <2>1, <2>2 DEF IInv
<1> QED BY <1>1, <1>2, <1>3, <1>4 DEF Next

-----------------------------------------------------------------------------
(* IInv holds in every state the charge task can reach.                    *)
LEMMA SpecGood == Spec => []IInv
BY InitGood, NextGood, PTL DEF Spec

(* Type correctness of the charge task, the bound 5 on the retries of a    *)
(* stop included.                                                          *)
THEOREM TypeCorrect == Spec => []TypeOK
<1>1. IInv => TypeOK
  BY DEF IInv
<1> QED BY <1>1, SpecGood, PTL

(* Whatever the other tasks, the pilot and the contacts do, no connector   *)
(* carries power in IDLE, before its start or after its return.            *)
THEOREM PowerOnlyInSession == Spec => []NoLiveIdle
<1>1. IInv => NoLiveIdle
  BY DEF IInv, Good, PowerOK, NoLiveIdle, AfterStop
<1> QED BY <1>1, SpecGood, PTL

(* Power outside the closing delay always flows under StartOK, the bit the *)
(* data task keeps the order open by.                                      *)
THEOREM PowerIsBilled == Spec => []Billed
<1>1. IInv => Billed
  BY DEF IInv, Good, PowerOK, StartedOK, Billed, AfterStop, InSession
<1> QED BY <1>1, SpecGood, PTL

(* No session inherits the retry counter or the device-error mark.         *)
THEOREM SessionsStartClean == Spec => []CleanStart
<1>1. IInv => CleanStart
  BY DEF IInv, Good, CountOK, CleanStart, AfterStop
<1> QED BY <1>1, SpecGood, PTL

(* The relay fault is raised and withdrawn by ERROR alone and never left   *)
(* behind.                                                                 *)
THEOREM PasteOnlyInError == Spec => []PasteFlag
<1>1. IInv => PasteFlag
  BY DEF IInv, Good, PasteOK, PasteFlag
<1> QED BY <1>1, SpecGood, PTL

(* A connector that reports Standby carries power at most until the first  *)
(* visit of CHARGING.                                                      *)
THEOREM StandbyCarriesNoPower == Spec => []StandbyIsSafe
<1>1. IInv => StandbyIsSafe
  BY DEF IInv, Good, PowerOK, SignalOK, StandbyIsSafe, AfterStop
<1> QED BY <1>1, SpecGood, PTL

-----------------------------------------------------------------------------
(* The refinement of Session, which the modules about starts and orders    *)
(* rely on.                                                                *)
Authed(c) == "Authed" \in charge[c]
Started(c) == "StartOK" \in charge[c]

(* A step of connector c leaves the sessions of the others alone.          *)
Frame(c) ==
  \A d \in CON \ {c} :
    /\ PhaseOf(d)' = PhaseOf(d) /\ charge'[d] = charge[d]
    /\ Energised(d)' <=> Energised(d)

KeepsPhase(c) == PhaseOf(c)' = PhaseOf(c)
KeepsAuth(c) == Authed(c)' <=> Authed(c)
KeepsStart(c) == Started(c)' <=> Started(c)
KeepsPower(c) == Energised(c)' <=> Energised(c)

-----------------------------------------------------------------------------
(* A predicate of the connectors that changes at c alone.                  *)
LEMMA BoolExcept ==
  ASSUME NEW c \in CON, NEW f \in [CON -> BOOLEAN], NEW g \in [CON -> BOOLEAN],
         \A d \in CON \ {c} : g[d] = f[d]
  PROVE  /\ g[c] => g = [f EXCEPT ![c] = TRUE]
         /\ ~g[c] => g = [f EXCEPT ![c] = FALSE]
         /\ (g[c] <=> f[c]) => g = f
OBVIOUS

(* The frame in terms of the mapped variables: each of them is unchanged   *)
(* when connector c keeps its value, and is otherwise changed at c alone.  *)
LEMMA PhaseMapped ==
  ASSUME NEW c \in CON, Frame(c)
  PROVE  /\ KeepsPhase(c) => UNCHANGED [d \in CON |-> PhaseOf(d)]
         /\ \A p : PhaseOf(c)' = p => S!To(c, p)
BY DEF Frame, KeepsPhase, S!To

(* The same for Authed.                                                    *)
LEMMA AuthMapped ==
  ASSUME NEW c \in CON, Frame(c)
  PROVE  /\ KeepsAuth(c) => UNCHANGED [d \in CON |-> "Authed" \in charge[d]]
         /\ Authed(c)' => [d \in CON |-> "Authed" \in charge[d]]'
                = [[d \in CON |-> "Authed" \in charge[d]] EXCEPT ![c] = TRUE]
         /\ ~Authed(c)' => [d \in CON |-> "Authed" \in charge[d]]'
                = [[d \in CON |-> "Authed" \in charge[d]] EXCEPT ![c] = FALSE]
<1> DEFINE f == [d \in CON |-> "Authed" \in charge[d]]
<1>1. f \in [CON -> BOOLEAN] /\ f' \in [CON -> BOOLEAN]
  OBVIOUS
<1>2. (f[c] <=> Authed(c)) /\ (f'[c] <=> Authed(c)')
  BY DEF Authed
<1>3. ASSUME NEW d \in CON \ {c} PROVE f'[d] = f[d]
  BY DEF Frame, Authed
<1> HIDE DEF f
<1>4. /\ f'[c] => f' = [f EXCEPT ![c] = TRUE]
      /\ ~f'[c] => f' = [f EXCEPT ![c] = FALSE]
      /\ (f'[c] <=> f[c]) => f' = f
  BY <1>1, <1>3, BoolExcept
<1>5. /\ Authed(c)' => f' = [f EXCEPT ![c] = TRUE]
      /\ ~Authed(c)' => f' = [f EXCEPT ![c] = FALSE]
      /\ KeepsAuth(c) => f' = f
  BY <1>2, <1>4 DEF KeepsAuth
<1> QED BY <1>5 DEF f

(* The same for StartOK.                                                   *)
LEMMA StartMapped ==
  ASSUME NEW c \in CON, Frame(c)
  PROVE  /\ KeepsStart(c) => UNCHANGED [d \in CON |-> "StartOK" \in charge[d]]
         /\ Started(c)' => [d \in CON |-> "StartOK" \in charge[d]]'
                = [[d \in CON |-> "StartOK" \in charge[d]] EXCEPT ![c] = TRUE]
         /\ ~Started(c)' => [d \in CON |-> "StartOK" \in charge[d]]'
                = [[d \in CON |-> "StartOK" \in charge[d]] EXCEPT ![c] = FALSE]
<1> DEFINE f == [d \in CON |-> "StartOK" \in charge[d]]
<1>1. f \in [CON -> BOOLEAN] /\ f' \in [CON -> BOOLEAN]
  OBVIOUS
<1>2. (f[c] <=> Started(c)) /\ (f'[c] <=> Started(c)')
  BY DEF Started
<1>3. ASSUME NEW d \in CON \ {c} PROVE f'[d] = f[d]
  BY DEF Frame, Started
<1> HIDE DEF f
<1>4. /\ f'[c] => f' = [f EXCEPT ![c] = TRUE]
      /\ ~f'[c] => f' = [f EXCEPT ![c] = FALSE]
      /\ (f'[c] <=> f[c]) => f' = f
  BY <1>1, <1>3, BoolExcept
<1>5. /\ Started(c)' => f' = [f EXCEPT ![c] = TRUE]
      /\ ~Started(c)' => f' = [f EXCEPT ![c] = FALSE]
      /\ KeepsStart(c) => f' = f
  BY <1>2, <1>4 DEF KeepsStart
<1> QED BY <1>5 DEF f

(* The same for the power.                                                 *)
LEMMA PowerMapped ==
  ASSUME NEW c \in CON, Frame(c)
  PROVE  /\ KeepsPower(c) => UNCHANGED [d \in CON |-> Energised(d)]
         /\ Energised(c)' => [d \in CON |-> Energised(d)]'
                = [[d \in CON |-> Energised(d)] EXCEPT ![c] = TRUE]
         /\ ~Energised(c)' => [d \in CON |-> Energised(d)]'
                = [[d \in CON |-> Energised(d)] EXCEPT ![c] = FALSE]
<1> DEFINE f == [d \in CON |-> Energised(d)]
<1>1. f \in [CON -> BOOLEAN] /\ f' \in [CON -> BOOLEAN]
  BY DEF Energised
<1>2. (f[c] <=> Energised(c)) /\ (f'[c] <=> Energised(c)')
  BY DEF Energised
<1>3. ASSUME NEW d \in CON \ {c} PROVE f'[d] = f[d]
  BY DEF Frame, Energised
<1> HIDE DEF f
<1>4. /\ f'[c] => f' = [f EXCEPT ![c] = TRUE]
      /\ ~f'[c] => f' = [f EXCEPT ![c] = FALSE]
      /\ (f'[c] <=> f[c]) => f' = f
  BY <1>1, <1>3, BoolExcept
<1>5. /\ Energised(c)' => f' = [f EXCEPT ![c] = TRUE]
      /\ ~Energised(c)' => f' = [f EXCEPT ![c] = FALSE]
      /\ KeepsPower(c) => f' = f
  BY <1>2, <1>4 DEF KeepsPower
<1> QED BY <1>5 DEF f

(* The steps of Session, with connector c moving alone.                    *)
LEMMA StaysStep ==
  ASSUME NEW c \in CON, Frame(c),
         KeepsPhase(c), KeepsAuth(c), KeepsStart(c), KeepsPower(c)
  PROVE  UNCHANGED S!sessionVars
BY PhaseMapped, AuthMapped, StartMapped, PowerMapped DEF S!sessionVars

(* The authorisation is given.                                             *)
LEMMA GrantStep ==
  ASSUME NEW c \in CON, Frame(c), Authed(c)',
         KeepsPhase(c), KeepsStart(c), KeepsPower(c)
  PROVE  S!Grant(c)
BY PhaseMapped, AuthMapped, StartMapped, PowerMapped DEF S!Grant

(* The authorisation is taken.                                             *)
LEMMA RevokeStep ==
  ASSUME NEW c \in CON, Frame(c), ~Authed(c)',
         KeepsPhase(c), KeepsStart(c), KeepsPower(c)
  PROVE  S!Revoke(c)
BY PhaseMapped, AuthMapped, StartMapped, PowerMapped DEF S!Revoke

(* The authorisation is seen.                                              *)
LEMMA SeeStep ==
  ASSUME NEW c \in CON, Frame(c), PhaseOf(c) = "off", Authed(c), PhaseOf(c)' = "starting",
         KeepsAuth(c), KeepsStart(c), KeepsPower(c)
  PROVE  S!See(c)
BY PhaseMapped, AuthMapped, StartMapped, PowerMapped DEF S!See, Authed

(* The relay closes after an authorisation was seen.                       *)
LEMMA StartStep ==
  ASSUME NEW c \in CON, Frame(c), PhaseOf(c) = "starting",
         PhaseOf(c)' = "closing", Energised(c)',
         KeepsAuth(c), KeepsStart(c)
  PROVE  S!Start(c)
BY PhaseMapped, AuthMapped, StartMapped, PowerMapped DEF S!Start

(* The start is put off.                                                   *)
LEMMA PutOffStep ==
  ASSUME NEW c \in CON, Frame(c), PhaseOf(c) = "starting", PhaseOf(c)' = "off",
         KeepsAuth(c), KeepsStart(c), KeepsPower(c)
  PROVE  S!PutOff(c)
BY PhaseMapped, AuthMapped, StartMapped, PowerMapped DEF S!PutOff

(* StartOK is set when the relay had time to close.                        *)
LEMMA StartedStep ==
  ASSUME NEW c \in CON, Frame(c), PhaseOf(c) = "closing", PhaseOf(c)' = "on", Started(c)',
         KeepsAuth(c), KeepsPower(c)
  PROVE  S!Started(c)
BY PhaseMapped, AuthMapped, StartMapped, PowerMapped DEF S!Started

(* The power changes in a session.                                         *)
LEMMA SwitchStep ==
  ASSUME NEW c \in CON, Frame(c), PhaseOf(c) = "on",
         KeepsPhase(c), KeepsAuth(c), KeepsStart(c)
  PROVE  S!Switch(c)
BY PhaseMapped, AuthMapped, StartMapped, PowerMapped DEF S!Switch

(* The power falls away.                                                   *)
LEMMA CutStep ==
  ASSUME NEW c \in CON, Frame(c), ~Energised(c)',
         KeepsPhase(c), KeepsAuth(c), KeepsStart(c)
  PROVE  S!Cut(c)
BY PhaseMapped, AuthMapped, StartMapped, PowerMapped DEF S!Cut

(* The session is to end.                                                  *)
LEMMA StopStep ==
  ASSUME NEW c \in CON, Frame(c), PhaseOf(c) = "on", PhaseOf(c)' = "stopping",
         KeepsAuth(c), KeepsStart(c), KeepsPower(c)
  PROVE  S!Stop(c)
BY PhaseMapped, AuthMapped, StartMapped, PowerMapped DEF S!Stop

(* A try to stop.                                                          *)
LEMMA TryStopStep ==
  ASSUME NEW c \in CON, Frame(c), PhaseOf(c) = "stopping", ~Authed(c)',
         KeepsPower(c) \/ ~Energised(c)',
         KeepsPhase(c), KeepsStart(c)
  PROVE  S!TryStop(c)
BY PhaseMapped, AuthMapped, StartMapped, PowerMapped DEF S!TryStop

(* The stop has succeeded.                                                 *)
LEMMA StoppedStep ==
  ASSUME NEW c \in CON, Frame(c), PhaseOf(c) = "stopping", ~Energised(c),
         PhaseOf(c)' = "ended", ~Started(c)',
         KeepsAuth(c), KeepsPower(c)
  PROVE  S!Stopped(c)
BY PhaseMapped, AuthMapped, StartMapped, PowerMapped DEF S!Stopped

(* The stop is given up.                                                   *)
LEMMA GiveUpStep ==
  ASSUME NEW c \in CON, Frame(c), PhaseOf(c) = "stopping", PhaseOf(c)' = "ended",
         KeepsAuth(c) \/ ~Authed(c)',
         KeepsStart(c), KeepsPower(c)
  PROVE  S!GiveUp(c)
BY PhaseMapped, AuthMapped, StartMapped, PowerMapped DEF S!GiveUp

(* The connector is left before the start.                                 *)
LEMMA AbandonStep ==
  ASSUME NEW c \in CON, Frame(c), PhaseOf(c) = "off", PhaseOf(c)' = "ended",
         KeepsAuth(c), KeepsStart(c), KeepsPower(c)
  PROVE  S!Abandon(c)
BY PhaseMapped, AuthMapped, StartMapped, PowerMapped DEF S!Abandon

(* The connector is free again.                                            *)
LEMMA ReleaseStep ==
  ASSUME NEW c \in CON, Frame(c), PhaseOf(c) = "ended", ~Energised(c),
         PhaseOf(c)' = "off", ~Authed(c)', ~Started(c)',
         KeepsPower(c)
  PROVE  S!Release(c)
BY PhaseMapped, AuthMapped, StartMapped, PowerMapped DEF S!Release

-----------------------------------------------------------------------------
Quiet(c) == KeepsPhase(c) /\ KeepsAuth(c) /\ KeepsStart(c) /\ KeepsPower(c)

(* A visit touches its own connector only.                                 *)
LEMMA TaskFrame ==
  ASSUME IInv, NEW c \in CON, ChargeStep(c)
  PROVE  Frame(c)
<1> USE DEF IInv, TypeOK, Frame, PhaseOf, Energised
<1>1. CASE Idle(c)
  BY <1>1 DEF Idle, At, Goto, bits, hw
<1>2. CASE Pluged(c)
  BY <1>2 DEF Pluged, At, Goto, bits
<1>3. CASE Precontract(c)
  BY <1>3 DEF Precontract, At, Goto, bits, hw
<1>4. CASE PrecontractLoseplug(c)
  BY <1>4 DEF PrecontractLoseplug, At, Goto, hw
<1>5. CASE Rechecked(c)
  BY <1>5 DEF Rechecked, Startcharge, StartchargePlug, StartchargeAuthed, StartchargeUnlocked,
         Recheck, At, Goto, Sleep, bits, hw
<1>6. CASE StartCharge(c)
  BY <1>6 DEF StartCharge, Sleep, bits
<1>7. CASE StartChargeDone(c)
  BY <1>7 DEF StartChargeDone, Goto, Sleep, hw
<1>8. CASE ChargingFault(c)
  BY <1>8 DEF ChargingFault, At, Goto, bits, hw
<1>9. CASE ChargingRequest(c)
  BY <1>9 DEF ChargingRequest, At, EndCharge, Goto, hw
<1>10. CASE ChargingCondition(c)
  BY <1>10 DEF ChargingCondition, At, EndCharge, Goto, hw
<1>11. CASE ChargingOn(c)
  BY <1>11 DEF ChargingOn, At, bits, hw
<1>12. CASE StopCharge(c)
  BY <1>12 DEF StopCharge, At, Sleep, RetryStop, Goto
<1>13. CASE StopChargeOpen(c)
  BY <1>13 DEF StopChargeOpen, Sleep, bits
<1>14. CASE StopChargeCheck(c)
  BY <1>14 DEF StopChargeCheck, Sleep, RetryStop, Goto, bits, hw
<1>15. CASE StopChargeDone(c)
  BY <1>15 DEF StopChargeDone, Sleep, Goto, hw
<1>16. CASE Unlock(c)
  BY <1>16 DEF Unlock, At, Goto, bits, hw
<1>17. CASE Error(c)
  BY <1>17 DEF Error, At, Goto, bits
<1>18. CASE DevError(c)
  BY <1>18 DEF DevError, At, Goto, bits, hw
<1>19. CASE Return(c)
  BY <1>19 DEF Return, At, Goto
<1> QED BY <1>1, <1>2, <1>3, <1>4, <1>5, <1>6, <1>7, <1>8, <1>9, <1>10, <1>11, <1>12,
         <1>13, <1>14, <1>15, <1>16, <1>17, <1>18, <1>19 DEF ChargeStep, Rechecked

(* So does a step of another task on it.                                   *)
LEMMA OtherFrame ==
  ASSUME IInv, NEW c \in CON, Other(c)
  PROVE  Frame(c)
<1> USE DEF IInv, TypeOK, Frame, PhaseOf, Energised
<1>1. CASE GetCPState(c)
  BY <1>1 DEF GetCPState, task, bits
<1>2. CASE DiagPlugError(c)
  BY <1>2 DEF DiagPlugError, task, hw
<1>3. CASE DiagLockError(c)
  BY <1>3 DEF DiagLockError, task, hw
<1>4. CASE DiagCondition(c)
  BY <1>4 DEF DiagCondition, task, hw
<1>5. CASE DiagVoltBad(c)
  BY <1>5 DEF DiagVoltBad, task
<1>6. CASE DiagVoltOK(c)
  BY <1>6 DEF DiagVoltOK, task
<1>7. CASE DiagPwm(c)
  BY <1>7 DEF DiagPwm, task, bits
<1>8. CASE Authorise(c)
  BY <1>8 DEF Authorise, task, hw
<1>9. CASE Withdraw(c)
  BY <1>9 DEF Withdraw, task, hw
<1>10. CASE RequestStop(c)
  BY <1>10 DEF RequestStop, task, hw
<1>11. CASE TimerFires(c)
  BY <1>11 DEF TimerFires, task, hw
<1>12. CASE TimerDeleted(c)
  BY <1>12 DEF TimerDeleted, task, bits, hw
<1>13. CASE Weld(c)
  BY <1>13 DEF Weld, task, bits
<1>14. CASE DeviceFaults(c)
  BY <1>14 DEF DeviceFaults, task, bits, hw
<1>15. CASE DiagWithdraw(c)
  BY <1>15 DEF DiagWithdraw, task, hw
<1> QED BY <1>1, <1>2, <1>3, <1>4, <1>5, <1>6, <1>7, <1>8, <1>9, <1>10, <1>11, <1>12,
         <1>13, <1>14, <1>15 DEF Other, DiagStep, TaskStep

-----------------------------------------------------------------------------
(* What an observer sees of each visit.  Before the start: nothing, or     *)
(* that the connector is given up.                                         *)
LEMMA BeforeStart ==
  ASSUME IInv, NEW c \in CON,
         Idle(c) \/ Pluged(c) \/ Precontract(c) \/ PrecontractLoseplug(c)
  PROVE  S!Abandon(c) \/ UNCHANGED S!sessionVars
<1> DEFINE Leaves == /\ PhaseOf(c) = "off" /\ PhaseOf(c)' = "ended"
                     /\ KeepsAuth(c) /\ KeepsStart(c) /\ KeepsPower(c)
<1>1. Frame(c)
  BY TaskFrame DEF ChargeStep
<1>2. Quiet(c) \/ Leaves
  <2> USE DEF IInv, TypeOK, Quiet, KeepsPhase, KeepsAuth, KeepsStart, KeepsPower,
              Authed, Started, PhaseOf, Energised, At, Free, Goto
  <2>1. CASE Idle(c)
    BY <2>1 DEF Idle, bits, hw
  <2>2. CASE Pluged(c)
    BY <2>2 DEF Pluged, bits
  <2>3. CASE Precontract(c)
    BY <2>3 DEF Precontract, bits, hw
  <2>4. CASE PrecontractLoseplug(c)
    BY <2>4 DEF PrecontractLoseplug, hw
  <2> QED BY <2>1, <2>2, <2>3, <2>4
<1> QED BY <1>1, <1>2, AbandonStep, StaysStep DEF Quiet

(* The re-checks: nothing, or that the connector is given up, or that its  *)
(* authorisation is seen, or that the start is put off after all.          *)
LEMMA InRecheck ==
  ASSUME IInv, NEW c \in CON, Rechecked(c)
  PROVE  S!Abandon(c) \/ S!See(c) \/ S!PutOff(c) \/ UNCHANGED S!sessionVars
<1> USE DEF IInv, TypeOK, Good, SleepOK, Rechecks, PhaseOf, Goto, Sleep, Recheck
<1>1. Frame(c)
  BY TaskFrame DEF ChargeStep, Rechecked
<1>2. KeepsAuth(c) /\ KeepsStart(c) /\ KeepsPower(c)
  BY DEF Rechecked, Startcharge, StartchargePlug, StartchargeAuthed, StartchargeUnlocked,
         KeepsAuth, KeepsStart, KeepsPower, Authed, Started, Energised, bits, hw
<1>3. CASE Startcharge(c)
  <2>1. KeepsPhase(c)
    BY <1>3 DEF Startcharge, KeepsPhase, At, Free
  <2> QED BY <1>1, <1>2, <2>1, StaysStep
<1>4. CASE StartchargePlug(c)
  <2>1. PhaseOf(c) = "off" /\ PhaseOf(c)' \in {"off", "ended"}
    BY <1>4 DEF StartchargePlug
  <2> QED BY <1>1, <1>2, <2>1, AbandonStep, StaysStep DEF KeepsPhase
<1>5. CASE StartchargeAuthed(c)
  <2>1. PhaseOf(c) = "off" /\ (PhaseOf(c)' = "off" \/ (PhaseOf(c)' = "starting" /\ Authed(c)))
    BY <1>5 DEF StartchargeAuthed, Authed
  <2> QED BY <1>1, <1>2, <2>1, SeeStep, StaysStep DEF KeepsPhase
<1>6. CASE StartchargeUnlocked(c)
  <2>1. PhaseOf(c) = "starting" /\ PhaseOf(c)' = "off"
    BY <1>6 DEF StartchargeUnlocked
  <2> QED BY <1>1, <1>2, <2>1, PutOffStep
<1> QED BY <1>3, <1>4, <1>5, <1>6 DEF Rechecked

(* The start: the relay is closed, then StartOK is set.                    *)
LEMMA AtStart ==
  ASSUME IInv, NEW c \in CON, StartCharge(c) \/ StartChargeDone(c)
  PROVE  S!Start(c) \/ S!Started(c)
<1> USE DEF IInv, TypeOK, Good, SleepOK, Rechecks, KeepsAuth, KeepsStart, KeepsPower,
            Authed, Started, PhaseOf, Energised
<1>1. Frame(c)
  BY TaskFrame DEF ChargeStep
<1>2. CASE StartCharge(c)
  <2>1. PhaseOf(c) = "starting" /\ PhaseOf(c)' = "closing"
    BY <1>2 DEF StartCharge, Sleep
  <2>2. Energised(c)' /\ KeepsAuth(c) /\ KeepsStart(c)
    BY <1>2 DEF StartCharge, bits
  <2> QED BY <1>1, <2>1, <2>2, StartStep
<1>3. CASE StartChargeDone(c)
  <2>1. PhaseOf(c) = "closing" /\ PhaseOf(c)' = "on"
    BY <1>3 DEF StartChargeDone, Sleep, Goto
  <2>2. Started(c)' /\ KeepsAuth(c) /\ KeepsPower(c)
    BY <1>3 DEF StartChargeDone, hw
  <2> QED BY <1>1, <2>1, <2>2, StartedStep
<1> QED BY <1>2, <1>3

(* CHARGING goes on or stops.                                              *)
LEMMA InCharging ==
  ASSUME IInv, NEW c \in CON,
         ChargingFault(c) \/ ChargingRequest(c) \/ ChargingCondition(c) \/ ChargingOn(c)
  PROVE  S!Stop(c) \/ UNCHANGED S!sessionVars
<1> DEFINE Stops == /\ PhaseOf(c) = "on" /\ PhaseOf(c)' = "stopping"
                    /\ KeepsAuth(c) /\ KeepsStart(c) /\ KeepsPower(c)
<1>1. Frame(c)
  BY TaskFrame DEF ChargeStep
<1>2. Quiet(c) \/ Stops
  <2> USE DEF IInv, TypeOK, Quiet, KeepsPhase, KeepsAuth, KeepsStart, KeepsPower,
              Authed, Started, PhaseOf, Energised, At, Goto
  <2>1. CASE ChargingFault(c)
    BY <2>1 DEF ChargingFault, bits, hw
  <2>2. CASE ChargingRequest(c)
    BY <2>2 DEF ChargingRequest, EndCharge, hw
  <2>3. CASE ChargingCondition(c)
    BY <2>3 DEF ChargingCondition, EndCharge, hw
  <2>4. CASE ChargingOn(c)
    BY <2>4 DEF ChargingOn, bits, hw
  <2> QED BY <2>1, <2>2, <2>3, <2>4
<1> QED BY <1>1, <1>2, StopStep, StaysStep DEF Quiet

(* A stop: tries, the opening of the relay, success, or giving up.         *)
LEMMA InStop ==
  ASSUME IInv, NEW c \in CON,
         StopCharge(c) \/ StopChargeOpen(c) \/ StopChargeCheck(c) \/ StopChargeDone(c)
  PROVE  \/ S!TryStop(c) \/ S!Cut(c) \/ S!GiveUp(c) \/ S!Stopped(c)
         \/ UNCHANGED S!sessionVars
<1> USE DEF IInv, TypeOK, Good, SleepOK, PowerOK, AfterStop, Quiet, KeepsPhase, KeepsAuth,
            KeepsStart, KeepsPower, Authed, Started, PhaseOf, Energised
<1>1. Frame(c)
  BY TaskFrame DEF ChargeStep
<1>2. CASE StopCharge(c)
  <2>1. PhaseOf(c) = "stopping" /\ ~Authed(c)' /\ KeepsStart(c)
    BY <1>2 DEF StopCharge, At
  <2>2. \/ KeepsPhase(c) /\ (KeepsPower(c) \/ ~Energised(c)')
        \/ PhaseOf(c)' = "ended" /\ KeepsPower(c)
    BY <1>2 DEF StopCharge, At, Sleep, RetryStop, Goto
  <2> QED BY <1>1, <2>1, <2>2, TryStopStep, GiveUpStep
<1>3. CASE StopChargeOpen(c)
  <2>1. KeepsPhase(c) /\ KeepsAuth(c) /\ KeepsStart(c)
    BY <1>3 DEF StopChargeOpen, Sleep, bits
  <2>2. KeepsPower(c) \/ ~Energised(c)'
    BY <1>3 DEF StopChargeOpen
  <2> QED BY <1>1, <2>1, <2>2, CutStep, StaysStep
<1>4. CASE StopChargeCheck(c)
  <2>1. PhaseOf(c) = "stopping" /\ KeepsAuth(c) /\ KeepsStart(c) /\ KeepsPower(c)
    BY <1>4 DEF StopChargeCheck, bits, hw
  <2>2. KeepsPhase(c) \/ PhaseOf(c)' = "ended"
    BY <1>4 DEF StopChargeCheck, Sleep, RetryStop, Goto
  <2> QED BY <1>1, <2>1, <2>2, GiveUpStep, StaysStep
<1>5. CASE StopChargeDone(c)
  <2>1. PhaseOf(c) = "stopping" /\ ~Energised(c) /\ PhaseOf(c)' = "ended"
    BY <1>5 DEF StopChargeDone, Goto
  <2>2. ~Started(c)' /\ KeepsAuth(c) /\ KeepsPower(c)
    BY <1>5 DEF StopChargeDone, hw
  <2> QED BY <1>1, <2>1, <2>2, StoppedStep
<1> QED BY <1>2, <1>3, <1>4, <1>5

(* After it: nothing is seen until the connector is free again.            *)
LEMMA AfterEnd ==
  ASSUME IInv, NEW c \in CON, Unlock(c) \/ Error(c) \/ DevError(c) \/ Return(c)
  PROVE  S!Release(c) \/ UNCHANGED S!sessionVars
<1> USE DEF IInv, TypeOK, Good, PowerOK, AfterStop, Quiet, KeepsPhase, KeepsAuth,
            KeepsStart, KeepsPower, Authed, Started, PhaseOf, Energised, At, Goto
<1>1. Frame(c)
  BY TaskFrame DEF ChargeStep
<1>2. CASE Unlock(c)
  <2>1. Quiet(c)
    BY <1>2 DEF Unlock, bits, hw
  <2> QED BY <1>1, <2>1, StaysStep
<1>3. CASE Error(c)
  <2>1. Quiet(c)
    BY <1>3 DEF Error, bits
  <2> QED BY <1>1, <2>1, StaysStep
<1>4. CASE DevError(c)
  <2>1. Quiet(c)
    BY <1>4 DEF DevError, bits, hw
  <2> QED BY <1>1, <2>1, StaysStep
<1>5. CASE Return(c)
  <2>1. PhaseOf(c) = "ended" /\ ~Energised(c) /\ PhaseOf(c)' = "off"
    BY <1>5 DEF Return
  <2>2. ~Authed(c)' /\ ~Started(c)' /\ KeepsPower(c)
    BY <1>5 DEF Return
  <2> QED BY <1>1, <2>1, <2>2, ReleaseStep
<1> QED BY <1>2, <1>3, <1>4, <1>5

(* The other tasks: they give and take the authorisation, and the power    *)
(* changes in a session, by the voltage protection, or falls away.         *)
LEMMA OtherSteps ==
  ASSUME IInv, NEW c \in CON, Other(c)
  PROVE  \/ S!Grant(c) \/ S!Revoke(c) \/ S!Switch(c) \/ S!Cut(c)
         \/ UNCHANGED S!sessionVars
<1> DEFINE Changes == KeepsPhase(c) /\ KeepsStart(c) /\ KeepsPower(c)
           Switches == KeepsPhase(c) /\ KeepsAuth(c) /\ KeepsStart(c)
<1>1. Frame(c)
  BY OtherFrame
<1>2. \/ Quiet(c)
      \/ Changes
      \/ Switches /\ (PhaseOf(c) = "on" \/ ~Energised(c)')
  <2> USE DEF IInv, TypeOK, Quiet, KeepsPhase, KeepsAuth, KeepsStart, KeepsPower,
              Authed, Started, PhaseOf, Energised, task
  <2>1. CASE GetCPState(c)
    BY <2>1 DEF GetCPState, bits
  <2>2. CASE DiagPlugError(c)
    BY <2>2 DEF DiagPlugError, hw
  <2>3. CASE DiagLockError(c)
    BY <2>3 DEF DiagLockError, hw
  <2>4. CASE DiagCondition(c)
    BY <2>4, BitsAssumption DEF DiagCondition, hw, Conditions
  <2>5. CASE DiagVoltBad(c)
    BY <2>5 DEF DiagVoltBad
  <2>6. CASE DiagVoltOK(c)
    BY <2>6 DEF DiagVoltOK
  <2>7. CASE DiagPwm(c)
    BY <2>7 DEF DiagPwm, bits
  <2>8. CASE Authorise(c)
    BY <2>8 DEF Authorise, hw
  <2>9. CASE Withdraw(c)
    BY <2>9 DEF Withdraw, hw
  <2>10. CASE RequestStop(c)
    BY <2>10 DEF RequestStop, hw
  <2>11. CASE TimerFires(c)
    BY <2>11 DEF TimerFires, hw
  <2>12. CASE TimerDeleted(c)
    BY <2>12 DEF TimerDeleted, bits, hw
  <2>13. CASE Weld(c)
    BY <2>13 DEF Weld, bits
  <2>14. CASE DeviceFaults(c)
    BY <2>14 DEF DeviceFaults, bits, hw
  <2>15. CASE DiagWithdraw(c)
    BY <2>15 DEF DiagWithdraw, hw
  <2> QED BY <2>1, <2>2, <2>3, <2>4, <2>5, <2>6, <2>7, <2>8, <2>9, <2>10, <2>11, <2>12,
             <2>13, <2>14, <2>15 DEF Other, DiagStep, TaskStep
<1> QED BY <1>1, <1>2, GrantStep, RevokeStep, SwitchStep, CutStep, StaysStep DEF Quiet

-----------------------------------------------------------------------------
(* A predicate that holds of no connector.                                 *)
LEMMA BoolNone ==
  ASSUME NEW f \in [CON -> BOOLEAN], \A c \in CON : ~f[c]
  PROVE  f = [c \in CON |-> FALSE]
OBVIOUS

(* After start-up every session is off.                                    *)
LEMMA InitRefines == Init => S!SessionInit
<1> SUFFICES ASSUME Init PROVE S!SessionInit
  OBVIOUS
<1>1. [c \in CON |-> PhaseOf(c)] = [c \in CON |-> "off"]
  BY DEF Init, PhaseOf
<1>2. \A c \in CON : ~("Authed" \in charge[c]) /\ ~("StartOK" \in charge[c])
  BY DEF Init
<1>3. \A c \in CON : ~Energised(c)
  BY DEF Init, Energised
<1>4. [c \in CON |-> "Authed" \in charge[c]] = [c \in CON |-> FALSE]
  <2> DEFINE f == [c \in CON |-> "Authed" \in charge[c]]
  <2>1. f \in [CON -> BOOLEAN]
    OBVIOUS
  <2>2. ASSUME NEW c \in CON PROVE ~f[c]
    BY <1>2
  <2> HIDE DEF f
  <2>3. f = [c \in CON |-> FALSE]
    BY <2>1, <2>2, BoolNone
  <2> QED BY <2>3 DEF f
<1>5. [c \in CON |-> "StartOK" \in charge[c]] = [c \in CON |-> FALSE]
  <2> DEFINE f == [c \in CON |-> "StartOK" \in charge[c]]
  <2>1. f \in [CON -> BOOLEAN]
    OBVIOUS
  <2>2. ASSUME NEW c \in CON PROVE ~f[c]
    BY <1>2
  <2> HIDE DEF f
  <2>3. f = [c \in CON |-> FALSE]
    BY <2>1, <2>2, BoolNone
  <2> QED BY <2>3 DEF f
<1>6. [c \in CON |-> Energised(c)] = [c \in CON |-> FALSE]
  BY <1>3 DEF Energised
<1> QED BY <1>1, <1>4, <1>5, <1>6 DEF S!SessionInit

(* Every step of the charge task and of the tasks around it is a step of   *)
(* Session, or changes nothing that Session shows.                         *)
LEMMA NextRefines == IInv /\ [Next]_vars => [S!SessionNext]_(S!sessionVars)
<1> SUFFICES ASSUME IInv, [Next]_vars PROVE S!SessionNext \/ UNCHANGED S!sessionVars
  OBVIOUS
<1>1. ASSUME NEW c \in CON, ChargeStep(c)
      PROVE  S!SessionNext \/ UNCHANGED S!sessionVars
  <2>1. S!ConnectorStep(c) \/ UNCHANGED S!sessionVars
    BY <1>1, BeforeStart, InRecheck, AtStart, InCharging, InStop, AfterEnd
       DEF ChargeStep, Rechecked, S!ConnectorStep
  <2> QED BY <2>1 DEF S!SessionNext
<1>2. ASSUME NEW c \in CON, Other(c)
      PROVE  S!SessionNext \/ UNCHANGED S!sessionVars
  BY <1>2, OtherSteps DEF S!SessionNext, S!ConnectorStep
<1>3. CASE ChargerFaults \/ UNCHANGED vars
  BY <1>3 DEF ChargerFaults, vars, task, bits, hw, S!sessionVars, PhaseOf, Energised
<1> QED BY <1>1, <1>2, <1>3 DEF Next

(* The charge task keeps what Session promises: the relay is closed only   *)
(* in a visit that has seen the authorisation, although the diagnosis runs *)
(* between its reads; StartOK is withdrawn only without power, and a       *)
(* connector is free again only without power, authorisation or StartOK.   *)
THEOREM ChargeImplementsSession == Spec => ImplementsSession
BY InitRefines, NextRefines, SpecGood, PTL DEF Spec, ImplementsSession, S!SessionSpec
=============================================================================
