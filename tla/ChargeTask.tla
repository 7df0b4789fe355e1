----------------------------- MODULE ChargeTask -----------------------------
(***************************************************************************)
(* The charge control task (src/src/app/taskcharge.c) with the connector   *)
(* primitives it drives (connector.c), for connectors of socket type C.    *)
(*                                                                         *)
(* One FreeRTOS task (priority 25) visits every connector in turn and runs *)
(* one case of a switch on pCON->state.  The lower-priority tasks run only *)
(* where a case sleeps or waits, the diagnosis (priority 27) also between  *)
(* two reads of the event bits; those places are the values of "step", and *)
(* while one connector's case is there no other connector is visited.  The *)
(* other tasks:                                                            *)
(*   - the monitor task samples the control pilot (GetPlugState);          *)
(*   - the diagnosis task turns samples into event bits, and on voltage    *)
(*     faults operates the relay itself (interface_diag.c);                *)
(*   - the RFID, remote and data tasks grant or withdraw the               *)
(*     authorisation and raise stop requests.                              *)
(***************************************************************************)
EXTENDS Integers

CONSTANTS
  CON,             \* the connectors
  Requests,        \* the stop requests other tasks may raise, see Rank
  FlakyBits,       \* the condition bits the diagnosis may withdraw again
  Levels,          \* the pilot levels a sample may show: 12, 9, 6 volts, 0 = out of band
  DevFaults,       \* the device faults of the connector (meter, ...) that may occur
  EvseFaults,      \* the device faults of the whole charger that may occur
  StartTypes,      \* how sessions are authorised: "RFID", "Remote"
  TriesPerSample   \* bound: visits of STOPCHARGE between two pilot samples

VARIABLES
  state,     \* pCON->state
  step,      \* where the visit of a connector sleeps or is preempted; else "run"
  charge,    \* xHandleEventCharge: the event bits that are set
  exc,       \* xHandleEventException: stop requests and the anti-shake timer
  relay,     \* the output relay's command
  welded,    \* the contacts stick although the command is off
  pwm,       \* the pilot output carries PWM (CCR # TIMER_MAX)
  cp,        \* xCPState, the pilot state of the last sample
  cpErr,     \* cpN_err_cont, out-of-band samples in a row
  age,       \* visits of STOPCHARGE since the last sample
  fault,     \* pCON->status.ulSignalFault
  evFault,   \* pEVSE->status.ulSignalFault
  signal,    \* the work state in ulSignalState
  stopTry,   \* pCON->tmp.stop_try
  devErr,    \* pCON->tmp.dev_err
  startType, \* order.ucStartType
  timer      \* xHandleTimerCharge, the anti-shake timer

task == <<state, step, signal, stopTry, devErr>>
bits == <<charge, exc>>
hw   == <<relay, welded, pwm>>
pilot == <<cp, cpErr, age>>
faults == <<fault, evFault>>
vars == <<task, bits, hw, pilot, faults, startType, timer>>

States == {"IDLE", "PLUGED", "PRECONTRACT", "PRECONTRACT_LOSEPLUG",
           "STARTCHARGE", "CHARGING", "STOPCHARGE", "UNLOCK", "ERROR",
           "DEV_ERROR", "RETURN"}

(* STARTCHARGE reads its bits one after the other; the charge task is      *)
(* ready between two reads, and only the diagnosis runs before it.         *)
Rechecks == {"checked", "plugged", "authed"}
Steps == {"run", "closing", "s2wait", "opening", "settle"} \cup Rechecks

(* The bits of defEventBitCPSwitchCondition other than PlugOK.  TempOK     *)
(* stands for EVSETempOK and CONACTempOK; ReadyOK for the bits the task    *)
(* never tells apart (FreqOK, SocketTempOK, PE, Knock, Arrester,           *)
(* PowerOff).  CurrOK and ScramOK are cleared together with raising the    *)
(* alarm of the same name.                                                 *)
Conditions == {"VoltOK", "CurrOK", "ScramOK", "TempOK", "ReadyOK"}
CPSwitchCondition == Conditions \cup {"PlugOK"}
ChargeCondition == CPSwitchCondition \cup {"S2Closed", "Authed", "Locked"}
ChargeBits == ChargeCondition \cup {"StartOK"}

(* The stop requests in the order in which CHARGING looks at them.         *)
Rank == [LimitEnergy |-> 1, LimitFee |-> 2, LimitTime |-> 3, OfflineStop |-> 4,
         RemoteStop |-> 5, RFIDStop |-> 6, RmtEmergencyStop |-> 7]

CPStates == {"12V", "12V_PWM", "9V", "9V_PWM", "6V", "6V_PWM", "ERR"}
PwmStates == {"12V_PWM", "9V_PWM", "6V_PWM"}

ASSUME RequestsAssumption == Requests \subseteq DOMAIN Rank
ASSUME BitsAssumption == FlakyBits \subseteq Conditions
ASSUME LevelsAssumption == Levels \subseteq {0, 6, 9, 12}
ASSUME FaultsAssumption == "RelayPaste" \notin DevFaults
ASSUME TriesAssumption == TriesPerSample \in Nat \ {0}

(* GetRelayState reads the contacts.                                       *)
Energised(c) == relay[c] \/ welded[c]

(* The task visits a connector only when no visit is under way, and keeps  *)
(* the lower-priority tasks from running while it re-checks.               *)
Free == \A d \in CON : step[d] = "run"
Rechecking == \E d \in CON : step[d] \in Rechecks

At(c, s) == Free /\ state[c] = s
Goto(c, s) == state' = [state EXCEPT ![c] = s]
Signal(c, s) == signal' = [signal EXCEPT ![c] = s]
Sleep(c, s) == step' = [step EXCEPT ![c] = s]
Has(c, B) == B \subseteq charge[c]

-----------------------------------------------------------------------------
(* Start-up: relays that read closed are opened; no event bit is set.      *)
Init ==
  /\ state = [c \in CON |-> "IDLE"]
  /\ step = [c \in CON |-> "run"]
  /\ signal = [c \in CON |-> "none"]
  /\ stopTry = [c \in CON |-> 0]
  /\ devErr = [c \in CON |-> FALSE]
  /\ charge = [c \in CON |-> {}]
  /\ exc = [c \in CON |-> {}]
  /\ relay = [c \in CON |-> FALSE]
  /\ welded = [c \in CON |-> FALSE]
  /\ pwm = [c \in CON |-> FALSE]
  /\ cp = [c \in CON |-> "12V"]
  /\ cpErr = [c \in CON |-> 0]
  /\ age = [c \in CON |-> 0]
  /\ fault = [c \in CON |-> {}]
  /\ evFault = {}
  /\ startType = [c \in CON |-> "none"]
  /\ timer = [c \in CON |-> "off"]

-----------------------------------------------------------------------------
(* The cases of the switch, in the order of the source.                    *)

Idle(c) ==
  /\ At(c, "IDLE")
  /\ Signal(c, "Standby")
  /\ Goto(c, IF "PlugOK" \in charge[c] THEN "PLUGED" ELSE "IDLE")
  /\ UNCHANGED <<step, stopTry, devErr, bits, hw, pilot, faults, startType, timer>>

(* SetLoadPercent is called with the current percentage and does nothing.  *)
Pluged(c) ==
  /\ At(c, "PLUGED")
  /\ IF Has(c, CPSwitchCondition)
     THEN /\ pwm' = [pwm EXCEPT ![c] = TRUE]
          /\ Goto(c, IF cp[c] \in {"9V_PWM", "6V_PWM"} THEN "PRECONTRACT" ELSE "PLUGED")
     ELSE /\ Goto(c, IF "PlugOK" \in charge[c] THEN "PLUGED" ELSE "RETURN")
          /\ UNCHANGED pwm
  /\ UNCHANGED <<step, signal, stopTry, devErr, bits, relay, welded, pilot,
                 faults, startType, timer>>

Precontract(c) ==
  /\ At(c, "PRECONTRACT")
  /\ \/ /\ "PlugOK" \notin charge[c]
        /\ timer' = [timer EXCEPT ![c] = "armed"]
        /\ Goto(c, "PRECONTRACT_LOSEPLUG")
     \/ /\ "PlugOK" \in charge[c]
        /\ Goto(c, IF ~Has(c, CPSwitchCondition) THEN "RETURN"
                   ELSE IF "S2Closed" \in charge[c] THEN "STARTCHARGE" ELSE "PRECONTRACT")
        /\ UNCHANGED timer
  /\ UNCHANGED <<step, signal, stopTry, devErr, bits, hw, pilot, faults, startType>>

(* xTimerDelete only queues the deletion: until the timer task handles it  *)
(* a timer that is just expiring may still run its callback.               *)
DeleteTimer(c) ==
  timer' = [timer EXCEPT ![c] = IF @ = "armed" THEN "deleting" ELSE @]

PrecontractLoseplug(c) ==
  /\ At(c, "PRECONTRACT_LOSEPLUG")
  /\ \/ /\ "ChargeTimer" \in exc[c]
        /\ exc' = [exc EXCEPT ![c] = @ \ {"ChargeTimer"}]
        /\ DeleteTimer(c)
        /\ Goto(c, "RETURN")
     \/ /\ "ChargeTimer" \notin exc[c]
        /\ "PlugOK" \in charge[c]
        /\ DeleteTimer(c)
        /\ Goto(c, "PRECONTRACT")
        /\ UNCHANGED exc
  /\ UNCHANGED <<step, signal, stopTry, devErr, charge, hw, pilot,
                 faults, startType>>

(* STARTCHARGE: the conditions and S2, then the plug, the authorisation    *)
(* and the lock are read one by one, and what was seen is not read again.  *)
Recheck(c, ok, next) ==
  /\ Sleep(c, IF ok THEN next ELSE "run")
  /\ UNCHANGED <<signal, stopTry, devErr, bits, hw, pilot, faults, startType, timer>>

Startcharge(c) ==
  /\ At(c, "STARTCHARGE")
  /\ LET ok == Has(c, CPSwitchCondition \cup {"S2Closed"})
     IN Recheck(c, ok, "checked") /\ Goto(c, IF ok THEN "STARTCHARGE" ELSE "PRECONTRACT")

StartchargePlug(c) ==
  /\ step[c] = "checked"
  /\ LET ok == "PlugOK" \in charge[c]
     IN Recheck(c, ok, "plugged") /\ Goto(c, IF ok THEN "STARTCHARGE" ELSE "RETURN")

(* An unauthorised or (before the first lock diagnosis) unlocked connector *)
(* stays in STARTCHARGE.                                                   *)
StartchargeAuthed(c) ==
  /\ step[c] = "plugged"
  /\ Recheck(c, "Authed" \in charge[c], "authed")
  /\ UNCHANGED state

StartchargeUnlocked(c) ==
  /\ step[c] = "authed" /\ "Locked" \notin charge[c]
  /\ Recheck(c, FALSE, "run")
  /\ UNCHANGED state

(* Mutant: the relay is closed before the authorisation is looked at.      *)
StartChargeEarly(c) ==
  /\ step[c] \in {"plugged", "authed"} /\ "Locked" \in charge[c]
  /\ relay' = [relay EXCEPT ![c] = TRUE]
  /\ Sleep(c, "closing")
  /\ UNCHANGED <<state, signal, stopTry, devErr, bits, welded, pwm, pilot,
                 faults, startType, timer>>

(* StartCharge: SetRelay commands the relay and sleeps defRelayDelay.  A   *)
(* connector without a lock is never unlocked again.                       *)
StartCharge(c) ==
  /\ step[c] = "authed" /\ "Locked" \in charge[c]
  /\ relay' = [relay EXCEPT ![c] = TRUE]
  /\ Sleep(c, "closing")
  /\ UNCHANGED <<state, signal, stopTry, devErr, bits, welded, pwm, pilot,
                 faults, startType, timer>>

(* StartCharge returns ERR_NO whatever GetRelayState reads.                *)
StartChargeDone(c) ==
  /\ step[c] = "closing"
  /\ Sleep(c, "run")
  /\ charge' = [charge EXCEPT ![c] = @ \cup {"StartOK"}]
  /\ Goto(c, "CHARGING")
  /\ UNCHANGED <<signal, stopTry, devErr, exc, hw, pilot, faults,
                 startType, timer>>

-----------------------------------------------------------------------------
(* CHARGING.  A fault of the card reader alone does not count for a        *)
(* session that was started remotely.                                      *)
DeviceFault(c) ==
  \/ fault[c] # {}
  \/ (IF startType[c] = "Remote" THEN evFault \ {"RFID"} ELSE evFault) # {}

ChargingFault(c) ==
  /\ At(c, "CHARGING")
  /\ Signal(c, "Working")
  /\ DeviceFault(c)
  /\ Goto(c, "STOPCHARGE")
  /\ devErr' = [devErr EXCEPT ![c] = TRUE]
  /\ UNCHANGED <<step, stopTry, bits, hw, pilot, faults, startType, timer>>

Pending(c) == exc[c] \cap Requests

FirstRequest(E) == CHOOSE r \in E : \A q \in E : Rank[r] <= Rank[q]

(* A visit that ends the session and clears the exception bits E.  The     *)
(* stop type it notes for the order is content of the order, left out.     *)
EndCharge(c, E) ==
  /\ exc' = [exc EXCEPT ![c] = @ \ E]
  /\ Goto(c, "STOPCHARGE")

(* Mutant: the missing authorisation is not looked at.                     *)
MustStopUnasked(c) ==
  \/ ~Has(c, {"CurrOK", "ScramOK", "PlugOK", "S2Closed"})
  \/ "VoltOK" \in charge[c] /\ ~Has(c, ChargeCondition \ {"Authed"})

(* After the requests CHARGING stops for over-current, emergency stop, an  *)
(* opened S2 and a lost plug; for the other conditions (temperature,       *)
(* authorisation, ...) only while the voltage is good: an abnormal voltage *)
(* is left to the diagnosis.                                               *)
MustStop(c) ==
  \/ ~Has(c, {"CurrOK", "ScramOK", "PlugOK", "S2Closed"})
  \/ "VoltOK" \in charge[c] /\ ~Has(c, ChargeCondition)

(* Mutant: a request is overlooked while the vehicle has opened S2.        *)
ChargingRequestOverlooked(c) ==
  /\ At(c, "CHARGING")
  /\ ~DeviceFault(c)
  /\ Pending(c) # {} /\ "S2Closed" \in charge[c]
  /\ Signal(c, "Working")
  /\ EndCharge(c, {FirstRequest(Pending(c))})
  /\ UNCHANGED <<step, stopTry, devErr, charge, hw, pilot, faults, startType, timer>>

ChargingRequest(c) ==
  /\ At(c, "CHARGING")
  /\ ~DeviceFault(c)
  /\ Pending(c) # {}
  /\ Signal(c, "Working")
  /\ EndCharge(c, {FirstRequest(Pending(c))})
  /\ UNCHANGED <<step, stopTry, devErr, charge, hw, pilot, faults, startType, timer>>

(* Mutant: the work state is set only by a visit that goes on charging.    *)
ChargingConditionUnsignalled(c) ==
  /\ At(c, "CHARGING")
  /\ ~DeviceFault(c)
  /\ Pending(c) = {}
  /\ MustStop(c)
  /\ EndCharge(c, {})
  /\ UNCHANGED <<step, signal, stopTry, devErr, charge, hw, pilot, faults, startType, timer>>

ChargingCondition(c) ==
  /\ At(c, "CHARGING")
  /\ ~DeviceFault(c)
  /\ Pending(c) = {}
  /\ Signal(c, "Working")
  /\ MustStop(c)
  /\ EndCharge(c, {})
  /\ UNCHANGED <<step, stopTry, devErr, charge, hw, pilot, faults, startType, timer>>

ChargingOn(c) ==
  /\ At(c, "CHARGING")
  /\ ~DeviceFault(c)
  /\ Pending(c) = {}
  /\ ~MustStop(c)
  /\ Signal(c, "Working")
  /\ UNCHANGED <<state, step, stopTry, devErr, bits, hw, pilot, faults, startType, timer>>

-----------------------------------------------------------------------------
(* STOPCHARGE.  StopCharge switches the pilot to 12 V and trusts the       *)
(* cached sample: it opens the relay at once when the pilot is faulty,     *)
(* waits up to 3 s for the vehicle's S2 when the PWM is off, and gives up  *)
(* when the sample still shows PWM.                                        *)
(* Mutants: one try too many; no limit.                                    *)
RetryStopLate(c) ==
  /\ stopTry' = [stopTry EXCEPT ![c] = @ + 1]
  /\ Goto(c, IF stopTry[c] >= 5 THEN "UNLOCK" ELSE "STOPCHARGE")

RetryStopForever(c) == UNCHANGED <<stopTry, state>>

RetryStop(c) ==
  /\ stopTry' = [stopTry EXCEPT ![c] = @ + 1]
  /\ Goto(c, IF stopTry[c] + 1 >= 5 THEN "UNLOCK" ELSE "STOPCHARGE")

StopCharge(c) ==
  /\ At(c, "STOPCHARGE")
  /\ age[c] < TriesPerSample
  /\ Signal(c, "Stopping")
  /\ charge' = [charge EXCEPT ![c] = @ \ {"Authed"}]
  /\ pwm' = [pwm EXCEPT ![c] = FALSE]
  /\ \/ /\ cp[c] \in {"6V", "9V", "12V"}
        /\ Sleep(c, "s2wait")
        /\ UNCHANGED <<state, stopTry, relay, age>>
     \/ /\ cp[c] = "ERR"
        /\ relay' = [relay EXCEPT ![c] = FALSE]
        /\ Sleep(c, "opening")
        /\ UNCHANGED <<state, stopTry, age>>
     \/ /\ cp[c] \in PwmStates
        /\ RetryStop(c)
        /\ age' = [age EXCEPT ![c] = @ + 1]
        /\ UNCHANGED <<step, relay>>
  /\ UNCHANGED <<devErr, exc, welded, cp, cpErr, faults, startType, timer>>

(* S2 opened, or 3 s passed: the relay is opened either way.               *)
StopChargeOpen(c) ==
  /\ step[c] = "s2wait"
  /\ relay' = [relay EXCEPT ![c] = FALSE]
  /\ Sleep(c, "opening")
  /\ UNCHANGED <<state, signal, stopTry, devErr, bits, welded, pwm, pilot,
                 faults, startType, timer>>

(* Mutant: the contacts are not read back.                                 *)
StopChargeUnchecked(c) ==
  /\ step[c] = "opening"
  /\ Sleep(c, "settle")
  /\ UNCHANGED <<state, stopTry, signal, devErr, bits, hw, pilot, faults, startType, timer>>

StopChargeCheck(c) ==
  /\ step[c] = "opening"
  /\ \/ /\ ~Energised(c)
        /\ Sleep(c, "settle")
        /\ UNCHANGED <<state, stopTry>>
     \/ /\ Energised(c)
        /\ Sleep(c, "run")
        /\ RetryStop(c)
  /\ UNCHANGED <<signal, devErr, bits, hw, pilot, faults, startType, timer>>

StopChargeDone(c) ==
  /\ step[c] = "settle"
  /\ Sleep(c, "run")
  /\ charge' = [charge EXCEPT ![c] = @ \ {"StartOK"}]
  /\ stopTry' = [stopTry EXCEPT ![c] = 0]
  /\ Goto(c, "UNLOCK")
  /\ UNCHANGED <<signal, devErr, exc, hw, pilot, faults, startType, timer>>

Unlock(c) ==
  /\ At(c, "UNLOCK")
  /\ Goto(c, IF stopTry[c] # 0 \/ devErr[c] THEN "ERROR" ELSE "RETURN")
  /\ UNCHANGED <<step, signal, stopTry, devErr, bits, hw, pilot, faults, startType, timer>>

(* Mutant: the fault is not withdrawn when the contacts read open.         *)
ErrorKeepsFault(c) ==
  /\ At(c, "ERROR")
  /\ Signal(c, "Fault")
  /\ pwm' = [pwm EXCEPT ![c] = FALSE]
  /\ \/ /\ devErr[c]
        /\ Goto(c, "DEV_ERROR")
        /\ UNCHANGED fault
     \/ /\ ~devErr[c]
        /\ Goto(c, IF stopTry[c] = 0 \/ ~Energised(c) THEN "RETURN" ELSE "ERROR")
        /\ fault' = [fault EXCEPT ![c] =
                       IF stopTry[c] # 0 THEN @ \cup {"RelayPaste"} ELSE @]
  /\ UNCHANGED <<step, stopTry, devErr, bits, relay, welded, pilot, evFault, startType, timer>>

(* unlock_try stays 0 without a socket lock.                               *)
Error(c) ==
  /\ At(c, "ERROR")
  /\ Signal(c, "Fault")
  /\ pwm' = [pwm EXCEPT ![c] = FALSE]
  /\ \/ /\ devErr[c]
        /\ Goto(c, "DEV_ERROR")
        /\ UNCHANGED fault
     \/ /\ ~devErr[c]
        /\ Goto(c, IF stopTry[c] = 0 \/ ~Energised(c) THEN "RETURN" ELSE "ERROR")
        /\ fault' = [fault EXCEPT ![c] =
                       IF ~Energised(c) THEN @ \ {"RelayPaste"}
                       ELSE IF stopTry[c] # 0 THEN @ \cup {"RelayPaste"} ELSE @]
  /\ UNCHANGED <<step, stopTry, devErr, bits, relay, welded, pilot, evFault, startType, timer>>

DevError(c) ==
  /\ At(c, "DEV_ERROR")
  /\ fault[c] = {} /\ evFault = {}
  /\ devErr' = [devErr EXCEPT ![c] = FALSE]
  /\ Goto(c, "ERROR")
  /\ UNCHANGED <<step, signal, stopTry, bits, hw, pilot, faults, startType, timer>>

(* Mutant: the retry counter survives the session.                         *)
ReturnKeepsCount(c) ==
  /\ At(c, "RETURN")
  /\ devErr' = [devErr EXCEPT ![c] = FALSE]
  /\ charge' = [charge EXCEPT ![c] = @ \ {"StartOK", "Authed"}]
  /\ pwm' = [pwm EXCEPT ![c] = FALSE]
  /\ Goto(c, "IDLE")
  /\ UNCHANGED <<step, signal, stopTry, exc, relay, welded, pilot, faults, startType, timer>>

Return(c) ==
  /\ At(c, "RETURN")
  /\ stopTry' = [stopTry EXCEPT ![c] = 0]
  /\ devErr' = [devErr EXCEPT ![c] = FALSE]
  /\ charge' = [charge EXCEPT ![c] = @ \ {"StartOK", "Authed"}]
  /\ pwm' = [pwm EXCEPT ![c] = FALSE]
  /\ Goto(c, "IDLE")
  /\ UNCHANGED <<step, signal, exc, relay, welded, pilot, faults, startType, timer>>

ChargeStep(c) ==
  \/ Idle(c) \/ Pluged(c) \/ Precontract(c) \/ PrecontractLoseplug(c)
  \/ Startcharge(c) \/ StartchargePlug(c) \/ StartchargeAuthed(c)
  \/ StartchargeUnlocked(c) \/ StartCharge(c) \/ StartChargeDone(c)
  \/ ChargingFault(c) \/ ChargingRequest(c) \/ ChargingCondition(c) \/ ChargingOn(c)
  \/ StopCharge(c) \/ StopChargeOpen(c) \/ StopChargeCheck(c) \/ StopChargeDone(c)
  \/ Unlock(c) \/ Error(c) \/ DevError(c) \/ Return(c)

-----------------------------------------------------------------------------
(* Monitor: GetPlugState -> GetCPState.  An out-of-band level keeps the    *)
(* old state twice; the third in a row is a pilot fault and stops the PWM. *)
PilotState(v, p) ==
  CASE v = 12 -> IF p THEN "12V_PWM" ELSE "12V"
    [] v = 9  -> IF p THEN "9V_PWM" ELSE "9V"
    [] v = 6  -> IF p THEN "6V_PWM" ELSE "6V"

GetCPState(c) ==
  /\ \E v \in Levels :
       \/ /\ v # 0
          /\ cp' = [cp EXCEPT ![c] = PilotState(v, pwm[c])]
          /\ cpErr' = [cpErr EXCEPT ![c] = 0]
          /\ fault' = [fault EXCEPT ![c] = @ \ {"CP"}]
          /\ UNCHANGED pwm
       \/ /\ v = 0 /\ cpErr[c] < 2
          /\ cpErr' = [cpErr EXCEPT ![c] = @ + 1]
          /\ UNCHANGED <<cp, fault, pwm>>
       \/ /\ v = 0 /\ cpErr[c] = 2
          /\ cp' = [cp EXCEPT ![c] = "ERR"]
          /\ cpErr' = [cpErr EXCEPT ![c] = 0]
          /\ fault' = [fault EXCEPT ![c] = @ \cup {"CP"}]
          /\ pwm' = [pwm EXCEPT ![c] = FALSE]
  /\ age' = [age EXCEPT ![c] = 0]
  /\ UNCHANGED <<task, bits, relay, welded, evFault, startType, timer>>

(* Diagnosis: DiagPlugError copies the last sample into PlugOK and         *)
(* S2Closed (S2Opened is its complement once a sample was taken);          *)
(* DiagLockError sets Locked for a connector without a lock.               *)
DiagPlugError(c) ==
  LET plug == IF cp[c] \in {"12V", "12V_PWM", "ERR"} THEN {} ELSE {"PlugOK"}
      s2 == IF cp[c] \in {"6V", "6V_PWM"} THEN {"S2Closed"} ELSE {}
  IN /\ charge' = [charge EXCEPT ![c] = (@ \ {"PlugOK", "S2Closed"}) \cup plug \cup s2]
     /\ UNCHANGED <<task, exc, hw, pilot, faults, startType, timer>>

DiagLockError(c) ==
  /\ charge' = [charge EXCEPT ![c] = @ \cup {"Locked"}]
  /\ UNCHANGED <<task, exc, hw, pilot, faults, startType, timer>>

(* The temperature, current, frequency and charger diagnoses set and clear *)
(* their condition bits.                                                   *)
DiagCondition(c) ==
  /\ \/ \E b \in Conditions \ {"VoltOK"} : charge' = [charge EXCEPT ![c] = @ \cup {b}]
     \/ \E b \in FlakyBits \ {"VoltOK"} : charge' = [charge EXCEPT ![c] = @ \ {b}]
  /\ UNCHANGED <<task, exc, hw, pilot, faults, startType, timer>>

(* DiagVoltageError when the bad voltage is confirmed, and when it is      *)
(* confirmed good again: the diagnosis operates the relay of a connector   *)
(* it finds in CHARGING.                                                   *)
DiagVoltBad(c) ==
  /\ "VoltOK" \in FlakyBits
  /\ "VoltOK" \in charge[c]
  /\ charge' = [charge EXCEPT ![c] = @ \ {"VoltOK"}]
  /\ relay' = [relay EXCEPT ![c] = @ /\ state[c] # "CHARGING"]
  /\ UNCHANGED <<task, exc, welded, pwm, pilot, faults, startType, timer>>

(* Mutant: the relay is closed again whatever became of the session.       *)
DiagVoltOKAnyState(c) ==
  /\ "VoltOK" \notin charge[c]
  /\ charge' = [charge EXCEPT ![c] = @ \cup {"VoltOK"}]
  /\ relay' = [relay EXCEPT ![c] = @ \/ "Authed" \in charge[c]]
  /\ UNCHANGED <<task, exc, welded, pwm, pilot, faults, startType, timer>>

DiagVoltOK(c) ==
  /\ "VoltOK" \notin charge[c]
  /\ charge' = [charge EXCEPT ![c] = @ \cup {"VoltOK"}]
  /\ relay' = [relay EXCEPT ![c] = @ \/ state[c] = "CHARGING"]
  /\ UNCHANGED <<task, exc, welded, pwm, pilot, faults, startType, timer>>

(* The diagnosis writes the PWM duty cycle on over-current, and whenever a *)
(* temperature warning comes or goes (SetLoadPercent), in every state.     *)
DiagPwm(c) ==
  /\ pwm' = [pwm EXCEPT ![c] = TRUE]
  /\ UNCHANGED <<task, bits, relay, welded, pilot, faults, startType, timer>>

-----------------------------------------------------------------------------
(* While a connector does not report Working, every pass of the diagnosis  *)
(* that finds an alarm or a fault withdraws the authorisation.             *)
DiagWithdraw(c) ==
  /\ signal[c] # "Working"
  /\ charge' = [charge EXCEPT ![c] = @ \ {"Authed"}]
  /\ UNCHANGED <<task, exc, hw, pilot, faults, startType, timer>>

DiagStep(c) ==
  \/ DiagPlugError(c) \/ DiagLockError(c) \/ DiagCondition(c) \/ DiagVoltBad(c)
  \/ DiagVoltOK(c) \/ DiagPwm(c) \/ DiagWithdraw(c)

-----------------------------------------------------------------------------
(* The other tasks and the hardware.                                       *)

(* RFID (STATE_RFID_GOODID) and remote (REMOTECTRL_IDLE) authorise.        *)
Authorise(c) ==
  /\ charge' = [charge EXCEPT ![c] = @ \cup {"Authed"}]
  /\ \E t \in StartTypes : startType' = [startType EXCEPT ![c] = t]
  /\ UNCHANGED <<task, exc, hw, pilot, faults, timer>>

(* Hold time-out of the card, refused or failed remote start, manual stop. *)
Withdraw(c) ==
  /\ charge' = [charge EXCEPT ![c] = @ \ {"Authed"}]
  /\ UNCHANGED <<task, exc, hw, pilot, faults, startType, timer>>

RequestStop(c) ==
  /\ \E r \in Requests : exc' = [exc EXCEPT ![c] = @ \cup {r}]
  /\ UNCHANGED <<task, charge, hw, pilot, faults, startType, timer>>

(* The timer task runs vChargeStateTimerCB, or handles the deletion.       *)
TimerFires(c) ==
  /\ timer[c] \in {"armed", "deleting"}
  /\ timer' = [timer EXCEPT ![c] = "off"]
  /\ exc' = [exc EXCEPT ![c] = @ \cup {"ChargeTimer"}]
  /\ UNCHANGED <<task, charge, hw, pilot, faults, startType>>

TimerDeleted(c) ==
  /\ timer[c] = "deleting"
  /\ timer' = [timer EXCEPT ![c] = "off"]
  /\ UNCHANGED <<task, bits, hw, pilot, faults, startType>>

(* Contacts weld while they carry current; a repair frees them.            *)
Weld(c) ==
  /\ Energised(c)
  /\ \E w \in BOOLEAN : welded' = [welded EXCEPT ![c] = w]
  /\ UNCHANGED <<task, bits, relay, pwm, pilot, faults, startType, timer>>

DeviceFaults(c) ==
  /\ \E f \in DevFaults : \/ fault' = [fault EXCEPT ![c] = @ \cup {f}]
                          \/ fault' = [fault EXCEPT ![c] = @ \ {f}]
  /\ UNCHANGED <<task, bits, hw, pilot, evFault, startType, timer>>

ChargerFaults ==
  /\ ~Rechecking
  /\ \E f \in EvseFaults : \/ evFault' = evFault \cup {f}
                           \/ evFault' = evFault \ {f}
  /\ UNCHANGED <<task, bits, hw, pilot, fault, startType, timer>>

TaskStep(c) ==
  /\ ~Rechecking
  /\ \/ GetCPState(c) \/ Authorise(c) \/ Withdraw(c) \/ RequestStop(c)
     \/ TimerFires(c) \/ TimerDeleted(c) \/ DeviceFaults(c)

Other(c) == DiagStep(c) \/ TaskStep(c) \/ Weld(c)

Next == (\E c \in CON : ChargeStep(c) \/ Other(c)) \/ ChargerFaults

Spec == Init /\ [][Next]_vars

(* The task's for loop comes back to every connector whatever the others   *)
(* do, hence strong fairness; the monitor samples the pilot periodically.  *)
Fairness == \A c \in CON : SF_vars(ChargeStep(c)) /\ SF_vars(~Rechecking /\ GetCPState(c))

FairSpec == Spec /\ Fairness

-----------------------------------------------------------------------------
(* Properties.                                                             *)

TypeOK ==
  /\ state \in [CON -> States]
  /\ step \in [CON -> Steps]
  /\ signal \in [CON -> {"none", "Standby", "Working", "Stopping", "Fault"}]
  /\ stopTry \in [CON -> 0..5]
  /\ devErr \in [CON -> BOOLEAN]
  /\ charge \in [CON -> SUBSET ChargeBits]
  /\ exc \in [CON -> SUBSET (Requests \cup {"ChargeTimer"})]
  /\ relay \in [CON -> BOOLEAN]
  /\ welded \in [CON -> BOOLEAN]
  /\ pwm \in [CON -> BOOLEAN]
  /\ cp \in [CON -> CPStates]
  /\ cpErr \in [CON -> 0..2]
  /\ age \in [CON -> 0..TriesPerSample]
  /\ fault \in [CON -> SUBSET (DevFaults \cup {"CP", "RelayPaste"})]
  /\ evFault \in SUBSET EvseFaults
  /\ startType \in [CON -> StartTypes \cup {"none"}]
  /\ timer \in [CON -> {"off", "armed", "deleting"}]

(* The contacts carry power only in a session or while a failed stop is    *)
(* being handled: never in IDLE, before the start, or on the way back to   *)
(* IDLE, although the diagnosis closes the relay too and contacts weld.    *)
NoLiveIdle ==
  \A c \in CON : Energised(c) =>
     \/ state[c] = "STARTCHARGE" /\ step[c] = "closing"
     \/ state[c] \in {"CHARGING", "STOPCHARGE", "UNLOCK", "ERROR", "DEV_ERROR"}

(* Power that flows outside the closing delay flows under StartOK, the bit *)
(* by which the data task opens an order and keeps it open.                *)
Billed ==
  \A c \in CON : Energised(c) /\ state[c] # "STARTCHARGE" => "StartOK" \in charge[c]

(* Every session starts with the retry counter and the device-error mark   *)
(* cleared, so none inherits the tries or the verdict of an earlier one.   *)
CleanStart ==
  \A c \in CON : state[c] \notin {"STOPCHARGE", "UNLOCK", "ERROR", "DEV_ERROR", "RETURN"}
                    => stopTry[c] = 0 /\ ~devErr[c]

(* The relay fault is reported only by the state that can withdraw it: no  *)
(* path leaves a connector out of ERROR with RelayPaste set.               *)
PasteFlag ==
  \A c \in CON : "RelayPaste" \in fault[c] => state[c] = "ERROR"

(* While the connector reports Standby it carries power at most between    *)
(* closing the relay and the first visit of CHARGING.                      *)
StandbyIsSafe ==
  \A c \in CON : signal[c] = "Standby" /\ Energised(c)
                    => state[c] \in {"STARTCHARGE", "CHARGING"}

(* A stop request raised in a session ends it.                             *)
StopServed ==
  \A c \in CON : state[c] = "CHARGING" /\ Pending(c) # {} ~> state[c] # "CHARGING"

(* The authorisation is read before the relay closes and may be withdrawn  *)
(* in between; a session without one ends, unless the voltage fails.       *)
UnauthorisedStops ==
  \A c \in CON : state[c] = "CHARGING" /\ "Authed" \notin charge[c]
                    ~> \/ state[c] # "CHARGING" \/ "Authed" \in charge[c]
                       \/ "VoltOK" \notin charge[c]

(* A stop comes to an end: the connector is free again or reports a fault, *)
(* whatever the pilot shows and whether or not the contacts weld.          *)
StopCompletes ==
  \A c \in CON : state[c] = "STOPCHARGE" ~> state[c] \in {"IDLE", "ERROR", "DEV_ERROR"}

(* taskcharge.c leaves an abnormal voltage in CHARGING to the diagnosis:   *)
(* the relay is open there while VoltOK is missing.  Violated by a voltage *)
(* confirmed bad while the relay closes.                                   *)
VoltageProtection ==
  \A c \in CON : state[c] = "CHARGING" /\ "VoltOK" \notin charge[c] => ~relay[c]

(* connector.c, StopCharge: within 3 s or after 3 s the power is cut, so a *)
(* stop never ends with the relay still commanded on.  Violated (README,   *)
(* section 4) by five tries on one stale sample.                           *)
PowerCutBeforeError ==
  \A c \in CON : state[c] \in {"UNLOCK", "ERROR", "DEV_ERROR"} => ~relay[c]
=============================================================================
