-------------------------------- MODULE Diag --------------------------------
(***************************************************************************)
(* The confirmation machines of interface_diag.c: DiagVoltageError,        *)
(* DiagFreqError and DiagCurrentError of a connector.  A bad sample starts *)
(* a timer; only its event bit, set by the timer task, confirms that the   *)
(* quantity is bad, and likewise that it is good again.  The machines do   *)
(* not touch each other: a behaviour follows one of them, q.  Voltage and  *)
(* frequency share a shape; the voltage also operates the relay.           *)
(***************************************************************************)
EXTENDS Naturals, FiniteSets

VARIABLES
  q,         \* the quantity: "Volt", "Freq" or "Curr"
  sample,    \* the last reading, by its place among the limits
  st,        \* xVoltStat, xFreqStat or xCurrStat
  timer,     \* xHandleTimerVolt...: "off", "fresh", or "due" to expire
  bit,       \* defEventBitExceptionVoltTimer...
  ok,        \* defEventBitCONVoltOK...
  alarm,     \* its bits of ulSignalAlarm
  con,       \* pCON->state as far as it matters here, see Cons
  late,      \* history: the voltage is confirmed bad, since a moment between
             \* the check before the start and the first visit of CHARGING
  relay,     \* the output relay is closed
  plug       \* defEventBitCONPlugOK

vars == <<q, sample, st, timer, bit, ok, alarm, con, late, relay, plug>>
env == <<q, sample, con, plug>>
power == <<late, relay>>

Samples == {"Low", "LowBand", "Mid", "HighBand", "High"}
Bands == {"Volt", "Freq"}
Confirming == {"LOWER_Dummy", "UPPER_Dummy"}
Confirmed == {"LOWER", "UPPER"}
(* "checked" and "closing" are STARTCHARGE after it has seen the condition *)
(* fulfilled, and while SetRelay sleeps; all other states are "off".       *)
Cons == {"off", "checked", "closing", "charging"}
DummyOf == [h \in Confirmed |-> IF h = "LOWER" THEN "LOWER_Dummy" ELSE "UPPER_Dummy"]

-----------------------------------------------------------------------------
(* HandleVolt, HandleFreq and HandleCurr; the limits of recovery are       *)
(* tighter by a band (defMonitorVoltPeriod, defMonitorFreqPeriod).         *)
Handle(s) ==
  CASE s = "Low" /\ q # "Curr" -> "LOWER" [] s = "High" -> "UPPER" [] OTHER -> "OK"

(* Mutant: the band widens the limits.                                     *)
HandleWide(s) == "OK"

HandleTight(s) ==
  CASE s \in {"Low", "LowBand"} -> "LOWER" [] s \in {"High", "HighBand"} -> "UPPER"
    [] OTHER -> "OK"

(* xTimerCreate and xTimerStart; xTimerDelete once the event bit has been  *)
(* looked at (and cleared): a timer that is due may still expire before.   *)
StartTimer == timer' = "fresh" /\ UNCHANGED bit

DeleteTimer ==
  /\ timer' = "off"
  /\ bit' \in {FALSE, timer = "due"}

-----------------------------------------------------------------------------
(* DiagVoltageError and DiagFreqError, one action per state.               *)
BandOK ==
  /\ st = "OK"
  /\ alarm' = {}
  /\ \/ /\ Handle(sample) = "OK"
        /\ ok' = TRUE
        /\ UNCHANGED <<st, timer, bit>>
     \/ /\ Handle(sample) # "OK"
        /\ st' = DummyOf[Handle(sample)]
        /\ StartTimer
        /\ UNCHANGED ok
  /\ UNCHANGED power

(* Mutant: the relay stays closed.                                         *)
BandConfirmKeepsRelay ==
  /\ st \in Confirming /\ bit
  /\ DeleteTimer
  /\ ok' = FALSE
  /\ st' = CHOOSE h \in Confirmed : DummyOf[h] = st
  /\ UNCHANGED <<power, alarm>>

(* The event bit counts before the sample does.  The relay is opened of a  *)
(* connector found in CHARGING, and of no other.                           *)
BandConfirm ==
  /\ st \in Confirming /\ bit
  /\ DeleteTimer
  /\ ok' = FALSE
  /\ relay' = (relay /\ ~(q = "Volt" /\ con = "charging"))
  /\ late' = (con \in {"checked", "closing"})
  /\ st' = CHOOSE h \in Confirmed : DummyOf[h] = st
  /\ UNCHANGED alarm

(* Back within the limits, or over to the other side: xTimerReset.         *)
BandWait ==
  /\ st \in Confirming /\ ~bit
  /\ LET h == Handle(sample)
     IN  \/ h = "OK" /\ st' = "OK" /\ DeleteTimer
         \/ h # "OK" /\ st = DummyOf[h] /\ UNCHANGED <<st, timer, bit>>
         \/ h # "OK" /\ st # DummyOf[h] /\ st' = DummyOf[h] /\ StartTimer
  /\ UNCHANGED <<ok, alarm, power>>

AlarmOf(h) == IF q = "Freq" THEN {"Cri"} ELSE IF h = "LOWER" THEN {"Low"} ELSE {"Up"}

(* Mutant: the alarm of the other side stays.                              *)
BandBadKeepsAlarm ==
  /\ st \in Confirmed
  /\ \/ /\ HandleTight(sample) = "OK"
        /\ st' = "OK_Dummy"
        /\ StartTimer
        /\ UNCHANGED alarm
     \/ /\ HandleTight(sample) # "OK"
        /\ alarm' = alarm \cup AlarmOf(HandleTight(sample))
        /\ UNCHANGED <<st, timer, bit>>
  /\ UNCHANGED <<ok, power>>

BandBad ==
  /\ st \in Confirmed
  /\ \/ /\ HandleTight(sample) = "OK"
        /\ st' = "OK_Dummy"
        /\ StartTimer
        /\ UNCHANGED alarm
     \/ /\ HandleTight(sample) # "OK"
        /\ alarm' = AlarmOf(HandleTight(sample))
        /\ UNCHANGED <<st, timer, bit>>
  /\ UNCHANGED <<ok, power>>

BandRecover ==
  /\ st = "OK_Dummy"
  /\ \/ /\ bit
        /\ DeleteTimer
        /\ ok' = TRUE
        /\ relay' = (relay \/ (q = "Volt" /\ con = "charging"))
        /\ late' = FALSE
        /\ st' = "OK"
     \/ /\ ~bit /\ HandleTight(sample) # "OK"
        /\ DeleteTimer
        /\ st' = HandleTight(sample)
        /\ UNCHANGED <<ok, power>>
  /\ UNCHANGED alarm

-----------------------------------------------------------------------------
(* DiagCurrentError, one action per state.  (CurrOK also switches the      *)
(* pilot's PWM on again when the current exceeds the limit: ChargeTask has *)
(* that, and nothing here depends on it.)                                  *)
CurrInit ==
  /\ st = "INIT"
  /\ st' = "DELAY"
  /\ StartTimer
  /\ UNCHANGED <<ok, alarm>>

CurrDelay ==
  /\ st = "DELAY" /\ bit
  /\ st' = "OK"
  /\ DeleteTimer
  /\ UNCHANGED <<ok, alarm>>

CurrOK ==
  /\ st = "OK"
  /\ alarm' = {}
  /\ \/ /\ Handle(sample) = "OK"
        /\ ok' = TRUE
        /\ UNCHANGED <<st, timer, bit>>
     \/ /\ Handle(sample) = "UPPER"
        /\ st' = "UPPER_Dummy"
        /\ StartTimer
        /\ UNCHANGED ok

(* Mutant: the plug is asked the wrong way round.                          *)
CurrLeavePlugged ==
  /\ alarm' = {"Cri"}
  /\ st' = IF plug /\ Handle(sample) # "UPPER" THEN "INIT" ELSE "ERROR"

(* The second switch of DiagCurrentError: what the pass ends with in       *)
(* STATE_CURR_ERROR.                                                       *)
CurrLeave ==
  /\ alarm' = {"Cri"}
  /\ st' = IF ~plug /\ Handle(sample) # "UPPER" THEN "INIT" ELSE "ERROR"

(* Mutant: the second timer is not started.                                *)
CurrFixUntimed ==
  /\ st = "UPPER_Dummy"
  /\ alarm' = {"War"}
  /\ \/ /\ bit
        /\ st' = "UPPER_Fix"
        /\ DeleteTimer
     \/ /\ ~bit /\ Handle(sample) = "OK"
        /\ st' = "OK"
        /\ DeleteTimer
     \/ /\ ~bit /\ Handle(sample) = "UPPER"
        /\ UNCHANGED <<st, timer, bit>>
  /\ UNCHANGED ok

CurrFix ==
  /\ st = "UPPER_Dummy"
  /\ alarm' = {"War"}
  /\ \/ /\ bit
        /\ st' = "UPPER_Fix"
        /\ timer' = "fresh"
        /\ bit' \in {FALSE, timer = "due"}
     \/ /\ ~bit /\ Handle(sample) = "OK"
        /\ st' = "OK"
        /\ DeleteTimer
     \/ /\ ~bit /\ Handle(sample) = "UPPER"
        /\ UNCHANGED <<st, timer, bit>>
  /\ UNCHANGED ok

CurrConfirm ==
  /\ st = "UPPER_Fix"
  /\ \/ /\ bit
        /\ DeleteTimer
        /\ ok' = FALSE
        /\ CurrLeave
     \/ /\ ~bit /\ Handle(sample) = "OK"
        /\ st' = "OK"
        /\ DeleteTimer
        /\ UNCHANGED <<ok, alarm>>

CurrError ==
  /\ st = "ERROR"
  /\ CurrLeave
  /\ UNCHANGED <<timer, bit, ok>>

-----------------------------------------------------------------------------
(* A pass of the diagnosis over new charging data.                         *)
Diagnose ==
  /\ \/ q \in Bands /\ (BandOK \/ BandConfirm \/ BandWait \/ BandBad \/ BandRecover)
     \/ /\ q = "Curr"
        /\ CurrInit \/ CurrDelay \/ CurrOK \/ CurrFix \/ CurrConfirm \/ CurrError
        /\ UNCHANGED power
  /\ UNCHANGED env

(* The timer runs, and its callback sets the event bit.                    *)
Elapse ==
  /\ timer = "fresh"
  /\ timer' = "due"
  /\ UNCHANGED <<env, st, bit, ok, alarm, power>>

TimerCB ==
  /\ timer = "due"
  /\ timer' = "off" /\ bit' = TRUE
  /\ UNCHANGED <<env, st, ok, alarm, power>>

(* The reading and the plug change.                                        *)
Sample ==
  /\ sample' \in Samples
  /\ UNCHANGED <<q, con, plug, st, timer, bit, ok, alarm, power>>

Plug ==
  /\ plug' = ~plug
  /\ UNCHANGED <<q, sample, con, st, timer, bit, ok, alarm, power>>

(* The charge task (ChargeTask has the rest): STARTCHARGE checks the       *)
(* condition, goes back or closes the relay by what it has seen, sleeps in *)
(* SetRelay, enters CHARGING, and the session is stopped at any time.      *)
Go(a, b) == con = a /\ con' = b

Charge ==
  /\ \/ Go("off", "checked") /\ ok /\ late' = FALSE /\ UNCHANGED relay
     \/ Go("checked", "off") /\ UNCHANGED power
     \/ Go("checked", "closing") /\ relay' = TRUE /\ UNCHANGED late
     \/ Go("closing", "charging") /\ UNCHANGED power
     \/ Go("charging", "off") /\ relay' = FALSE /\ UNCHANGED late
  /\ UNCHANGED <<q, sample, plug, st, timer, bit, ok, alarm>>

Init ==
  /\ q \in Bands \cup {"Curr"}
  /\ sample = "Mid" /\ plug = FALSE
  /\ st = IF q = "Curr" THEN "INIT" ELSE "OK"
  /\ timer = "off" /\ bit = FALSE /\ ok = FALSE /\ alarm = {}
  /\ con = "off" /\ late = FALSE /\ relay = FALSE

Next == Diagnose \/ Elapse \/ TimerCB \/ Sample \/ Plug \/ Charge

Spec == Init /\ [][Next]_vars

(* The monitor delivers data and the diagnosis passes for ever; a timer    *)
(* that is left alone expires.                                             *)
FairSpec == Spec /\ WF_vars(Diagnose) /\ WF_vars(Elapse) /\ WF_vars(TimerCB)

-----------------------------------------------------------------------------
(* Types; a quantity has one alarm at a time.                              *)
TypeOK ==
  /\ q \in Bands \cup {"Curr"} /\ sample \in Samples
  /\ st \in IF q = "Curr" THEN {"INIT", "DELAY", "OK", "UPPER_Dummy", "UPPER_Fix", "ERROR"}
                           ELSE {"OK", "OK_Dummy"} \cup Confirming \cup Confirmed
  /\ timer \in {"off", "fresh", "due"}
  /\ {bit, ok, late, relay, plug} \subseteq BOOLEAN /\ con \in Cons
  /\ alarm \subseteq {"Low", "Up", "War", "Cri"} /\ Cardinality(alarm) <= 1

(* RelayFollowsVoltage: whatever confirmations, recoveries and left-over   *)
(* event bits come together, the relay of a charging connector is closed   *)
(* exactly while DiagVoltageError reports VoltOK -- but for a voltage that *)
(* was confirmed bad after the check before the start: nobody opens the    *)
(* relay for it (the run ChargeVoltage), until it is good and bad again.   *)
RelayFollowsVoltage == q = "Volt" /\ con = "charging" => (relay <=> ok \/ late)

(* BadIsReported: a quantity that stays beyond a limit ends up reported    *)
(* not OK and in alarm for good, also when a bit of an earlier             *)
(* confirmation is left over.                                              *)
BadIsReported ==
  \A s \in {"Low", "High"} :
    <>[](sample = s /\ Handle(s) # "OK") => <>[](~ok /\ alarm # {})

(* GoodIsReported: a quantity that stays well within its limits ends up    *)
(* reported OK, without alarm, for good; the over-current error also needs *)
(* the vehicle unplugged.                                                  *)
GoodIsReported ==
  <>[](sample = "Mid" /\ (q = "Curr" => ~plug)) => <>[](ok /\ alarm = {})

(* Settles: a constant reading, in the band between the limits of fault    *)
(* and of recovery too, never makes the report change for ever.            *)
Settles ==
  \A s \in Samples :
    <>[](sample = s) => (<>[]ok \/ <>[]~ok)

=============================================================================
