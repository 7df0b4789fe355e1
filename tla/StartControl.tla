---------------------------- MODULE StartControl ----------------------------
(***************************************************************************)
(* How a session is authorised, by card or by the platform, and how it     *)
(* gets its order.  Four tasks that share CON_t without a lock:            *)
(*   - the card machine of the RFID task (taskrfid.c), one card at a time; *)
(*   - the remote task's machines for remote start and stop and for the    *)
(*     start of a card session (taskremote.c), which run while logged in;  *)
(*   - the order machine of the data task up to the end of the session     *)
(*     (taskdata.c; OrderTask has the rest);                               *)
(*   - the charge task, seen through Session, which ChargeTask implements. *)
(* Time is counted in units of 10 s, the largest that tells the time-outs  *)
(* apart.                                                                  *)
(***************************************************************************)
EXTENDS Integers, Session

CONSTANT Nobody    \* no connector has been chosen at the reader
ASSUME NobodyAssumption == Nobody \notin CON

StartTimeOut == 2  \* defStartChargeTimeOut_s and defStopChargeTimeOut_s: 20 s
HoldTime == 3      \* ulHoldMaxTime_s: 30 s
CardTimeOut == 6   \* the remote task's wait for a card session: 60 s
MaxAge == 7        \* bound: older time stamps are not told apart
PwdTries == 3      \* timesPwd

VARIABLES
  signal,    \* the work state in ulSignalState
  rfid,      \* pRFIDDev->state; "SYNC": GOODID waits for the data task
  chosen,    \* pRFIDDev->order.ucCONID, the connector chosen at the display
  pwd,       \* timesPwd
  holdAge,   \* time since tHoldStateStartTime
  sync,      \* the connectors whose bit OrderTmp is set
  stat,      \* order.statOrder; "END": FINISH to RETURN
  startType, \* order.ucStartType
  carded,    \* order.strCardID holds the card of the session
  rmt,       \* statRemoteProc.rmt_ctrl.stat
  rmtAge,    \* time since rmt_ctrl.timestamp
  card,      \* statRemoteProc.card.stat; "IDLE" also once the start is reported
  cardAge,   \* time since card.timestamp
  online,    \* remotestat = REMOTE_LOGINED
  checked    \* the connector for which the remote task has just found the
             \* conditions of a start fulfilled

reader == <<rfid, chosen, pwd, holdAge>>
order  == <<stat, startType, carded, rmt, rmtAge, card, cardAge>>
con    == <<phase, authed, startOK, power>>
vars   == <<con, signal, reader, sync, order, online, checked>>

RfidStates == {"NOID", "GOTID", "OLDID", "NEWID", "PWD", "PWDFULL", "BADID", "OWE",
               "GOODID", "SYNC", "HOLD", "TIMEOUT", "RETURN"}
OrderStates == {"IDLE", "TMP", "WAITSTART", "MAKE", "UPDATE", "WAITSTOP", "END"}
CtrlStates == {"IDLE", "WAIT_START", "WAIT_STOP", "SUCC", "FAIL"}

Set(f, c, v) == [f EXCEPT ![c] = v]

Init ==
  /\ SessionInit
  /\ signal = [c \in CON |-> "Standby"]
  /\ rfid = "NOID" /\ chosen = Nobody /\ pwd = PwdTries /\ holdAge = MaxAge
  /\ sync = {}
  /\ stat = [c \in CON |-> "IDLE"]
  /\ startType = [c \in CON |-> "none"]
  /\ carded = [c \in CON |-> FALSE]
  /\ rmt = [c \in CON |-> "IDLE"] /\ rmtAge = [c \in CON |-> MaxAge]
  /\ card = [c \in CON |-> "IDLE"] /\ cardAge = [c \in CON |-> MaxAge]
  /\ online = FALSE /\ checked = Nobody

(* OrderInit zeroes the order with the time stamps and machines in it.     *)
OrderInit(c) ==
  /\ stat' = Set(stat, c, "IDLE")
  /\ startType' = Set(startType, c, "none")
  /\ carded' = Set(carded, c, FALSE)
  /\ rmt' = Set(rmt, c, "IDLE") /\ rmtAge' = Set(rmtAge, c, MaxAge)
  /\ card' = Set(card, c, "IDLE") /\ cardAge' = Set(cardAge, c, MaxAge)

-----------------------------------------------------------------------------
(* The card machine.  Every state of the switch is one action.             *)

Rfid(s, t) == rfid = s /\ rfid' = t

GetCardID ==
  /\ Rfid("NOID", "GOTID")
  /\ UNCHANGED <<con, signal, chosen, pwd, holdAge, sync, order, online, checked>>

(* IsOldID: the card of a connector in CHARGING; the first one is taken.   *)
GotOld ==
  /\ Rfid("GOTID", "OLDID")
  /\ \E c \in CON : phase[c] = "on" /\ carded[c] /\ chosen' = c
  /\ UNCHANGED <<con, signal, pwd, holdAge, sync, order, online, checked>>

(* IsCONAvailable: some connector is neither charging, stopping nor faulty *)
(* and has no order and no remote start.  "ended" is ERROR or DEV_ERROR,   *)
(* which are faulty, or UNLOCK or RETURN, which are not.                   *)
IsCONAvailable(c, free) == phase[c] \in free /\ rmt[c] = "IDLE" /\ stat[c] = "IDLE"

GotNew ==
  /\ LET idle == {"off", "starting", "closing"}
     IN \/ Rfid("GOTID", "NEWID") /\ \E c \in CON : IsCONAvailable(c, idle \cup {"ended"})
        \/ Rfid("GOTID", "RETURN") /\ ~\E c \in CON : IsCONAvailable(c, idle)
  /\ UNCHANGED <<con, signal, chosen, pwd, holdAge, sync, order, online, checked>>

(* Mutant: the connector of the reply is not kept.                         *)
NewIdForgets ==
  /\ rfid = "NEWID"
  /\ rfid' \in {"TIMEOUT", "PWD", "BADID", "OWE", "GOODID"} /\ UNCHANGED chosen
  /\ UNCHANGED <<con, signal, pwd, holdAge, sync, order, online, checked>>

(* canChargeOrNot: the user chooses a connector at the display, then the   *)
(* platform (or the white list) says yes, no, password, or nothing in      *)
(* time.  It sleeps for up to 90 s; the other tasks run meanwhile.  Only   *)
(* the connector chosen with a yes matters.                                *)
NewId ==
  /\ rfid = "NEWID"
  /\ \/ rfid' \in {"TIMEOUT", "PWD", "BADID", "OWE"} /\ UNCHANGED chosen
     \/ rfid' = "GOODID" /\ chosen' \in CON
  /\ UNCHANGED <<con, signal, pwd, holdAge, sync, order, online, checked>>

(* A wrong password, or a refusal, costs a try.  RETURN restores the count *)
(* at the end of the card; it is read only here, so it is restored here.   *)
Pwd ==
  /\ rfid = "PWD"
  /\ \/ rfid' = "TIMEOUT" /\ pwd' = PwdTries /\ UNCHANGED chosen
     \/ rfid' = "GOODID" /\ pwd' = PwdTries /\ chosen' \in CON
     \/ rfid' = "PWDFULL" /\ pwd = 1 /\ pwd' = PwdTries /\ UNCHANGED chosen
     \/ rfid' = "PWD" /\ pwd > 1 /\ pwd' = pwd - 1 /\ UNCHANGED chosen
  /\ UNCHANGED <<con, signal, holdAge, sync, order, online, checked>>

RejectedId ==
  /\ rfid \in {"PWDFULL", "BADID", "OWE", "TIMEOUT"}
  /\ rfid' = "RETURN"
  /\ UNCHANGED <<con, signal, chosen, pwd, holdAge, sync, order, online, checked>>

(* The card of a running session raises a stop request, on which CHARGING  *)
(* stops (ConCharge allows it at any time).  RETURN zeroes the card's      *)
(* order; here and below the connector is forgotten on the way to it.      *)
OldId ==
  /\ Rfid("OLDID", "RETURN")
  /\ chosen' = Nobody
  /\ UNCHANGED <<con, signal, pwd, holdAge, sync, order, online, checked>>

(* The connector is authorised; xEventGroupSync sets OrderTmp and waits    *)
(* for OrderUpdateOK or until 8 s have passed.  Its result is not looked   *)
(* at, so which of the two it was, and a bit OrderUpdateOK that comes too  *)
(* late, decide only when the card goes on to HOLD.                        *)
GoodId ==
  /\ Rfid("GOODID", "SYNC")
  /\ Grant(chosen)
  /\ sync' = sync \cup {chosen}
  /\ UNCHANGED <<signal, chosen, pwd, holdAge, order, online, checked>>

Synced ==
  /\ Rfid("SYNC", "HOLD")
  /\ holdAge' = 0
  /\ UNCHANGED <<con, signal, chosen, pwd, sync, order, online, checked>>

(* Bound: a data task that needs more than the 8 s has taken the bit when  *)
(* the card leaves HOLD, and before another 10 s pass.                     *)
StallBound == sync = {}

(* Mutant: the time in HOLD is unlimited.                                  *)
HoldNeverExpires == FALSE

(* A time-out, of the display or of HOLD itself, is looked at before       *)
(* StartOK.                                                                *)
HoldExpired == holdAge > HoldTime

HoldEnds ==
  /\ Rfid("HOLD", "TIMEOUT") /\ StallBound
  /\ Revoke(chosen)
  /\ OrderInit(chosen)
  /\ chosen' = Nobody /\ holdAge' = MaxAge
  /\ UNCHANGED <<signal, pwd, sync, online, checked>>

HmiTimeOut == HoldEnds

HoldTimeOut == HoldExpired /\ HoldEnds

HoldStarted ==
  /\ Rfid("HOLD", "RETURN")
  /\ ~HoldExpired /\ startOK[chosen] /\ StallBound
  /\ chosen' = Nobody /\ holdAge' = MaxAge
  /\ UNCHANGED <<con, signal, pwd, sync, order, online, checked>>

RfidReturn ==
  /\ Rfid("RETURN", "NOID")
  /\ UNCHANGED <<con, signal, chosen, pwd, holdAge, sync, order, online, checked>>

RfidStep ==
  \/ GotOld \/ GotNew \/ NewId \/ Pwd \/ RejectedId \/ OldId \/ GoodId \/ Synced
  \/ HoldTimeOut \/ HoldStarted \/ RfidReturn

-----------------------------------------------------------------------------
(* The data task: the order up to the end of the session.                  *)

(* OrderTmp: the start type goes to the connector whose bit it is, the     *)
(* state to the connector of the card; they are the same (StallBound).     *)
OrderTmp(c) ==
  /\ c \in sync
  /\ sync' = sync \ {c}
  /\ startType' = Set(startType, c, "Card")
  /\ stat' = Set(stat, c, "TMP")
  /\ UNCHANGED <<con, signal, reader, carded, rmt, rmtAge, card, cardAge, online, checked>>

MakeTmp(c) ==
  /\ stat[c] = "TMP"
  /\ stat' = Set(stat, c, "WAITSTART")
  /\ carded' = Set(carded, c, TRUE)
  /\ card' = Set(card, c, "WAIT_START") /\ cardAge' = Set(cardAge, c, 0)
  /\ UNCHANGED <<con, signal, reader, sync, startType, rmt, rmtAge, online, checked>>

(* WAITSTART gives up after the time-out of the start type, at once for an *)
(* order that has none.                                                    *)
WaitExpired(c) ==
  CASE startType[c] = "Card" -> cardAge[c] > StartTimeOut
    [] startType[c] = "Remote" -> rmtAge[c] > StartTimeOut
    [] OTHER -> TRUE

WaitStart(c) ==
  /\ stat[c] = "WAITSTART"
  /\ startOK[c] \/ WaitExpired(c)
  /\ stat' = Set(stat, c, IF startOK[c] THEN "MAKE" ELSE "IDLE")
  /\ UNCHANGED <<con, signal, reader, sync, startType, carded, rmt, rmtAge, card,
                 cardAge, online, checked>>

MakeOrder(c) ==
  /\ stat[c] = "MAKE"
  /\ stat' = Set(stat, c, "UPDATE")
  /\ UNCHANGED <<con, signal, reader, sync, startType, carded, rmt, rmtAge, card,
                 cardAge, online, checked>>

(* UPDATE: the end of the session, or a limit: the latter is looked at in  *)
(* the pass that has seen the end, too.                                    *)
Update(c) ==
  /\ stat[c] = "UPDATE"
  /\ \/ ~startOK[c] /\ stat' = Set(stat, c, "END")
     \/ stat' = Set(stat, c, "WAITSTOP")
  /\ UNCHANGED <<con, signal, reader, sync, startType, carded, rmt, rmtAge, card,
                 cardAge, online, checked>>

WaitStop(c) ==
  /\ stat[c] = "WAITSTOP" /\ ~startOK[c]
  /\ stat' = Set(stat, c, "END")
  /\ UNCHANGED <<con, signal, reader, sync, startType, carded, rmt, rmtAge, card,
                 cardAge, online, checked>>

(* The order is stored and reset (OrderTask).                              *)
OrderReturn(c) ==
  /\ stat[c] = "END"
  /\ OrderInit(c)
  /\ UNCHANGED <<con, signal, reader, sync, online, checked>>

(* The remote task has the higher priority: the data task does not run     *)
(* between its check and its assignments.                                  *)
DataStep(c) ==
  /\ checked = Nobody
  /\ \/ OrderTmp(c) \/ MakeTmp(c) \/ WaitStart(c) \/ MakeOrder(c) \/ Update(c)
     \/ WaitStop(c) \/ OrderReturn(c)

-----------------------------------------------------------------------------
(* The remote task, while it is logged in: remote start and stop.          *)

Logined == online /\ checked = Nobody

(* RemoteIF_RecvRemoteCtrl writes the start type (and the serial number)   *)
(* of a start command into the order before anything is checked.           *)
RecvStart(c) ==
  /\ Logined
  /\ rmt[c] = "IDLE"
  /\ startType' = Set(startType, c, "Remote")
  /\ rmtAge' = Set(rmtAge, c, 0)
  /\ IF signal[c] = "Standby" /\ rfid = "NOID" /\ stat[c] = "IDLE"
     THEN checked' = c /\ UNCHANGED rmt
     ELSE rmt' = Set(rmt, c, "FAIL") /\ UNCHANGED checked
  /\ UNCHANGED <<con, signal, reader, sync, stat, carded, card, cardAge, online>>

(* The RFID, charge and diagnosis tasks can run before the assignments.    *)
AcceptStart ==
  /\ checked # Nobody
  /\ Grant(checked)
  /\ stat' = Set(stat, checked, "WAITSTART")
  /\ rmt' = Set(rmt, checked, "WAIT_START")
  /\ checked' = Nobody
  /\ UNCHANGED <<signal, reader, sync, startType, carded, rmtAge, card, cardAge, online>>

(* A stop command with the serial number of the order, in whatever state.  *)
RecvStop(c) ==
  /\ Logined
  /\ rmt[c] = "IDLE"
  /\ rmt' = Set(rmt, c, "WAIT_STOP") /\ rmtAge' = Set(rmtAge, c, 0)
  /\ UNCHANGED <<con, signal, reader, sync, stat, startType, carded, card, cardAge,
                 online, checked>>

(* The command has succeeded, or has not within the time-out.              *)
CtrlDone(c) == IF rmt[c] = "WAIT_START" THEN startOK[c] ELSE ~startOK[c]

CtrlWait(c) ==
  /\ Logined
  /\ rmt[c] \in {"WAIT_START", "WAIT_STOP"}
  /\ CtrlDone(c) \/ rmtAge[c] > StartTimeOut
  /\ rmt' = Set(rmt, c, IF CtrlDone(c) THEN "SUCC" ELSE "FAIL")
  /\ UNCHANGED <<con, signal, reader, sync, stat, startType, carded, rmtAge, card,
                 cardAge, online, checked>>

CtrlSucc(c) ==
  /\ Logined
  /\ rmt[c] = "SUCC"
  /\ rmt' = Set(rmt, c, "IDLE")
  /\ UNCHANGED <<con, signal, reader, sync, stat, startType, carded, rmtAge, card,
                 cardAge, online, checked>>

(* Mutant: the fault the source's comment names, a failed start leaves the *)
(* authorisation behind.                                                   *)
CtrlFailKeepsAuth(c) ==
  /\ Logined
  /\ rmt[c] = "FAIL"
  /\ rmt' = Set(rmt, c, "IDLE")
  /\ UNCHANGED <<con, signal, reader, sync, stat, startType, carded, rmtAge, card,
                 cardAge, online, checked>>

(* A failed or refused command clears Authed, whoever set it.              *)
CtrlFail(c) ==
  /\ Logined
  /\ rmt[c] = "FAIL"
  /\ Revoke(c)
  /\ rmt' = Set(rmt, c, "IDLE")
  /\ UNCHANGED <<signal, reader, sync, stat, startType, carded, rmtAge, card,
                 cardAge, online, checked>>

-----------------------------------------------------------------------------
(* The remote task: the start of a card session is reported to the         *)
(* platform, or its failure after 60 s (RemoteLink has what follows).      *)

CardStart(c) ==
  /\ Logined
  /\ card[c] = "WAIT_START"
  /\ IF startOK[c] THEN UNCHANGED con ELSE cardAge[c] > CardTimeOut /\ Revoke(c)
  /\ card' = Set(card, c, "IDLE")
  /\ UNCHANGED <<signal, reader, sync, stat, startType, carded, rmt, rmtAge, cardAge,
                 online, checked>>

Login ==
  /\ ~online /\ online' = TRUE
  /\ UNCHANGED <<con, signal, reader, sync, order, checked>>

Logout ==
  /\ Logined /\ online' = FALSE
  /\ UNCHANGED <<con, signal, reader, sync, order, checked>>

(* The steps the remote task takes by itself while it is logged in.        *)
RemoteStep(c) == CtrlWait(c) \/ CtrlSucc(c) \/ CtrlFail(c) \/ CardStart(c)

-----------------------------------------------------------------------------
(* The charge task, through Session, with the work state it reports.       *)
(* Session leaves open which tasks run between the look at Authed and the  *)
(* closing of the relay; in the code only the diagnosis does.              *)

Others == <<reader, sync, order, online, checked>>

ConStart(c) ==
  /\ See(c) \/ Start(c) \/ PutOff(c) \/ Started(c)
  /\ UNCHANGED <<signal, Others>>

(* A visit of CHARGING goes on or stops (a request, a fault, the plug, a   *)
(* missing authorisation unless the voltage is bad too).                   *)
ConCharge(c) ==
  /\ phase[c] = "on"
  /\ signal' = Set(signal, c, "Working")
  /\ UNCHANGED con \/ Stop(c)
  /\ UNCHANGED Others

ConStop(c) ==
  /\ TryStop(c) \/ Stopped(c) \/ GiveUp(c)
  /\ signal' = Set(signal, c, "Stopping")
  /\ UNCHANGED Others

ConEnd(c) ==
  /\ \/ Abandon(c) /\ UNCHANGED signal
     \/ Release(c) /\ signal' = Set(signal, c, "Standby")
     \/ phase[c] = "ended" /\ Cut(c) /\ UNCHANGED signal
  /\ UNCHANGED Others

(* The diagnosis withdraws the authorisation of a connector with an alarm  *)
(* or fault that does not report Working.                                  *)
DiagRevoke(c) ==
  /\ signal[c] # "Working"
  /\ Revoke(c)
  /\ UNCHANGED <<signal, Others>>

-----------------------------------------------------------------------------
(* Time passes only when no task that runs has a time-out to take or a     *)
(* start to notice: they all poll every 100 ms.                            *)
RfidDue == rfid = "HOLD" /\ (HoldExpired \/ startOK[chosen])
DataDue(c) == stat[c] = "WAITSTART" /\ (startOK[c] \/ WaitExpired(c))
RemoteDue(c) ==
  /\ online
  /\ \/ rmt[c] \in {"WAIT_START", "WAIT_STOP"} /\ (CtrlDone(c) \/ rmtAge[c] > StartTimeOut)
     \/ rmt[c] \in {"SUCC", "FAIL"}
     \/ card[c] = "WAIT_START" /\ (startOK[c] \/ cardAge[c] > CardTimeOut)

(* A time stamp that exceeds its time-out t, or that nobody will compare   *)
(* with, is as good as none.                                               *)
Older(a, t, needed) == IF needed /\ a < t THEN a + 1 ELSE MaxAge

Tick ==
  /\ checked = Nobody /\ rfid # "SYNC" /\ StallBound /\ ~RfidDue
  /\ \A c \in CON : ~DataDue(c) /\ ~RemoteDue(c) /\ stat[c] \notin {"TMP", "MAKE"}
  /\ holdAge' = Older(holdAge, HoldTime, rfid = "HOLD")
  /\ rmtAge' = [c \in CON |-> Older(rmtAge[c], StartTimeOut,
                  stat[c] = "WAITSTART" \/ rmt[c] \in {"WAIT_START", "WAIT_STOP"})]
  /\ cardAge' = [c \in CON |-> Older(cardAge[c], CardTimeOut,
                  stat[c] = "WAITSTART" \/ card[c] = "WAIT_START")]
  /\ UNCHANGED <<con, signal, rfid, chosen, pwd, sync, stat, startType, carded, rmt, card,
                 online, checked>>

Next ==
  \/ GetCardID \/ RfidStep \/ HmiTimeOut \/ AcceptStart \/ Login \/ Logout \/ Tick
  \/ \E c \in CON :
       \/ DataStep(c) \/ RemoteStep(c) \/ RecvStart(c) \/ RecvStop(c)
       \/ ConStart(c) \/ ConCharge(c) \/ ConStop(c) \/ ConEnd(c) \/ DiagRevoke(c)

Spec == Init /\ [][Next]_vars

(* The tasks run and time passes, however often the platform sends a       *)
(* command or the link comes and goes.  Nothing is assumed of the card     *)
(* holder, the platform, the link, the display or the vehicle.             *)
Fairness ==
  /\ WF_vars(RfidStep) /\ WF_vars(AcceptStart) /\ SF_vars(Tick)
  /\ \A c \in CON : WF_vars(DataStep(c)) /\ WF_vars(RemoteStep(c))

FairSpec == Spec /\ Fairness

-----------------------------------------------------------------------------
(* Properties.                                                             *)

TypeOK ==
  /\ phase \in [CON -> Phases] /\ authed \in [CON -> BOOLEAN]
  /\ startOK \in [CON -> BOOLEAN] /\ power \in [CON -> BOOLEAN]
  /\ signal \in [CON -> {"Standby", "Working", "Stopping"}]
  /\ rfid \in RfidStates /\ chosen \in CON \cup {Nobody}
  /\ pwd \in 1..PwdTries /\ holdAge \in 0..MaxAge
  /\ sync \in SUBSET CON
  /\ stat \in [CON -> OrderStates] /\ startType \in [CON -> {"none", "Card", "Remote"}]
  /\ carded \in [CON -> BOOLEAN]
  /\ rmt \in [CON -> CtrlStates] /\ rmtAge \in [CON -> 0..MaxAge]
  /\ card \in [CON -> {"IDLE", "WAIT_START"}] /\ cardAge \in [CON -> 0..MaxAge]
  /\ online \in BOOLEAN /\ checked \in CON \cup {Nobody}
  /\ rfid \in {"OLDID", "GOODID", "SYNC", "HOLD"} => chosen \in CON

(* Every authorisation that has not led to a session is watched by a       *)
(* machine that will withdraw it: the remote start it belongs to, or the   *)
(* card machine in HOLD.  So no vehicle that is plugged in later charges   *)
(* on the authorisation of an earlier user for ever.                       *)
AuthWatched ==
  \A c \in CON : authed[c] /\ phase[c] \in {"off", "starting"} =>
     \/ rmt[c] \in {"WAIT_START", "FAIL"}
     \/ rfid \in {"SYNC", "HOLD"} /\ chosen = c

(* The card reader is free again after every card, whatever the platform,  *)
(* the display, the vehicle and the order do: remote starts need it free.  *)
ReaderFreed == rfid # "NOID" ~> rfid = "NOID"

(* The bug-fix comments at taskremote.c:534 and :580 say that a start that *)
(* failed no longer leaves the authorisation behind, so that the next      *)
(* vehicle does not charge directly.  When the data task has given up the  *)
(* order of a start, the authorisation goes before another 10 s pass.      *)
(* Violated (README, section 4): the card machine watches for 30 s.        *)
AuthHasOrder ==
  [][Tick => \A c \in CON : authed[c] /\ phase[c] = "off" => stat[c] # "IDLE"]_vars

(* taskremote.c:538 answers a start command for a connector that charges   *)
(* with "already started": the command is refused and the session goes on. *)
(* A refusal leaves the authorisation and the order of a session alone.    *)
(* Violated (README, section 4): both are overwritten.                     *)
RefusalLeavesSession ==
  [][\A c \in CON :
        /\ RecvStart(c) \/ CtrlFail(c)
        /\ phase[c] = "on" /\ authed[c] /\ stat[c] = "UPDATE"
        => authed'[c] /\ startType'[c] = startType[c]]_vars
=============================================================================
