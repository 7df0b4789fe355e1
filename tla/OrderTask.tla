----------------------------- MODULE OrderTask -----------------------------
(***************************************************************************)
(* The life of an order: the order machine of the data task (taskdata.c),  *)
(* its files (cfg_order.c), and the two machines of the remote task that   *)
(* upload orders to the platform (taskremote.c): the one of the connector  *)
(* for the order just finished, and the one that uploads again what was    *)
(* stored unpaid.  Both talk to the platform through RemoteIF_SendOrder    *)
(* and RemoteIF_RecvOrder with one command per connector, so that they     *)
(* share its request, its replies and its time-out.                        *)
(*                                                                         *)
(* An order is its serial number; its content is left out.  StartOK comes  *)
(* and goes as in Session; the plug is an input.  Power may fail at any    *)
(* step, and inside the write of a file, which SetCfgObj truncates first.  *)
(***************************************************************************)
EXTENDS OrderList

CONSTANTS
  CON,         \* the connectors
  MaxOrders,   \* bound: the serial numbers that are given out
  MaxLosses,   \* bound: power failures
  BusyStarts   \* the platform may send a start command that is refused

ASSUME ConnectorsAssumption == CON # {}
ASSUME OrdersAssumption == MaxOrders \in Nat
ASSUME LossesAssumption == MaxLosses \in Nat
ASSUME StartsAssumption == BusyStarts \in BOOLEAN

SN == 1..MaxOrders
None == 0
Timeout == -1
Torn == -2

VARIABLES
  startOK,    \* defEventBitCONStartOK
  next,       \* the next serial number
  stat,       \* pCON->order.statOrder
  sn,         \* pCON->order.ullOrderSN
  pay,        \* pCON->order.ucPayStatus
  bits,       \* xHandleEventOrder, but for the stop types
  tmp,        \* the temporary order file
  check,      \* OrderTmp.ucCheckOrderTmp
  ram,        \* jsEVSEOrderObj: the list of orders
  ramPaid,    \* those with ucPayStatus 1
  flash,      \* the order file
  flashPaid,
  storeTimer, \* xHandleTimerStoreOrder runs
  logined,    \* defSignalEVSE_State_Network_Logined
  up,         \* statRemoteProc.order.stat
  rt,         \* statRemoteProc.rtdata.stat
  np,         \* order_nopay_stat
  npCon,      \* OrderNoPay.ucCONID
  npSN,       \* OrderNoPay.ullOrderSN
  req,        \* the unanswered ORDER commands of a connector in plechSendCmd
  rep,        \* the replies in plRecvCmd
  late,       \* defEventBitProtoCmdDataTimeout of the ORDER command
  acked,      \* the orders the platform has accepted
  home,       \* the connector of a serial number
  losses      \* power failures so far

order == <<stat, sn, pay, next, home>>
files == <<tmp, flash, flashPaid>>
list == <<ram, ramPaid, storeTimer>>
remote == <<logined, up, rt, np, npCon, npSN>>
wire == <<req, rep, late, acked>>
vars == <<startOK, order, bits, check, files, list, remote, wire, losses>>

OrderStates == {"IDLE", "TMP", "WAITSTART", "MAKE", "UPDATE", "WAITSTOP", "FINISH",
                "WAITUSE", "STORE", "HOLD", "RETURN"}
OrderBits == {"MakeOK", "MakeFinish", "FinishToRemote", "RemoteOrderOK", "RTDataOK",
              "TimeOut", "TmpTimer"}
UploadStates == {"IDLE", "WaitOrder", "Send", "WaitRecv"}

Useless == {"RemoteOrderOK", "RTDataOK"}

All(v) == [c \in CON |-> v]
Goto(c, s) == stat' = [stat EXCEPT ![c] = s]
SetBits(c, B) == bits' = [bits EXCEPT ![c] = @ \cup B]
ClearBits(c, B) == bits' = [bits EXCEPT ![c] = @ \ B]

-----------------------------------------------------------------------------
Init ==
  /\ startOK = All(FALSE)
  /\ next = 1 /\ home = [s \in SN |-> CHOOSE c \in CON : TRUE]
  /\ stat = All("IDLE") /\ sn = All(None) /\ pay = All(0)
  /\ bits = All({})
  /\ tmp = All(None) /\ check = All(TRUE)
  /\ ram = <<>> /\ ramPaid = {} /\ flash = <<>> /\ flashPaid = {}
  /\ storeTimer = FALSE
  /\ logined = FALSE
  /\ up = All("IDLE") /\ rt = All("IDLE")
  /\ np = "IDLE" /\ npCon = (CHOOSE c \in CON : TRUE) /\ npSN = None
  /\ req = All({}) /\ rep = All({}) /\ late = FALSE
  /\ acked = {}
  /\ losses = 0

-----------------------------------------------------------------------------
(* A session runs under an order; what happens to an authorisation that    *)
(* outlives its order is not the subject of this module.                   *)
SessionStarts(c) ==
  /\ ~startOK[c] /\ stat[c] = "WAITSTART"
  /\ startOK' = [startOK EXCEPT ![c] = TRUE]
  /\ UNCHANGED <<order, bits, check, files, list, remote, wire, losses>>

SessionEnds(c) ==
  /\ startOK[c]
  /\ startOK' = [startOK EXCEPT ![c] = FALSE]
  /\ UNCHANGED <<order, bits, check, files, list, remote, wire, losses>>

-----------------------------------------------------------------------------
(* The data task.  A card start goes through TMP, a remote start sets      *)
(* WAITSTART directly; the serial number is the platform's.  Neither can   *)
(* come before the first passes have looked for a temporary order.  (A     *)
(* card of the white list starts without a serial number; not modelled.)   *)
StartOrder(c) ==
  /\ stat[c] = "IDLE" /\ next \in SN /\ logined
  /\ ~check[c]
  /\ \E s \in {"TMP", "WAITSTART"} : Goto(c, s)
  /\ sn' = [sn EXCEPT ![c] = next]
  /\ home' = [home EXCEPT ![next] = c]
  /\ next' = next + 1
  /\ UNCHANGED <<startOK, pay, bits, check, files, list, remote, wire, losses>>

(* RemoteIF_RecvRemoteCtrl writes the serial number of a start command     *)
(* into the order before REMOTECTRL_IDLE looks whether the connector is    *)
(* free; this start is refused.                                            *)
RefuseStart(c) ==
  /\ BusyStarts /\ logined /\ next \in SN
  /\ sn' = [sn EXCEPT ![c] = next]
  /\ home' = [home EXCEPT ![next] = c]
  /\ next' = next + 1
  /\ UNCHANGED <<startOK, stat, pay, bits, check, files, list, remote, wire, losses>>

Tmp(c) ==
  /\ stat[c] = "TMP"
  /\ Goto(c, "WAITSTART")
  /\ UNCHANGED <<startOK, sn, pay, next, home, bits, check, files, list, remote, wire, losses>>

(* StartOK, or the start time-out.                                         *)
WaitStart(c) ==
  /\ stat[c] = "WAITSTART"
  /\ Goto(c, IF startOK[c] THEN "MAKE" ELSE "IDLE")
  /\ UNCHANGED <<startOK, sn, pay, next, home, bits, check, files, list, remote, wire, losses>>

Make(c) ==
  /\ stat[c] = "MAKE"
  /\ SetBits(c, {"MakeOK"})
  /\ Goto(c, "UPDATE")
  /\ UNCHANGED <<startOK, sn, pay, next, home, check, files, list, remote, wire, losses>>

(* vOrderTmpTimerCB, every 10 s of a session.                              *)
TmpTimer(c) ==
  /\ stat[c] \in {"UPDATE", "WAITSTOP"}
  /\ SetBits(c, {"TmpTimer"})
  /\ UNCHANGED <<startOK, order, check, files, list, remote, wire, losses>>

(* A limit that is reached leads to WAITSTOP, even from an order that this *)
(* visit has just found finished.                                          *)
Update(c) ==
  /\ stat[c] = "UPDATE"
  /\ \E limit \in BOOLEAN :
       Goto(c, IF limit THEN "WAITSTOP" ELSE IF startOK[c] THEN "UPDATE" ELSE "FINISH")
  /\ tmp' = [tmp EXCEPT ![c] = IF "TmpTimer" \in bits[c] THEN sn[c] ELSE @]
  /\ ClearBits(c, {"TmpTimer"})
  /\ UNCHANGED <<startOK, sn, pay, next, home, check, flash, flashPaid, list, remote, wire, losses>>

WaitStop(c) ==
  /\ stat[c] = "WAITSTOP" /\ ~startOK[c]
  /\ Goto(c, "FINISH")
  /\ UNCHANGED <<startOK, sn, pay, next, home, bits, check, files, list, remote, wire, losses>>

(* Mutant: the finished order is not written to the temporary file.        *)
FinishUnsaved(c) ==
  /\ stat[c] = "FINISH"
  /\ bits' = [bits EXCEPT ![c] = (@ \ {"MakeOK", "TimeOut"}) \cup {"MakeFinish", "FinishToRemote"}]
  /\ Goto(c, "WAITUSE")
  /\ UNCHANGED <<startOK, sn, pay, next, home, check, tmp, flash, flashPaid, list, remote, wire, losses>>

Finish(c) ==
  /\ stat[c] = "FINISH"
  /\ tmp' = [tmp EXCEPT ![c] = sn[c]]
  /\ bits' = [bits EXCEPT ![c] = (@ \ {"MakeOK", "TimeOut"}) \cup {"MakeFinish", "FinishToRemote"}]
  /\ Goto(c, "WAITUSE")
  /\ UNCHANGED <<startOK, sn, pay, next, home, check, flash, flashPaid, list, remote, wire, losses>>

(* Mutant: an order finished without the network waits for it.            *)
WaitUseOnline(c) ==
  /\ stat[c] = "WAITUSE"
  /\ \/ /\ logined /\ Useless \subseteq bits[c]
        /\ ClearBits(c, Useless)
        /\ pay' = [pay EXCEPT ![c] = 1]
     \/ /\ logined /\ ~(Useless \subseteq bits[c]) /\ "TimeOut" \in bits[c]
        /\ ClearBits(c, {"TimeOut"})
        /\ UNCHANGED pay
  /\ Goto(c, "STORE")
  /\ UNCHANGED <<startOK, sn, next, home, check, files, list, remote, wire, losses>>

(* The order is used up when upload and last real-time data are done: it   *)
(* is paid.  Otherwise it is stored unpaid: when the upload timed out, 60  *)
(* s after the stop, or at once without the network.                       *)
WaitUse(c) ==
  /\ stat[c] = "WAITUSE"
  /\ \/ /\ logined /\ Useless \subseteq bits[c]
        /\ ClearBits(c, Useless)
        /\ pay' = [pay EXCEPT ![c] = 1]
     \/ /\ logined /\ ~(Useless \subseteq bits[c]) /\ "TimeOut" \in bits[c]
        /\ ClearBits(c, {"TimeOut"})
        /\ UNCHANGED pay
     \/ /\ ~logined
        /\ UNCHANGED <<bits, pay>>
  /\ Goto(c, "STORE")
  /\ UNCHANGED <<startOK, sn, next, home, check, files, list, remote, wire, losses>>

WaitUseForced(c) ==
  /\ stat[c] = "WAITUSE" /\ logined /\ ~(Useless \subseteq bits[c])
  /\ Goto(c, "STORE")
  /\ UNCHANGED <<startOK, sn, pay, next, home, bits, check, files, list, remote, wire, losses>>

(* Mutant: RemoveOrderTmp is forgotten.                                    *)
StoreKeepsTmp(c) ==
  /\ stat[c] = "STORE"
  /\ ram' = AddOrderCfg(ram, sn[c])
  /\ ramPaid' = (ramPaid \cup (IF pay[c] = 1 THEN {sn[c]} ELSE {})) \cap ToSet(ram')
  /\ storeTimer' = TRUE
  /\ ClearBits(c, {"MakeFinish"})
  /\ Goto(c, "HOLD")
  /\ UNCHANGED <<startOK, sn, pay, next, home, check, tmp, flash, flashPaid, remote, wire, losses>>

(* AddOrderCfg, RemoveOrderTmp: the list is in RAM and its file is written *)
(* when the timer that AddOrderCfg restarts expires (Flush).               *)
Store(c) ==
  /\ stat[c] = "STORE"
  /\ ram' = AddOrderCfg(ram, sn[c])
  /\ ramPaid' = (ramPaid \cup (IF pay[c] = 1 THEN {sn[c]} ELSE {})) \cap ToSet(ram')
  /\ storeTimer' = TRUE
  /\ tmp' = [tmp EXCEPT ![c] = None]
  /\ ClearBits(c, {"MakeFinish"})
  /\ Goto(c, "HOLD")
  /\ UNCHANGED <<startOK, sn, pay, next, home, check, flash, flashPaid, remote, wire, losses>>

(* A visit that finds the plug pulled; until then the order stays.         *)
Hold(c) ==
  /\ stat[c] = "HOLD"
  /\ Goto(c, "RETURN")
  /\ UNCHANGED <<startOK, sn, pay, next, home, bits, check, files, list, remote, wire, losses>>

(* OrderInit clears the order with its upload and real-time data states,   *)
(* not the event bits.                                                     *)
Return(c) ==
  /\ stat[c] = "RETURN"
  /\ Goto(c, "IDLE")
  /\ sn' = [sn EXCEPT ![c] = None]
  /\ pay' = [pay EXCEPT ![c] = 0]
  /\ up' = [up EXCEPT ![c] = "IDLE"]
  /\ rt' = [rt EXCEPT ![c] = "IDLE"]
  /\ UNCHANGED <<startOK, next, home, bits, check, files, list, logined, np, npCon, npSN, wire, losses>>

(* Mutant: a missing file is taken for an order.                           *)
CheckOrderTmpBlind(c) ==
  /\ check[c]
  /\ ram' = AddOrderCfg(ram, tmp[c])
  /\ ramPaid' = ramPaid \cap ToSet(ram')
  /\ storeTimer' = TRUE
  /\ tmp' = [tmp EXCEPT ![c] = None]
  /\ check' = [check EXCEPT ![c] = FALSE]
  /\ UNCHANGED <<startOK, order, bits, flash, flashPaid, remote, wire, losses>>

(* After power-up: a temporary order file is an order the power failure    *)
(* interrupted, unless its write was (Torn): one that cannot be parsed is  *)
(* removed.  The check ends with the pass that finds no file.              *)
CheckOrderTmp(c) ==
  /\ check[c]
  /\ \/ /\ tmp[c] \in SN
        /\ ram' = AddOrderCfg(ram, tmp[c])
        /\ ramPaid' = ramPaid \cap ToSet(ram')
        /\ storeTimer' = TRUE
        /\ tmp' = [tmp EXCEPT ![c] = None]
        /\ UNCHANGED check
     \/ /\ tmp[c] = Torn
        /\ tmp' = [tmp EXCEPT ![c] = None]
        /\ UNCHANGED <<list, check>>
     \/ /\ tmp[c] = None
        /\ check' = [check EXCEPT ![c] = FALSE]
        /\ UNCHANGED <<list, tmp>>
  /\ UNCHANGED <<startOK, order, bits, flash, flashPaid, remote, wire, losses>>

(* What a restart of the charger leaves: the files.                        *)
Restart ==
  /\ startOK' = All(FALSE)
  /\ stat' = All("IDLE") /\ sn' = All(None) /\ pay' = All(0)
  /\ bits' = All({}) /\ check' = All(TRUE)
  /\ ram' = flash' /\ ramPaid' = flashPaid' /\ storeTimer' = FALSE
  /\ logined' = FALSE /\ up' = All("IDLE") /\ rt' = All("IDLE") /\ np' = "IDLE"
  /\ req' = All({}) /\ rep' = All({}) /\ late' = FALSE
  /\ UNCHANGED <<next, home, npCon, npSN, acked>>

(* GetCfgObj finds the torn temporary file empty: it removes it and resets *)
(* the charger, with what the list in RAM has that its file has not.       *)
CheckOrderTmpEmpty(c) ==
  /\ check[c] /\ tmp[c] = Torn
  /\ tmp' = [tmp EXCEPT ![c] = None]
  /\ UNCHANGED <<flash, flashPaid, losses>>
  /\ Restart

Flush ==
  /\ storeTimer
  /\ flash' = ram /\ flashPaid' = ramPaid
  /\ storeTimer' = FALSE
  /\ UNCHANGED <<startOK, order, bits, check, tmp, ram, ramPaid, remote, wire, losses>>

DataStep(c) ==
  \/ Tmp(c) \/ WaitStart(c) \/ Make(c) \/ Update(c) \/ WaitStop(c) \/ Finish(c)
  \/ WaitUse(c) \/ Store(c) \/ Return(c) \/ CheckOrderTmp(c) \/ CheckOrderTmpEmpty(c)

-----------------------------------------------------------------------------
(* The remote task, while it is logged in.                                 *)

UploadIdle(c) ==
  /\ logined /\ up[c] = "IDLE" /\ startOK[c]
  /\ up' = [up EXCEPT ![c] = "WaitOrder"]
  /\ UNCHANGED <<startOK, order, bits, check, files, list, logined, rt, np, npCon, npSN, wire, losses>>

UploadWait(c) ==
  /\ logined /\ up[c] = "WaitOrder" /\ "FinishToRemote" \in bits[c]
  /\ ClearBits(c, {"FinishToRemote"})
  /\ up' = [up EXCEPT ![c] = "Send"]
  /\ UNCHANGED <<startOK, order, check, files, list, logined, rt, np, npCon, npSN, wire, losses>>

UploadSend(c) ==
  /\ logined /\ up[c] = "Send"
  /\ req' = [req EXCEPT ![c] = @ \cup {sn[c]}]
  /\ up' = [up EXCEPT ![c] = "WaitRecv"]
  /\ UNCHANGED <<startOK, order, bits, check, files, list, logined, rt, np, npCon, npSN,
                 rep, late, acked, losses>>

(* RemoteRecvHandleWithCON: takes the newest reply of the connector and    *)
(* drops the others and every request of the connector; a time-out of the  *)
(* command, of whichever connector, overrides a reply.                     *)
Receive(c, answer) ==
  /\ \/ late /\ answer = Timeout
     \/ ~late /\ answer \in rep[c]
  /\ rep' = [rep EXCEPT ![c] = {}]
  /\ req' = [req EXCEPT ![c] = IF rep[c] = {} THEN @ ELSE {}]
  /\ late' = FALSE
  /\ UNCHANGED acked

UploadRecv(c) ==
  /\ logined /\ up[c] = "WaitRecv"
  /\ \/ /\ Receive(c, sn[c])
        /\ SetBits(c, {"RemoteOrderOK"})
        /\ up' = [up EXCEPT ![c] = "IDLE"]
        /\ UNCHANGED <<logined, np>>
     \/ /\ \E s \in SN \ {sn[c]} : Receive(c, s)
        /\ UNCHANGED <<bits, up, logined, np>>
     \/ /\ Receive(c, Timeout)
        /\ SetBits(c, {"TimeOut"})
        /\ up' = [up EXCEPT ![c] = "IDLE"]
        /\ logined' = FALSE
        /\ np' = "IDLE"
  /\ UNCHANGED <<startOK, order, check, files, list, rt, npCon, npSN, losses>>

(* Real-time data: the last message of a session, then RemoteRTDataOK.     *)
RTData(c) ==
  /\ logined
  /\ \/ /\ rt[c] = "IDLE" /\ startOK[c]
        /\ rt' = [rt EXCEPT ![c] = "START"]
        /\ UNCHANGED bits
     \/ /\ rt[c] = "START" /\ ~startOK[c]
        /\ rt' = [rt EXCEPT ![c] = "STOP"]
        /\ UNCHANGED bits
     \/ /\ rt[c] = "STOP"
        /\ SetBits(c, {"RTDataOK"})
        /\ rt' = [rt EXCEPT ![c] = "IDLE"]
  /\ UNCHANGED <<startOK, order, check, files, list, logined, up, np, npCon, npSN, wire, losses>>

(* Unpaid orders of the list, oldest first: after every login, and every   *)
(* 10 minutes.                                                             *)
NoPayIdle ==
  /\ logined /\ np = "IDLE"
  /\ np' = "WaitOrder"
  /\ UNCHANGED <<startOK, order, bits, check, files, list, logined, up, rt, npCon, npSN, wire, losses>>

NoPayWait ==
  /\ logined /\ np = "WaitOrder"
  /\ \/ Unpaid(ram, ramPaid) = {} /\ np' = "IDLE" /\ UNCHANGED <<npSN, npCon>>
     \/ /\ Unpaid(ram, ramPaid) # {} /\ np' = "Send"
        /\ npSN' = FirstUnpaid(ram, ramPaid) /\ npCon' = home[npSN']
  /\ UNCHANGED <<startOK, order, bits, check, files, list, logined, up, rt, wire, losses>>

NoPaySend ==
  /\ logined /\ np = "Send"
  /\ req' = [req EXCEPT ![npCon] = @ \cup {npSN}]
  /\ np' = "WaitRecv"
  /\ UNCHANGED <<startOK, order, bits, check, files, list, logined, up, rt, npCon, npSN,
                 rep, late, acked, losses>>

(* A reply with another serial number is taken for a refusal, and          *)
(* SetOrderPaid sets the status 1 for a refused order too.                 *)
NoPayRecv ==
  /\ logined /\ np = "WaitRecv"
  /\ \/ /\ \E s \in SN : Receive(npCon, s)
        /\ ramPaid' = ramPaid \cup ({npSN} \cap ToSet(ram))
        /\ storeTimer' = TRUE
        /\ np' = "WaitOrder"
        /\ UNCHANGED logined
     \/ /\ Receive(npCon, Timeout)
        /\ np' = "IDLE"
        /\ logined' = FALSE
        /\ UNCHANGED <<ramPaid, storeTimer>>
  /\ UNCHANGED <<startOK, order, bits, check, files, ram, up, rt, npCon, npSN, losses>>

RemoteStep(c) ==
  UploadIdle(c) \/ UploadWait(c) \/ UploadSend(c) \/ UploadRecv(c) \/ RTData(c)
NoPayStep == NoPayIdle \/ NoPayWait \/ NoPaySend \/ NoPayRecv

-----------------------------------------------------------------------------
(* The platform answers a request, perhaps late and more than once (it is  *)
(* sent up to three times); or the request expires.                        *)
Answer(c) ==
  /\ logined
  /\ \E s \in req[c] \cup {t \in acked : home[t] = c} :
        /\ acked' = acked \cup {s}
        /\ rep' = [rep EXCEPT ![c] = @ \cup {s}]
  /\ UNCHANGED <<startOK, order, bits, check, files, list, remote, req, late, losses>>

Expire(c) ==
  /\ logined
  /\ \E s \in req[c] : req' = [req EXCEPT ![c] = @ \ {s}]
  /\ late' = TRUE
  /\ UNCHANGED <<startOK, order, bits, check, files, list, remote, rep, acked, losses>>

(* The next login checks for unpaid orders.                                *)
Login ==
  /\ ~logined
  /\ logined' = TRUE
  /\ np' = "WaitOrder"
  /\ UNCHANGED <<startOK, order, bits, check, files, list, up, rt, npCon, npSN, wire, losses>>

Logout ==
  /\ logined
  /\ logined' = FALSE
  /\ UNCHANGED <<startOK, order, bits, check, files, list, up, rt, np, npCon, npSN, wire, losses>>

(* SetCfgObj truncates the file it writes: the list (Flush), or a          *)
(* temporary order (UPDATE, FINISH).  An empty list file is removed and    *)
(* created anew.  (A part of the list cannot be parsed and stops the data  *)
(* task for ever; not modelled.)                                           *)
TornWrite ==
  \/ /\ storeTimer
     /\ flash' = <<>> /\ flashPaid' = {}
     /\ UNCHANGED tmp
  \/ /\ \E c \in CON :
          /\ \/ stat[c] = "FINISH"
             \/ stat[c] = "UPDATE" /\ "TmpTimer" \in bits[c]
          /\ tmp' = [tmp EXCEPT ![c] = Torn]
     /\ UNCHANGED <<flash, flashPaid>>

PowerLoss ==
  /\ losses < MaxLosses
  /\ losses' = losses + 1
  /\ UNCHANGED files \/ TornWrite
  /\ Restart

Next ==
  \/ \E c \in CON : \/ SessionStarts(c) \/ SessionEnds(c)
                    \/ StartOrder(c) \/ RefuseStart(c) \/ TmpTimer(c)
                    \/ DataStep(c) \/ WaitUseForced(c) \/ Hold(c)
                    \/ RemoteStep(c) \/ Answer(c) \/ Expire(c)
  \/ Flush \/ NoPayStep \/ Login \/ Logout \/ PowerLoss

Spec == Init /\ [][Next]_vars

(* The data task runs a pass every 100 ms and the 60 s of WAITUSE pass, so *)
(* one of its steps is taken; the remote task runs while it is logged in;  *)
(* an unanswered command expires, and so does the store timer.             *)
Fairness ==
  /\ \A c \in CON : /\ WF_vars(DataStep(c) \/ WaitUseForced(c))
                     /\ WF_vars(RemoteStep(c)) /\ WF_vars(Expire(c))
  /\ WF_vars(NoPayStep) /\ WF_vars(Flush)

FairSpec == Spec /\ Fairness

-----------------------------------------------------------------------------
(* Properties.                                                             *)

TypeOK ==
  /\ startOK \in [CON -> BOOLEAN]
  /\ next \in 1..MaxOrders + 1 /\ home \in [SN -> CON]
  /\ stat \in [CON -> OrderStates]
  /\ sn \in [CON -> SN \cup {None}] /\ pay \in [CON -> {0, 1}]
  /\ bits \in [CON -> SUBSET OrderBits]
  /\ tmp \in [CON -> SN \cup {None, Torn}] /\ check \in [CON -> BOOLEAN]
  /\ ram \in Seq(SN) /\ Len(ram) <= MaxItem + 1 /\ ramPaid \subseteq ToSet(ram)
  /\ flash \in Seq(SN) /\ Len(flash) <= MaxItem + 1 /\ flashPaid \subseteq ToSet(flash)
  /\ storeTimer \in BOOLEAN /\ logined \in BOOLEAN
  /\ up \in [CON -> UploadStates] /\ rt \in [CON -> {"IDLE", "START", "STOP"}]
  /\ np \in UploadStates /\ npCon \in CON /\ npSN \in SN \cup {None}
  /\ req \in [CON -> SUBSET SN] /\ rep \in [CON -> SUBSET SN] /\ late \in BOOLEAN
  /\ acked \subseteq SN
  /\ losses \in 0..MaxLosses

(* No power failure, upload or time-out makes an order appear twice: the   *)
(* list has no order twice, and what a temporary file holds (AddOrderTmp)  *)
(* is neither in the list in RAM nor in the order file.                    *)
StoredOnce ==
  /\ IsInjective(ram) /\ IsInjective(flash)
  /\ \A c \in CON : tmp[c] \in SN => tmp[c] \notin ToSet(ram) \cup ToSet(flash)

(* From the FINISH step until the STORE step an order survives a power     *)
(* failure: the temporary file holds a whole order, and CheckOrderTmp      *)
(* finds it there.                                                         *)
KeptUntilStored ==
  \A c \in CON : stat[c] \in {"WAITUSE", "STORE"} => tmp[c] \in SN

(* The list forgets an order, or that it is paid, only when it is full     *)
(* (AddOrderCfg) or when the charger restarts before the list is in its    *)
(* file (Flush; a cut write loses all of it), whatever the two upload      *)
(* machines do to it.                                                      *)
ListKeeps ==
  [][(~Restart \/ ~storeTimer) /\ Len(ram) <= MaxItem
       => ToSet(ram) \subseteq ToSet(ram') /\ ramPaid \subseteq ramPaid']_vars

(* An order whose session is over gets into the list, however the platform *)
(* and the network behave: the WAITUSE state always ends.                  *)
EndedIsStored ==
  \A c \in CON : (stat[c] = "UPDATE" /\ ~startOK[c]) ~> (stat[c] = "HOLD" \/ losses > 0)

(* order.h: ucPayStatus 1 means settled.  The data task marks an order     *)
(* paid only when the platform has accepted this order.  Violated by a     *)
(* reply that comes after the forced time-out.                             *)
PaidIsAccepted ==
  [][\A c \in CON : stat[c] = "WAITUSE" /\ pay[c] = 0 /\ pay'[c] = 1
                       => sn[c] \in acked]_vars

(* taskremote.c marks a stored order only when the platform accepted or    *)
(* refused this order; the platform of this model refuses none.  Violated  *)
(* (README, section 4): it may take the reply to another order.            *)
NoPayIsAccepted ==
  [][\A s \in SN : np = "WaitRecv" /\ s \in ramPaid' \ ramPaid /\ stat' = stat
                       => s \in acked]_vars

(* taskremote.c answers a start on a busy connector with a refusal: the    *)
(* running order keeps its serial number.  Violated (README, section 4).   *)
RefusalLeavesOrder ==
  [][\A c \in CON : stat[c] \in {"MAKE", "UPDATE", "WAITSTOP", "FINISH", "WAITUSE", "STORE"}
                        /\ losses' = losses => sn'[c] = sn[c]]_vars

(* taskremote.c: unpaid orders are looked for every 10 minutes.  While the *)
(* remote task stays logged in, the upload of one therefore ends, with a   *)
(* reply or a time-out, so that the next can be looked for.  Violated      *)
(* (README, section 4): the other machine may delete the request.          *)
NoPayEnds == <>[]logined => (np = "WaitRecv" ~> np # "WaitRecv")
=============================================================================
