-------------------------- MODULE StartControlProofs --------------------------
(***************************************************************************)
(* Every authorisation is watched, for any number of connectors that share *)
(* the card reader.                                                        *)
(***************************************************************************)
EXTENDS StartControl, TLAPS

(* The types, by the task that writes the state.                           *)
ConType ==
  /\ phase \in [CON -> Phases] /\ authed \in [CON -> BOOLEAN]
  /\ startOK \in [CON -> BOOLEAN] /\ power \in [CON -> BOOLEAN]
  /\ signal \in [CON -> {"Standby", "Working", "Stopping"}]

ReaderType ==
  /\ rfid \in RfidStates /\ chosen \in CON \cup {Nobody}
  /\ pwd \in 1..PwdTries /\ holdAge \in 0..MaxAge
  /\ rfid \in {"OLDID", "GOODID", "SYNC", "HOLD"} => chosen \in CON

OrderType ==
  /\ sync \in SUBSET CON
  /\ stat \in [CON -> OrderStates] /\ startType \in [CON -> {"none", "Card", "Remote"}]
  /\ carded \in [CON -> BOOLEAN]
  /\ rmt \in [CON -> CtrlStates] /\ rmtAge \in [CON -> 0..MaxAge]
  /\ card \in [CON -> {"IDLE", "WAIT_START"}] /\ cardAge \in [CON -> 0..MaxAge]
  /\ online \in BOOLEAN /\ checked \in CON \cup {Nobody}

(* The card machine watches the connector.                                 *)
CardWatch(c) == rfid \in {"SYNC", "HOLD"} /\ chosen = c

Waiting(c) == authed[c] /\ phase[c] \in {"off", "starting"}

(* StartOK says that a session has begun, and not yet been released.       *)
StartedIsOn == \A c \in CON : startOK[c] => phase[c] \notin {"off", "starting", "closing"}

(* The data task leaves an order alone between the check of a remote start *)
(* and its assignments.                                                    *)
CheckedIdle == \A c \in CON : checked = c => stat[c] = "IDLE"

(* An order that has seen its session start, and will be cleared together  *)
(* with the remote start, is not what watches an authorisation.            *)
LateWatched ==
  \A c \in CON : stat[c] \in {"MAKE", "UPDATE", "WAITSTOP", "END"} /\ Waiting(c) => CardWatch(c)

Watch == AuthWatched /\ StartedIsOn /\ CheckedIdle /\ LateWatched

IInv == ConType /\ ReaderType /\ OrderType /\ Watch

-----------------------------------------------------------------------------
(* The invariant is the type invariant and more.                           *)
LEMMA Implied == IInv => TypeOK /\ AuthWatched
BY DEF IInv, TypeOK, ConType, ReaderType, OrderType, Watch

(* The parts that a step leaves alone.                                     *)
LEMMA SameCon == ASSUME ConType, UNCHANGED <<con, signal>> PROVE ConType'
BY DEF ConType, con

(* The card reader.                                                        *)
LEMMA SameReader == ASSUME ReaderType, UNCHANGED reader PROVE ReaderType'
BY DEF ReaderType, reader

(* The order and the two remote machines in it.                            *)
LEMMA SameOrder == ASSUME OrderType, UNCHANGED <<sync, order, online, checked>> PROVE OrderType'
BY DEF OrderType, order

(* Grant and Revoke of the connector's authorisation.                      *)
LEMMA AuthType ==
  ASSUME ConType, NEW c \in CON, Grant(c) \/ Revoke(c), UNCHANGED signal
  PROVE  /\ ConType' /\ UNCHANGED <<phase, startOK>>
         /\ \A d \in CON \ {c} : authed'[d] = authed[d]
         /\ Revoke(c) => ~authed'[c]
BY DEF ConType, Grant, Revoke

(* A card that is not yet accepted, or no longer watched over.             *)
LEMMA CardInv ==
  ASSUME IInv,
         \/ GetCardID \/ GotOld \/ GotNew \/ NewId \/ Pwd \/ RejectedId \/ OldId \/ RfidReturn
  PROVE  IInv'
<1> USE DEF IInv
<1>1. UNCHANGED <<con, signal, sync, order, online, checked>>
  BY DEF GetCardID, GotOld, GotNew, NewId, Pwd, RejectedId, OldId, RfidReturn
<1>2. ConType' /\ OrderType'
  BY <1>1, SameCon, SameOrder
<1>3. ReaderType' /\ rfid \notin {"SYNC", "HOLD"}
  <2> USE DEF ReaderType, RfidStates, Rfid, PwdTries
  <2>1. CASE GetCardID
    BY <2>1 DEF GetCardID
  <2>2. CASE GotOld
    BY <2>2 DEF GotOld
  <2>3. CASE GotNew
    BY <2>3 DEF GotNew
  <2>4. CASE NewId
    BY <2>4 DEF NewId
  <2>5. CASE Pwd
    BY <2>5 DEF Pwd
  <2>6. CASE RejectedId
    BY <2>6 DEF RejectedId
  <2>7. CASE OldId
    BY <2>7 DEF OldId
  <2>8. CASE RfidReturn
    BY <2>8 DEF RfidReturn
  <2> QED BY <2>1, <2>2, <2>3, <2>4, <2>5, <2>6, <2>7, <2>8
<1>4. Watch'
  BY <1>1, <1>3 DEF Watch, AuthWatched, StartedIsOn, CheckedIdle, LateWatched, Waiting, CardWatch,
                   con, order
<1> QED BY <1>2, <1>3, <1>4

(* The card machine takes over the watch with the authorisation.           *)
LEMMA GoodIdInv ==
  ASSUME IInv, GoodId
  PROVE  IInv'
<1> USE DEF IInv
<1>1. chosen \in CON /\ chosen' = chosen /\ rfid' = "SYNC" /\ rfid = "GOODID" /\ Grant(chosen)
  BY DEF GoodId, Rfid, ReaderType
<1>2. UNCHANGED <<signal, pwd, holdAge, order, online, checked>>
  BY DEF GoodId
<1>3. /\ ConType' /\ UNCHANGED <<phase, startOK>>
      /\ \A d \in CON \ {chosen} : authed'[d] = authed[d]
  BY <1>1, <1>2, AuthType
<1>4. ReaderType'
  BY <1>1, <1>2 DEF ReaderType, RfidStates
<1>5. OrderType'
  BY <1>1, <1>2 DEF GoodId, OrderType, Set, order
<1>6. Watch'
  BY <1>1, <1>2, <1>3 DEF Watch, AuthWatched, StartedIsOn, CheckedIdle, LateWatched, Waiting,
                         CardWatch, order
<1> QED BY <1>3, <1>4, <1>5, <1>6

(* It gives up the watch once the session has started.                     *)
LEMMA HoldInv ==
  ASSUME IInv, Synced \/ HoldStarted
  PROVE  IInv'
<1> USE DEF IInv
<1>1. UNCHANGED <<con, signal, pwd, order, online, checked>> /\ chosen \in CON
  BY DEF Synced, HoldStarted, Rfid, ReaderType
<1>2. ConType'
  BY <1>1, SameCon
<1>3. CASE Synced
  <2>1. rfid' = "HOLD" /\ chosen' = chosen /\ holdAge' = 0 /\ rfid = "SYNC"
    BY <1>3 DEF Synced, Rfid
  <2>2. ReaderType'
    BY <1>1, <2>1 DEF ReaderType, RfidStates, MaxAge
  <2>3. OrderType'
    BY <1>1, <1>3 DEF Synced, OrderType, Set, order
  <2>4. Watch'
    BY <1>1, <2>1 DEF Watch, AuthWatched, StartedIsOn, CheckedIdle, LateWatched, Waiting, CardWatch,
                     con, order
  <2> QED BY <1>2, <2>2, <2>3, <2>4
<1>4. CASE HoldStarted
  <2>1. rfid' = "RETURN" /\ chosen' = Nobody /\ holdAge' = MaxAge /\ startOK[chosen]
    BY <1>4 DEF HoldStarted, Rfid
  <2>2. ReaderType'
    BY <1>1, <2>1 DEF ReaderType, RfidStates, MaxAge
  <2>3. OrderType'
    BY <1>1, <1>4, SameOrder DEF HoldStarted
  <2>4. phase[chosen] \notin {"off", "starting"}
    BY <1>1, <2>1 DEF Watch, StartedIsOn
  <2>5. Watch'
    BY <1>1, <2>1, <2>4 DEF Watch, AuthWatched, StartedIsOn, CheckedIdle, LateWatched, Waiting,
                           CardWatch, con, order
  <2> QED BY <1>2, <2>2, <2>3, <2>5
<1> QED BY <1>3, <1>4

(* OrderInit of a connector.                                               *)
LEMMA OrderInitType ==
  ASSUME OrderType, NEW c \in CON, OrderInit(c), UNCHANGED <<sync, online, checked>>
  PROVE  /\ OrderType' /\ stat'[c] = "IDLE"
         /\ \A d \in CON \ {c} : rmt'[d] = rmt[d] /\ stat'[d] = stat[d]
BY DEF OrderType, OrderInit, Set, OrderStates, CtrlStates, MaxAge

(* A time-out in HOLD takes the authorisation with the watch.              *)
LEMMA HoldEndsInv ==
  ASSUME IInv, HoldEnds
  PROVE  IInv'
<1> USE DEF IInv
<1>1. /\ chosen \in CON /\ Revoke(chosen) /\ OrderInit(chosen)
      /\ rfid' = "TIMEOUT" /\ chosen' = Nobody /\ holdAge' = MaxAge
      /\ UNCHANGED <<signal, pwd, sync, online, checked>>
  BY DEF HoldEnds, Rfid, ReaderType
<1>2. /\ ConType' /\ UNCHANGED <<phase, startOK>> /\ ~authed'[chosen]
      /\ \A d \in CON \ {chosen} : authed'[d] = authed[d]
  BY <1>1, AuthType
<1>3. /\ OrderType' /\ stat'[chosen] = "IDLE"
      /\ \A d \in CON \ {chosen} : rmt'[d] = rmt[d] /\ stat'[d] = stat[d]
  BY <1>1, OrderInitType
<1>4. ReaderType'
  BY <1>1 DEF ReaderType, RfidStates, MaxAge
<1>5. Watch'
  BY <1>1, <1>2, <1>3 DEF Watch, AuthWatched, StartedIsOn, CheckedIdle, LateWatched, Waiting,
                         CardWatch
<1> QED BY <1>2, <1>3, <1>4, <1>5

(* The data task.  An order starts its session only with StartOK, and the  *)
(* one that ends clears a remote start that no longer watches anything.    *)
LEMMA DataInv ==
  ASSUME IInv, NEW c \in CON, DataStep(c)
  PROVE  IInv'
<1> USE DEF IInv
<1>1. UNCHANGED <<con, signal, reader, online, checked>> /\ checked = Nobody
  BY DEF DataStep, OrderTmp, MakeTmp, WaitStart, MakeOrder, Update, WaitStop, OrderReturn
<1>2. ConType' /\ ReaderType'
  BY <1>1, SameCon, SameReader
<1>3. /\ OrderType'
      /\ \A d \in CON : \/ stat'[d] = stat[d]
                        \/ stat'[d] \in {"IDLE", "TMP", "WAITSTART"}
                        \/ startOK[d]
                        \/ stat[d] \in {"MAKE", "UPDATE", "WAITSTOP", "END"}
      /\ \A d \in CON : rmt'[d] = rmt[d] \/ stat[d] = "END"
  <2> USE DEF OrderType, OrderStates, Set, MaxAge, order
  <2>1. CASE OrderTmp(c)
    BY <1>1, <2>1 DEF OrderTmp
  <2>2. CASE MakeTmp(c)
    BY <1>1, <2>2 DEF MakeTmp
  <2>3. CASE WaitStart(c)
    BY <1>1, <2>3 DEF WaitStart
  <2>4. CASE MakeOrder(c)
    BY <1>1, <2>4 DEF MakeOrder
  <2>5. CASE Update(c)
    BY <1>1, <2>5 DEF Update
  <2>6. CASE WaitStop(c)
    BY <1>1, <2>6 DEF WaitStop
  <2>7. CASE OrderReturn(c)
    <3>1. stat[c] = "END" /\ OrderInit(c) /\ UNCHANGED <<sync, online, checked>>
      BY <2>7 DEF OrderReturn
    <3>2. /\ OrderType' /\ stat'[c] = "IDLE"
          /\ \A d \in CON \ {c} : rmt'[d] = rmt[d] /\ stat'[d] = stat[d]
      BY <3>1, OrderInitType
    <3> HIDE DEF OrderType
    <3> QED BY <3>1, <3>2
  <2> QED BY <2>1, <2>2, <2>3, <2>4, <2>5, <2>6, <2>7 DEF DataStep
<1>4. StartedIsOn'
  BY <1>1 DEF Watch, StartedIsOn, con
<1>5. CheckedIdle'
  BY <1>1, NobodyAssumption DEF CheckedIdle
<1>6. LateWatched'
  BY <1>1, <1>3 DEF Watch, StartedIsOn, LateWatched, Waiting, CardWatch, con, reader
<1>7. AuthWatched'
  BY <1>1, <1>3 DEF Watch, AuthWatched, LateWatched, Waiting, CardWatch, con, reader
<1> QED BY <1>2, <1>3, <1>4, <1>5, <1>6, <1>7 DEF Watch

(* A remote start, from its check to its assignments, takes over the       *)
(* watch; a command that comes to a busy machine does not.                 *)
LEMMA CommandInv ==
  ASSUME IInv, AcceptStart \/ \E c \in CON : RecvStart(c) \/ RecvStop(c)
  PROVE  IInv'
<1> USE DEF IInv
<1>1. UNCHANGED <<signal, reader, sync, carded, card, cardAge, online>>
  BY DEF AcceptStart, RecvStart, RecvStop
<1>2. ReaderType'
  BY <1>1, SameReader
<1>3. CASE AcceptStart
  <2>1. checked \in CON /\ Grant(checked) /\ checked' = Nobody /\ UNCHANGED <<startType, rmtAge>>
    BY <1>3 DEF AcceptStart, OrderType
  <2>2. /\ ConType' /\ UNCHANGED <<phase, startOK>>
        /\ \A d \in CON \ {checked} : authed'[d] = authed[d]
    BY <1>1, <2>1, AuthType
  <2>3. /\ OrderType' /\ stat'[checked] = "WAITSTART" /\ rmt'[checked] = "WAIT_START"
        /\ \A d \in CON \ {checked} : rmt'[d] = rmt[d] /\ stat'[d] = stat[d]
    BY <1>1, <1>3, <2>1 DEF AcceptStart, OrderType, Set, OrderStates, CtrlStates
  <2>4. Watch'
    BY <1>1, <2>1, <2>2, <2>3, NobodyAssumption DEF Watch, AuthWatched, StartedIsOn, CheckedIdle,
       LateWatched, Waiting, CardWatch, reader
  <2> QED BY <1>2, <2>2, <2>3, <2>4
<1>4. ASSUME NEW c \in CON, RecvStart(c) \/ RecvStop(c)
      PROVE  IInv'
  <2>1. UNCHANGED <<con, signal, stat>> /\ Logined /\ rmt[c] = "IDLE"
    BY <1>4 DEF RecvStart, RecvStop
  <2>2. ConType'
    BY <2>1, SameCon
  <2>3. OrderType'
    BY <1>1, <1>4, <2>1 DEF RecvStart, RecvStop, OrderType, Set, CtrlStates, MaxAge
  <2>4. \A d \in CON : rmt'[d] = rmt[d] \/ rmt[d] = "IDLE"
    BY <1>4, <2>1 DEF RecvStart, RecvStop, OrderType, Set
  <2>5. checked' = checked \/ (checked' = c /\ stat[c] = "IDLE")
    BY <1>4 DEF RecvStart, RecvStop
  <2>6. Watch'
    BY <1>1, <2>1, <2>4, <2>5 DEF Watch, AuthWatched, StartedIsOn, CheckedIdle, LateWatched,
       Waiting, CardWatch, reader, con
  <2> QED BY <1>2, <2>2, <2>3, <2>6
<1> QED BY <1>3, <1>4

(* A remote start that succeeds has started a session; one that fails      *)
(* takes its authorisation back.                                           *)
LEMMA RemoteInv ==
  ASSUME IInv, NEW c \in CON, RemoteStep(c)
  PROVE  IInv'
<1> USE DEF IInv
<1>1. UNCHANGED <<signal, reader, sync, stat, startType, carded, rmtAge, cardAge, online, checked>>
  BY DEF RemoteStep, CtrlWait, CtrlSucc, CtrlFail, CardStart
<1>2. ReaderType'
  BY <1>1, SameReader
<1>3. OrderType'
  <2>1. rmt' \in [CON -> CtrlStates] /\ card' \in [CON -> {"IDLE", "WAIT_START"}]
    BY DEF RemoteStep, CtrlWait, CtrlSucc, CtrlFail, CardStart, OrderType, Set, CtrlStates
  <2> QED BY <1>1, <2>1 DEF OrderType
<1>4. CASE CtrlWait(c) \/ CtrlSucc(c)
  <2>1. UNCHANGED con
    BY <1>4 DEF CtrlWait, CtrlSucc
  <2>2. ConType'
    BY <1>1, <2>1, SameCon
  <2>3. \A d \in CON : \/ rmt'[d] = rmt[d] \/ rmt'[d] = "FAIL"
                       \/ rmt[d] \in {"WAIT_STOP", "SUCC"} \/ startOK[d]
    BY <1>4 DEF CtrlWait, CtrlSucc, CtrlDone, OrderType, Set
  <2>4. Watch'
    BY <1>1, <2>1, <2>3 DEF Watch, AuthWatched, StartedIsOn, CheckedIdle, LateWatched,
       Waiting, CardWatch, reader, con
  <2> QED BY <1>2, <1>3, <2>2, <2>4
<1>5. CASE CtrlFail(c) \/ CardStart(c)
  <2>1. UNCHANGED con \/ Revoke(c)
    BY <1>5 DEF CtrlFail, CardStart
  <2>2. ConType' /\ UNCHANGED <<phase, startOK>> /\ \A d \in CON : authed'[d] => authed[d]
    <3>1. CASE UNCHANGED con
      BY <1>1, <3>1, SameCon DEF con
    <3>2. CASE Revoke(c)
      BY <1>1, <3>2, AuthType
    <3> QED BY <2>1, <3>1, <3>2
  <2>3. \A d \in CON : rmt'[d] = rmt[d] \/ ~authed'[d]
    <3>1. CASE CtrlFail(c)
      BY <1>1, <3>1, AuthType DEF CtrlFail, OrderType, Set
    <3>2. CASE CardStart(c)
      BY <3>2 DEF CardStart
    <3> QED BY <1>5, <3>1, <3>2
  <2>4. Watch'
    BY <1>1, <2>2, <2>3 DEF Watch, AuthWatched, StartedIsOn, CheckedIdle, LateWatched,
       Waiting, CardWatch, reader
  <2> QED BY <1>2, <1>3, <2>2, <2>4
<1> QED BY <1>4, <1>5 DEF RemoteStep

(* The charge task frees a connector only without its authorisation, and   *)
(* the diagnosis only takes one.                                           *)
LEMMA ChargeInv ==
  ASSUME IInv, NEW c \in CON,
         ConStart(c) \/ ConCharge(c) \/ ConStop(c) \/ ConEnd(c) \/ DiagRevoke(c)
  PROVE  IInv'
<1> USE DEF IInv
<1>1. UNCHANGED <<reader, sync, order, online, checked>>
  BY DEF ConStart, ConCharge, ConStop, ConEnd, DiagRevoke, Others
<1>2. ReaderType' /\ OrderType'
  BY <1>1, SameReader, SameOrder
<1>3. /\ ConType'
      /\ \A d \in CON : Waiting(d)' => Waiting(d)
      /\ StartedIsOn'
  <2> USE DEF ConType, Phases, Set, To, Waiting, Watch, StartedIsOn
  <2>1. CASE ConStart(c)
    BY <2>1 DEF ConStart, See, Start, PutOff, Started
  <2>2. CASE ConCharge(c)
    BY <2>2 DEF ConCharge, Stop, con
  <2>3. CASE ConStop(c)
    <3>1. CASE TryStop(c)
      BY <2>3, <3>1 DEF ConStop, TryStop
    <3>2. CASE Stopped(c)
      BY <2>3, <3>2 DEF ConStop, Stopped
    <3>3. CASE GiveUp(c)
      BY <2>3, <3>3 DEF ConStop, GiveUp
    <3> QED BY <2>3, <3>1, <3>2, <3>3 DEF ConStop
  <2>4. CASE ConEnd(c)
    <3>1. CASE Abandon(c) /\ UNCHANGED signal
      BY <3>1 DEF Abandon
    <3>2. CASE Release(c) /\ signal' = Set(signal, c, "Standby")
      BY <3>2 DEF Release
    <3>3. CASE phase[c] = "ended" /\ Cut(c) /\ UNCHANGED signal
      BY <3>3 DEF Cut
    <3> QED BY <2>4, <3>1, <3>2, <3>3 DEF ConEnd
  <2>5. CASE DiagRevoke(c)
    BY <2>5 DEF DiagRevoke, Revoke
  <2> QED BY <2>1, <2>2, <2>3, <2>4, <2>5
<1>4. CheckedIdle'
  BY <1>1 DEF Watch, CheckedIdle, order
<1>5. AuthWatched' /\ LateWatched'
  BY <1>1, <1>3 DEF Watch, AuthWatched, LateWatched, Waiting, CardWatch, reader, order
<1> QED BY <1>2, <1>3, <1>4, <1>5 DEF Watch

(* The link comes and goes, and time passes.                               *)
LEMMA TimeInv ==
  ASSUME IInv, Login \/ Logout \/ Tick
  PROVE  IInv'
<1> USE DEF IInv
<1>1. UNCHANGED <<con, signal, rfid, chosen, pwd, sync, stat, startType, carded, rmt, card, checked>>
  BY DEF Login, Logout, Tick, reader, order
<1>2. ConType'
  BY <1>1, SameCon
<1>3. Watch'
  BY <1>1 DEF Watch, AuthWatched, StartedIsOn, CheckedIdle, LateWatched, Waiting, CardWatch, con
<1>4. CASE Login \/ Logout
  <2>1. ReaderType'
    BY <1>4, SameReader DEF Login, Logout
  <2>2. OrderType'
    BY <1>1, <1>4 DEF Login, Logout, OrderType, order
  <2> QED BY <1>2, <1>3, <2>1, <2>2
<1>5. CASE Tick
  <2> USE DEF Older, MaxAge, HoldTime, StartTimeOut, CardTimeOut
  <2>1. holdAge' \in 0..MaxAge
    BY <1>5 DEF Tick, ReaderType
  <2>2. rmtAge' \in [CON -> 0..MaxAge] /\ cardAge' \in [CON -> 0..MaxAge]
    <3>1. \A c \in CON : rmtAge[c] \in 0..7 /\ cardAge[c] \in 0..7
      BY DEF OrderType
    <3>2. rmtAge' \in [CON -> 0..7]
      BY <1>5, <3>1 DEF Tick
    <3>3. cardAge' \in [CON -> 0..7]
      BY <1>5, <3>1 DEF Tick
    <3> QED BY <3>2, <3>3
  <2>3. UNCHANGED online
    BY <1>5 DEF Tick
  <2>4. ReaderType' /\ OrderType'
    BY <1>1, <2>1, <2>2, <2>3 DEF ReaderType, OrderType
  <2> QED BY <1>2, <1>3, <2>4
<1> QED BY <1>4, <1>5

-----------------------------------------------------------------------------
(* The charger starts without authorisations, and no step breaks IInv.     *)
LEMMA Inductive == (Init => IInv) /\ (IInv /\ [Next]_vars => IInv')
<1>1. ASSUME Init PROVE IInv
  <2>1. ConType
    BY <1>1 DEF Init, SessionInit, ConType, Phases
  <2>2. ReaderType
    BY <1>1 DEF Init, ReaderType, RfidStates, MaxAge, PwdTries
  <2>3. OrderType
    <3>1. rmtAge \in [CON -> 0..MaxAge] /\ cardAge \in [CON -> 0..MaxAge]
      BY <1>1 DEF Init, MaxAge
    <3>2. sync \in SUBSET CON /\ stat \in [CON -> OrderStates]
      BY <1>1 DEF Init, OrderStates
    <3>3. rmt \in [CON -> CtrlStates] /\ card \in [CON -> {"IDLE", "WAIT_START"}]
      BY <1>1 DEF Init, CtrlStates
    <3> QED BY <1>1, <3>1, <3>2, <3>3 DEF Init, OrderType
  <2>4. Watch
    BY <1>1, NobodyAssumption DEF Init, SessionInit, Watch, AuthWatched, StartedIsOn, CheckedIdle,
       LateWatched, Waiting
  <2> QED BY <2>1, <2>2, <2>3, <2>4 DEF IInv
<1>2. ASSUME IInv, RfidStep \/ GetCardID \/ HmiTimeOut PROVE IInv'
  BY <1>2, CardInv, GoodIdInv, HoldInv, HoldEndsInv DEF RfidStep, HoldTimeOut, HmiTimeOut
<1>3. ASSUME IInv, UNCHANGED vars PROVE IInv'
  <2>1. UNCHANGED <<con, signal, reader, sync, order, online, checked>>
    BY <1>3 DEF vars
  <2>2. Watch'
    BY <1>3, <2>1 DEF IInv, Watch, AuthWatched, StartedIsOn, CheckedIdle, LateWatched, Waiting,
       CardWatch, con, reader, order
  <2> QED BY <1>3, <2>1, <2>2, SameCon, SameReader, SameOrder DEF IInv
<1> QED BY <1>1, <1>2, <1>3, DataInv, CommandInv, RemoteInv, ChargeInv, TimeInv DEF Next

(* Type correctness, for any set of connectors.                            *)
THEOREM StartTypeCorrect == Spec => []TypeOK
BY Inductive, Implied, PTL DEF Spec

(* No authorisation waits for a vehicle unless a machine will withdraw it, *)
(* although four tasks give, use and take it without a lock.               *)
THEOREM AuthIsWatched == Spec => []AuthWatched
BY Inductive, Implied, PTL DEF Spec
=============================================================================
