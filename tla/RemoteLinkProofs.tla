-------------------------- MODULE RemoteLinkProofs --------------------------
(***************************************************************************)
(* The types of the two connection machines, and the Online bit that the   *)
(* network task and the start of a download write without a lock.          *)
(***************************************************************************)
EXTENDS RemoteLink, TLAPS

(* What netChangeState carries from its load to its store: only the way    *)
(* out of TCP_ON has loaded Online, and that store clears the bit.  On any *)
(* other way the bit is off, and nobody else sets it.                      *)
CarriesNoOnline ==
  to \notin {"none", "DISCONNECT"} => "Online" \notin loaded /\ ~online

IInv == TypeOK /\ OnlineIsTcp /\ CarriesNoOnline

-----------------------------------------------------------------------------
(* The heartbeats counted at a login and at power-up.                      *)
LEMMA LostBounds == 0 \in 0..StopLost /\ StopLost \in 0..StopLost
BY LinkAssumption

(* A step of a network state loads the word and names a state to go to.    *)
LEMMA NetStepInv ==
  ASSUME IInv, NetStep
  PROVE  IInv'
<1> USE DEF IInv, TypeOK, OnlineIsTcp, CarriesNoOnline, NetStates, login, session
<1>1. ASSUME NEW s \in NetStates, Change(s),
             net = "TCP_ON" => s = "DISCONNECT",
             known' \in BOOLEAN, error' \in BOOLEAN, ota' \in {"no", "asked", "start"}
      PROVE  IInv'
  <2>1. Word \subseteq {"Online", "Logined"} /\ ("Online" \in Word <=> online)
    BY DEF Word
  <2>2. loaded' = Word /\ to' = s /\ net' = net
    BY <1>1 DEF Change
  <2>3. UNCHANGED <<link, online, remote, logined, login, lost, session>>
    BY DEF NetStep
  <2> QED BY <1>1, <2>1, <2>2, <2>3
<1>2. CASE netStateInit
  BY <1>2, <1>1 DEF netStateInit
<1>3. CASE netStateConnect
  BY <1>3, <1>1 DEF netStateConnect
<1>4. CASE netStateTcpOn
  BY <1>4, <1>1 DEF netStateTcpOn
<1>5. CASE netStateDisconnect
  BY <1>5, <1>1 DEF netStateDisconnect
<1>6. CASE netStateErr
  BY <1>6, <1>1 DEF netStateErr
<1>7. CASE netStateFTP
  BY <1>7, <1>1 DEF netStateFTP
<1> QED BY <1>2, <1>3, <1>4, <1>5, <1>6, <1>7 DEF NetStep

(* The store of netChangeState leaves Online as the new state has it, even *)
(* when a download has started since the load.                             *)
LEMMA netChangeStateInv ==
  ASSUME IInv, netChangeState
  PROVE  IInv'
<1> USE DEF IInv, TypeOK, OnlineIsTcp, CarriesNoOnline, NetStates, login, session
<1>1. (online' <=> to = "TCP_ON") /\ online' \in BOOLEAN
  <2>1. CASE to \in Written
    <3>1. online' = (to = "TCP_ON" \/ (to # "DISCONNECT" /\ "Online" \in loaded))
      BY <2>1 DEF netChangeState
    <3>2. to # "DISCONNECT" => "Online" \notin loaded
      BY DEF netChangeState
    <3> QED BY <3>1, <3>2
  <2>2. CASE to \notin Written
    BY <2>2 DEF netChangeState, Written
  <2> QED BY <2>1, <2>2
<1>2. logined' \in BOOLEAN
  <2>1. logined' = logined \/ logined' = ("Logined" \in loaded)
    BY DEF netChangeState
  <2>2. logined \in BOOLEAN
    OBVIOUS
  <2>3. ("Logined" \in loaded) \in BOOLEAN
    OBVIOUS
  <2> HIDE DEF IInv, TypeOK
  <2> QED BY <2>1, <2>2, <2>3, Zenon
<1>3. net' = to /\ to' = "none" /\ loaded' = {} /\ to # "none"
  BY DEF netChangeState
<1>4. UNCHANGED <<link, known, error, remote, login, lost, ota, session>>
  BY DEF netChangeState
<1> QED BY <1>1, <1>2, <1>3, <1>4

(* The remote task reads the bit.                                          *)
LEMMA RemoteStepInv ==
  ASSUME IInv, RemoteStep
  PROVE  IInv'
<1> USE DEF IInv, TypeOK, login, session
<1>1. UNCHANGED <<link, known, net, to, loaded, online, ota>>
  BY DEF RemoteStep, network
<1>2. OnlineIsTcp' /\ CarriesNoOnline'
  BY <1>1 DEF OnlineIsTcp, CarriesNoOnline
<1>3. CASE RemoteNo
  BY <1>1, <1>2, <1>3 DEF RemoteNo, SendLogin
<1>4. CASE RecvLogin
  BY <1>1, <1>2, <1>4, LostBounds DEF RecvLogin
<1>5. CASE LoginTimeOut
  BY <1>1, <1>2, <1>5 DEF LoginTimeOut
<1>6. CASE Logined
  BY <1>1, <1>2, <1>6 DEF Logined
<1>7. CASE Reconnect
  <2>1. stop' \in [CON -> BOOLEAN]
    BY <1>7 DEF Reconnect
  <2> QED BY <1>1, <1>2, <1>7, <2>1 DEF Reconnect, SendLogin
<1>8. CASE RemoteError
  BY <1>1, <1>2, <1>8 DEF RemoteError
<1>9. CASE RemoteOffline
  BY <1>1, <1>2, <1>9 DEF RemoteOffline
<1> QED BY <1>3, <1>4, <1>5, <1>6, <1>7, <1>8, <1>9 DEF RemoteStep

(* A download starts between two steps of the network task, or between its *)
(* load and its store; the end of one starts anew.                         *)
LEMMA DownloadInv ==
  ASSUME IInv, SetOTA \/ OTA_Start \/ Reset
  PROVE  IInv'
<1> USE DEF IInv, TypeOK, OnlineIsTcp, CarriesNoOnline, NetStates, network, login, session
<1>1. CASE SetOTA
  BY <1>1 DEF SetOTA
<1>2. CASE OTA_Start
  BY <1>2 DEF OTA_Start
<1>3. CASE Reset
  BY <1>3, LostBounds DEF Reset
<1> QED BY <1>1, <1>2, <1>3

(* The data task, the platform, the line and the time write none of the    *)
(* shared bits.                                                            *)
LEMMA OutsideInv ==
  ASSUME IInv, SetUsrPass \/ KeyChange \/ LoginReply \/ Refusal \/ Expire \/ LinkChanges \/ Tick
  PROVE  IInv'
<1> USE DEF IInv, TypeOK, OnlineIsTcp, CarriesNoOnline, network, login, session
<1>1. CASE SetUsrPass
  BY <1>1 DEF SetUsrPass
<1>2. CASE LoginReply
  BY <1>2 DEF LoginReply
<1>6. CASE Refusal
  BY <1>6 DEF Refusal
<1>7. CASE KeyChange
  BY <1>7 DEF KeyChange
<1>3. CASE Expire
  BY <1>3 DEF Expire
<1>4. CASE LinkChanges
  <2>1. link' \in {"down", "silent", "good"} /\ known' \in BOOLEAN
    BY <1>4 DEF LinkChanges
  <2>2. UNCHANGED <<network, online, error, remote, logined, login, lost, ota, session>>
    BY <1>4 DEF LinkChanges
  <2> QED BY <2>1, <2>2
<1>5. CASE Tick
  <2>1. lost' \in 0..StopLost
    BY <1>5, LinkAssumption DEF Tick
  <2> QED BY <1>5, <2>1 DEF Tick
<1> QED BY <1>1, <1>2, <1>3, <1>4, <1>5, <1>6, <1>7

(* Nor do the sessions.                                                    *)
LEMMA SessionInv ==
  ASSUME IInv, NEW c \in CON,
         CardTimeOut(c) \/ StartRemote(c) \/ StartCard(c) \/ EndSession(c) \/ StopSession(c)
  PROVE  IInv'
<1> USE DEF IInv, TypeOK, OnlineIsTcp, CarriesNoOnline, network, login, session, Sess
<1>1. CASE CardTimeOut(c)
  <2>1. stop' \in [CON -> BOOLEAN]
    <3>1. [stop EXCEPT ![c] = TRUE] \in [CON -> BOOLEAN]
      OBVIOUS
    <3>2. stop' \in {stop, [stop EXCEPT ![c] = TRUE]}
      BY <1>1 DEF CardTimeOut
    <3> QED BY <3>1, <3>2
  <2>2. /\ remote' = "ERROR"
        /\ UNCHANGED <<link, known, network, online, error, logined, login, lost, ota, sess>>
    BY <1>1 DEF CardTimeOut
  <2> QED BY <2>1, <2>2
<1>2. CASE StartRemote(c)
  BY <1>2 DEF StartRemote
<1>3. CASE StartCard(c)
  BY <1>3 DEF StartCard
<1>4. CASE EndSession(c)
  BY <1>4 DEF EndSession
<1>5. CASE StopSession(c)
  BY <1>5 DEF StopSession
<1> QED BY <1>1, <1>2, <1>3, <1>4, <1>5

(* The charger starts with IInv, and no step breaks it.                    *)
LEMMA Inductive == (Init => IInv) /\ (IInv /\ [Next]_vars => IInv')
<1>1. Init => IInv
  BY LostBounds DEF Init, IInv, TypeOK, OnlineIsTcp, CarriesNoOnline, NetStates
<1>2. ASSUME IInv, UNCHANGED vars PROVE IInv'
  BY <1>2 DEF IInv, TypeOK, OnlineIsTcp, CarriesNoOnline, vars, network, login, session
<1> QED BY <1>1, <1>2, NetStepInv, netChangeStateInv, RemoteStepInv, DownloadInv, OutsideInv,
           SessionInv DEF Next

(* Type correctness, for any number of connectors and any limits of lost   *)
(* heartbeats.                                                             *)
THEOREM LinkTypeCorrect == Spec => []TypeOK
<1>1. IInv => TypeOK
  BY DEF IInv
<1> QED BY <1>1, Inductive, PTL DEF Spec

(* Online, which the remote task reads, is the network task's state.       *)
THEOREM OnlineIsNetState == Spec => []OnlineIsTcp
<1>1. IInv => OnlineIsTcp
  BY DEF IInv
<1> QED BY <1>1, Inductive, PTL DEF Spec
=============================================================================
