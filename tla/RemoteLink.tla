----------------------------- MODULE RemoteLink -----------------------------
(***************************************************************************)
(* The connection to the platform: the network machine of the TCP client   *)
(* task (tasknetwork.c) and the connection machine of the remote task      *)
(* (taskremote.c), which see each other only through the bits Online and   *)
(* RemoteError, with the stop of remotely started sessions after a long    *)
(* loss and the start of a firmware download.  The remote task has the     *)
(* higher priority: it runs between the load and the store of a bit        *)
(* operation of the network task.                                          *)
(* Left out: the FTP server mode for missing bitmaps (NET_STATE_FTPServer, *)
(* NET_STATE_IDLE), which the charger never leaves.                        *)
(***************************************************************************)
EXTENDS Integers

CONSTANTS
  Total,      \* pListCON->Total; the connectors are visited in order
  StartTypes, \* how sessions are started here, among "Card" and "Remote"
  LoginLost,  \* heartbeats lost before the charger reconnects
  StopLost    \* heartbeats lost before a remotely started session is stopped

CON == 1..Total

ASSUME LinkAssumption ==
  /\ Total \in Nat /\ LoginLost \in Nat /\ StopLost \in Nat /\ 0 < LoginLost /\ LoginLost < StopLost
  /\ StartTypes \subseteq {"Card", "Remote"}

VARIABLES
  link,      \* what lies beyond: "down", "silent" (TCP, but the platform does
             \* not answer or refuses the login), "good"
  known,     \* the platform has accepted the login of the present connection
  net,       \* net_dev->state
  to,        \* netChangeState is about to store this state, or "none"
  loaded,    \* the bits Online and Logined of the word it has loaded
  online,    \* defSignalEVSE_State_Network_Online
  error,     \* defEventBitRemoteError
  remote,    \* remotestat
  logined,   \* defSignalEVSE_State_Network_Logined
  request,   \* a login is queued or sent
  reply,     \* the newest login reply received: "no", "yes" or "none"
  lost,      \* heartbeat periods since last_heart_stamp
  ota,       \* "asked": upgrade accepted; "start": ucDownloadStart
  sess,      \* the session of a connector that works, by start type
  stop       \* defEventBitExceptionOfflineStop

network == <<net, to, loaded>>
login   == <<request, reply>>
session == <<sess, stop>>
vars    == <<link, known, network, online, error, remote, logined, login, lost, ota, session>>

Init ==
  /\ link = "down" /\ known = FALSE
  /\ net = "INIT" /\ to = "none" /\ loaded = {}
  /\ online = FALSE /\ error = FALSE
  /\ remote = "NO" /\ logined = FALSE
  /\ request = FALSE /\ reply = "none"
  /\ lost = StopLost /\ ota = "no"
  /\ sess = [c \in CON |-> "none"] /\ stop = [c \in CON |-> FALSE]

-----------------------------------------------------------------------------
(* The network task.  Each state ends in netChangeState or stays.          *)

(* netChangeState, first half: the signal word is loaded.                  *)
Word == {b \in {"Online", "Logined"} : IF b = "Online" THEN online ELSE logined}

Change(s) == to' = s /\ loaded' = Word /\ UNCHANGED net

netStateInit ==
  /\ net = "INIT"
  /\ Change("CONNECT") \/ (link = "down" /\ Change("ERR"))
  /\ UNCHANGED <<known, error, ota>>

netStateConnect ==
  /\ net = "CONNECT"
  /\ Change(IF ota = "start" THEN "FTP" ELSE IF link = "down" THEN "ERR" ELSE "TCP_ON")
  /\ known' = FALSE
  /\ UNCHANGED <<error, ota>>

(* Mutant: the error is seen but its bit is not cleared.                   *)
netStateTcpOnKeepsBit ==
  /\ net = "TCP_ON" /\ (error \/ link = "down")
  /\ Change("DISCONNECT")
  /\ UNCHANGED <<known, error, ota>>

netStateTcpOn ==
  /\ net = "TCP_ON" /\ (error \/ link = "down")
  /\ error' = FALSE
  /\ Change("DISCONNECT")
  /\ UNCHANGED <<known, ota>>

netStateDisconnect ==
  /\ net = "DISCONNECT"
  /\ known' = FALSE
  /\ Change("CONNECT")
  /\ UNCHANGED <<error, ota>>

(* Mutant: the network is given up.                                        *)
netStateErrStops ==
  /\ net = "ERR"
  /\ Change("IDLE")
  /\ UNCHANGED <<known, error, ota>>

netStateErr ==
  /\ net = "ERR"
  /\ Change("INIT")
  /\ UNCHANGED <<known, error, ota>>

(* A download that fails.                                                  *)
netStateFTP ==
  /\ net = "FTP"
  /\ ota' = "no"
  /\ Change("CONNECT")
  /\ UNCHANGED <<known, error>>

(* The states for which netChangeState writes the signal word: the bit     *)
(* Link, which nobody reads here, or Online.                               *)
Written == {"CONNECT", "TCP_ON", "DISCONNECT", "ERR"}

(* Mutant: Online is set but never cleared.                                *)
netChangeStateSticky ==
  /\ to # "none"
  /\ net' = to /\ to' = "none" /\ loaded' = {}
  /\ \/ /\ to \in Written
        /\ online' = (to = "TCP_ON" \/ "Online" \in loaded)
        /\ logined' = ("Logined" \in loaded)
     \/ to \notin Written /\ UNCHANGED <<online, logined>>
  /\ UNCHANGED <<link, known, error, remote, login, lost, ota, session>>

(* netChangeState, second half: the word is stored, with the other bits as *)
(* they were loaded, and then the state.  (One step: a logged-in remote    *)
(* task has seen Online go long before TCP_ON is stored again.)            *)
netChangeState ==
  /\ to # "none"
  /\ net' = to /\ to' = "none" /\ loaded' = {}
  /\ \/ /\ to \in Written
        /\ online' = (to = "TCP_ON" \/ (to # "DISCONNECT" /\ "Online" \in loaded))
        /\ logined' = ("Logined" \in loaded)
     \/ to \notin Written /\ UNCHANGED <<online, logined>>
  /\ UNCHANGED <<link, known, error, remote, login, lost, ota, session>>

NetStep ==
  /\ to = "none"
  /\ \/ netStateInit \/ netStateConnect \/ netStateTcpOn \/ netStateDisconnect
     \/ netStateErr \/ netStateFTP
  /\ UNCHANGED <<link, online, remote, logined, login, lost, session>>

(* A download that succeeds suspends the other tasks and resets.           *)
Reset ==
  /\ net = "FTP" /\ to = "none" /\ link # "down"
  /\ link' = link /\ known' = FALSE
  /\ net' = "INIT" /\ to' = "none" /\ loaded' = {}
  /\ online' = FALSE /\ error' = FALSE
  /\ remote' = "NO" /\ logined' = FALSE
  /\ request' = FALSE /\ reply' = "none"
  /\ lost' = StopLost /\ ota' = "no"
  /\ sess' = [c \in CON |-> "none"] /\ stop' = [c \in CON |-> FALSE]

-----------------------------------------------------------------------------
(* The remote task.                                                        *)

SendLogin == request' = TRUE /\ remote' = "CONNECTED" /\ UNCHANGED reply

RemoteNo ==
  /\ remote = "NO"
  /\ logined' = FALSE
  /\ IF online THEN SendLogin ELSE UNCHANGED <<remote, login>>
  /\ UNCHANGED <<lost, error, session>>

(* A reply is taken from the queue together with the request it answers;   *)
(* after a refusal the passes count on.                                    *)
RecvLogin ==
  /\ remote = "CONNECTED" /\ reply # "none"
  /\ reply' = "none" /\ request' = FALSE
  /\ IF reply = "yes" THEN lost' = 0 /\ remote' = "LOGINED" ELSE UNCHANGED <<lost, remote>>
  /\ UNCHANGED <<logined, error, session>>

(* The platform, asked on a connection that works, answers within the 200  *)
(* passes (20 s) that REMOTE_CONNECTED waits.                              *)
Answers == link = "good" /\ net = "TCP_ON" /\ to = "none"

LoginTimeOut ==
  /\ remote = "CONNECTED" /\ reply = "none" /\ ~(request /\ Answers)
  /\ remote' = "ERROR"
  /\ UNCHANGED <<logined, login, lost, error, session>>

(* Mutant: heartbeats are not counted.                                     *)
LoginedDeaf ==
  /\ remote = "LOGINED"
  /\ logined' = TRUE
  /\ remote' = IF ~online THEN "OFFLINE" ELSE "LOGINED"
  /\ UNCHANGED <<login, lost, error, session>>

(* A pass of REMOTE_LOGINED, as far as the connection goes.                *)
Logined ==
  /\ remote = "LOGINED"
  /\ logined' = TRUE
  /\ remote' = IF ~online THEN "OFFLINE"
               ELSE IF lost >= LoginLost THEN "ERROR" ELSE "LOGINED"
  /\ UNCHANGED <<login, lost, error, session>>

(* After twelve lost heartbeats the first remotely started connector that  *)
(* works is asked to stop, and the loop over the connectors ends.          *)
Overdue(c) == lost >= StopLost /\ sess[c] = "Remote"
FirstOverdue(c) == Overdue(c) /\ \A d \in CON : Overdue(d) => c <= d

(* Mutant: Logined is left as it is.                                       *)
ReconnectLogined ==
  /\ remote = "RECONNECT"
  /\ stop' = [c \in CON |-> stop[c] \/ FirstOverdue(c)]
  /\ IF ~error /\ online
     THEN SendLogin
     ELSE /\ remote' = IF \E c \in CON : Overdue(c) THEN "NO" ELSE "RECONNECT"
          /\ UNCHANGED login
  /\ UNCHANGED <<logined, lost, error, sess>>

Reconnect ==
  /\ remote = "RECONNECT"
  /\ logined' = FALSE
  /\ stop' = [c \in CON |-> stop[c] \/ FirstOverdue(c)]
  /\ IF ~error /\ online
     THEN SendLogin
     ELSE /\ remote' = IF \E c \in CON : Overdue(c) THEN "NO" ELSE "RECONNECT"
          /\ UNCHANGED login
  /\ UNCHANGED <<lost, error, sess>>

RemoteError ==
  /\ remote = "ERROR"
  /\ error' = TRUE /\ remote' = "RECONNECT"
  /\ UNCHANGED <<logined, login, lost, session>>

RemoteOffline ==
  /\ remote = "OFFLINE"
  /\ remote' = "RECONNECT"
  /\ UNCHANGED <<logined, login, lost, error, session>>

RemoteStep ==
  /\ \/ RemoteNo \/ RecvLogin \/ LoginTimeOut \/ Logined \/ Reconnect \/ RemoteError
     \/ RemoteOffline
  /\ UNCHANGED <<link, known, network, online, ota>>

(* The platform changes the user's password: REMOTE_OFFLINE.               *)
SetUsrPass ==
  /\ remote = "LOGINED" /\ remote' = "OFFLINE"
  /\ UNCHANGED <<link, known, network, online, error, logined, login, lost, ota, session>>

(* The data task installs a new key, from any state and with every pass,   *)
(* until the configuration has been read again.                            *)
KeyChange ==
  /\ remote' = "OFFLINE"
  /\ UNCHANGED <<link, known, network, online, error, logined, login, lost, ota, session>>

(* No reply to the start report of a card session: it is stopped.  None to *)
(* the stop report: only the connection is given up.                       *)
CardTimeOut(c) ==
  /\ "Card" \in StartTypes
  /\ remote = "LOGINED" /\ remote' = "ERROR"
  /\ stop' \in {stop, [stop EXCEPT ![c] = TRUE]}
  /\ UNCHANGED <<link, known, network, online, error, logined, login, lost, ota, sess>>

(* An upgrade is accepted while every connector is in Standby, and starts  *)
(* with the platform's next reply, from this task, whatever the network    *)
(* task is doing.                                                          *)
SetOTA ==
  /\ remote = "LOGINED" /\ \A c \in CON : sess[c] = "none"
  /\ ota = "no" /\ ota' = "asked"
  /\ UNCHANGED <<link, known, network, online, error, remote, logined, login, lost, session>>

OTA_Start ==
  /\ remote = "LOGINED" /\ ota = "asked"
  /\ ota' = "start"
  /\ net' = "DISCONNECT" /\ online' = FALSE
  /\ remote' = "NO"
  /\ UNCHANGED <<link, known, to, loaded, error, logined, login, lost, session>>

-----------------------------------------------------------------------------
(* The sessions, the platform and the line.                                *)

Sess(c, k) ==
  /\ sess' = [sess EXCEPT ![c] = k]
  /\ UNCHANGED <<link, known, network, online, error, remote, logined, login, lost, ota>>

(* A start command gives any order of the connector the type Remote.       *)
StartRemote(c) ==
  /\ "Remote" \in StartTypes
  /\ remote = "LOGINED" /\ sess[c] # "Remote" /\ Sess(c, "Remote") /\ UNCHANGED stop

StartCard(c) ==
  /\ "Card" \in StartTypes
  /\ sess[c] = "none" /\ Sess(c, "Card") /\ UNCHANGED stop

EndSession(c) == sess[c] # "none" /\ Sess(c, "none") /\ UNCHANGED stop

(* CHARGING takes the request.                                             *)
StopSession(c) ==
  /\ sess[c] # "none" /\ stop[c]
  /\ Sess(c, "none") /\ stop' = [stop EXCEPT ![c] = FALSE]

LoginReply ==
  /\ request /\ Answers
  /\ request' = FALSE /\ reply' = "yes" /\ known' = TRUE
  /\ UNCHANGED <<link, network, online, error, remote, logined, lost, ota, session>>

Refusal ==
  /\ request /\ link = "silent" /\ net = "TCP_ON" /\ to = "none"
  /\ request' = FALSE /\ reply' = "no" /\ known' = FALSE
  /\ UNCHANGED <<link, network, online, error, remote, logined, lost, ota, session>>

(* The queue task, suspended from a lost login to the next one, gives a    *)
(* request up after 10 s; the next pass takes its time-out bit without     *)
(* effect.  A reply that comes too late is kept for the next login.        *)
Expire ==
  /\ request /\ ~Answers /\ remote = "CONNECTED"
  /\ request' = FALSE
  /\ UNCHANGED <<link, known, network, online, error, remote, logined, reply, lost, ota, session>>

LinkChanges ==
  /\ link' \in {"down", "silent", "good"} \ {link}
  /\ known' \in {known, FALSE}
  /\ UNCHANGED <<network, online, error, remote, logined, login, lost, ota, session>>

(* A heartbeat period.  The platform answers a charger it knows; the pass  *)
(* that finds too many lost comes long before the next period.             *)
Tick ==
  /\ remote = "LOGINED" => lost < LoginLost
  /\ lost' = IF remote = "LOGINED" /\ Answers /\ known THEN 0
             ELSE IF lost < StopLost THEN lost + 1 ELSE lost
  /\ UNCHANGED <<link, known, network, online, error, remote, logined, login, ota, session>>

Next ==
  \/ NetStep \/ netChangeState \/ Reset \/ RemoteStep \/ SetUsrPass \/ KeyChange \/ SetOTA
  \/ OTA_Start \/ LoginReply \/ Refusal \/ Expire \/ LinkChanges \/ Tick
  \/ \E c \in CON : \/ CardTimeOut(c) \/ StartRemote(c) \/ StartCard(c)
                    \/ EndSession(c) \/ StopSession(c)

Spec == Init /\ [][Next]_vars

(* The tasks run, periods pass, and the platform answers while it can; the *)
(* passes of a login count on while the link comes and goes (SF).  A login *)
(* that falls between the load and the store of the network task, a matter *)
(* of microseconds, does not do so every time.  Keys are not changed for   *)
(* ever.                                                                   *)
Fairness ==
  /\ <>[][~KeyChange]_vars
  /\ WF_vars(NetStep) /\ WF_vars(netChangeState) /\ SF_vars(RemoteStep)
  /\ WF_vars(LoginReply) /\ WF_vars(Tick)
  /\ SF_vars(netChangeState /\ to = "DISCONNECT" /\ remote = "RECONNECT" /\ ~error)
  /\ \A c \in CON : WF_vars(StopSession(c))

FairSpec == Spec /\ Fairness

-----------------------------------------------------------------------------
(* Properties.                                                             *)

NetStates == {"INIT", "CONNECT", "TCP_ON", "DISCONNECT", "ERR", "FTP"}

TypeOK ==
  /\ link \in {"down", "silent", "good"} /\ known \in BOOLEAN
  /\ net \in NetStates /\ to \in NetStates \cup {"none"} /\ loaded \subseteq {"Online", "Logined"}
  /\ online \in BOOLEAN /\ error \in BOOLEAN
  /\ remote \in {"NO", "CONNECTED", "LOGINED", "RECONNECT", "ERROR", "OFFLINE"}
  /\ logined \in BOOLEAN /\ request \in BOOLEAN /\ reply \in {"none", "yes", "no"}
  /\ lost \in 0..StopLost /\ ota \in {"no", "asked", "start"}
  /\ sess \in [CON -> {"none", "Card", "Remote"}] /\ stop \in [CON -> BOOLEAN]

(* The Online bit, by which the remote task decides to log in, says what   *)
(* the network task's state says, although the remote task changes both    *)
(* when a download starts.                                                 *)
OnlineIsTcp == online <=> net = "TCP_ON"

(* When the link and the platform work for good, the charger is logged in  *)
(* again and again, whatever state the two machines and their bits had     *)
(* come to: no error bit is left over and no one waits for the other.      *)
Reconnects == <>[](link = "good") => []<>(remote = "LOGINED")

(* A charger that believes to be logged in on a connection the platform    *)
(* does not know (the reply to a login on an earlier connection) finds out.*)
GhostLoginEnds == (remote = "LOGINED" /\ ~known) ~> (known \/ remote # "LOGINED")

(* The Logined bit, by which the card machine and the order machine decide *)
(* to wait for the platform, is cleared when the login is over, although   *)
(* the network task may store an old value of it.                          *)
LoginedEnds == (logined /\ remote # "LOGINED") ~> (~logined \/ remote = "LOGINED")

(* OfflineStops, taskremote.c:871: a session started from the app is       *)
(* stopped when twelve heartbeats are lost -- any such session.            *)
OfflineStops ==
  \A c \in CON : (Overdue(c) /\ remote # "NO") ~> ~Overdue(c)
=============================================================================
