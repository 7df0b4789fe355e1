------------------------------ MODULE Session ------------------------------
(***************************************************************************)
(* What the charge control promises to the tasks around it: the life of a  *)
(* charging session on a connector, told by the two event bits they share  *)
(* with it (Authed, StartOK) and by whether the contacts carry power.      *)
(* ChargeTask implements this specification; the modules about card and    *)
(* remote starts and about orders are written against it.                  *)
(***************************************************************************)
CONSTANT CON

VARIABLES
  phase,     \* how far the session is, see Phases
  authed,    \* defEventBitCONAuthed
  startOK,   \* defEventBitCONStartOK
  power      \* the contacts carry power

sessionVars == <<phase, authed, startOK, power>>

(* "starting": the charge task has seen the authorisation.                 *)
Phases == {"off", "starting", "closing", "on", "stopping", "ended"}

SessionInit ==
  /\ phase = [c \in CON |-> "off"]
  /\ authed = [c \in CON |-> FALSE]
  /\ startOK = [c \in CON |-> FALSE]
  /\ power = [c \in CON |-> FALSE]

To(c, p) == phase' = [phase EXCEPT ![c] = p]

(* The other tasks give and take the authorisation at any time.            *)
Grant(c) ==
  /\ authed' = [authed EXCEPT ![c] = TRUE]
  /\ UNCHANGED <<phase, startOK, power>>

Revoke(c) ==
  /\ authed' = [authed EXCEPT ![c] = FALSE]
  /\ UNCHANGED <<phase, startOK, power>>

(* The start begins when the authorisation is seen.  The relay is closed   *)
(* next, although the authorisation may have been withdrawn meanwhile, or  *)
(* the start is put off; StartOK follows when the relay had time to close. *)
See(c) ==
  /\ phase[c] = "off" /\ authed[c]
  /\ To(c, "starting")
  /\ UNCHANGED <<authed, startOK, power>>

Start(c) ==
  /\ phase[c] = "starting"
  /\ To(c, "closing")
  /\ power' = [power EXCEPT ![c] = TRUE]
  /\ UNCHANGED <<authed, startOK>>

PutOff(c) ==
  /\ phase[c] = "starting"
  /\ To(c, "off")
  /\ UNCHANGED <<authed, startOK, power>>

Started(c) ==
  /\ phase[c] = "closing"
  /\ To(c, "on")
  /\ startOK' = [startOK EXCEPT ![c] = TRUE]
  /\ UNCHANGED <<authed, power>>

(* In a session the voltage protection may open and close the relay.       *)
Switch(c) ==
  /\ phase[c] = "on"
  /\ \E p \in BOOLEAN : power' = [power EXCEPT ![c] = p]
  /\ UNCHANGED <<phase, authed, startOK>>

(* Power may fall away whenever the relay opens or contacts come loose.    *)
Cut(c) ==
  /\ power' = [power EXCEPT ![c] = FALSE]
  /\ UNCHANGED <<phase, authed, startOK>>

Stop(c) ==
  /\ phase[c] = "on"
  /\ To(c, "stopping")
  /\ UNCHANGED <<authed, startOK, power>>

(* A try to stop withdraws the authorisation, and may cut the power.       *)
TryStop(c) ==
  /\ phase[c] = "stopping"
  /\ authed' = [authed EXCEPT ![c] = FALSE]
  /\ power' \in {power, [power EXCEPT ![c] = FALSE]}
  /\ UNCHANGED <<phase, startOK>>

(* StartOK is taken back only without power.                               *)
Stopped(c) ==
  /\ phase[c] = "stopping" /\ ~power[c]
  /\ To(c, "ended")
  /\ startOK' = [startOK EXCEPT ![c] = FALSE]
  /\ UNCHANGED <<authed, power>>

GiveUp(c) ==
  /\ phase[c] = "stopping"
  /\ To(c, "ended")
  /\ authed' \in {authed, [authed EXCEPT ![c] = FALSE]}
  /\ UNCHANGED <<startOK, power>>

(* The plug was lost or a condition failed before the start.               *)
Abandon(c) ==
  /\ phase[c] = "off"
  /\ To(c, "ended")
  /\ UNCHANGED <<authed, startOK, power>>

(* The connector is free again, without power, authorisation or StartOK.   *)
Release(c) ==
  /\ phase[c] = "ended" /\ ~power[c]
  /\ To(c, "off")
  /\ authed' = [authed EXCEPT ![c] = FALSE]
  /\ startOK' = [startOK EXCEPT ![c] = FALSE]
  /\ UNCHANGED power

ConnectorStep(c) ==
  \/ See(c) \/ Start(c) \/ PutOff(c) \/ Started(c) \/ Switch(c) \/ Cut(c)
  \/ Stop(c) \/ TryStop(c) \/ Stopped(c) \/ GiveUp(c) \/ Abandon(c) \/ Release(c)

SessionNext == \E c \in CON : Grant(c) \/ Revoke(c) \/ ConnectorStep(c)

SessionSpec == SessionInit /\ [][SessionNext]_sessionVars
=============================================================================
