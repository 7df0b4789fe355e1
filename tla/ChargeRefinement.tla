-------------------------- MODULE ChargeRefinement --------------------------
(***************************************************************************)
(* ChargeTask implements Session: the other tasks, which see of a          *)
(* connector only Authed, StartOK and the power, may rely on Session.      *)
(***************************************************************************)
EXTENDS ChargeTask

PhaseOf(c) ==
  CASE state[c] = "STARTCHARGE" /\ step[c] = "closing" -> "closing"
    [] state[c] = "STARTCHARGE" /\ step[c] = "authed" -> "starting"
    [] state[c] = "CHARGING" -> "on"
    [] state[c] = "STOPCHARGE" -> "stopping"
    [] state[c] \in {"UNLOCK", "ERROR", "DEV_ERROR", "RETURN"} -> "ended"
    [] OTHER -> "off"

S == INSTANCE Session WITH
       phase <- [c \in CON |-> PhaseOf(c)],
       authed <- [c \in CON |-> "Authed" \in charge[c]],
       startOK <- [c \in CON |-> "StartOK" \in charge[c]],
       power <- [c \in CON |-> Energised(c)]

(* Every behaviour of the charge task is, for an observer of Authed,       *)
(* StartOK and the power, a behaviour of Session: the relay is closed only *)
(* in a visit that has seen the authorisation, StartOK is withdrawn only   *)
(* without power, and a connector is free again only without power,        *)
(* authorisation or StartOK.                                               *)
ImplementsSession == S!SessionSpec
=============================================================================
