----------------------------- MODULE MCOcppLink -----------------------------
(* OcppLink on small instances, from power-on and from registered states. *)
EXTENDS OcppLink

McIds == 1..9

Trig(t) == [NoCs EXCEPT !.kind = "TriggerMessage", !.trig = t]
Avail(c, o) == [NoCs EXCEPT !.kind = "ChangeAvailability", !.conn = c, !.oper = o]
Kind(k) == [NoCs EXCEPT !.kind = k]

NoCsActs == {}
CsAny == {Kind("Other")}
CsManage == {Trig(t) : t \in Trigger} \cup {Avail(c, o) : c \in Connector, o \in BOOLEAN}
            \cup {Kind("UpdateFirmware"), Kind("DataTransfer"), Kind("Malformed")}

\* The charger is registered, both statuses are told and the unit price, the last CALL of
\* the start-up, is known: idle, or with a session charging.
LastCall == [type |-> "CALL", act |-> "DataTrans", id |-> 1, conn |-> 0, stat |-> "NONE"]

Told(layer, stat) ==
  /\ pc = [t \in Thread |-> "top"]
  /\ bConnect = TRUE /\ bWaitResFlg = FALSE /\ alive = TRUE
  /\ respDue = FALSE /\ hbDue = FALSE /\ meterDue = FALSE
  /\ Tx_Msg = LastCall /\ sendBuf = LastCall /\ Call_Tx_Msg = LastCall
  /\ Rx_Msg = [type |-> "RES", id |-> 1, act |-> "DataTrans", of |-> "DataTrans",
               res |-> "Accepted", cs |-> NoCs]
  /\ up = <<>> /\ down = <<>>
  /\ bCpStat = [i \in Connector |-> IF i = 0 THEN "AVAIL" ELSE stat] /\ bPreCpStat = bCpStat
  /\ bCpStatChgFlg = {} /\ oper = Connector
  /\ req = {} /\ bReqStartTsNo = 0 /\ bChargerCostCheck = 0
  /\ triggerMsgStat = "NONE" /\ updateStep = "NONE" /\ MeterValQ = <<>>
  /\ nConnectCheck = 0 /\ nConnectResetCount = 0
  /\ srvReg = {"Accepted"} /\ srvStat = bCpStat /\ owed = {}
  /\ update = "idle" /\ savedOper = {} /\ session = layer /\ events = 0 /\ csCalls = 0 /\ faults = 0

InitIdle == Told("main", "AVAIL")

SpecIdle == InitIdle /\ [][Next]_vars

SpecManage == (InitIdle \/ Told("charge", "CHARGING")) /\ [][Next]_vars

\* From power-on, or from a charger whose connects and power cycles have all failed
InitTried == PowerOn /\ nConnectCheck = ConnLimit + 1 /\ nConnectResetCount = ResetLimit + 1

SpecTried == (Init \/ InitTried) /\ [][Next]_vars /\ Fairness
=============================================================================
