--------------------------- MODULE OcppLinkProofs ---------------------------
(***************************************************************************)
(* Theorems about OcppLink, for every set of ids, queue length, number of  *)
(* reconnects and every bound: type correctness, that no id is the id of   *)
(* two CALLs of different actions unless a sample of the meter shared its  *)
(* millisecond, that but for these the answer accepted by comparing ids is *)
(* the answer to the registered CALL, and that a charger sends nothing but *)
(* BootNotification before it is registered.                               *)
(***************************************************************************)
EXTENDS OcppLink, TLAPS

USE DEF shared, wire, status, flags, timers, conns, server, env

-----------------------------------------------------------------------------
(* Helpers *)

\* An id taken from the clock is new.
LEMMA FreshIdOK ==
  ASSUME NEW S, CanMint(S)
  PROVE  FreshId(S) \in Ids /\ FreshId(S) \notin UsedIds \cup S
BY DEF CanMint, FreshId

\* What the clock yields in OCPP_CALL_Senario is new, or the id of the sample just queued.
LEMMA ReadingsOK ==
  ASSUME TypeOK, CanMint({}), NEW i \in Readings
  PROVE  i \in Ids /\ (i \in JustSampled \/ i \notin UsedIds)
<1>1. JustSampled \subseteq Ids BY DEF JustSampled, TypeOK
<1> QED BY <1>1, FreshIdOK DEF Readings

\* Add_MeterVal_Q keeps the queue within MAX_QNO_METERVAL.
LEMMA AddMeterValOK ==
  ASSUME NEW q \in Seq(Ids), Len(q) <= MaxQno, NEW i \in Ids
  PROVE  /\ AddMeterVal(q, i) \in Seq(Ids) /\ Len(AddMeterVal(q, i)) <= MaxQno
         /\ AddMeterVal(q, i) # <<>>
BY ConstAssumption DEF AddMeterVal

\* The id of a MeterValues CALL is that of a queue entry, or of a cleared one.
LEMMA MeterUidOK ==
  ASSUME NEW q \in Seq(Ids)
  PROVE  MeterUid(q) \in Ids \cup {NoId}
BY DEF MeterUid

\* The cleared messages are messages.
LEMMA ClearedOK == ResMsg \in TxMsg /\ NoRx \in RxMsg /\ NoCs \in CsAct
BY DEF TxMsg, RxMsg, ResMsg, NoRx, NoCs, CsAct, Connector, CpStatus, Act, Result, Trigger

-----------------------------------------------------------------------------
(* Type correctness, one lemma per group of actions *)

LEMMA TypeInit == Init => TypeOK
<1> SUFFICES ASSUME Init PROVE TypeOK
  OBVIOUS
<1>1. pc \in [Thread -> Label] /\ up \in Seq(TxMsg) /\ down \in Seq(RxMsg)
  BY DEF Init, PowerOn, Label
<1>2. bCpStat \in [Connector -> CpStatus] /\ bPreCpStat \in [Connector -> CpStatus]
      /\ srvStat \in [Connector -> CpStatus]
  BY DEF Init, PowerOn, CpStatus
<1>3. MeterValQ \in Seq(Ids) /\ Len(MeterValQ) <= MaxQno
  BY ConstAssumption DEF Init, PowerOn
<1>4. triggerMsgStat \in Trigger /\ updateStep \in UpdateStep
  BY DEF Init, PowerOn, Trigger, UpdateStep
<1>5. events \in 0..MaxEvents /\ csCalls \in 0..MaxCsCalls /\ faults \in 0..MaxFaults
  BY ConstAssumption DEF Init, PowerOn
<1>6. /\ Tx_Msg \in TxMsg /\ sendBuf \in TxMsg /\ Call_Tx_Msg \in TxMsg
      /\ Rx_Msg \in RxMsg
  BY ClearedOK DEF Init, PowerOn
<1>7. /\ bConnect \in BOOLEAN /\ bWaitResFlg \in BOOLEAN /\ alive \in BOOLEAN
      /\ respDue \in BOOLEAN /\ hbDue \in BOOLEAN /\ meterDue \in BOOLEAN
  BY DEF Init, PowerOn
<1>8. /\ bCpStatChgFlg \subseteq Connector /\ req \subseteq Flag /\ oper \subseteq Connector
      /\ srvReg \subseteq Result /\ owed \subseteq {"startTs", "stopTs"}
      /\ session \in {"main", "charge", "finish"} /\ savedOper \subseteq Connector
      /\ update \in {"idle", "begun", "started", "loaded", "ended", "saved"}
  BY DEF Init, PowerOn
<1>9. /\ bReqStartTsNo \in 0..1 /\ bChargerCostCheck \in 0..2
      /\ nConnectCheck \in Nat /\ nConnectResetCount \in Nat
  BY DEF Init, PowerOn
<1> QED
  BY <1>1, <1>2, <1>3, <1>4, <1>5, <1>6, <1>7, <1>8, <1>9 DEF TypeOK

LEMMA TypeGoto ==
  ASSUME TypeOK, NEW t \in Thread, NEW l \in Label, Goto(t, l)
  PROVE  pc' \in [Thread -> Label]
BY DEF TypeOK, Goto

LEMMA TypeFault == ASSUME TypeOK, Fault PROVE faults' \in 0..MaxFaults
BY ConstAssumption DEF TypeOK, Fault

\* What MakeDataCmd leaves.
LEMMA TypeMake ==
  ASSUME TypeOK, NEW a \in Act, NEW i \in Ids \cup {NoId}, NEW c \in Connector,
         MakeDataCmd(a, i, c)
  PROVE  Tx_Msg' \in TxMsg /\ pc' \in [Thread -> Label]
<1>1. pc' \in [Thread -> Label]
  BY TypeGoto DEF MakeDataCmd, Thread, Label
<1>2. Tx_Msg' \in TxMsg
  BY DEF TypeOK, MakeDataCmd, TxMsg, CpStatus
<1> QED
  BY <1>1, <1>2

LEMMA TypeConnection ==
  ASSUME TypeOK,
         \/ RouterPowerCheck \/ ClientNoNetwork
         \/ WS_Server_connect \/ WS_Server_connect_fails \/ SenarioWaits \/ SenarioTimeout
         \/ SenarioIdle \/ SenarioMemberSleeps
  PROVE  TypeOK'
<1>1. CASE RouterPowerCheck
  BY <1>1 DEF TypeOK, RouterPowerCheck
<1>2. CASE ClientNoNetwork
  <2>1. pc' \in [Thread -> Label] /\ faults' \in 0..MaxFaults
    BY <1>2, TypeGoto, TypeFault DEF ClientNoNetwork, Thread, Label
  <2>2. Rx_Msg' \in RxMsg
    BY <1>2, ClearedOK DEF ClientNoNetwork, TypeOK
  <2> QED
    BY <1>2, <2>1, <2>2 DEF TypeOK, ClientNoNetwork, Fault
<1>3. CASE WS_Server_connect
  <2>1. pc' \in [Thread -> Label]
    BY <1>3, TypeGoto DEF WS_Server_connect, Thread, Label
  <2>2. up' \in Seq(TxMsg) /\ down' \in Seq(RxMsg)
    BY <1>3 DEF WS_Server_connect
  <2> QED
    BY <1>3, <2>1, <2>2 DEF TypeOK, WS_Server_connect
<1>4. CASE WS_Server_connect_fails
  <2>1. pc' \in [Thread -> Label] /\ faults' \in 0..MaxFaults
    BY <1>4, TypeGoto, TypeFault DEF WS_Server_connect_fails, Thread, Label
  <2>2. up' \in Seq(TxMsg) /\ down' \in Seq(RxMsg)
    BY <1>4 DEF WS_Server_connect_fails
  <2>3. nConnectCheck' \in Nat
    BY <1>4 DEF WS_Server_connect_fails, TypeOK
  <2>4. /\ alive' = FALSE /\ UNCHANGED <<update, savedOper, session, events, csCalls>>
        /\ UNCHANGED <<bConnect, bWaitResFlg, timers, shared, status, flags,
                       nConnectResetCount, server>>
    BY <1>4 DEF WS_Server_connect_fails, Fault
  <2> QED
    BY <2>1, <2>2, <2>3, <2>4 DEF TypeOK
<1>5. CASE SenarioWaits
  BY <1>5, TypeGoto DEF TypeOK, SenarioWaits, Thread, Label
<1>6. CASE SenarioTimeout
  BY <1>6, TypeGoto DEF TypeOK, SenarioTimeout, Thread, Label
<1>7. CASE SenarioIdle
  <2>1. pc' \in [Thread -> Label]
    BY <1>7, TypeGoto DEF SenarioIdle, Thread, Label
  <2>2. triggerMsgStat' \in Trigger /\ meterDue' \in BOOLEAN
    BY <1>7 DEF SenarioIdle, SenarioRest, TypeOK, Trigger
  <2> QED
    BY <1>7, <2>1, <2>2 DEF TypeOK, SenarioIdle
<1>8. CASE SenarioMemberSleeps
  <2>1. pc' \in [Thread -> Label]
    BY <1>8, TypeGoto DEF SenarioMemberSleeps, Thread, Label
  <2>2. req' \subseteq Flag /\ meterDue' \in BOOLEAN
    BY <1>8 DEF SenarioMemberSleeps, SenarioRest, AfterRequest, TypeOK
  <2> QED
    BY <1>8, <2>1, <2>2 DEF TypeOK, SenarioMemberSleeps
<1> QED
  BY <1>1, <1>2, <1>3, <1>4, <1>5, <1>6, <1>7, <1>8

LEMMA TypeReboot ==
  ASSUME TypeOK, Reboot, faults' \in 0..MaxFaults, oper' \subseteq Connector
  PROVE  TypeOK'
<1>1. pc' \in [Thread -> Label] /\ up' \in Seq(TxMsg) /\ down' \in Seq(RxMsg)
  BY DEF Reboot, Label
<1>2. bCpStat' \in [Connector -> CpStatus] /\ bPreCpStat' \in [Connector -> CpStatus]
  BY DEF Reboot, CpStatus
<1>3. MeterValQ' \in Seq(Ids) /\ Len(MeterValQ') <= MaxQno
  BY ConstAssumption DEF Reboot
<1>4. triggerMsgStat' \in Trigger /\ updateStep' \in UpdateStep
  BY DEF Reboot, Trigger, UpdateStep
<1>5. /\ Tx_Msg' \in TxMsg /\ sendBuf' \in TxMsg /\ Call_Tx_Msg' \in TxMsg
      /\ Rx_Msg' \in RxMsg
  BY ClearedOK DEF Reboot
<1>6. /\ bConnect' \in BOOLEAN /\ bWaitResFlg' \in BOOLEAN /\ alive' \in BOOLEAN
      /\ respDue' \in BOOLEAN /\ hbDue' \in BOOLEAN /\ meterDue' \in BOOLEAN
  BY DEF Reboot
<1>7. /\ bCpStatChgFlg' \subseteq Connector /\ req' \subseteq Flag
      /\ srvReg' \subseteq Result
  BY DEF Reboot
<1>8. /\ bReqStartTsNo' \in 0..1 /\ bChargerCostCheck' \in 0..2
      /\ nConnectCheck' \in Nat /\ nConnectResetCount' \in Nat
  BY DEF Reboot
<1>9. /\ session' \in {"main", "charge", "finish"} /\ savedOper' \subseteq Connector
      /\ update' \in {"idle", "begun", "started", "loaded", "ended", "saved"}
      /\ UNCHANGED <<srvStat, owed, events, csCalls>>
  BY DEF Reboot
<1> QED
  BY <1>1, <1>2, <1>3, <1>4, <1>5, <1>6, <1>7, <1>8, <1>9 DEF TypeOK

LEMMA TypeTop == ASSUME TypeOK, ClientTop PROVE TypeOK'
<1>1. MeterValQ' \in Seq(Ids) /\ Len(MeterValQ') <= MaxQno
  BY FreshIdOK, AddMeterValOK DEF ClientTop, TypeOK
<1>2. events' \in 0..MaxEvents /\ UNCHANGED <<update, savedOper, session, csCalls, faults>>
  BY ConstAssumption DEF ClientTop, TypeOK
<1>3. req' \subseteq Flag /\ owed' \subseteq {"startTs", "stopTs"}
  BY DEF ClientTop, TypeOK, Flag
<1>4. pc' \in [Thread -> Label]
  BY TypeGoto DEF ClientTop, Thread, Label
<1>5. UNCHANGED <<bConnect, bWaitResFlg, timers, shared, wire, status,
                  bChargerCostCheck, triggerMsgStat, updateStep, conns, srvReg, srvStat>>
      /\ bReqStartTsNo' \in 0..1
  BY DEF ClientTop
<1> QED
  BY <1>1, <1>2, <1>3, <1>4, <1>5 DEF TypeOK

LEMMA TypeTrans ==
  ASSUME NEW t \in Thread, TypeOK, Trans(t)
  PROVE  TypeOK'
<1>1. CASE Make_Ocpp_Msg(t)
  BY <1>1, TypeGoto DEF TypeOK, Make_Ocpp_Msg, Label
<1>2. CASE WsSend(t)
  <2>1. pc' \in [Thread -> Label]
    BY <1>2, TypeGoto DEF WsSend, Label
  <2>2. up' \in Seq(TxMsg)
    BY <1>2 DEF WsSend, TypeOK
  <2> QED
    BY <1>2, <2>1, <2>2 DEF TypeOK, WsSend
<1>3. CASE WsSendFails(t)
  BY <1>3, TypeGoto, ClearedOK DEF TypeOK, WsSendFails, Label
<1>4. CASE WsRegister(t)
  <2>1. pc' \in [Thread -> Label]
    BY <1>4, TypeGoto DEF WsRegister, Label
  <2>2. bWaitResFlg' \in BOOLEAN /\ respDue' \in BOOLEAN /\ Call_Tx_Msg' \in TxMsg
    BY <1>4 DEF WsRegister, TypeOK
  <2> QED
    BY <1>4, <2>1, <2>2 DEF TypeOK, WsRegister
<1> QED
  BY <1>1, <1>2, <1>3, <1>4 DEF Trans

\* The second reading of SenarioStopTs is an id as well.
LEMMA StopTsIds ==
  ASSUME TypeOK, CanMint({}), CanMint({FreshId({})}), NEW q \in Readings
  PROVE  FreshId({q}) \in Ids /\ FreshId({q}) \notin UsedIds \cup {q}
<1>1. CASE q = FreshId({})
  BY <1>1, FreshIdOK
<1>2. CASE q \in JustSampled
  <2>1. q \in UsedIds BY <1>2 DEF JustSampled, UsedIds, Elems, TypeOK
  <2> QED BY <2>1, FreshIdOK DEF CanMint
<1> QED BY <1>1, <1>2 DEF Readings

\* A triggered CALL, made when the clock yields id.
TriggeredWith(id) ==
  IF TriggerAct[triggerMsgStat] = "MeterVal"
  THEN /\ MeterValQ' = AddMeterVal(MeterValQ, id)
       /\ MakeDataCmd("MeterVal", MeterUid(MeterValQ'), 1)
  ELSE /\ MakeDataCmd(TriggerAct[triggerMsgStat], id,
                      IF TriggerAct[triggerMsgStat] = "Stat" THEN 1 ELSE 0)
       /\ UNCHANGED MeterValQ

\* The actions of OCPP_CALL_Senario that make a CALL.
LEMMA TypeSenario ==
  ASSUME TypeOK,
         \/ SenarioBoot \/ SenarioMeter \/ (\E c \in Connector : SenarioStat(c))
         \/ (\E f \in Pending \ {"member", "stopTs", "trigger"} : SenarioRequest(f))
         \/ SenarioMember \/ SenarioStopTs \/ SenarioTrigger
  PROVE  TypeOK'
<1>1. CASE SenarioBoot
  <2>1. Tx_Msg' \in TxMsg /\ pc' \in [Thread -> Label]
    BY <1>1, TypeMake, ReadingsOK DEF SenarioBoot, Act, Connector
  <2> QED
    BY <1>1, <2>1 DEF TypeOK, SenarioBoot, MakeDataCmd
<1>2. CASE SenarioMeter
  <2>1. Tx_Msg' \in TxMsg /\ pc' \in [Thread -> Label]
    BY <1>2, TypeMake, MeterUidOK DEF SenarioMeter, Act, Connector, TypeOK
  <2> QED
    BY <1>2, <2>1 DEF TypeOK, SenarioMeter, MakeDataCmd
<1>3. ASSUME NEW c \in Connector, SenarioStat(c)
      PROVE  TypeOK'
  <2>1. Tx_Msg' \in TxMsg /\ pc' \in [Thread -> Label]
    BY <1>3, TypeMake, ReadingsOK DEF SenarioStat, Act
  <2> QED
    BY <1>3, <2>1 DEF TypeOK, SenarioStat, MakeDataCmd
<1>4. ASSUME NEW f \in Pending \ {"member", "stopTs", "trigger"}, SenarioRequest(f)
      PROVE  TypeOK'
  <2>1. f \in DOMAIN ActOf /\ ActOf[f] \in Act
    BY <1>4 DEF Pending, TypeOK, ActOf, Act, Flag
  <2>2. Tx_Msg' \in TxMsg /\ pc' \in [Thread -> Label]
    BY <1>4, <2>1, TypeMake, ReadingsOK DEF SenarioRequest, Connector
  <2>3. req' \subseteq Flag /\ oper' \subseteq Connector
    BY <1>4 DEF SenarioRequest, AfterRequest, TypeOK
  <2>4. triggerMsgStat' \in Trigger /\ bChargerCostCheck' \in 0..2
    BY <1>4 DEF SenarioRequest, TypeOK, Trigger
  <2>5. updateStep' \in UpdateStep
    <3>1. CASE f = "fwStat"
      <4>1. updateStep \in DOMAIN FwAfter
        BY <1>4, <3>1 DEF Pending, TypeOK, Flag
      <4>2. FwAfter[updateStep] \in UpdateStep
        BY <4>1 DEF FwAfter, UpdateStep
      <4> QED
        BY <1>4, <3>1, <4>2 DEF SenarioRequest
    <3> QED
      BY <1>4, <3>1 DEF SenarioRequest, TypeOK
  <2>6. hbDue' \in BOOLEAN /\ meterDue' \in BOOLEAN
    BY <1>4 DEF SenarioRequest, SenarioRest
  <2>7. /\ UNCHANGED <<bConnect, bWaitResFlg, respDue, sendBuf, Call_Tx_Msg, Rx_Msg, wire>>
        /\ UNCHANGED <<bCpStat, bPreCpStat, bReqStartTsNo, conns, server, env>>
        /\ UNCHANGED <<bCpStatChgFlg, MeterValQ>>
    BY <1>4 DEF SenarioRequest, MakeDataCmd
  <2> QED
    BY <2>2, <2>3, <2>4, <2>5, <2>6, <2>7 DEF TypeOK
<1>5. CASE SenarioStopTs
  <2>1. Tx_Msg' \in TxMsg /\ pc' \in [Thread -> Label]
    BY <1>5, TypeMake, ReadingsOK, StopTsIds DEF SenarioStopTs, Act, Connector
  <2>2. MeterValQ' \in Seq(Ids) /\ Len(MeterValQ') <= MaxQno
    BY <1>5, ReadingsOK, AddMeterValOK DEF SenarioStopTs, TypeOK
  <2>3. /\ req' \subseteq Flag /\ meterDue' = FALSE
        /\ UNCHANGED <<bConnect, bWaitResFlg, respDue, sendBuf, Call_Tx_Msg, Rx_Msg, wire>>
        /\ UNCHANGED <<bCpStat, bPreCpStat, bReqStartTsNo, conns, server, env>>
        /\ UNCHANGED <<hbDue, bCpStatChgFlg, oper, bChargerCostCheck, triggerMsgStat,
                       updateStep>>
    BY <1>5 DEF SenarioStopTs, SenarioRest, MakeDataCmd, TypeOK
  <2> QED
    BY <2>1, <2>2, <2>3 DEF TypeOK
<1>6. CASE SenarioTrigger
  <2>1. PICK id \in Ids : TriggeredWith(id)
    BY <1>6, ReadingsOK DEF SenarioTrigger, TriggeredWith
  <2>2. MeterValQ' \in Seq(Ids) /\ Len(MeterValQ') <= MaxQno
    BY <2>1, AddMeterValOK DEF TriggeredWith, TypeOK
  <2>3. triggerMsgStat \in DOMAIN TriggerAct /\ TriggerAct[triggerMsgStat] \in Act
    <3>1. "trigger" \in Pending
      BY <1>6 DEF SenarioTrigger, First
    <3>2. "trigger" \notin req
      BY DEF TypeOK, Flag
    <3>3. triggerMsgStat \in DOMAIN TriggerAct
      BY <3>1, <3>2 DEF Pending
    <3> QED
      BY <3>3 DEF TriggerAct, Act
  <2>4. Tx_Msg' \in TxMsg /\ pc' \in [Thread -> Label]
    <3>1. CASE TriggerAct[triggerMsgStat] = "MeterVal"
      BY <2>1, <2>2, <2>3, <3>1, TypeMake, MeterUidOK DEF TriggeredWith, Connector
    <3>2. CASE TriggerAct[triggerMsgStat] # "MeterVal"
      BY <2>1, <2>3, <3>2, TypeMake DEF TriggeredWith, Connector
    <3> QED
      BY <3>1, <3>2
  <2>5. triggerMsgStat' \in Trigger /\ meterDue' = FALSE
    BY <1>6 DEF SenarioTrigger, SenarioRest, Trigger
  <2>6. /\ UNCHANGED <<bConnect, bWaitResFlg, respDue, sendBuf, Call_Tx_Msg, Rx_Msg, wire>>
        /\ UNCHANGED <<bCpStat, bPreCpStat, bReqStartTsNo, conns, server, env>>
        /\ UNCHANGED <<hbDue, bCpStatChgFlg, oper, req, bChargerCostCheck, updateStep>>
    BY <1>6 DEF SenarioTrigger, MakeDataCmd
  <2> QED
    BY <2>2, <2>4, <2>5, <2>6 DEF TypeOK
<1>7. CASE SenarioMember
  <2>1. Tx_Msg' \in TxMsg /\ pc' \in [Thread -> Label]
    BY <1>7, TypeMake, FreshIdOK DEF SenarioMember, ActOf, Act, Connector
  <2> QED
    BY <1>7, <2>1 DEF TypeOK, SenarioMember, MakeDataCmd
<1> QED
  BY <1>1, <1>2, <1>3, <1>4, <1>5, <1>6, <1>7

LEMMA TypeReceive ==
  ASSUME TypeOK, RxParse \/ RxFails \/ RxAnswer \/ RxDrop
  PROVE  TypeOK'
<1>1. CASE RxParse
  <2>1. Head(down) \in RxMsg /\ down' \in Seq(RxMsg)
    BY <1>1 DEF RxParse, TypeOK
  <2>2. Rx_Msg' \in RxMsg
    <3>1. [Head(down) EXCEPT !.act = Call_Tx_Msg.act] \in RxMsg
      BY <2>1 DEF TypeOK, TxMsg, RxMsg
    <3>2. [NoRx EXCEPT !.type = "ERR"] \in RxMsg
      BY ClearedOK DEF RxMsg
    <3> QED
      BY <1>1, <2>1, <3>1, <3>2 DEF RxParse
  <2>3. pc' \in [Thread -> Label]
    BY <1>1, TypeGoto DEF RxParse, Thread, Label
  <2>4. /\ UNCHANGED <<bConnect, bWaitResFlg, timers, Tx_Msg, sendBuf, Call_Tx_Msg, up>>
        /\ UNCHANGED <<alive, status, flags, conns, server, env>>
    BY <1>1 DEF RxParse
  <2> QED
    BY <2>1, <2>2, <2>3, <2>4 DEF TypeOK
<1>2. CASE RxFails
  BY <1>2, ClearedOK DEF TypeOK, RxFails
<1>3. CASE RxAnswer
  BY <1>3, TypeGoto DEF TypeOK, RxAnswer, Thread, Label
<1>4. CASE RxDrop
  BY <1>4, TypeGoto DEF TypeOK, RxDrop, Thread, Label
<1> QED
  BY <1>1, <1>2, <1>3, <1>4

\* The CALLs of the central system.
LEMMA TypeRxCall ==
  ASSUME TypeOK, \/ RxCallUnregistered \/ RxCallOther
                 \/ DataProcCmd_TriggerMsg \/ DataProcCmd_ChangeAvail
                 \/ DataProcCmd_UpdateFw
  PROVE  TypeOK'
<1>1. CASE RxCallUnregistered
  <2>1. pc' \in [Thread -> Label]
    BY <1>1, TypeGoto DEF RxCallUnregistered, Thread, Label
  <2>2. Tx_Msg' \in TxMsg /\ UNCHANGED <<status, flags>>
    BY <1>1, ClearedOK DEF RxCallUnregistered, TypeOK
  <2>3. \E k : RxCall(k)
    BY <1>1 DEF RxCallUnregistered
  <2> QED
    BY <2>1, <2>2, <2>3 DEF TypeOK, RxCall
<1>2. CASE RxCallOther
  <2>1. pc' \in [Thread -> Label]
    BY <1>2, TypeGoto DEF RxCallOther, Thread, Label
  <2>2. Tx_Msg' \in TxMsg /\ UNCHANGED <<status, flags>>
    BY <1>2, ClearedOK DEF RxCallOther, TypeOK
  <2>3. \E k : RxCall(k)
    BY <1>2 DEF RxCallOther
  <2> QED
    BY <2>1, <2>2, <2>3 DEF TypeOK, RxCall
<1>3. CASE DataProcCmd_TriggerMsg
  <2>1. triggerMsgStat' \in Trigger
    BY <1>3 DEF DataProcCmd_TriggerMsg, TypeOK, RxMsg, CsAct
  <2>2. pc' \in [Thread -> Label]
    BY <1>3, TypeGoto DEF DataProcCmd_TriggerMsg, Thread, Label
  <2> QED
    BY <1>3, <2>1, <2>2, ClearedOK DEF TypeOK, DataProcCmd_TriggerMsg, RxCall
<1>4. CASE DataProcCmd_ChangeAvail
  <2>1. pc' \in [Thread -> Label]
    BY <1>4, TypeGoto DEF DataProcCmd_ChangeAvail, Thread, Label
  <2>2. /\ bCpStat' \in [Connector -> CpStatus] /\ UNCHANGED bPreCpStat
        /\ bCpStatChgFlg' \subseteq Connector /\ oper' \subseteq Connector
    <3>1. Rx_Msg.cs.conn \in Connector
      BY <1>4 DEF TypeOK, RxMsg, CsAct
    <3> QED
      BY <1>4, <3>1 DEF DataProcCmd_ChangeAvail, TypeOK, CpStatus
  <2>3. /\ Tx_Msg' = ResMsg
        /\ UNCHANGED <<bConnect, bWaitResFlg, timers, sendBuf, Call_Tx_Msg, Rx_Msg, wire>>
        /\ UNCHANGED <<conns, server, env, flags>>
    BY <1>4 DEF DataProcCmd_ChangeAvail, RxCall
  <2> QED
    BY <2>1, <2>2, <2>3, ClearedOK DEF TypeOK
<1>5. CASE DataProcCmd_UpdateFw
  <2>1. pc' \in [Thread -> Label] /\ updateStep' \in UpdateStep
    BY <1>5, TypeGoto DEF DataProcCmd_UpdateFw, Thread, Label, UpdateStep
  <2> QED
    BY <1>5, <2>1, ClearedOK DEF TypeOK, DataProcCmd_UpdateFw, RxCall
<1> QED
  BY <1>1, <1>2, <1>3, <1>4, <1>5

\* The answers handed to DataProcCmd_<act>.
LEMMA TypeRxApply ==
  ASSUME TypeOK, NEW a, RxApply(a),
         bCpStat' \in [Connector -> CpStatus], bPreCpStat' \in [Connector -> CpStatus],
         req' \subseteq Flag, bChargerCostCheck' \in 0..2,
         MeterValQ' \in Seq(Ids), Len(MeterValQ') <= MaxQno
  PROVE  TypeOK'
BY TypeGoto DEF TypeOK, RxApply, Thread, Label

LEMMA TypeHandlers ==
  ASSUME TypeOK,
         \/ DataProcCmd_Auth \/ DataProcCmd_Boot \/ DataProcCmd_Stat \/ DataProcCmd_StartTs
         \/ DataProcCmd_StopTs \/ DataProcCmd_HB \/ DataProcCmd_MeterVal \/ DataProcCmd_Rest
  PROVE  TypeOK'
<1> USE TypeRxApply
<1>1. CASE DataProcCmd_Auth
  BY <1>1 DEF TypeOK, DataProcCmd_Auth, Flag
<1>2. CASE DataProcCmd_Boot
  <2>1. RxApply("Boot") /\ UNCHANGED <<req, MeterValQ>>
    BY <1>2 DEF DataProcCmd_Boot
  <2>2. bChargerCostCheck' \in 0..2
    BY <1>2 DEF DataProcCmd_Boot, TypeOK
  <2>3. \A c, p : BootStatus(c, p) \in CpStatus
    BY DEF BootStatus, CpStatus
  <2>4. bCpStat' \in [Connector -> CpStatus] /\ bPreCpStat' \in [Connector -> CpStatus]
    <3>1. CASE StatusField = "Accepted" /\ ~Registered
      BY <1>2, <2>3, <3>1 DEF DataProcCmd_Boot, TypeOK
    <3>2. CASE StatusField \in {"Rejected", "Pending"}
      BY <1>2, <3>2 DEF DataProcCmd_Boot, TypeOK, CpStatus
    <3>3. CASE ~(StatusField = "Accepted" /\ ~Registered) /\ StatusField \notin {"Rejected", "Pending"}
      BY <1>2, <3>3 DEF DataProcCmd_Boot, TypeOK
    <3> QED
      BY <3>1, <3>2, <3>3
  <2> QED
    BY <2>1, <2>2, <2>4 DEF TypeOK
<1>3. CASE DataProcCmd_Stat
  <2>1. bPreCpStat' \in [Connector -> CpStatus]
    BY <1>3 DEF DataProcCmd_Stat, StatTold, TypeOK
  <2>2. bChargerCostCheck' \in 0..2
    BY <1>3 DEF DataProcCmd_Stat, TypeOK
  <2> QED
    BY <1>3, <2>1, <2>2 DEF DataProcCmd_Stat, TypeOK
<1>4. CASE DataProcCmd_StartTs
  BY <1>4 DEF TypeOK, DataProcCmd_StartTs
<1>5. CASE DataProcCmd_StopTs
  <2>1. bCpStat' \in [Connector -> CpStatus] /\ req' \subseteq Flag
    BY <1>5 DEF DataProcCmd_StopTs, TypeOK, CpStatus, Flag
  <2>2. MeterValQ' \in Seq(Ids) /\ Len(MeterValQ') <= MaxQno
    BY <1>5, ConstAssumption DEF DataProcCmd_StopTs
  <2> QED
    BY <1>5, <2>1, <2>2 DEF DataProcCmd_StopTs, TypeOK
<1>6. CASE DataProcCmd_HB
  BY <1>6 DEF TypeOK, DataProcCmd_HB, Flag
<1>7. CASE DataProcCmd_MeterVal
  <2>1. MeterValQ' \in Seq(Ids) /\ Len(MeterValQ') <= MaxQno
    BY <1>7, ConstAssumption DEF DataProcCmd_MeterVal
  <2> QED
    BY <1>7, <2>1 DEF TypeOK, DataProcCmd_MeterVal
<1>8. CASE DataProcCmd_Rest
  BY <1>8 DEF TypeOK, DataProcCmd_Rest
<1> QED
  BY <1>1, <1>2, <1>3, <1>4, <1>5, <1>6, <1>7, <1>8

LEMMA TypeCentral ==
  ASSUME TypeOK, CentralSystem \/ SrvCalls \/ ConnLost
  PROVE  TypeOK'
<1>1. ASSUME SrvReads
      PROVE  /\ up' \in Seq(TxMsg) /\ Head(up) \in TxMsg
             /\ UNCHANGED <<pc, bConnect, bWaitResFlg, timers, shared, alive>>
             /\ UNCHANGED <<status, flags, conns>>
  BY <1>1 DEF SrvReads, TypeOK
<1>2. ASSUME NEW m \in TxMsg, NEW type \in {"RES", "ERR"}, NEW res \in Result,
             SrvAnswer(m, type, res)
      PROVE  down' \in Seq(RxMsg)
  <2>1. [type |-> type, id |-> m.id, act |-> "None", of |-> m.act, res |-> res,
         cs |-> NoCs] \in RxMsg
    BY <1>2, ClearedOK DEF TxMsg, RxMsg, Act
  <2> QED
    BY <1>2, <2>1 DEF SrvAnswer, TypeOK
<1>3. CASE SrvResult
  BY <1>1, <1>3 DEF SrvResult, TypeOK
<1>4. CASE SrvAccepts
  <2>1. down' \in Seq(RxMsg)
    BY <1>1, <1>2, <1>4 DEF SrvAccepts, Result
  <2>2. srvReg' \subseteq Result /\ owed' \subseteq {"startTs", "stopTs"}
    BY <1>4 DEF SrvAccepts, SrvLearns, TypeOK, Result
  <2>3. srvStat' \in [Connector -> CpStatus]
    BY <1>1, <1>4 DEF SrvAccepts, SrvLearns, TypeOK, TxMsg
  <2>4. SrvReads /\ UNCHANGED env
    BY <1>4 DEF SrvAccepts
  <2> QED
    BY <1>1, <2>1, <2>2, <2>3, <2>4 DEF TypeOK
<1>5. CASE SrvDefersBoot
  <2>1. down' \in Seq(RxMsg) /\ srvReg' \subseteq Result
    BY <1>1, <1>2, <1>5 DEF SrvDefersBoot, Result, TypeOK
  <2>2. SrvReads /\ faults' \in 0..MaxFaults
    BY <1>5, TypeFault DEF SrvDefersBoot
  <2>3. UNCHANGED <<srvStat, owed, update, savedOper, session, events, csCalls>>
    BY <1>5 DEF SrvDefersBoot, Fault
  <2> QED
    BY <1>1, <2>1, <2>2, <2>3 DEF TypeOK
<1>6. CASE SrvRefuses
  <2>1. down' \in Seq(RxMsg)
    BY <1>1, <1>2, <1>6 DEF SrvRefuses, Result, TypeOK
  <2>2. SrvReads /\ faults' \in 0..MaxFaults
    BY <1>6, TypeFault DEF SrvRefuses
  <2>3. UNCHANGED <<server, update, savedOper, session, events, csCalls>>
    BY <1>6 DEF SrvRefuses, Fault
  <2> QED
    BY <1>1, <2>1, <2>2, <2>3 DEF TypeOK
<1>7. CASE SrvCalls
  <2>1. down' \in Seq(RxMsg)
    <3>1. ASSUME NEW c \in CsActs
          PROVE  [NoRx EXCEPT !.type = "CALL", !.cs = c] \in RxMsg
      BY ConstAssumption, ClearedOK DEF RxMsg
    <3>2. \E r \in RxMsg : down' = Append(down, r)
      BY <1>7, <3>1 DEF SrvCalls
    <3>3. down \in Seq(RxMsg)
      BY DEF TypeOK
    <3> QED
      BY <3>2, <3>3
  <2>2. csCalls' \in 0..MaxCsCalls
    <3>1. csCalls < MaxCsCalls /\ csCalls' = csCalls + 1
      BY <1>7 DEF SrvCalls
    <3> QED
      BY <3>1, ConstAssumption DEF TypeOK
  <2>3. /\ UNCHANGED <<pc, bConnect, bWaitResFlg, timers, shared, up, alive, status>>
        /\ UNCHANGED <<flags, conns, server, update, savedOper, session, events, faults>>
    BY <1>7 DEF SrvCalls
  <2> QED
    BY <2>1, <2>2, <2>3 DEF TypeOK
<1>8. CASE ConnLost
  <2>1. up' \in Seq(TxMsg) /\ down' \in Seq(RxMsg) /\ alive' = FALSE
    BY <1>8 DEF ConnLost
  <2>2. faults' \in 0..MaxFaults /\ UNCHANGED <<update, savedOper, session, events, csCalls>>
    BY <1>8, TypeFault DEF ConnLost, Fault
  <2>3. UNCHANGED <<pc, bConnect, bWaitResFlg, timers, shared, status, flags, conns, server>>
    BY <1>8 DEF ConnLost
  <2> QED
    BY <2>1, <2>2, <2>3 DEF TypeOK
<1> QED
  BY <1>3, <1>4, <1>5, <1>6, <1>7, <1>8 DEF CentralSystem

LEMMA TypeTime ==
  ASSUME TypeOK,
         \/ RespTimeElapses \/ RespTimeElapsesEarly \/ HbTimeElapses \/ MeterTimeElapses
  PROVE  TypeOK'
<1>1. CASE RespTimeElapses
  BY <1>1 DEF TypeOK, RespTimeElapses, TimeOut
<1>2. CASE RespTimeElapsesEarly
  <2>1. faults' \in 0..MaxFaults /\ UNCHANGED <<update, savedOper, session, events, csCalls>>
    BY <1>2, TypeFault DEF RespTimeElapsesEarly, Fault
  <2>2. TimeOut
    BY <1>2 DEF RespTimeElapsesEarly
  <2> QED
    BY <2>1, <2>2 DEF TypeOK, TimeOut
<1>3. CASE HbTimeElapses
  <2>1. events' \in 0..MaxEvents
    BY <1>3, ConstAssumption DEF HbTimeElapses, TypeOK
  <2>2. /\ hbDue' = TRUE
        /\ UNCHANGED <<pc, bConnect, bWaitResFlg, respDue, meterDue, shared, wire, status>>
        /\ UNCHANGED <<flags, conns, server, update, savedOper, session, csCalls, faults>>
    BY <1>3 DEF HbTimeElapses
  <2> QED
    BY <2>1, <2>2 DEF TypeOK
<1>4. CASE MeterTimeElapses
  BY <1>4 DEF TypeOK, MeterTimeElapses
<1> QED
  BY <1>1, <1>2, <1>3, <1>4

\* The requests and statuses of the other threads.
LEMMA TypeEvent ==
  ASSUME TypeOK, Event,
         bCpStat' \in [Connector -> CpStatus],
         meterDue' \in BOOLEAN, req' \subseteq Flag, bReqStartTsNo' \in 0..1,
         owed' \subseteq {"startTs", "stopTs"},
         session' \in {"main", "charge", "finish"}
  PROVE  TypeOK'
<1>1. events' \in 0..MaxEvents
  BY ConstAssumption DEF Event, TypeOK
<1>2. /\ UNCHANGED <<pc, bConnect, bWaitResFlg, respDue, hbDue, shared, wire, conns>>
      /\ UNCHANGED <<srvReg, srvStat, csCalls, faults, bPreCpStat, bCpStatChgFlg>>
      /\ UNCHANGED <<bChargerCostCheck, triggerMsgStat, updateStep, update, savedOper>>
      /\ UNCHANGED <<oper, MeterValQ>>
  BY DEF Event
<1> QED
  BY <1>1, <1>2 DEF TypeOK

LEMMA TypeOthers == ASSUME TypeOK, OtherThreads PROVE TypeOK'
<1> USE TypeEvent
<1>1. CASE EvStatus
  <2>1. \E s \in CpStatus : bCpStat' = [bCpStat EXCEPT ![1] = s]
    BY <1>1, ConstAssumption DEF EvStatus
  <2>2. bCpStat' \in [Connector -> CpStatus]
    BY <2>1 DEF TypeOK
  <2> QED
    BY <1>1, <2>2 DEF EvStatus, TypeOK
<1>2. CASE EvRequest
  BY <1>2 DEF EvRequest, TypeOK
<1>3. CASE EvStart
  BY <1>3 DEF EvStart, TypeOK
<1>4. CASE EvStop
  BY <1>4 DEF EvStop, TypeOK, Flag
<1>5. CASE EvMainOnEnter
  <2>1. bCpStat' \in [Connector -> CpStatus]
    BY <1>5 DEF EvMainOnEnter, TypeOK, CpStatus
  <2> QED
    BY <1>5, <2>1 DEF EvMainOnEnter, TypeOK
<1>6. CASE EvCardWaitLeave
  BY <1>6 DEF EvCardWaitLeave, TypeOK
<1>7. CASE EvPeriod
  BY <1>7 DEF EvPeriod, TypeOK
<1> QED
  BY <1>1, <1>2, <1>3, <1>4, <1>5, <1>6, <1>7 DEF OtherThreads

LEMMA TypeUpdate == ASSUME TypeOK, UpdateThread PROVE TypeOK'
<1>1. ASSUME NEW from, NEW to \in {"begun", "started", "loaded", "ended", "saved"},
             UpdateStepTo(from, to), bCpStat' \in [Connector -> CpStatus],
             oper' \subseteq Connector, updateStep' \in UpdateStep,
             savedOper' \subseteq Connector
      PROVE  TypeOK'
  BY <1>1 DEF UpdateStepTo, TypeOK
<1>2. CASE UpdateBegins
  <2>1. bCpStat' \in [Connector -> CpStatus] /\ oper' \subseteq Connector
    BY <1>2 DEF UpdateBegins, CpStatus
  <2>2. UpdateStepTo("idle", "begun") /\ UNCHANGED <<updateStep, savedOper>>
    BY <1>2 DEF UpdateBegins
  <2> QED
    BY <1>1, <2>1, <2>2 DEF TypeOK
<1>3. CASE UpdateDownloads
  BY <1>1, <1>3 DEF UpdateDownloads, TypeOK, UpdateStep
<1>4. CASE UpdateLoads
  BY <1>1, <1>4 DEF UpdateLoads, TypeOK, UpdateStep
<1>5. CASE UpdateEnds
  BY <1>1, <1>5 DEF UpdateEnds, TypeOK, UpdateStep
<1>6. CASE UpdateSaves
  BY <1>1, <1>6 DEF UpdateSaves, TypeOK
<1>7. CASE UpdateReboots
  BY <1>7, TypeReboot DEF UpdateReboots, TypeOK
<1> QED
  BY <1>2, <1>3, <1>4, <1>5, <1>6, <1>7 DEF UpdateThread

LEMMA TypeStep == TypeOK /\ [Next]_vars => TypeOK'
<1> SUFFICES ASSUME TypeOK, [Next]_vars PROVE TypeOK'
  OBVIOUS
<1>1. CASE ClientThread
  <2>1. CASE RebootOnNoNetwork
    BY <2>1, TypeReboot DEF RebootOnNoNetwork, TypeOK
  <2> QED
    BY <1>1, <2>1, TypeTop, TypeConnection, TypeSenario, TypeTrans DEF ClientThread, Thread
<1>2. CASE RxThread
  BY <1>2, TypeReceive, TypeRxCall, TypeHandlers, TypeTrans DEF RxThread, Thread
<1>3. CASE CentralSystem \/ SrvCalls \/ ConnLost
  BY <1>3, TypeCentral
<1>4. CASE RebootOnNetError
  <2>1. Reboot /\ faults' \in 0..MaxFaults /\ oper' \subseteq Connector
    BY <1>4, ConstAssumption DEF RebootOnNetError, TypeOK
  <2> QED
    BY <2>1, TypeReboot
<1>5. CASE \/ RespTimeElapses \/ RespTimeElapsesEarly \/ HbTimeElapses \/ MeterTimeElapses
  BY <1>5, TypeTime
<1>6. CASE OtherThreads
  BY <1>6, TypeOthers
<1>7. CASE UpdateThread
  BY <1>7, TypeUpdate
<1>8. CASE UNCHANGED vars
  BY <1>8 DEF TypeOK, vars
<1> QED
  BY <1>1, <1>2, <1>3, <1>4, <1>5, <1>6, <1>7, <1>8 DEF Next

\* Every message, queue and counter of the two threads keeps its type; in particular the
\* queue of meter values never exceeds MAX_QNO_METERVAL (Add_MeterVal_Q shifts it).
THEOREM TypeCorrect == Spec => []TypeOK
BY TypeInit, TypeStep, PTL DEF Spec

-----------------------------------------------------------------------------
(* An id stands for one action *)

\* For SameIdSameCall to be kept, no message may carry the id of the sample that
\* has just been queued; for the answer that is accepted it must also be known that
\* the registered message is a CALL.
SampledFree == \A i \in JustSampled : \A p \in Asked : p[1] # i

WaitsForCall == bWaitResFlg => Call_Tx_Msg.type = "CALL"

LinkInv == TypeOK /\ SameIdSameCall /\ SampledFree /\ WaitsForCall

LEMMA ElemsOK ==
  ASSUME NEW S, NEW s \in Seq(S)
  PROVE  /\ \A e \in S : Elems(Append(s, e)) = Elems(s) \cup {e}
         /\ s # <<>> => Head(s) \in Elems(s) /\ Elems(Tail(s)) \subseteq Elems(s)
         /\ Elems(<<>>) = {}
<1>1. ASSUME NEW e \in S
      PROVE  Elems(Append(s, e)) = Elems(s) \cup {e}
  <2>1. DOMAIN Append(s, e) = DOMAIN s \cup {Len(s) + 1}
    OBVIOUS
  <2>2. \A i \in DOMAIN s : Append(s, e)[i] = s[i]
    OBVIOUS
  <2>3. Append(s, e)[Len(s) + 1] = e
    OBVIOUS
  <2> QED
    BY <2>1, <2>2, <2>3 DEF Elems
<1>2. s # <<>> => Head(s) \in Elems(s) /\ Elems(Tail(s)) \subseteq Elems(s)
  BY DEF Elems
<1>3. Elems(<<>>) = {}
  BY DEF Elems
<1> QED
  BY <1>1, <1>2, <1>3

\* The queue takes a new id and may lose its oldest one.
LEMMA AddMeterValElems ==
  ASSUME NEW q \in Seq(Ids), NEW i \in Ids
  PROVE  Elems(AddMeterVal(q, i)) \subseteq Elems(q) \cup {i}
<1>1. CASE Len(q) < MaxQno
  BY <1>1, ElemsOK DEF AddMeterVal
<1>2. CASE ~(Len(q) < MaxQno)
  <2>1. q # <<>>
    BY <1>2, ConstAssumption
  <2>2. Tail(q) \in Seq(Ids)
    BY <2>1
  <2>3. Elems(Append(Tail(q), i)) = Elems(Tail(q)) \cup {i}
    BY <2>2, ElemsOK
  <2> QED
    BY <1>2, <2>1, <2>3, ElemsOK DEF AddMeterVal
<1> QED
  BY <1>1, <1>2

\* Whatever is held uses an id in UsedIds, or the id of a cleared entry.
LEMMA CarriedIds == \A p \in Carried : p[1] \in UsedIds \cup {NoId}
BY DEF Asked, Carried, CallsHeld, AnswersHeld, UsedIds

\* A step that adds to what is held pairs that agree with one another, with new ids or
\* the id of the sample just queued.
LEMMA CarriedGrows ==
  ASSUME SameIdSameCall, SampledFree, NEW N, Carried' \subseteq Carried \cup N,
         \A p \in N : p[1] \in JustSampled \/ p[1] \notin UsedIds \cup {NoId},
         \A p, q \in N : p[1] = q[1] => p[2] = q[2] \/ "MeterVal" \in {p[2], q[2]}
  PROVE  SameIdSameCall'
<1> SUFFICES ASSUME NEW p \in Carried', NEW q \in Carried', p[1] = q[1]
             PROVE  p[2] = q[2] \/ "MeterVal" \in {p[2], q[2]}
  BY DEF SameIdSameCall
<1>1. ASSUME NEW o \in Carried, NEW n \in N, o[1] = n[1] PROVE o[2] = "MeterVal"
  <2>1. o[1] \in JustSampled BY <1>1, CarriedIds
  <2> QED BY <1>1, <2>1 DEF SampledFree, Carried
<1> QED BY <1>1 DEF SameIdSameCall

\* A step that holds no new message and queues no new id.
LEMMA CarriedShrinks ==
  ASSUME CallsHeld' \subseteq CallsHeld, AnswersHeld' \subseteq AnswersHeld,
         Elems(MeterValQ)' \subseteq Elems(MeterValQ)
  PROVE  Asked' \subseteq Asked /\ Carried' \subseteq Carried
BY DEF Asked, Carried

\* A step that touches no message, no frame and no queue entry.
LEMMA CarriedSame ==
  ASSUME WaitsForCall,
         UNCHANGED <<Tx_Msg, sendBuf, Call_Tx_Msg, Rx_Msg, up, down, MeterValQ>>,
         bWaitResFlg' => bWaitResFlg
  PROVE  Asked' \subseteq Asked /\ Carried' \subseteq Carried /\ WaitsForCall'
BY DEF Asked, Carried, CallsHeld, AnswersHeld, WaitsForCall

\* A CALL is made with an id from the clock; the queue may take one too.
LEMMA CarriedMake ==
  ASSUME LinkInv, NEW a, NEW c, NEW i \in Ids, NEW Q, MakeDataCmd(a, i, c),
         Q \subseteq Ids, \A j \in Q \cup {i} : j \in JustSampled \/ j \notin UsedIds,
         Elems(MeterValQ') \subseteq Elems(MeterValQ) \cup Q
  PROVE  SameIdSameCall' /\ WaitsForCall'
<1>1. UNCHANGED <<bWaitResFlg, sendBuf, Call_Tx_Msg, Rx_Msg, up, down>>
  BY DEF MakeDataCmd
<1>2. Tx_Msg'.id = i /\ Tx_Msg'.act = a
  BY DEF MakeDataCmd
<1> DEFINE N == {<<i, a>>} \cup {<<j, "MeterVal">> : j \in Q}
<1>3. CallsHeld' \subseteq CallsHeld \cup {Tx_Msg'} /\ AnswersHeld' = AnswersHeld
  BY <1>1 DEF CallsHeld, AnswersHeld
<1>4. Carried' \subseteq Carried \cup N
  BY <1>2, <1>3 DEF Asked, Carried
<1>5. \A p \in N : p[1] \in JustSampled \/ p[1] \notin UsedIds \cup {NoId}
  BY ConstAssumption
<1>6. \A p, q \in N : p[1] = q[1] => p[2] = q[2] \/ "MeterVal" \in {p[2], q[2]}
  OBVIOUS
<1>7. SameIdSameCall'
  <2> HIDE DEF N
  <2> QED
    BY <1>4, <1>5, <1>6, CarriedGrows DEF LinkInv
<1> QED
  BY <1>1, <1>7 DEF LinkInv, WaitsForCall

\* MeterValues takes the id of an entry of the queue, which may just have been added.
LEMMA CarriedMakeMeter ==
  ASSUME LinkInv, NEW c, NEW Q, MakeDataCmd("MeterVal", MeterUid(MeterValQ'), c),
         Q \subseteq Ids, \A j \in Q : j \in JustSampled \/ j \notin UsedIds,
         MeterValQ' \in Seq(Ids), Elems(MeterValQ') \subseteq Elems(MeterValQ) \cup Q
  PROVE  SameIdSameCall' /\ WaitsForCall'
<1>1. UNCHANGED <<bWaitResFlg, sendBuf, Call_Tx_Msg, Rx_Msg, up, down>>
  BY DEF MakeDataCmd
<1>2. Tx_Msg'.id = MeterUid(MeterValQ') /\ Tx_Msg'.act = "MeterVal"
  BY DEF MakeDataCmd
<1> DEFINE N == {<<j, "MeterVal">> : j \in Q}
<1>3. CallsHeld' \subseteq CallsHeld \cup {Tx_Msg'} /\ AnswersHeld' = AnswersHeld
  BY <1>1 DEF CallsHeld, AnswersHeld
<1>4. MeterUid(MeterValQ') \in {NoId} \cup Elems(MeterValQ')
  BY ElemsOK DEF MeterUid
<1>5. Carried' \subseteq Carried \cup N
  BY <1>2, <1>3, <1>4 DEF Asked, Carried
<1>6. \A p \in N : /\ p[1] \in JustSampled \/ p[1] \notin UsedIds \cup {NoId}
                   /\ p[2] = "MeterVal"
  BY ConstAssumption
<1>7. SameIdSameCall'
  <2> HIDE DEF N
  <2> QED
    BY <1>5, <1>6, CarriedGrows DEF LinkInv
<1> QED
  BY <1>1, <1>7 DEF LinkInv, WaitsForCall

LEMMA CarriedSenario ==
  ASSUME LinkInv,
         \/ SenarioBoot \/ SenarioMeter \/ (\E c \in Connector : SenarioStat(c))
         \/ (\E f \in Pending \ {"member", "stopTs", "trigger"} : SenarioRequest(f))
         \/ SenarioMember \/ SenarioStopTs \/ SenarioTrigger
  PROVE  SameIdSameCall' /\ WaitsForCall'
<1>q. TypeOK /\ MeterValQ \in Seq(Ids)
  BY DEF LinkInv, TypeOK
<1>m. ASSUME CanMint({}), UNCHANGED MeterValQ, NEW a, NEW i \in Readings, NEW c,
             MakeDataCmd(a, i, c)
      PROVE  SameIdSameCall' /\ WaitsForCall'
  <2>1. i \in Ids /\ (i \in JustSampled \/ i \notin UsedIds)
    BY <1>q, <1>m, ReadingsOK
  <2>2. Elems(MeterValQ') \subseteq Elems(MeterValQ) \cup {}
    BY <1>m
  <2> QED
    BY <1>m, <2>1, <2>2, CarriedMake
<1>1. CASE SenarioBoot
  BY <1>1, <1>m DEF SenarioBoot
<1>2. CASE SenarioMeter
  <2>1. PICK c : UNCHANGED MeterValQ /\ MakeDataCmd("MeterVal", MeterUid(MeterValQ'), c)
    BY <1>2 DEF SenarioMeter
  <2> DEFINE Q == {}
  <2>2. MeterValQ' \in Seq(Ids) /\ Elems(MeterValQ') \subseteq Elems(MeterValQ) \cup Q
    BY <1>q, <2>1
  <2>3. Q \subseteq Ids /\ \A j \in Q : j \in JustSampled \/ j \notin UsedIds
    OBVIOUS
  <2>4. MakeDataCmd("MeterVal", MeterUid(MeterValQ'), c)
    BY <2>1
  <2> HIDE DEF Q
  <2> QED
    BY ONLY LinkInv, <2>2, <2>3, <2>4, CarriedMakeMeter
<1>3. ASSUME NEW c \in Connector, SenarioStat(c)
      PROVE  SameIdSameCall' /\ WaitsForCall'
  BY <1>3, <1>m DEF SenarioStat
<1>4. ASSUME NEW f \in Pending \ {"member", "stopTs", "trigger"}, SenarioRequest(f)
      PROVE  SameIdSameCall' /\ WaitsForCall'
  BY <1>4, <1>m DEF SenarioRequest
<1>5. CASE SenarioStopTs
  <2>0. PICK q \in Readings :
          /\ MeterValQ' = AddMeterVal(MeterValQ, q)
          /\ \E i \in {q, FreshId({q})} : MakeDataCmd("StopTs", i, 0)
    BY <1>5 DEF SenarioStopTs
  <2>1. PICK i \in {q, FreshId({q})} : MakeDataCmd("StopTs", i, 0)
    BY <2>0
  <2>2. q \in Ids /\ (q \in JustSampled \/ q \notin UsedIds)
    BY <1>5, <1>q, ReadingsOK DEF SenarioStopTs
  <2>3. i \in Ids /\ (i \in JustSampled \/ i \notin UsedIds)
    BY <1>5, <1>q, <2>2, StopTsIds DEF SenarioStopTs
  <2>4. Elems(MeterValQ') \subseteq Elems(MeterValQ) \cup {q}
    BY <1>q, <2>0, <2>2, AddMeterValElems
  <2> QED
    BY <2>1, <2>2, <2>3, <2>4, CarriedMake
<1>6. CASE SenarioTrigger
  <2>1. PICK id \in Readings : TriggeredWith(id)
    BY <1>6 DEF SenarioTrigger, TriggeredWith
  <2>2. id \in Ids /\ (id \in JustSampled \/ id \notin UsedIds)
    BY <1>6, <1>q, ReadingsOK DEF SenarioTrigger
  <2>3. CASE TriggerAct[triggerMsgStat] = "MeterVal"
    <3>1. /\ MeterValQ' = AddMeterVal(MeterValQ, id)
          /\ MakeDataCmd("MeterVal", MeterUid(MeterValQ'), 1)
      BY <2>1, <2>3 DEF TriggeredWith
    <3>2. Elems(MeterValQ') \subseteq Elems(MeterValQ) \cup {id}
      BY <1>q, <2>2, <3>1, AddMeterValElems
    <3>3. MeterValQ' \in Seq(Ids)
      BY <2>2, <3>1, AddMeterValOK DEF LinkInv, TypeOK
    <3> QED
      BY <2>2, <3>1, <3>2, <3>3, CarriedMakeMeter
  <2>4. CASE TriggerAct[triggerMsgStat] # "MeterVal"
    <3>1. UNCHANGED MeterValQ
          /\ \E a, c : MakeDataCmd(a, id, c)
      BY <2>1, <2>4 DEF TriggeredWith
    <3> QED
      BY <1>6, <3>1, <1>m DEF SenarioTrigger
  <2> QED
    BY <2>3, <2>4
<1>7. CASE SenarioMember
  BY <1>7, <1>m DEF SenarioMember, Readings
<1> QED
  BY <1>1, <1>2, <1>3, <1>4, <1>5, <1>6, <1>7

LEMMA CarriedTrans ==
  ASSUME LinkInv, NEW t \in Thread, Trans(t)
  PROVE  Asked' \subseteq Asked /\ Carried' \subseteq Carried /\ WaitsForCall'
<1>1. CASE Make_Ocpp_Msg(t)
  <2>1. CallsHeld' \subseteq CallsHeld /\ AnswersHeld' = AnswersHeld
    BY <1>1 DEF Make_Ocpp_Msg, CallsHeld, AnswersHeld
  <2> QED
    BY <1>1, <2>1, CarriedShrinks DEF Make_Ocpp_Msg, LinkInv, WaitsForCall
<1>2. CASE WsSend(t)
  <2>1. Elems(up') \subseteq Elems(up) \cup {sendBuf}
    BY <1>2, ElemsOK DEF WsSend, LinkInv, TypeOK
  <2>2. CallsHeld' \subseteq CallsHeld /\ AnswersHeld' = AnswersHeld
    BY <1>2, <2>1 DEF WsSend, CallsHeld, AnswersHeld
  <2> QED
    BY <1>2, <2>2, CarriedShrinks DEF WsSend, LinkInv, WaitsForCall
<1>3. CASE WsSendFails(t)
  <2>1. CallsHeld' = CallsHeld /\ AnswersHeld' \subseteq AnswersHeld
    BY <1>3 DEF WsSendFails, CallsHeld, AnswersHeld, NoRx
  <2> QED
    BY <1>3, <2>1, CarriedShrinks DEF WsSendFails, LinkInv, WaitsForCall
<1>4. CASE WsRegister(t)
  <2>1. CallsHeld' \subseteq CallsHeld /\ AnswersHeld' = AnswersHeld
    BY <1>4 DEF WsRegister, CallsHeld, AnswersHeld
  <2>2. WaitsForCall'
    BY <1>4 DEF WsRegister, LinkInv, WaitsForCall
  <2> QED
    BY <1>4, <2>1, <2>2, CarriedShrinks DEF WsRegister, LinkInv
<1> QED
  BY <1>1, <1>2, <1>3, <1>4 DEF Trans

LEMMA CarriedReboot ==
  ASSUME LinkInv, Reboot
  PROVE  Asked' \subseteq Asked /\ Carried' \subseteq Carried /\ WaitsForCall'
<1>1. Elems(up') = {} /\ Elems(down') = {} /\ Elems(MeterValQ') = {}
  BY ElemsOK DEF Reboot, LinkInv, TypeOK
<1>2. CallsHeld' = {} /\ AnswersHeld' = {}
  BY <1>1 DEF Reboot, CallsHeld, AnswersHeld, ResMsg, NoRx
<1> QED
  BY <1>1, <1>2, CarriedShrinks DEF Reboot, LinkInv, WaitsForCall

LEMMA CarriedConnection ==
  ASSUME LinkInv,
         \/ RouterPowerCheck \/ ClientNoNetwork
         \/ WS_Server_connect \/ WS_Server_connect_fails \/ SenarioWaits \/ SenarioTimeout
         \/ SenarioIdle \/ SenarioMemberSleeps \/ ConnLost
  PROVE  Asked' \subseteq Asked /\ Carried' \subseteq Carried /\ WaitsForCall'
<1> USE DEF LinkInv
<1>2. CASE RouterPowerCheck
  BY <1>2, CarriedSame DEF RouterPowerCheck
<1>3. CASE ClientNoNetwork
  <2>1. CallsHeld' = CallsHeld /\ AnswersHeld' \subseteq AnswersHeld
    BY <1>3 DEF ClientNoNetwork, CallsHeld, AnswersHeld, NoRx
  <2> QED
    BY <1>3, <2>1, CarriedShrinks DEF ClientNoNetwork, WaitsForCall
<1>4. CASE WS_Server_connect \/ WS_Server_connect_fails \/ ConnLost
  <2>1. /\ up' = <<>> /\ down' = <<>> /\ UNCHANGED <<shared, MeterValQ>>
        /\ bWaitResFlg' => bWaitResFlg
    BY <1>4 DEF WS_Server_connect, WS_Server_connect_fails, ConnLost
  <2>2. Elems(up') = {} /\ Elems(down') = {}
    BY <2>1, ElemsOK DEF TypeOK
  <2>3. CallsHeld' \subseteq CallsHeld /\ AnswersHeld' \subseteq AnswersHeld
    BY <2>1, <2>2 DEF CallsHeld, AnswersHeld
  <2> QED
    BY <2>1, <2>3, CarriedShrinks DEF WaitsForCall
<1>5. CASE SenarioWaits
  BY <1>5, CarriedSame DEF SenarioWaits
<1>6. CASE SenarioTimeout
  BY <1>6, CarriedSame DEF SenarioTimeout
<1>7. CASE SenarioIdle
  BY <1>7, CarriedSame DEF SenarioIdle
<1>8. CASE SenarioMemberSleeps
  BY <1>8, CarriedSame DEF SenarioMemberSleeps
<1> QED
  BY <1>2, <1>3, <1>4, <1>5, <1>6, <1>7, <1>8

LEMMA CarriedReceive ==
  ASSUME LinkInv, RxThread, ~Trans("R")
  PROVE  Asked' \subseteq Asked /\ Carried' \subseteq Carried /\ WaitsForCall'
<1> USE DEF LinkInv
<1>1. CASE RxParse
  <2>1. Head(down) \in Elems(down) /\ Elems(down') \subseteq Elems(down)
    BY <1>1, ElemsOK DEF RxParse, TypeOK
  <2>2. Head(down) \in RxMsg
    BY <1>1 DEF RxParse, TypeOK
  <2>3. CallsHeld' = CallsHeld /\ UNCHANGED <<MeterValQ, bWaitResFlg, Call_Tx_Msg>>
    BY <1>1 DEF RxParse, CallsHeld
  <2>4. Rx_Msg'.type = "RES" => /\ Head(down).type = "RES"
                                /\ Rx_Msg'.id = Head(down).id /\ Rx_Msg'.of = Head(down).of
    BY <1>1, <2>2 DEF RxParse, RxMsg, NoRx
  <2>5. {<<m.id, m.of>> : m \in AnswersHeld'} \subseteq {<<m.id, m.of>> : m \in AnswersHeld}
    BY <2>1, <2>4 DEF AnswersHeld
  <2>6. Asked' \subseteq Asked
    BY <2>3, <2>5 DEF Asked
  <2> QED
    BY <2>3, <2>6 DEF Carried, WaitsForCall
<1>2. CASE RxFails
  <2>1. CallsHeld' = CallsHeld /\ AnswersHeld' \subseteq AnswersHeld
    BY <1>2 DEF RxFails, CallsHeld, AnswersHeld, NoRx
  <2> QED
    BY <1>2, <2>1, CarriedShrinks DEF RxFails, WaitsForCall
<1>3. CASE RxAnswer
  BY <1>3, CarriedSame DEF RxAnswer
<1>4. CASE RxDrop
  BY <1>4, CarriedSame DEF RxDrop
<1>5. CASE \/ RxCallUnregistered \/ RxCallOther
           \/ DataProcCmd_TriggerMsg \/ DataProcCmd_ChangeAvail \/ DataProcCmd_UpdateFw
  <2>1. /\ Tx_Msg' \in {Tx_Msg, ResMsg}
        /\ UNCHANGED <<sendBuf, Call_Tx_Msg, Rx_Msg, up, down, MeterValQ, bWaitResFlg>>
    BY <1>5 DEF RxCallUnregistered, RxCallOther, DataProcCmd_TriggerMsg,
                DataProcCmd_ChangeAvail, DataProcCmd_UpdateFw, RxCall
  <2>2. CallsHeld' \subseteq CallsHeld /\ AnswersHeld' = AnswersHeld
    BY <2>1 DEF CallsHeld, AnswersHeld, ResMsg
  <2> QED
    BY <2>1, <2>2, CarriedShrinks DEF WaitsForCall
<1>6. CASE \/ DataProcCmd_Auth \/ DataProcCmd_Boot \/ DataProcCmd_Stat
           \/ DataProcCmd_StartTs \/ DataProcCmd_StopTs \/ DataProcCmd_HB
           \/ DataProcCmd_MeterVal \/ DataProcCmd_Rest
  <2>1. UNCHANGED <<shared, up, down, bWaitResFlg>> /\ MeterValQ' \in {MeterValQ, <<>>}
    BY <1>6 DEF DataProcCmd_Auth, DataProcCmd_Boot, DataProcCmd_Stat, DataProcCmd_StartTs,
                DataProcCmd_StopTs, DataProcCmd_HB, DataProcCmd_MeterVal, DataProcCmd_Rest,
                RxApply
  <2>2. Elems(MeterValQ') \subseteq Elems(MeterValQ)
    BY <2>1, ElemsOK DEF TypeOK
  <2>3. CallsHeld' = CallsHeld /\ AnswersHeld' = AnswersHeld
    BY <2>1 DEF CallsHeld, AnswersHeld
  <2> QED
    BY <2>1, <2>2, <2>3, CarriedShrinks DEF WaitsForCall
<1> QED
  BY <1>1, <1>2, <1>3, <1>4, <1>5, <1>6 DEF RxThread

LEMMA CarriedCentral ==
  ASSUME LinkInv, CentralSystem \/ SrvCalls
  PROVE  Asked' \subseteq Asked /\ Carried' \subseteq Carried /\ WaitsForCall'
<1> USE DEF LinkInv
<1>1. ASSUME SrvReads
      PROVE  /\ Head(up) \in Elems(up) /\ CallsHeld' \subseteq CallsHeld
             /\ UNCHANGED <<Rx_Msg, MeterValQ, bWaitResFlg, Call_Tx_Msg>>
  <2>1. Head(up) \in Elems(up) /\ Elems(up') \subseteq Elems(up)
    BY <1>1, ElemsOK DEF SrvReads, TypeOK
  <2> QED
    BY <1>1, <2>1 DEF SrvReads, CallsHeld
<1>2. CASE CentralSystem
  <2>1. SrvReads
    BY <1>2 DEF CentralSystem, SrvResult, SrvAccepts, SrvDefersBoot, SrvRefuses
  <2>2. \/ UNCHANGED down
        \/ /\ Head(up).type = "CALL"
           /\ \E type, res : SrvAnswer(Head(up), type, res)
    BY <1>2 DEF CentralSystem, SrvResult, SrvAccepts, SrvDefersBoot, SrvRefuses
  <2>3. down' \in Seq(RxMsg)
    BY <1>2, TypeCentral DEF TypeOK
  <2>4. {<<m.id, m.of>> : m \in AnswersHeld'} \subseteq Asked
    <3>1. CASE UNCHANGED down
      BY <1>1, <2>1, <3>1 DEF Asked, AnswersHeld
    <3>2. ASSUME Head(up).type = "CALL", NEW type, NEW res, SrvAnswer(Head(up), type, res)
          PROVE  {<<m.id, m.of>> : m \in AnswersHeld'} \subseteq Asked
      <4> DEFINE r == [type |-> type, id |-> Head(up).id, act |-> "None",
                       of |-> Head(up).act, res |-> res, cs |-> NoCs]
      <4>1. down' = Append(down, r)
        BY <3>2 DEF SrvAnswer
      <4>2. r.id = Head(up).id /\ r.of = Head(up).act
        OBVIOUS
      <4> HIDE DEF r
      <4>3. Elems(down') \subseteq Elems(down) \cup {r}
        BY <4>1, <2>3 DEF TypeOK, Elems
      <4>4. Head(up) \in CallsHeld
        BY <1>1, <2>1, <3>2 DEF CallsHeld
      <4>5. <<r.id, r.of>> \in Asked
        BY <4>2, <4>4 DEF Asked
      <4>6. AnswersHeld' \subseteq AnswersHeld \cup {r}
        BY <1>1, <2>1, <4>3 DEF AnswersHeld
      <4>7. {<<m.id, m.of>> : m \in AnswersHeld} \subseteq Asked
        BY DEF Asked
      <4> QED
        BY <4>5, <4>6, <4>7
    <3> QED
      BY <2>2, <3>1, <3>2
  <2>5. Asked' \subseteq Asked
    BY <1>1, <2>1, <2>4 DEF Asked
  <2> QED
    BY <1>1, <2>1, <2>5 DEF Carried, WaitsForCall
<1>3. CASE SrvCalls
  <2>0. \A c : [NoRx EXCEPT !.type = "CALL", !.cs = c].type = "CALL"
    BY DEF NoRx
  <2>1. PICK r : down' = Append(down, r) /\ r.type = "CALL"
    BY <1>3, <2>0 DEF SrvCalls
  <2>2. Elems(down') \subseteq Elems(down) \cup {r}
    BY <2>1 DEF TypeOK, Elems
  <2>3. CallsHeld' = CallsHeld /\ AnswersHeld' \subseteq AnswersHeld
    BY <1>3, <2>1, <2>2 DEF SrvCalls, CallsHeld, AnswersHeld
  <2> QED
    BY <1>3, <2>3, CarriedShrinks DEF SrvCalls, WaitsForCall
<1> QED
  BY <1>2, <1>3

LEMMA CarriedOthers ==
  ASSUME LinkInv, \/ OtherThreads \/ RespTimeElapses \/ RespTimeElapsesEarly
                  \/ HbTimeElapses \/ MeterTimeElapses \/ UNCHANGED vars
                  \/ UpdateThread /\ ~UpdateReboots
  PROVE  Asked' \subseteq Asked /\ Carried' \subseteq Carried /\ WaitsForCall'
<1>1. UNCHANGED <<Tx_Msg, sendBuf, Call_Tx_Msg, Rx_Msg, up, down, MeterValQ, bWaitResFlg>>
  BY DEF OtherThreads, EvStatus, EvRequest, EvStart, EvStop, EvMainOnEnter, EvCardWaitLeave,
         EvPeriod, Event, RespTimeElapses, RespTimeElapsesEarly,
         TimeOut, HbTimeElapses, MeterTimeElapses, vars, UpdateThread, UpdateBegins,
         UpdateDownloads, UpdateLoads, UpdateEnds, UpdateSaves, UpdateStepTo
<1> QED
  BY <1>1, CarriedSame DEF LinkInv

\* At the top of the loop a sample may be queued, with an id of its own.
LEMMA CarriedTop ==
  ASSUME LinkInv, ClientTop
  PROVE  SameIdSameCall' /\ SampledFree' /\ WaitsForCall'
<1> USE DEF LinkInv
<1>1. CASE Goto("C", "net") /\ UNCHANGED MeterValQ
  <2>1. Asked' \subseteq Asked /\ Carried' \subseteq Carried /\ WaitsForCall' BY <1>1, CarriedSame DEF ClientTop
  <2>2. pc'["C"] = "net" BY <1>1 DEF Goto, Thread, TypeOK
  <2> QED BY <2>1, <2>2 DEF SameIdSameCall, SampledFree, JustSampled
<1>2. CASE CanMint({}) /\ MeterValQ' = AddMeterVal(MeterValQ, FreshId({}))
  <2> DEFINE i == FreshId({})
             N == {<<i, "MeterVal">>}
  <2>1. i \in Ids /\ i \notin UsedIds \cup {NoId}
    BY <1>2, FreshIdOK, ConstAssumption
  <2>2. /\ MeterValQ' = AddMeterVal(MeterValQ, i) /\ MeterValQ \in Seq(Ids)
        /\ CallsHeld' = CallsHeld /\ AnswersHeld' = AnswersHeld
    BY <1>2 DEF ClientTop, CallsHeld, AnswersHeld, TypeOK
  <2> HIDE DEF i
  <2>3. Elems(MeterValQ') \subseteq Elems(MeterValQ) \cup {i}
    BY <2>1, <2>2, AddMeterValElems
  <2>4. Carried' \subseteq Carried \cup N
    BY <2>2, <2>3 DEF Asked, Carried
  <2>5. \A p \in N : p[1] = i /\ p[2] = "MeterVal"
    OBVIOUS
  <2> HIDE DEF N
  <2>6. SameIdSameCall'
    BY <2>1, <2>4, <2>5, CarriedGrows
  <2>7. JustSampled' \subseteq {i}
    BY <2>1, <2>2 DEF JustSampled, AddMeterVal
  <2>8. SampledFree'
    <3>1. Asked' = Asked BY <2>2 DEF Asked
    <3> QED BY <2>1, <2>7, <3>1, CarriedIds DEF SampledFree, Carried
  <2> QED
    BY <2>6, <2>8 DEF ClientTop, WaitsForCall
<1> QED
  BY <1>1, <1>2 DEF ClientTop

\* Every other step leaves the pass it was in, or the sample it has queued.
LEMMA SampledStays ==
  ASSUME TypeOK, [Next]_vars, ~ClientTop
  PROVE  JustSampled' \subseteq JustSampled
<1> USE DEF TypeOK, Thread, Goto
<1>1. CASE \/ RebootOnNoNetwork \/ RebootOnNetError \/ UpdateReboots
  BY <1>1 DEF RebootOnNoNetwork, RebootOnNetError, UpdateReboots, Reboot, JustSampled
<1>2. CASE RouterPowerCheck
  BY <1>2 DEF RouterPowerCheck, JustSampled
<1>3. CASE \/ ClientNoNetwork \/ WS_Server_connect \/ WS_Server_connect_fails
           \/ SenarioWaits \/ SenarioTimeout \/ SenarioIdle \/ SenarioMemberSleeps
  <2>1. pc'["C"] \in {"top", "member"}
    BY <1>3 DEF ClientNoNetwork, WS_Server_connect, WS_Server_connect_fails,
                SenarioWaits, SenarioTimeout, SenarioIdle, SenarioMemberSleeps
  <2> QED BY <2>1 DEF JustSampled
<1>4. CASE \/ SenarioBoot \/ SenarioMeter \/ (\E c \in Connector : SenarioStat(c))
           \/ (\E f \in Pending \ {"member", "stopTs", "trigger"} : SenarioRequest(f))
           \/ SenarioMember \/ SenarioStopTs \/ SenarioTrigger
  <2>1. pc'["C"] = "made"
    BY <1>4 DEF SenarioBoot, SenarioMeter, SenarioStat, SenarioRequest, SenarioMember,
                SenarioStopTs, SenarioTrigger, MakeDataCmd
  <2> QED BY <2>1 DEF JustSampled
<1>5. ASSUME NEW t \in Thread, Trans(t) PROVE JustSampled' \subseteq JustSampled
  <2>1. UNCHANGED MeterValQ /\ (pc'["C"] = "sampled" => pc["C"] = "sampled")
    BY <1>5 DEF Trans, Make_Ocpp_Msg, WsSend, WsSendFails, WsRegister
  <2> QED BY <2>1 DEF JustSampled
<1>6. CASE RxThread /\ ~Trans("R")
  <2>1. pc'["C"] = pc["C"] /\ MeterValQ' \in {MeterValQ, <<>>}
    BY <1>6 DEF RxThread, RxParse, RxFails, RxAnswer, RxDrop, RxCallUnregistered,
                RxCallOther, DataProcCmd_TriggerMsg, DataProcCmd_ChangeAvail,
                DataProcCmd_UpdateFw, RxCall, DataProcCmd_Auth, DataProcCmd_Boot,
                DataProcCmd_Stat, DataProcCmd_StartTs, DataProcCmd_StopTs, DataProcCmd_HB,
                DataProcCmd_MeterVal, DataProcCmd_Rest, RxApply
  <2> QED BY <2>1 DEF JustSampled
<1>7. CASE \/ CentralSystem \/ SrvCalls \/ ConnLost \/ OtherThreads \/ RespTimeElapses
           \/ RespTimeElapsesEarly \/ HbTimeElapses \/ MeterTimeElapses
           \/ (UpdateThread /\ ~UpdateReboots) \/ UNCHANGED vars
  <2>1. UNCHANGED <<pc, MeterValQ>>
    BY <1>7 DEF CentralSystem, SrvResult, SrvAccepts, SrvDefersBoot, SrvRefuses, SrvReads,
                SrvCalls, ConnLost, OtherThreads, EvStatus, EvRequest, EvStart, EvStop,
                EvMainOnEnter, EvCardWaitLeave, EvPeriod, Event, RespTimeElapses,
                RespTimeElapsesEarly, TimeOut, HbTimeElapses, MeterTimeElapses,
                UpdateThread, UpdateBegins, UpdateDownloads, UpdateLoads, UpdateEnds,
                UpdateSaves, UpdateStepTo, vars
  <2> QED BY <2>1 DEF JustSampled
<1> QED
  BY <1>1, <1>2, <1>3, <1>4, <1>5, <1>6, <1>7 DEF Next, ClientThread, RxThread, Thread

LEMMA LinkInvInit == Init => LinkInv
<1> SUFFICES ASSUME Init PROVE LinkInv
  OBVIOUS
<1>1. Elems(up) = {} /\ Elems(down) = {} /\ Elems(MeterValQ) = {}
  BY DEF Init, PowerOn, Elems
<1>2. CallsHeld = {} /\ AnswersHeld = {}
  BY <1>1 DEF Init, PowerOn, CallsHeld, AnswersHeld, ResMsg, NoRx
<1>3. SameIdSameCall
  BY <1>1, <1>2 DEF SameIdSameCall, Asked, Carried
<1> QED
  BY <1>3, TypeInit DEF LinkInv, WaitsForCall, SampledFree, JustSampled, Init, PowerOn, Thread

LEMMA LinkInvStep == LinkInv /\ [Next]_vars => LinkInv'
<1> SUFFICES ASSUME LinkInv, [Next]_vars PROVE LinkInv'
  OBVIOUS
<1>1. TypeOK'
  BY TypeStep DEF LinkInv
<1>2. CASE ClientTop
  BY <1>1, <1>2, CarriedTop DEF LinkInv
<1>3. CASE \/ SenarioBoot \/ SenarioMeter \/ (\E c \in Connector : SenarioStat(c))
           \/ (\E f \in Pending \ {"member", "stopTs", "trigger"} : SenarioRequest(f))
           \/ SenarioMember \/ SenarioStopTs \/ SenarioTrigger
  <2>1. pc'["C"] = "made"
    BY <1>3 DEF SenarioBoot, SenarioMeter, SenarioStat, SenarioRequest, SenarioMember,
                SenarioStopTs, SenarioTrigger, MakeDataCmd, Goto, LinkInv, TypeOK, Thread
  <2> QED
    BY <1>1, <1>3, <2>1, CarriedSenario DEF LinkInv, SampledFree, JustSampled
<1>4. ASSUME Asked' \subseteq Asked, Carried' \subseteq Carried, WaitsForCall', ~ClientTop
      PROVE  LinkInv'
  BY <1>1, <1>4, SampledStays DEF LinkInv, SameIdSameCall, SampledFree
<1>5. CASE ClientThread
  BY <1>2, <1>3, <1>4, <1>5, CarriedConnection, CarriedTrans, CarriedReboot
     DEF ClientThread, RebootOnNoNetwork, Thread
<1>6. CASE RxThread
  BY <1>2, <1>4, <1>6, CarriedReceive, CarriedTrans DEF Thread
<1>7. CASE CentralSystem \/ SrvCalls
  BY <1>2, <1>4, <1>7, CarriedCentral
<1>8. CASE ConnLost
  BY <1>2, <1>4, <1>8, CarriedConnection
<1>9. CASE RebootOnNetError \/ UpdateReboots
  BY <1>2, <1>4, <1>9, CarriedReboot DEF RebootOnNetError, UpdateReboots
<1> QED
  BY <1>2, <1>4, <1>5, <1>6, <1>7, <1>8, <1>9, CarriedOthers DEF Next

\* What the messages ask for grows by the CALL that is made, and in no other way.
LEMMA AskedStep ==
  ASSUME LinkInv, [Next]_vars
  PROVE  \/ Asked' \subseteq Asked
         \/ /\ \/ SenarioBoot \/ SenarioMeter \/ (\E c \in Connector : SenarioStat(c))
               \/ (\E f \in Pending \ {"member", "stopTs", "trigger"} : SenarioRequest(f))
               \/ SenarioMember \/ SenarioStopTs \/ SenarioTrigger
            /\ Asked' \subseteq Asked \cup {<<Tx_Msg'.id, Tx_Msg'.act>>}
<1>1. CASE ClientTop
  BY <1>1 DEF ClientTop, Asked, CallsHeld, AnswersHeld
<1>2. CASE \/ SenarioBoot \/ SenarioMeter \/ (\E c \in Connector : SenarioStat(c))
           \/ (\E f \in Pending \ {"member", "stopTs", "trigger"} : SenarioRequest(f))
           \/ SenarioMember \/ SenarioStopTs \/ SenarioTrigger
  <2>1. UNCHANGED <<sendBuf, Call_Tx_Msg, Rx_Msg, up, down>>
    BY <1>2 DEF SenarioBoot, SenarioMeter, SenarioStat, SenarioRequest, SenarioMember,
                SenarioStopTs, SenarioTrigger, MakeDataCmd
  <2>2. CallsHeld' \subseteq CallsHeld \cup {Tx_Msg'} /\ AnswersHeld' = AnswersHeld
    BY <2>1 DEF CallsHeld, AnswersHeld
  <2> QED
    BY <1>2, <2>2 DEF Asked
<1>3. CASE ClientThread
  BY <1>1, <1>2, <1>3, CarriedConnection, CarriedTrans, CarriedReboot
     DEF ClientThread, RebootOnNoNetwork, Thread
<1>4. CASE RxThread
  BY <1>4, CarriedReceive, CarriedTrans DEF Thread
<1>5. CASE RebootOnNetError \/ UpdateReboots
  BY <1>5, CarriedReboot DEF RebootOnNetError, UpdateReboots
<1> QED
  BY <1>3, <1>4, <1>5, CarriedCentral, CarriedConnection, CarriedOthers DEF Next

LEMMA LinkInvariant == Spec => []LinkInv
BY LinkInvInit, LinkInvStep, PTL DEF Spec

\* For every number of retries, reconnects, reboots and queued samples: no unique id
\* stands for two different actions, wherever the id is held, unless one is a sample of
\* the meter taken in the millisecond in which the same pass made the other's CALL.
THEOREM OneActionPerId == Spec => []SameIdSameCall
<1>1. LinkInv => SameIdSameCall
  BY DEF LinkInv
<1> QED
  BY <1>1, LinkInvariant, PTL

\* The answer Tsct_Curl_Ws_Recv accepts, by comparing ids and nothing else, answers a CALL
\* of the registered action, MeterValues apart, even when answers overtake the
\* registration, CALLs of the central system come in between or the connection is replaced.
THEOREM AcceptedAnswerMatches == Spec => []AnswerMatchesCall
<1>1. LinkInv => AnswerMatchesCall
  <2> SUFFICES ASSUME LinkInv, pc["R"] = "parsed", AnswerAwaited
               PROVE  \/ Rx_Msg.of = Call_Tx_Msg.act
                      \/ "MeterVal" \in {Rx_Msg.of, Call_Tx_Msg.act}
    BY DEF AnswerMatchesCall
  <2>1. Call_Tx_Msg \in CallsHeld
    BY DEF LinkInv, WaitsForCall, AnswerAwaited, CallsHeld
  <2>2. Rx_Msg \in AnswersHeld
    BY DEF AnswerAwaited, AnswersHeld
  <2>3. /\ <<Call_Tx_Msg.id, Call_Tx_Msg.act>> \in Carried
        /\ <<Rx_Msg.id, Rx_Msg.of>> \in Carried
    BY <2>1, <2>2 DEF Asked, Carried
  <2> QED
    BY <2>3 DEF LinkInv, SameIdSameCall, AnswerAwaited
<1> QED
  BY <1>1, LinkInvariant, PTL

-----------------------------------------------------------------------------
(* Before registration *)

Outgoing == {Tx_Msg, sendBuf} \cup Elems(up)
Incoming == {Rx_Msg} \cup Elems(down)

\* An acceptance or a deferral of BootNotification that the charger may still apply was given
\* since it started.
AnswersGiven ==
  \A m \in Incoming : m.of = "Boot" /\ m.res \in {"Accepted", "Pending"} => m.res \in srvReg

\* Without one connector 0 keeps the status OCPP_CALL_Senario goes by: no handler sets it, a
\* firmware update, which would, cannot have been asked for, and no other CALL was made.
Unregistered == srvReg \subseteq {"Rejected"}

BootInv ==
  /\ AnswersGiven
  /\ Unregistered => /\ bCpStat[0] = "NONE" /\ updateStep # "CHKDATE"
                 /\ \A m \in Outgoing : m.type = "CALL" => m.act = "Boot"

\* The client sleeps before the member's CALL only in a registered charger.
MemberInv == pc["C"] = "member" => ~Unregistered

\* A step that leaves the central system's answers and connector 0 alone, asks for no update,
\* and puts out or takes in nothing else than what is held, or a BootNotification.
LEMMA BootKept ==
  ASSUME BootInv, UNCHANGED srvReg, bCpStat'[0] = bCpStat[0],
         updateStep' = "CHKDATE" => updateStep = "CHKDATE",
         \A m \in Outgoing' : m.type = "CALL" => m \in Outgoing \/ m.act = "Boot",
         \A m \in Incoming' : m.of = "Boot" => \E n \in Incoming : n.of = m.of /\ n.res = m.res
  PROVE  BootInv'
<1>1. AnswersGiven' BY DEF BootInv, AnswersGiven
<1>2. Unregistered' => Unregistered BY DEF Unregistered
<1> QED BY <1>1, <1>2 DEF BootInv

\* A step that touches no frame.
LEMMA BootSame ==
  ASSUME BootInv, UNCHANGED <<srvReg, sendBuf, up, down>>, bCpStat'[0] = bCpStat[0],
         updateStep' = "CHKDATE" => updateStep = "CHKDATE",
         Tx_Msg'.type = "CALL" => Tx_Msg' = Tx_Msg \/ Tx_Msg'.act = "Boot", Rx_Msg' \in {Rx_Msg, NoRx}
  PROVE  BootInv'
<1>1. \A m \in Outgoing' : m.type = "CALL" => m \in Outgoing \/ m.act = "Boot" BY DEF Outgoing
<1>2. \A m \in Incoming' : m.of = "Boot" => \E n \in Incoming : n.of = m.of /\ n.res = m.res
  BY DEF Incoming, NoRx
<1> QED BY <1>1, <1>2, BootKept

\* A reboot forgets the registration with every frame.
LEMMA BootReboot == ASSUME Reboot PROVE BootInv'
<1>1. Elems(<<>>) = {} BY DEF Elems
<1>2. Outgoing' = {ResMsg} /\ Incoming' = {NoRx} BY <1>1 DEF Reboot, Outgoing, Incoming
<1> QED BY <1>2 DEF Reboot, BootInv, AnswersGiven, Unregistered, Outgoing, Incoming, ResMsg, NoRx, Connector

\* The client thread: but for BootNotification it makes CALLs of a registered charger only.
LEMMA BootClient ==
  ASSUME TypeOK, BootInv, MemberInv, ClientThread, ~Trans("C"), ~RebootOnNoNetwork
  PROVE  BootInv'
<1>1. CASE \/ ClientTop \/ RouterPowerCheck \/ SenarioWaits \/ SenarioTimeout \/ SenarioIdle
           \/ SenarioMemberSleeps
  BY <1>1, BootSame DEF ClientTop, RouterPowerCheck, SenarioWaits, SenarioTimeout, SenarioIdle,
                        SenarioMemberSleeps
<1>2. CASE ClientNoNetwork
  BY <1>2, BootSame DEF ClientNoNetwork
<1>3. CASE WS_Server_connect \/ WS_Server_connect_fails
  <2>1. up' = <<>> /\ down' = <<>> /\ UNCHANGED <<shared, srvReg, bCpStat, updateStep>>
    BY <1>3 DEF WS_Server_connect, WS_Server_connect_fails
  <2>2. Elems(up') = {} /\ Elems(down') = {} BY <2>1, ElemsOK DEF TypeOK
  <2>3. Outgoing' \subseteq Outgoing /\ Incoming' \subseteq Incoming
    BY <2>1, <2>2 DEF Outgoing, Incoming
  <2> QED BY <2>1, <2>3, BootKept
<1>4. CASE SenarioBoot
  <2>1. Tx_Msg'.act = "Boot" /\ UNCHANGED <<srvReg, sendBuf, up, down, bCpStat, updateStep, Rx_Msg>>
    BY <1>4 DEF SenarioBoot, MakeDataCmd
  <2> QED BY <2>1, BootSame
<1>5. CASE \/ SenarioMeter \/ (\E c \in Connector : SenarioStat(c))
           \/ (\E f \in Pending \ {"member", "stopTs", "trigger"} : SenarioRequest(f))
           \/ SenarioMember \/ SenarioStopTs \/ SenarioTrigger
  <2>1. Registered \/ pc["C"] = "member"
    BY <1>5 DEF SenarioMeter, SenarioStat, SenarioRequest, SenarioRest, SenarioMember,
                SenarioStopTs, SenarioTrigger
  <2>2. ~Unregistered BY <2>1 DEF BootInv, MemberInv, Registered
  <2>3. UNCHANGED <<srvReg, Rx_Msg, down>>
    BY <1>5 DEF SenarioMeter, SenarioStat, SenarioRequest, SenarioMember, SenarioStopTs,
                SenarioTrigger, MakeDataCmd
  <2> QED BY <2>2, <2>3 DEF BootInv, AnswersGiven, Unregistered, Incoming
<1> QED BY <1>1, <1>2, <1>3, <1>4, <1>5 DEF ClientThread

\* The transmission of either thread.
LEMMA BootTrans == ASSUME TypeOK, BootInv, NEW t \in Thread, Trans(t) PROVE BootInv'
<1>1. CASE Make_Ocpp_Msg(t)
  <2>1. Outgoing' \subseteq Outgoing /\ Incoming' = Incoming
    BY <1>1 DEF Make_Ocpp_Msg, Outgoing, Incoming
  <2> QED BY <1>1, <2>1, BootKept DEF Make_Ocpp_Msg
<1>2. CASE WsSend(t)
  <2>1. Elems(up') \subseteq Elems(up) \cup {sendBuf} BY <1>2, ElemsOK DEF WsSend, TypeOK
  <2>2. Outgoing' \subseteq Outgoing /\ Incoming' = Incoming
    BY <1>2, <2>1 DEF WsSend, Outgoing, Incoming
  <2> QED BY <1>2, <2>2, BootKept DEF WsSend
<1>3. CASE WsSendFails(t) \/ WsRegister(t)
  BY <1>3, BootSame DEF WsSendFails, WsRegister
<1> QED BY <1>1, <1>2, <1>3 DEF Trans

\* The receive thread: an answer it applies to connector 0 was given since the charger started,
\* and a charger that has none refuses the CALLs of the central system.
LEMMA BootReceive ==
  ASSUME TypeOK, BootInv, RxThread, ~Trans("R") PROVE BootInv'
<1>1. CASE RxParse
  <2>1. Head(down) \in Elems(down) /\ Elems(down') \subseteq Elems(down)
    BY <1>1, ElemsOK DEF RxParse, TypeOK
  <2>2. Head(down) \in RxMsg BY <1>1 DEF RxParse, TypeOK
  <2>3. Rx_Msg'.of = "Boot" => Rx_Msg'.of = Head(down).of /\ Rx_Msg'.res = Head(down).res
    BY <1>1, <2>2 DEF RxParse, RxMsg, NoRx
  <2>4. \A m \in Incoming' : m.of = "Boot" => \E n \in Incoming : n.of = m.of /\ n.res = m.res
    BY <2>1, <2>3 DEF Incoming
  <2>5. Outgoing' = Outgoing BY <1>1 DEF RxParse, Outgoing
  <2> QED BY <1>1, <2>4, <2>5, BootKept DEF RxParse
<1>2. CASE RxFails \/ RxAnswer \/ RxDrop
  BY <1>2, BootSame DEF RxFails, RxAnswer, RxDrop
<1>3. CASE RxCallUnregistered \/ RxCallOther \/ DataProcCmd_TriggerMsg
  BY <1>3, BootSame DEF RxCallUnregistered, RxCallOther, DataProcCmd_TriggerMsg, RxCall, ResMsg
<1>4. CASE DataProcCmd_ChangeAvail \/ DataProcCmd_UpdateFw
  <2>1. ~Unregistered BY <1>4 DEF DataProcCmd_ChangeAvail, DataProcCmd_UpdateFw, BootInv
  <2>2. UNCHANGED <<srvReg, Rx_Msg, down>>
    BY <1>4 DEF DataProcCmd_ChangeAvail, DataProcCmd_UpdateFw, RxCall
  <2> QED BY <2>1, <2>2 DEF BootInv, AnswersGiven, Unregistered, Incoming
<1>5. CASE DataProcCmd_Boot
  <2>1. UNCHANGED <<srvReg, shared, up, down, updateStep>>
    BY <1>5 DEF DataProcCmd_Boot, RxApply
  <2>2. CASE bCpStat'[0] = bCpStat[0] BY <2>1, <2>2, BootSame
  <2>3. CASE StatusField \in {"Accepted", "Pending"}
    <3>1. Rx_Msg.act = "Boot" BY <1>5 DEF DataProcCmd_Boot, RxApply
    <3>2. Rx_Msg.of = "Boot" /\ Rx_Msg.res = StatusField BY <2>3, <3>1 DEF StatusField
    <3>3. Rx_Msg \in Incoming BY DEF Incoming
    <3>4. StatusField \in srvReg BY <2>3, <3>2, <3>3 DEF BootInv, AnswersGiven
    <3>5. ~Unregistered' BY <2>1, <2>3, <3>4 DEF Unregistered
    <3> QED BY <2>1, <3>5 DEF BootInv, AnswersGiven, Incoming
  <2>4. CASE StatusField = "Rejected"
    <3>1. bCpStat'[0] = "NONE" BY <1>5, <2>4 DEF DataProcCmd_Boot, Connector
    <3> QED BY <2>1, <3>1 DEF BootInv, AnswersGiven, Unregistered, Outgoing, Incoming
  <2>5. StatusField \notin {"Accepted", "Pending", "Rejected"} => bCpStat' = bCpStat
    BY <1>5 DEF DataProcCmd_Boot
  <2> QED BY <2>2, <2>3, <2>4, <2>5
<1>6. CASE DataProcCmd_StopTs
  <2>1. bCpStat'[0] = bCpStat[0] BY <1>6 DEF DataProcCmd_StopTs, TypeOK, Connector
  <2> QED BY <1>6, <2>1, BootSame DEF DataProcCmd_StopTs, RxApply
<1>7. CASE \/ DataProcCmd_Auth \/ DataProcCmd_Stat \/ DataProcCmd_StartTs \/ DataProcCmd_HB
           \/ DataProcCmd_MeterVal \/ DataProcCmd_Rest
  BY <1>7, BootSame DEF DataProcCmd_Auth, DataProcCmd_Stat, DataProcCmd_StartTs, DataProcCmd_HB,
                        DataProcCmd_MeterVal, DataProcCmd_Rest, RxApply
<1> QED BY <1>1, <1>2, <1>3, <1>4, <1>5, <1>6, <1>7 DEF RxThread

\* The central system: it notes an acceptance or a deferral when it gives it.
LEMMA BootCentral == ASSUME TypeOK, BootInv, CentralSystem \/ SrvCalls PROVE BootInv'
<1>1. CASE CentralSystem
  <2>1. SrvReads
    BY <1>1 DEF CentralSystem, SrvResult, SrvAccepts, SrvDefersBoot, SrvRefuses
  <2>2. Head(up) \in Elems(up) /\ Elems(up') \subseteq Elems(up)
    BY <2>1, ElemsOK DEF SrvReads, TypeOK
  <2>3. /\ UNCHANGED <<shared, bCpStat, updateStep>> /\ srvReg \subseteq srvReg'
        /\ Outgoing' \subseteq Outgoing
    BY <1>1, <2>1, <2>2 DEF SrvReads, Outgoing, CentralSystem, SrvResult, SrvAccepts,
                            SrvDefersBoot, SrvRefuses
  <2>4. \A m \in Elems(down') \ Elems(down) :
          m.of = "Boot" /\ m.res \in {"Accepted", "Pending"} => m.res \in srvReg'
    <3>1. CASE UNCHANGED down BY <3>1
    <3>2. ASSUME NEW type, NEW res, SrvAnswer(Head(up), type, res),
                 Head(up).act = "Boot" /\ res \in {"Accepted", "Pending"} => res \in srvReg'
          PROVE  \A m \in Elems(down') \ Elems(down) :
                   m.of = "Boot" /\ m.res \in {"Accepted", "Pending"} => m.res \in srvReg'
      <4> DEFINE r == [type |-> type, id |-> Head(up).id, act |-> "None",
                       of |-> Head(up).act, res |-> res, cs |-> NoCs]
      <4>1. down' = Append(down, r) BY <3>2 DEF SrvAnswer
      <4>2. r.of = Head(up).act /\ r.res = res OBVIOUS
      <4> HIDE DEF r
      <4>3. Elems(down') \subseteq Elems(down) \cup {r}
        BY <4>1, <1>1, TypeCentral DEF TypeOK, Elems
      <4> QED BY <3>2, <4>2, <4>3
    <3>3. CASE SrvAccepts
      BY <3>2, <3>3 DEF SrvAccepts
    <3>4. CASE SrvDefersBoot
      BY <3>2, <3>4 DEF SrvDefersBoot
    <3>5. CASE SrvRefuses
      BY <3>1, <3>2, <3>5 DEF SrvRefuses
    <3>6. CASE SrvResult BY <3>1, <3>6 DEF SrvResult
    <3> QED BY <1>1, <3>3, <3>4, <3>5, <3>6 DEF CentralSystem
  <2>5. AnswersGiven' BY <2>3, <2>4 DEF BootInv, AnswersGiven, Incoming
  <2> QED BY <2>3, <2>5 DEF BootInv, Unregistered
<1>2. CASE SrvCalls
  <2>1. PICK c : down' = Append(down, [NoRx EXCEPT !.type = "CALL", !.cs = c])
    BY <1>2 DEF SrvCalls
  <2> DEFINE r == [NoRx EXCEPT !.type = "CALL", !.cs = c]
  <2>2. r.of = "None" BY DEF NoRx
  <2>3. down' = Append(down, r) BY <2>1
  <2> HIDE DEF r
  <2>4. Elems(down') \subseteq Elems(down) \cup {r} BY <2>3 DEF TypeOK, Elems
  <2>5. \A m \in Incoming' : m.of = "Boot" => \E n \in Incoming : n.of = m.of /\ n.res = m.res
    BY <1>2, <2>2, <2>4 DEF SrvCalls, Incoming
  <2>6. Outgoing' = Outgoing BY <1>2 DEF SrvCalls, Outgoing
  <2> QED BY <1>2, <2>5, <2>6, BootKept DEF SrvCalls
<1> QED BY <1>1, <1>2

\* The other threads, time, the update and a lost connection.
LEMMA BootOthers ==
  ASSUME TypeOK, BootInv, \/ OtherThreads \/ RespTimeElapses \/ RespTimeElapsesEarly
                  \/ HbTimeElapses \/ MeterTimeElapses \/ UNCHANGED vars
                  \/ (UpdateThread /\ ~UpdateReboots) \/ ConnLost
  PROVE  BootInv'
<1>1. CASE ConnLost
  <2>1. Elems(up') = {} /\ Elems(down') = {} BY <1>1, ElemsOK DEF ConnLost, TypeOK
  <2>2. Outgoing' \subseteq Outgoing /\ Incoming' \subseteq Incoming
    BY <1>1, <2>1 DEF ConnLost, Outgoing, Incoming
  <2> QED BY <1>1, <2>2, BootKept DEF ConnLost
<1>2. CASE EvStatus
  <2>1. bCpStat'[0] = bCpStat[0] BY <1>2 DEF EvStatus, TypeOK, Connector
  <2> QED BY <1>2, <2>1, BootSame DEF EvStatus, Event
<1>3. CASE EvMainOnEnter
  <2>1. CASE bCpStat[0] = "NONE" BY <1>3, <2>1, BootSame DEF EvMainOnEnter, Event
  <2>2. CASE bCpStat[0] # "NONE"
    BY <1>3, <2>2 DEF EvMainOnEnter, Event, BootInv, AnswersGiven, Unregistered, Outgoing, Incoming
  <2> QED BY <2>1, <2>2
<1>4. CASE EvRequest \/ EvStart \/ EvStop \/ EvCardWaitLeave \/ EvPeriod
  BY <1>4, BootSame DEF EvRequest, EvStart, EvStop, EvCardWaitLeave, EvPeriod, Event
<1>5. CASE UpdateBegins
  BY <1>5 DEF UpdateBegins, UpdateStepTo, BootInv, AnswersGiven, Unregistered, Outgoing, Incoming
<1>6. CASE UpdateDownloads \/ UpdateLoads \/ UpdateEnds \/ UpdateSaves
  BY <1>6, BootSame DEF UpdateDownloads, UpdateLoads, UpdateEnds, UpdateSaves, UpdateStepTo
<1>7. CASE RespTimeElapses \/ RespTimeElapsesEarly \/ HbTimeElapses \/ MeterTimeElapses
  BY <1>7, BootSame DEF RespTimeElapses, RespTimeElapsesEarly, TimeOut, HbTimeElapses,
                        MeterTimeElapses
<1>8. CASE UNCHANGED vars BY <1>8, BootSame DEF vars
<1> QED
  BY <1>1, <1>2, <1>3, <1>4, <1>5, <1>6, <1>7, <1>8 DEF OtherThreads, UpdateThread

\* Answers are only forgotten in a reboot, which ends the sleep.
LEMMA MemberStep ==
  ASSUME TypeOK, BootInv, MemberInv, [Next]_vars PROVE MemberInv'
<1> USE DEF TypeOK, Thread, Goto
<1>1. CASE RebootOnNoNetwork \/ RebootOnNetError \/ UpdateReboots
  <2>1. pc'["C"] = "top"
    BY <1>1 DEF RebootOnNoNetwork, RebootOnNetError, UpdateReboots, Reboot
  <2> QED BY <2>1 DEF MemberInv
<1>2. CASE SenarioMemberSleeps
  BY <1>2 DEF SenarioMemberSleeps, SenarioRest, Registered, BootInv, MemberInv, Unregistered
<1>3. ASSUME pc'["C"] = "member" => pc["C"] = "member", srvReg \subseteq srvReg'
      PROVE  MemberInv'
  BY <1>3 DEF MemberInv, Unregistered
<1>4. CASE \/ ClientTop \/ RouterPowerCheck \/ ClientNoNetwork \/ WS_Server_connect
           \/ WS_Server_connect_fails \/ SenarioWaits \/ SenarioTimeout \/ SenarioIdle
  BY <1>3, <1>4 DEF ClientTop, RouterPowerCheck, ClientNoNetwork, WS_Server_connect,
                    WS_Server_connect_fails, SenarioWaits, SenarioTimeout, SenarioIdle
<1>5. CASE \/ SenarioBoot \/ SenarioMeter \/ (\E c \in Connector : SenarioStat(c))
           \/ (\E f \in Pending \ {"member", "stopTs", "trigger"} : SenarioRequest(f))
           \/ SenarioMember \/ SenarioStopTs \/ SenarioTrigger
  <2>1. pc'["C"] = "made"
    BY <1>5 DEF SenarioBoot, SenarioMeter, SenarioStat, SenarioRequest, SenarioMember,
                SenarioStopTs, SenarioTrigger, MakeDataCmd
  <2> QED BY <2>1 DEF MemberInv
<1>6. ASSUME NEW t \in Thread, Trans(t) PROVE MemberInv'
  BY <1>3, <1>6 DEF Trans, Make_Ocpp_Msg, WsSend, WsSendFails, WsRegister
<1>7. CASE RxThread /\ ~Trans("R")
  BY <1>3, <1>7 DEF RxThread, RxParse, RxFails, RxAnswer, RxDrop, RxCallUnregistered,
                RxCallOther, DataProcCmd_TriggerMsg, DataProcCmd_ChangeAvail,
                DataProcCmd_UpdateFw, RxCall, DataProcCmd_Auth, DataProcCmd_Boot,
                DataProcCmd_Stat, DataProcCmd_StartTs, DataProcCmd_StopTs, DataProcCmd_HB,
                DataProcCmd_MeterVal, DataProcCmd_Rest, RxApply
<1>8. CASE \/ CentralSystem \/ SrvCalls \/ ConnLost \/ OtherThreads \/ RespTimeElapses
           \/ RespTimeElapsesEarly \/ HbTimeElapses \/ MeterTimeElapses
           \/ (UpdateThread /\ ~UpdateReboots) \/ UNCHANGED vars
  <2>1. UNCHANGED pc /\ srvReg \subseteq srvReg'
    BY <1>8 DEF CentralSystem, SrvResult, SrvAccepts, SrvDefersBoot, SrvRefuses, SrvReads,
                SrvCalls, ConnLost, OtherThreads, EvStatus, EvRequest, EvStart, EvStop,
                EvMainOnEnter, EvCardWaitLeave, EvPeriod, Event, RespTimeElapses,
                RespTimeElapsesEarly, TimeOut, HbTimeElapses, MeterTimeElapses,
                UpdateThread, UpdateBegins, UpdateDownloads, UpdateLoads, UpdateEnds,
                UpdateSaves, UpdateStepTo, vars
  <2> QED BY <1>3, <2>1
<1> QED
  BY <1>1, <1>2, <1>4, <1>5, <1>6, <1>7, <1>8 DEF Next, ClientThread, RxThread, Thread

\* A charger whose registration was neither accepted nor put off since it started sends no CALL
\* but BootNotification: through every retry, reboot and CALL of the central system.
THEOREM OnlyBootFirst == Spec => []BootFirst
<1>1. Init => BootInv /\ MemberInv
  <2> SUFFICES ASSUME Init PROVE BootInv /\ MemberInv OBVIOUS
  <2>1. Elems(<<>>) = {} BY DEF Elems
  <2>2. Outgoing = {ResMsg} /\ Incoming = {NoRx}
    BY <2>1 DEF Init, PowerOn, Outgoing, Incoming
  <2> QED BY <2>2 DEF Init, PowerOn, BootInv, MemberInv, AnswersGiven, Unregistered, ResMsg, NoRx,
                      Connector, Thread
<1>2. TypeOK /\ BootInv /\ MemberInv /\ [Next]_vars => BootInv' /\ MemberInv'
  <2> SUFFICES ASSUME TypeOK, BootInv, MemberInv, [Next]_vars PROVE BootInv'
    BY MemberStep
  <2>1. CASE RebootOnNoNetwork \/ RebootOnNetError \/ UpdateReboots
    BY <2>1, BootReboot DEF RebootOnNoNetwork, RebootOnNetError, UpdateReboots
  <2>2. CASE ClientThread
    BY <2>1, <2>2, BootClient, BootTrans DEF Thread
  <2>3. CASE RxThread BY <2>3, BootReceive, BootTrans DEF Thread
  <2> QED BY <2>1, <2>2, <2>3, BootCentral, BootOthers DEF Next
<1>3. BootInv => BootFirst BY DEF BootInv, Unregistered, BootFirst, Outgoing, Elems
<1> QED BY <1>1, <1>2, <1>3, TypeCorrect, PTL DEF Spec
=============================================================================
