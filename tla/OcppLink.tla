------------------------------ MODULE OcppLink ------------------------------
(***************************************************************************)
(* The OCPP 1.6J link of the charger: the two threads of tsctwsclient.c    *)
(* that share one WebSocket, one outgoing message (Tx_Msg), one send       *)
(* buffer and one record of the CALL whose answer is awaited               *)
(* (Call_Tx_Msg, bWaitResFlg), none of them under a lock.                  *)
(*                                                                         *)
(*   "C"  WSClientThread: connects, picks the next CALL by priority        *)
(*        (OCPP_CALL_Senario) and transmits it;                            *)
(*   "R"  WSRxThread: receives, applies answers (DataProcCmd) and         *)
(*        answers the CALLs of the central system.                         *)
(*                                                                         *)
(* Both threads transmit with Tsct_Curl_Ws_Trans, which encodes Tx_Msg     *)
(* into the buffer, sends the buffer, and registers Tx_Msg as the awaited  *)
(* CALL: three steps here, since the other thread may run between them     *)
(* (the encoder itself sleeps for three seconds after a BootNotification   *)
(* or a StartTransaction).  The central system, the transport and the      *)
(* threads that raise requests are the environment.                        *)
(***************************************************************************)
EXTENDS Naturals, Sequences

CONSTANTS
  Ids,          \* unique ids the millisecond clock can yield
  NoId,         \* the id 0 of a cleared slot
  MaxQno,       \* MAX_QNO_METERVAL
  ConnLimit,    \* reconnects tried before the router is power-cycled (9)
  ResetLimit,   \* power cycles before the charger reboots (2)
  SessionStat,  \* statuses the session threads set on connector 1
  Events,       \* requests the other threads raise
  CsActs,       \* CALLs the central system sends
  MaxEvents,    \* bound on the requests raised and statuses set
  MaxCsCalls,   \* bound on the CALLs of the central system
  PromptAnswers, \* may an answer arrive before its CALL is registered?
  MaxFaults,    \* bound on the transport's and the central system's faults
  MaxTroubles   \* bound on faults and CALLs of the central system together

Connector == 0..1                                   \* MAX_CONECTOR_ID = 1

CpStatus == {"NONE", "PEND", "AVAIL", "PREPARE", "CHARGING", "SUSPENDEDEV",
             "SUSPENDEDEVSE", "FINISH", "UNAVAIL", "FAULT"}

\* What the client can be asked to send, in the order OCPP_CALL_Senario looks.
Rank == [cost |-> 1, auth |-> 2, member |-> 3, startTs |-> 4, stopTs |-> 5,
         chargeAmt |-> 6, q1 |-> 7, q2 |-> 8, trigger |-> 9, diagStat |-> 10,
         fwStat |-> 11, hb |-> 12, cpSts |-> 13]

\* The request flags that are plain booleans (cost, trigger, fwStat and hb are derived).
Flag == {"auth", "member", "startTs", "stopTs", "chargeAmt", "q1", "q2",
         "diagStat", "cpSts"}

\* The OCPP action that carries each request.
ActOf == [cost |-> "DataTrans", auth |-> "Auth", member |-> "DataTrans",
          startTs |-> "StartTs", stopTs |-> "StopTs", chargeAmt |-> "DataTrans",
          q1 |-> "DataTrans", q2 |-> "DataTrans", diagStat |-> "DiagStat",
          fwStat |-> "FwStat", hb |-> "HB", cpSts |-> "DataTrans"]

Act == {"None", "Boot", "Auth", "DataTrans", "DiagStat", "FwStat", "HB",
        "MeterVal", "StartTs", "Stat", "StopTs"}

TriggerAct == [DIAG |-> "DiagStat", FW |-> "FwStat", HB |-> "HB",
               METER |-> "MeterVal", STAT |-> "Stat"]
Trigger == DOMAIN TriggerAct \cup {"NONE", "BOOT"}

UpdateStep == {"NONE", "CHKDATE", "DOWNLOAD", "DOWNLOADING", "DOWNLOADED",
               "DOWNLOADFAIL", "INSTAL", "INSTALED", "INSTALFAIL"}

\* The steps OCPP_CALL_Senario reports, and the step it leaves behind.
FwAfter == [INSTAL |-> "NONE", INSTALED |-> "NONE", INSTALFAIL |-> "NONE",
            DOWNLOAD |-> "DOWNLOADING", DOWNLOADED |-> "INSTAL",
            DOWNLOADFAIL |-> "NONE"]
FwFinal == {"INSTALED", "INSTALFAIL", "DOWNLOADFAIL"}

Result == {"Accepted", "Rejected", "Pending", "none"}

\* CALLs of the central system, by what the handler does to this module's state:
\* "Other" stands for every handler that only answers here, "Malformed" for a frame
\* Parse_Data refuses (an action name it does not know among them).
CsAct == [kind : {"ChangeAvailability", "TriggerMessage", "UpdateFirmware",
                  "DataTransfer", "Other", "Malformed"},
          conn : Connector, oper : BOOLEAN, trig : Trigger]
NoCs == [kind |-> "Other", conn |-> 0, oper |-> FALSE, trig |-> "NONE"]

\* An outgoing message.  A CALLRESULT carries nothing this module tells apart.
TxMsg == [type : {"CALL", "RES"}, act : Act, id : Ids \cup {NoId},
          conn : Connector, stat : CpStatus]
ResMsg == [type |-> "RES", act |-> "None", id |-> NoId, conn |-> 0, stat |-> "NONE"]

\* An incoming message.  The frame of an answer carries no action: act is what
\* Parse_Header copies from Call_Tx_Msg, of is the action of the CALL that was
\* answered, which only the specification knows.
RxMsg == [type : {"NONE", "CALL", "RES", "ERR"}, id : Ids \cup {NoId}, act : Act,
          of : Act, res : Result, cs : CsAct]
NoRx == [type |-> "NONE", id |-> NoId, act |-> "None", of |-> "None",
         res |-> "none", cs |-> NoCs]

ASSUME ConstAssumption ==
  /\ NoId \notin Ids
  /\ MaxQno \in Nat \ {0}
  /\ ConnLimit \in Nat /\ ResetLimit \in Nat
  /\ SessionStat \subseteq CpStatus \ {"NONE", "PEND"}
  /\ Events \subseteq {"auth", "stopTs", "q1", "q2", "diagStat", "start", "main",
                      "leave", "sample", "period", "hb"}
  /\ CsActs \subseteq CsAct
  /\ PromptAnswers \in BOOLEAN
  /\ MaxEvents \in Nat /\ MaxCsCalls \in Nat /\ MaxFaults \in Nat
  /\ MaxTroubles \in Nat

VARIABLES
  pc,            \* program counter of each thread
  bConnect, bWaitResFlg,
  respDue,       \* Check_Resp_Time: the response timeout has passed
  hbDue,         \* Check_HB_Time: the heartbeat interval has passed
  meterDue,      \* Check_Meter_Time: a MeterValues period began
  Tx_Msg, sendBuf, Call_Tx_Msg, Rx_Msg,
  up, down,      \* frames to and from the central system on the current connection
  alive,         \* the transport of the current connection works
  bCpStat, bPreCpStat, bCpStatChgFlg,
  oper,          \* bits 0 and 1 of theConfig.chargingstatus
  req,           \* the request flags that are raised
  bReqStartTsNo, bChargerCostCheck, triggerMsgStat, updateStep,
  MeterValQ,     \* Uid_Mv of the queued meter values
  nConnectCheck, nConnectResetCount,
  srvReg,        \* its answers to BootNotification since the charger started
  srvStat,       \* the last status of each connector it was told
  owed,          \* transaction requests raised and not yet received by it
  update,        \* where sTopStatusTask is in a firmware update
  savedOper,     \* oper as saved before the reboot that ends the update
  session,       \* which layer the session is in: main (or before charging), charge, finish
  events, csCalls, faults

shared == <<Tx_Msg, sendBuf, Call_Tx_Msg, Rx_Msg>>
wire   == <<up, down, alive>>
status == <<bCpStat, bPreCpStat, bCpStatChgFlg, oper>>
flags  == <<req, bReqStartTsNo, bChargerCostCheck, triggerMsgStat, updateStep, MeterValQ>>
timers == <<respDue, hbDue, meterDue>>
conns  == <<nConnectCheck, nConnectResetCount>>
server == <<srvReg, srvStat, owed>>
env    == <<update, savedOper, session, events, csCalls, faults>>
vars == <<pc, bConnect, bWaitResFlg, timers, shared, wire, status, flags, conns,
          server, env>>

Thread == {"C", "R"}
Label == {"top", "net", "sampled", "member", "parsed", "apply", "made", "encoded", "sent"}

TypeOK ==
  /\ pc \in [Thread -> Label]
  /\ bConnect \in BOOLEAN /\ bWaitResFlg \in BOOLEAN /\ alive \in BOOLEAN
  /\ respDue \in BOOLEAN /\ hbDue \in BOOLEAN /\ meterDue \in BOOLEAN
  /\ Tx_Msg \in TxMsg /\ sendBuf \in TxMsg /\ Call_Tx_Msg \in TxMsg
  /\ Rx_Msg \in RxMsg
  /\ up \in Seq(TxMsg) /\ down \in Seq(RxMsg)
  /\ bCpStat \in [Connector -> CpStatus] /\ bPreCpStat \in [Connector -> CpStatus]
  /\ bCpStatChgFlg \subseteq Connector /\ oper \subseteq Connector
  /\ req \subseteq Flag
  /\ bReqStartTsNo \in 0..1 /\ bChargerCostCheck \in 0..2
  /\ triggerMsgStat \in Trigger /\ updateStep \in UpdateStep
  /\ MeterValQ \in Seq(Ids) /\ Len(MeterValQ) <= MaxQno
  /\ nConnectCheck \in Nat /\ nConnectResetCount \in Nat
  /\ srvReg \subseteq Result /\ srvStat \in [Connector -> CpStatus]
  /\ owed \subseteq {"startTs", "stopTs"}
  /\ update \in {"idle", "begun", "started", "loaded", "ended", "saved"}
  /\ savedOper \subseteq Connector
  /\ session \in {"main", "charge", "finish"}
  /\ events \in 0..MaxEvents /\ csCalls \in 0..MaxCsCalls /\ faults \in 0..MaxFaults

\* A charger that has just started, however often it has failed to connect
PowerOn ==
  /\ pc = [t \in Thread |-> "top"]
  /\ bConnect = FALSE /\ bWaitResFlg = FALSE /\ alive = FALSE
  /\ respDue = FALSE /\ hbDue = TRUE /\ meterDue = FALSE
  /\ Tx_Msg = ResMsg /\ sendBuf = ResMsg /\ Call_Tx_Msg = ResMsg /\ Rx_Msg = NoRx
  /\ up = <<>> /\ down = <<>>
  /\ bCpStat = [i \in Connector |-> "NONE"] /\ bPreCpStat = bCpStat
  /\ bCpStatChgFlg = {} /\ oper = Connector
  /\ req = {} /\ bReqStartTsNo = 0 /\ bChargerCostCheck = 0
  /\ triggerMsgStat = "NONE" /\ updateStep = "NONE" /\ MeterValQ = <<>>
  /\ srvReg = {} /\ srvStat = bCpStat /\ owed = {}
  /\ update = "idle" /\ savedOper = {} /\ session = "main" /\ events = 0 /\ csCalls = 0 /\ faults = 0

Init == PowerOn /\ nConnectCheck = 0 /\ nConnectResetCount = 0

-----------------------------------------------------------------------------
(* Helpers *)

Elems(s) == {s[i] : i \in DOMAIN s}

Goto(t, l) == pc' = [pc EXCEPT ![t] = l]

MoreTrouble == faults + csCalls < MaxTroubles

Fault == /\ MoreTrouble /\ faults < MaxFaults /\ faults' = faults + 1
         /\ UNCHANGED <<update, savedOper, session, events, csCalls>>

\* Every id some message still carries.
UsedIds == {m.id : m \in {Tx_Msg, sendBuf, Call_Tx_Msg} \cup Elems(up)}
           \cup {m.id : m \in {Rx_Msg} \cup Elems(down)} \cup Elems(MeterValQ)

\* CstGetTime_Msec_test in a millisecond of its own: an id no message carries, not in S.
FreshId(S) == CHOOSE i \in Ids : i \notin UsedIds \cup S
CanMint(S) == \E i \in Ids : i \notin UsedIds \cup S

\* The id of the sample this pass of the loop has queued before it came to NetRun.
JustSampled == IF pc["C"] = "sampled" /\ MeterValQ # <<>>
               THEN {MeterValQ[Len(MeterValQ)]} ELSE {}

\* What the clock can yield in OCPP_CALL_Senario: nothing sleeps between the sample and
\* here, so the reading may still be that of the sample.  Two passes are 50 ms apart.
Readings == JustSampled \cup {FreshId({})}

\* Mutant: a full queue is not shifted.
AddMeterValNoShift(q, id) == Append(q, id)

\* Add_MeterVal_Q: the first free slot, or the last one once the queue has shifted.
AddMeterVal(q, id) == IF Len(q) < MaxQno THEN Append(q, id) ELSE Append(Tail(q), id)

MeterUid(q) == IF q = <<>> THEN NoId ELSE Head(q)

\* Mutant: the UniqueID of the message before is left in Tx_Msg.
MakeDataCmdKeepsId(act, id, c) ==
  /\ Tx_Msg' = [type |-> "CALL", act |-> act, id |-> Tx_Msg.id, conn |-> c,
                stat |-> IF act = "Stat" THEN bCpStat[c] ELSE "NONE"]
  /\ Goto("C", "made")
  /\ UNCHANGED <<bConnect, bWaitResFlg, respDue, sendBuf, Call_Tx_Msg, Rx_Msg, wire,
                 bCpStat, bPreCpStat, bReqStartTsNo, conns, server, env>>

\* MakeDataCmd_<act>: Tx_Msg becomes the CALL, whose encoding comes next.
MakeDataCmd(act, id, c) ==
  /\ Tx_Msg' = [type |-> "CALL", act |-> act, id |-> id, conn |-> c,
                stat |-> IF act = "Stat" THEN bCpStat[c] ELSE "NONE"]
  /\ Goto("C", "made")
  /\ UNCHANGED <<bConnect, bWaitResFlg, respDue, sendBuf, Call_Tx_Msg, Rx_Msg, wire,
                 bCpStat, bPreCpStat, bReqStartTsNo, conns, server, env>>

-----------------------------------------------------------------------------
(* The client thread: WSClientThread and NetRun *)

\* The top of the loop: a start request becomes the queued StartTransaction, and a sample
\* of the meter may be due.
ClientTop ==
  /\ pc["C"] = "top" /\ nConnectCheck <= ConnLimit
  /\ bReqStartTsNo' = 0
  /\ req' = IF bReqStartTsNo # 0 THEN req \cup {"startTs"} ELSE req
  /\ owed' = owed \cup ((req' \ req) \cap {"startTs"})
  /\ \/ Goto("C", "net") /\ UNCHANGED <<MeterValQ, env>>
     \/ /\ Goto("C", "sampled")
        /\ "sample" \in Events /\ bCpStat[1] = "CHARGING" /\ CanMint({})
        /\ events < MaxEvents
        /\ MeterValQ' = AddMeterVal(MeterValQ, FreshId({}))
        /\ events' = events + 1 /\ UNCHANGED <<update, savedOper, session, csCalls, faults>>
  /\ UNCHANGED <<bConnect, bWaitResFlg, timers, shared, wire, status,
                 bChargerCostCheck, triggerMsgStat, updateStep, conns, srvReg, srvStat>>

\* Too many failed reconnects: the router is power-cycled ...
RouterPowerCheck ==
  /\ pc["C"] = "top" /\ nConnectCheck > ConnLimit
  /\ nConnectResetCount <= ResetLimit \/ session = "charge"
  /\ nConnectCheck' = 0 /\ nConnectResetCount' = nConnectResetCount + 1
  /\ UNCHANGED <<pc, bConnect, bWaitResFlg, timers, shared, wire, status, flags, server,
                 env>>

\* custom_reboot: everything but the configuration starts over.
Reboot ==
  /\ session' = "main" /\ update' = "idle" /\ savedOper' = {}
  /\ pc' = [t \in Thread |-> "top"]
  /\ bConnect' = FALSE /\ bWaitResFlg' = FALSE /\ alive' = FALSE
  /\ respDue' = FALSE /\ hbDue' = TRUE /\ meterDue' = FALSE
  /\ Tx_Msg' = ResMsg /\ sendBuf' = ResMsg /\ Call_Tx_Msg' = ResMsg /\ Rx_Msg' = NoRx
  /\ up' = <<>> /\ down' = <<>>
  /\ bCpStat' = [i \in Connector |-> "NONE"] /\ bPreCpStat' = bCpStat'
  /\ bCpStatChgFlg' = {}
  /\ req' = {} /\ bReqStartTsNo' = 0 /\ bChargerCostCheck' = 0
  /\ triggerMsgStat' = "NONE" /\ updateStep' = "NONE" /\ MeterValQ' = <<>>
  /\ nConnectCheck' = 0 /\ nConnectResetCount' = 0
  /\ srvReg' = {}
  /\ UNCHANGED <<srvStat, owed, events, csCalls>>

\* ... or, after ResetLimit power cycles, the charger reboots unless it is charging.
RebootOnNoNetwork ==
  /\ pc["C"] = "top" /\ nConnectCheck > ConnLimit /\ nConnectResetCount > ResetLimit
  /\ session # "charge" /\ Reboot /\ UNCHANGED <<oper, faults>>

\* sTopStatusTask reboots a charger that has been off the network for six minutes,
\* wherever the two threads are.
RebootOnNetError ==
  /\ ~bConnect /\ update = "idle" /\ session # "charge" /\ Reboot /\ UNCHANGED oper
  /\ MoreTrouble /\ faults < MaxFaults /\ faults' = faults + 1

InPass == pc["C"] \in {"net", "sampled"}

\* The Ethernet link or the network is down; only the former clears Rx_Msg.
ClientNoNetwork ==
  /\ InPass /\ Fault
  /\ bConnect' = FALSE /\ Rx_Msg' \in {NoRx, Rx_Msg} /\ Goto("C", "top")
  /\ UNCHANGED <<bWaitResFlg, timers, Tx_Msg, sendBuf, Call_Tx_Msg, wire, status, flags,
                 conns, server>>

NotConnected == InPass /\ ~bConnect

\* Mutant: a connection opened while an answer is still awaited is not taken up.
WS_Server_connectNotWaiting ==
  /\ NotConnected
  /\ bConnect' = ~bWaitResFlg /\ alive' = TRUE
  /\ up' = <<>> /\ down' = <<>>
  /\ nConnectCheck' = 0 /\ nConnectResetCount' = 0 /\ Goto("C", "top")
  /\ UNCHANGED <<bWaitResFlg, timers, shared, status, flags, server, env>>

\* WS_Server_connect opens a new connection; what the old one carried is gone.
WS_Server_connect ==
  /\ NotConnected
  /\ bConnect' = TRUE /\ bWaitResFlg' = FALSE /\ alive' = TRUE
  /\ up' = <<>> /\ down' = <<>>
  /\ nConnectCheck' = 0 /\ nConnectResetCount' = 0 /\ Goto("C", "top")
  /\ UNCHANGED <<timers, shared, status, flags, server, env>>

WS_Server_connect_fails ==
  /\ NotConnected /\ Fault
  /\ nConnectCheck' = nConnectCheck + 1 /\ alive' = FALSE
  /\ up' = <<>> /\ down' = <<>> /\ Goto("C", "top")
  /\ UNCHANGED <<bConnect, bWaitResFlg, timers, shared, status, flags,
                 nConnectResetCount, server>>

-----------------------------------------------------------------------------
(* The client thread: OCPP_CALL_Senario, one action per kind of outcome *)

Senario == InPass /\ bConnect

SenarioWaits ==
  /\ Senario /\ bWaitResFlg /\ ~respDue /\ Goto("C", "top")
  /\ UNCHANGED <<bConnect, bWaitResFlg, timers, shared, wire, status, flags, conns,
                 server, env>>

\* Mutants: the timeout frees the charger but keeps the connection; it does nothing.
SenarioTimeoutKeepsConnection ==
  /\ Senario /\ bWaitResFlg /\ respDue
  /\ bWaitResFlg' = FALSE /\ Goto("C", "top")
  /\ UNCHANGED <<bConnect, timers, shared, wire, status, flags, conns, server, env>>
SenarioTimeoutIgnored ==
  /\ Senario /\ bWaitResFlg /\ respDue /\ Goto("C", "top")
  /\ UNCHANGED <<bConnect, bWaitResFlg, timers, shared, wire, status, flags, conns,
                 server, env>>

\* No answer in time: the connection is given up.
SenarioTimeout ==
  /\ Senario /\ bWaitResFlg /\ respDue
  /\ bConnect' = FALSE /\ bWaitResFlg' = FALSE /\ Goto("C", "top")
  /\ UNCHANGED <<timers, shared, wire, status, flags, conns, server, env>>

\* Mutant: a deferred registration counts.
RegisteredOrDeferred == bCpStat[0] # "NONE"

Registered == bCpStat[0] \notin {"NONE", "PEND"}

SenarioBoot ==
  /\ Senario /\ ~bWaitResFlg /\ ~Registered /\ hbDue /\ CanMint({})
  /\ \E id \in Readings : MakeDataCmd("Boot", id, 0)
  /\ hbDue' = FALSE
  /\ UNCHANGED <<meterDue, bCpStatChgFlg, oper, req, bChargerCostCheck, triggerMsgStat,
                 updateStep, MeterValQ>>

MeterTime == meterDue /\ bCpStat[1] = "CHARGING"

SenarioMeter ==
  /\ Senario /\ ~bWaitResFlg /\ Registered /\ MeterTime
  /\ MakeDataCmd("MeterVal", MeterUid(MeterValQ), IF MeterValQ = <<>> THEN 0 ELSE 1)
  /\ meterDue' = FALSE
  /\ UNCHANGED <<hbDue, bCpStatChgFlg, oper, req, bChargerCostCheck, triggerMsgStat,
                 updateStep, MeterValQ>>

StatDue(c) == bCpStat[c] # bPreCpStat[c] \/ c \in bCpStatChgFlg

SenarioStat(c) ==
  /\ Senario /\ ~bWaitResFlg /\ Registered /\ ~MeterTime
  /\ StatDue(c) /\ \A d \in Connector : d < c => ~StatDue(d)
  /\ CanMint({}) /\ \E id \in Readings : MakeDataCmd("Stat", id, c)
  /\ bCpStatChgFlg' = bCpStatChgFlg \ {c} /\ meterDue' = FALSE
  /\ UNCHANGED <<hbDue, oper, req, bChargerCostCheck, triggerMsgStat, updateStep,
                 MeterValQ>>

\* What is asked for besides meter values and statuses.  A triggered
\* BootNotification is dropped, so it asks for nothing.
Pending == req
           \cup (IF bChargerCostCheck = 2 THEN {"cost"} ELSE {})
           \cup (IF triggerMsgStat \in DOMAIN TriggerAct THEN {"trigger"} ELSE {})
           \cup (IF updateStep \in DOMAIN FwAfter THEN {"fwStat"} ELSE {})
           \cup (IF hbDue THEN {"hb"} ELSE {})

SenarioRest ==
  /\ Senario /\ ~bWaitResFlg /\ Registered /\ ~MeterTime
  /\ \A c \in Connector : ~StatDue(c)
  /\ meterDue' = FALSE

First(f) == f \in Pending /\ \A g \in Pending : Rank[f] <= Rank[g]

\* Mutant: every flag is cleared when its CALL is made.
AfterRequestAll(f) == req \ {f}

\* The flag is cleared when the CALL is made, but Authorize and StartTransaction stay
\* requested until they are answered.
AfterRequest(f) == IF f \in {"auth", "startTs"} THEN req ELSE req \ {f}

SenarioRequest(f) ==
  /\ SenarioRest /\ First(f) /\ CanMint({})
  /\ \E id \in Readings : MakeDataCmd(ActOf[f], id, IF f = "startTs" THEN 1 ELSE 0)
  /\ req' = AfterRequest(f)
  /\ bChargerCostCheck' = IF f = "cost" THEN 0 ELSE bChargerCostCheck
  /\ triggerMsgStat' = IF Rank[f] > Rank.trigger THEN "NONE" ELSE triggerMsgStat
  /\ updateStep' = IF f = "fwStat" THEN FwAfter[updateStep] ELSE updateStep
  /\ oper' = IF f = "fwStat" /\ updateStep \in FwFinal THEN Connector ELSE oper
  /\ hbDue' = (hbDue /\ f # "hb")
  /\ UNCHANGED <<bCpStatChgFlg, MeterValQ>>

\* The member's unit price is asked for one second after its flag is cleared.
SenarioMemberSleeps ==
  /\ SenarioRest /\ First("member")
  /\ req' = AfterRequest("member") /\ Goto("C", "member")
  /\ UNCHANGED <<bConnect, bWaitResFlg, respDue, hbDue, shared, wire, status,
                 bReqStartTsNo, bChargerCostCheck, triggerMsgStat, updateStep, MeterValQ,
                 conns, server, env>>

SenarioMember ==
  /\ pc["C"] = "member" /\ CanMint({})
  /\ MakeDataCmd(ActOf.member, FreshId({}), 0)
  /\ UNCHANGED <<hbDue, meterDue, bCpStatChgFlg, oper, req, bChargerCostCheck,
                 triggerMsgStat, updateStep, MeterValQ>>

\* The flag is cleared and a last sample queued before the CALL is made, in the same
\* millisecond or in a later one.
SenarioStopTs ==
  /\ SenarioRest /\ First("stopTs") /\ CanMint({}) /\ CanMint({FreshId({})})
  /\ \E q \in Readings :
       /\ MeterValQ' = AddMeterVal(MeterValQ, q)
       /\ \E id \in {q, FreshId({q})} : MakeDataCmd("StopTs", id, 0)
  /\ req' = req \ {"stopTs"}
  /\ UNCHANGED <<hbDue, bCpStatChgFlg, oper, bChargerCostCheck, triggerMsgStat,
                 updateStep>>

\* A triggered StatusNotification is always that of connector 1; a triggered
\* MeterValues first queues a sample.
SenarioTrigger ==
  /\ SenarioRest /\ First("trigger") /\ CanMint({})
  /\ \E id \in Readings, act \in {TriggerAct[triggerMsgStat]} :
       IF act = "MeterVal"
       THEN /\ MeterValQ' = AddMeterVal(MeterValQ, id)
            /\ MakeDataCmd(act, MeterUid(MeterValQ'), 1)
       ELSE /\ MakeDataCmd(act, id, IF act = "Stat" THEN 1 ELSE 0)
            /\ UNCHANGED MeterValQ
  /\ triggerMsgStat' = "NONE"
  /\ UNCHANGED <<hbDue, bCpStatChgFlg, oper, req, bChargerCostCheck, updateStep>>

\* Nothing to send.
SenarioIdle ==
  /\ \/ Senario /\ ~bWaitResFlg /\ ~Registered /\ ~hbDue
        /\ UNCHANGED <<triggerMsgStat, meterDue>>
     \/ SenarioRest /\ Pending = {} /\ triggerMsgStat' = "NONE"
  /\ Goto("C", "top")
  /\ UNCHANGED <<bConnect, bWaitResFlg, respDue, hbDue, shared, wire, status, req,
                 bReqStartTsNo, bChargerCostCheck, updateStep, MeterValQ, conns, server,
                 env>>

-----------------------------------------------------------------------------
(* Tsct_Curl_Ws_Trans, run by either thread on the shared Tx_Msg and sendBuf *)

Make_Ocpp_Msg(t) ==
  /\ pc[t] = "made" /\ Goto(t, "encoded")
  /\ sendBuf' = Tx_Msg
  /\ UNCHANGED <<bConnect, bWaitResFlg, timers, Tx_Msg, Call_Tx_Msg, Rx_Msg, wire, status,
                 flags, conns, server, env>>

\* curl_ws_send succeeds; on a dead connection the frame is lost.
WsSend(t) ==
  /\ pc[t] = "encoded" /\ Goto(t, "sent")
  /\ up' = IF alive THEN Append(up, sendBuf) ELSE up
  /\ UNCHANGED <<bConnect, bWaitResFlg, timers, shared, down, alive, status, flags, conns,
                 server, env>>

WsSendFails(t) ==
  /\ pc[t] = "encoded" /\ ~alive /\ Goto(t, "top")
  /\ bConnect' = FALSE /\ Rx_Msg' = NoRx
  /\ UNCHANGED <<bWaitResFlg, timers, Tx_Msg, sendBuf, Call_Tx_Msg, wire, status, flags,
                 conns, server, env>>

\* Mutants: the id is registered without the action; nothing is awaited.
WsRegisterIdOnly(t) ==
  /\ pc[t] = "sent" /\ Goto(t, "top")
  /\ IF Tx_Msg.type = "CALL"
     THEN /\ bWaitResFlg' = TRUE /\ respDue' = FALSE
          /\ Call_Tx_Msg' = [Tx_Msg EXCEPT !.act = Call_Tx_Msg.act]
     ELSE UNCHANGED <<bWaitResFlg, respDue, Call_Tx_Msg>>
  /\ UNCHANGED <<bConnect, hbDue, meterDue, Tx_Msg, sendBuf, Rx_Msg, wire, status, flags,
                 conns, server, env>>
WsRegisterNoWait(t) ==
  /\ pc[t] = "sent" /\ Goto(t, "top") /\ Call_Tx_Msg' = Tx_Msg
  /\ UNCHANGED <<bConnect, bWaitResFlg, timers, Tx_Msg, sendBuf, Rx_Msg, wire, status,
                 flags, conns, server, env>>

\* After the send: if Tx_Msg is (still) a CALL its answer is awaited from now on.
WsRegister(t) ==
  /\ pc[t] = "sent" /\ Goto(t, "top")
  /\ IF Tx_Msg.type = "CALL"
     THEN bWaitResFlg' = TRUE /\ respDue' = FALSE /\ Call_Tx_Msg' = Tx_Msg
     ELSE UNCHANGED <<bWaitResFlg, respDue, Call_Tx_Msg>>
  /\ UNCHANGED <<bConnect, hbDue, meterDue, Tx_Msg, sendBuf, Rx_Msg, wire, status, flags,
                 conns, server, env>>

-----------------------------------------------------------------------------
(* The receive thread: Tsct_Curl_Ws_Recv *)

\* A frame is received and parsed: an answer is taken to be of the action of the CALL
\* registered at this moment (Parse_Header).
RxParse ==
  /\ pc["R"] = "top" /\ bConnect /\ alive /\ down # <<>>
  /\ Rx_Msg' = CASE Head(down).type = "RES" ->
                      [Head(down) EXCEPT !.act = Call_Tx_Msg.act]
                 [] Head(down).type = "ERR" -> [NoRx EXCEPT !.type = "ERR"]
                 [] OTHER -> Head(down)
  /\ down' = Tail(down)
  /\ Goto("R", IF Head(down).cs.kind = "Malformed" THEN "top" ELSE "parsed")
  /\ UNCHANGED <<bConnect, bWaitResFlg, timers, Tx_Msg, sendBuf, Call_Tx_Msg, up, alive,
                 status, flags, conns, server, env>>

RxFails ==
  /\ pc["R"] = "top" /\ bConnect /\ ~alive
  /\ bConnect' = FALSE /\ Rx_Msg' = NoRx
  /\ UNCHANGED <<pc, bWaitResFlg, timers, Tx_Msg, sendBuf, Call_Tx_Msg, wire, status,
                 flags, conns, server, env>>

\* Mutant: whichever answer comes is taken for the one awaited.
AnswerAwaitedAnyId ==
  /\ Rx_Msg.type = "RES" /\ bWaitResFlg
  /\ bCpStat[0] = "NONE" => Rx_Msg.act = "Boot"

\* The answer awaited: before registration only BootNotification's counts.
AnswerAwaited ==
  /\ Rx_Msg.type = "RES" /\ bWaitResFlg /\ Rx_Msg.id = Call_Tx_Msg.id
  /\ bCpStat[0] = "NONE" => Rx_Msg.act = "Boot"

RxAnswer ==
  /\ pc["R"] = "parsed" /\ AnswerAwaited
  /\ bWaitResFlg' = FALSE /\ Goto("R", "apply")
  /\ UNCHANGED <<bConnect, timers, shared, wire, status, flags, conns, server, env>>

\* A CALLERROR ends the connection; any other frame that is not handled is dropped.
RxDrop ==
  /\ pc["R"] = "parsed" /\ Rx_Msg.type # "CALL" /\ ~AnswerAwaited
  /\ bConnect' = (bConnect /\ Rx_Msg.type # "ERR") /\ Goto("R", "top")
  /\ UNCHANGED <<bWaitResFlg, timers, shared, wire, status, flags, conns, server, env>>

(* CALLs of the central system: Rx_Call_DataProc turns Tx_Msg into the CALLRESULT. *)

RxCall(kind) ==
  /\ pc["R"] = "parsed" /\ Rx_Msg.type = "CALL" /\ Rx_Msg.cs.kind = kind
  /\ UNCHANGED <<bConnect, bWaitResFlg, timers, sendBuf, Call_Tx_Msg, Rx_Msg, wire, conns,
                 server, env>>

\* Before registration a CALL is not answered; DataTransfer is still processed.
RxCallUnregistered ==
  /\ bCpStat[0] = "NONE" /\ RxCall(Rx_Msg.cs.kind)
  /\ Tx_Msg' = IF Rx_Msg.cs.kind = "DataTransfer" THEN ResMsg ELSE Tx_Msg
  /\ Goto("R", "top") /\ UNCHANGED <<status, flags>>

RxCallOther ==
  /\ bCpStat[0] # "NONE" /\ (RxCall("Other") \/ RxCall("DataTransfer"))
  /\ Tx_Msg' = ResMsg /\ Goto("R", "made") /\ UNCHANGED <<status, flags>>

\* A message that is unknown or asked of no connector ("NONE") is rejected.
DataProcCmd_TriggerMsg ==
  /\ bCpStat[0] # "NONE" /\ RxCall("TriggerMessage")
  /\ triggerMsgStat' = IF Rx_Msg.cs.trig = "NONE" THEN triggerMsgStat ELSE Rx_Msg.cs.trig
  /\ Tx_Msg' = ResMsg /\ Goto("R", "made")
  /\ UNCHANGED <<status, req, bReqStartTsNo, bChargerCostCheck, updateStep, MeterValQ>>

\* Accepted even while an update is running.
DataProcCmd_UpdateFw ==
  /\ bCpStat[0] # "NONE" /\ RxCall("UpdateFirmware")
  /\ updateStep' = "CHKDATE"
  /\ Tx_Msg' = ResMsg /\ Goto("R", "made")
  /\ UNCHANGED <<status, req, bReqStartTsNo, bChargerCostCheck, triggerMsgStat, MeterValQ>>

\* Rejected unless the charger is idle (app_order, not modelled here); connector 0
\* means both.  A status that does not change is reported all the same.
DataProcCmd_ChangeAvail ==
  /\ bCpStat[0] # "NONE" /\ RxCall("ChangeAvailability")
  /\ Tx_Msg' = ResMsg /\ Goto("R", "made")
  /\ \/ UNCHANGED status
     \/ LET cs == IF Rx_Msg.cs.conn = 0 THEN Connector ELSE {Rx_Msg.cs.conn}
            st == IF Rx_Msg.cs.oper THEN "AVAIL" ELSE "UNAVAIL"
        IN /\ bCpStat' = [c \in Connector |-> IF c \in cs THEN st ELSE bCpStat[c]]
           /\ bCpStatChgFlg' = bCpStatChgFlg \cup {c \in cs : bCpStat[c] = st}
           /\ oper' = IF Rx_Msg.cs.oper THEN oper \cup cs ELSE oper \ cs
           /\ UNCHANGED bPreCpStat
  /\ UNCHANGED flags

(* Rx_CallRes_DataProc: the handler of the action Parse_Header recorded. *)

RxApply(act) ==
  /\ pc["R"] = "apply" /\ Rx_Msg.act = act /\ Goto("R", "top")
  /\ UNCHANGED <<bConnect, bWaitResFlg, timers, shared, wire, oper, bCpStatChgFlg,
                 bReqStartTsNo, triggerMsgStat, updateStep, conns, server, env>>

\* The status field the handler finds in the answer: that of its own action, or of the
\* idTagInfo that Authorize and StartTransaction share.
StatusField == IF Rx_Msg.of = Rx_Msg.act \/ {Rx_Msg.of, Rx_Msg.act} = {"Auth", "StartTs"}
               THEN Rx_Msg.res ELSE "none"

DataProcCmd_Auth ==
  /\ RxApply("Auth")
  /\ req' = (req \ {"auth"}) \cup (IF StatusField = "Accepted" THEN {"member"} ELSE {})
  /\ UNCHANGED <<bCpStat, bPreCpStat, bChargerCostCheck, MeterValQ>>

BootStatus(c, plugged) ==
  IF c \notin oper THEN "UNAVAIL" ELSE IF c = 1 /\ plugged THEN "PREPARE" ELSE "AVAIL"

\* Mutant: any answer registers the charger.
DataProcCmd_BootAnyAnswer ==
  /\ RxApply("Boot")
  /\ IF Registered THEN UNCHANGED <<bCpStat, bChargerCostCheck>>
     ELSE /\ \E plugged \in BOOLEAN :
               bCpStat' = [c \in Connector |-> BootStatus(c, plugged)]
          /\ bChargerCostCheck' = 1
  /\ UNCHANGED <<bPreCpStat, req, MeterValQ>>

DataProcCmd_Boot ==
  /\ RxApply("Boot")
  /\ CASE StatusField = "Accepted" /\ ~Registered ->
            /\ \E plugged \in BOOLEAN :
                 bCpStat' = [c \in Connector |-> BootStatus(c, plugged)]
            /\ bChargerCostCheck' = 1 /\ UNCHANGED bPreCpStat
       [] StatusField \in {"Rejected", "Pending"} ->
            /\ bCpStat' = [c \in Connector |->
                             IF StatusField = "Pending" THEN "PEND" ELSE "NONE"]
            /\ bPreCpStat' = bCpStat' /\ UNCHANGED bChargerCostCheck
       [] OTHER -> UNCHANGED <<bCpStat, bPreCpStat, bChargerCostCheck>>
  /\ UNCHANGED <<req, MeterValQ>>

\* Mutant: the answer is always booked on connector 0.
StatTold0(c) == bPreCpStat' = [bPreCpStat EXCEPT ![0] = bCpStat[0]]

StatTold(c) == bPreCpStat' = [bPreCpStat EXCEPT ![c] = bCpStat[c]]

\* bPreCpStat takes the status of NOW, of the connector Call_Tx_Msg names now.  If
\* another CALL was registered meanwhile its first field may name no connector.
DataProcCmd_Stat ==
  /\ RxApply("Stat")
  /\ \/ \E c \in Connector :
          /\ Call_Tx_Msg.act \in {"Stat", "MeterVal", "StartTs"} => c = Call_Tx_Msg.conn
          /\ StatTold(c)
     \/ Call_Tx_Msg.act \notin {"Stat", "MeterVal", "StartTs"} /\ UNCHANGED bPreCpStat
  /\ bChargerCostCheck' = IF bChargerCostCheck = 1 THEN 2 ELSE bChargerCostCheck
  /\ UNCHANGED <<bCpStat, req, MeterValQ>>

\* Mutant: a refused StartTransaction stays requested.
DataProcCmd_StartTsIfAccepted ==
  /\ RxApply("StartTs")
  /\ req' = IF StatusField = "Accepted" THEN req \ {"startTs"} ELSE req
  /\ UNCHANGED <<bCpStat, bPreCpStat, bChargerCostCheck, MeterValQ>>

\* Mutant: the answer to StartTransaction clears both requests of the transaction.
DataProcCmd_StartTsBoth ==
  /\ RxApply("StartTs")
  /\ req' = req \ {"startTs", "stopTs"}
  /\ UNCHANGED <<bCpStat, bPreCpStat, bChargerCostCheck, MeterValQ>>

DataProcCmd_StartTs ==
  /\ RxApply("StartTs")
  /\ req' = req \ {"startTs"}
  /\ UNCHANGED <<bCpStat, bPreCpStat, bChargerCostCheck, MeterValQ>>

\* Whether the stop reason is still "power" depends on the session (not modelled here).
DataProcCmd_StopTs ==
  /\ RxApply("StopTs")
  /\ MeterValQ' = <<>>
  /\ \E powerLoss \in BOOLEAN :
       bCpStat' = [bCpStat EXCEPT ![1] =
                     IF powerLoss \/ @ = "AVAIL" THEN "AVAIL" ELSE "FINISH"]
  /\ req' = (req \ {"stopTs"}) \cup {"chargeAmt"}
  /\ UNCHANGED <<bPreCpStat, bChargerCostCheck>>

DataProcCmd_HB ==
  /\ RxApply("HB")
  /\ req' = req \cup {"cpSts"}
  /\ UNCHANGED <<bCpStat, bPreCpStat, bChargerCostCheck, MeterValQ>>

DataProcCmd_MeterVal ==
  /\ RxApply("MeterVal")
  /\ MeterValQ' = <<>>
  /\ UNCHANGED <<bCpStat, bPreCpStat, req, bChargerCostCheck>>

\* Actions whose answer changes nothing here, and an Rx_Msg cleared meanwhile.
DataProcCmd_Rest ==
  /\ \E a \in {"None", "DataTrans", "DiagStat", "FwStat"} : RxApply(a)
  /\ UNCHANGED <<bCpStat, bPreCpStat, req, bChargerCostCheck, MeterValQ>>

-----------------------------------------------------------------------------
(* The central system and the transport *)

\* The central system reads a frame; what it learns from it.
SrvReads ==
  /\ alive /\ up # <<>> /\ up' = Tail(up)
  /\ PromptAnswers \/ \A t \in Thread : pc[t] # "sent"
  /\ UNCHANGED <<pc, bConnect, bWaitResFlg, timers, shared, alive, status, flags, conns>>

SrvLearns(m) ==
  /\ srvStat' = IF m.act = "Stat" THEN [srvStat EXCEPT ![m.conn] = m.stat] ELSE srvStat
  /\ owed' = owed \ (IF m.act = "StartTs" THEN {"startTs"}
                     ELSE IF m.act = "StopTs" THEN {"stopTs"} ELSE {})

SrvAnswer(m, type, res) ==
  down' = Append(down, [type |-> type, id |-> m.id, act |-> "None", of |-> m.act,
                        res |-> res, cs |-> NoCs])

SrvResult ==
  /\ SrvReads /\ UNCHANGED <<srvStat, owed, srvReg, down, env>>
  /\ Head(up).type = "RES"

\* A CALL is accepted; Authorize and StartTransaction may as well be refused.
SrvAccepts ==
  LET m == Head(up)
  IN /\ SrvReads /\ m.type = "CALL" /\ SrvLearns(m)
     /\ \E res \in {"Accepted", "Rejected"} :
          /\ res = "Rejected" => m.act \in {"Auth", "StartTs"}
          /\ SrvAnswer(m, "RES", res)
     /\ srvReg' = srvReg \cup (IF m.act = "Boot" THEN {"Accepted"} ELSE {})
     /\ UNCHANGED env

\* The registration is refused or put off.
SrvDefersBoot ==
  LET m == Head(up)
  IN /\ SrvReads /\ m.type = "CALL" /\ m.act = "Boot" /\ Fault
     /\ \E res \in {"Rejected", "Pending"} : srvReg' = srvReg \cup {res} /\ SrvAnswer(m, "RES", res)
     /\ UNCHANGED <<srvStat, owed>>

\* The CALL is not understood (a frame garbled by the two threads encoding at once
\* among the reasons): a CALLERROR, or no answer at all.
SrvRefuses ==
  LET m == Head(up)
  IN /\ SrvReads /\ m.type = "CALL" /\ Fault
     /\ SrvAnswer(m, "ERR", "none") \/ UNCHANGED down
     /\ UNCHANGED server

SrvCalls ==
  /\ alive /\ MoreTrouble /\ csCalls < MaxCsCalls /\ csCalls' = csCalls + 1
  /\ \E c \in CsActs : down' = Append(down, [NoRx EXCEPT !.type = "CALL", !.cs = c])
  /\ UNCHANGED <<pc, bConnect, bWaitResFlg, timers, shared, up, alive, status, flags,
                 conns, server, update, savedOper, session, events, faults>>

ConnLost ==
  /\ alive /\ Fault /\ alive' = FALSE /\ up' = <<>> /\ down' = <<>>
  /\ UNCHANGED <<pc, bConnect, bWaitResFlg, timers, shared, status, flags, conns, server>>

-----------------------------------------------------------------------------
(* Time *)

\* An answer to the registered CALL is still on its way.
AnswerComing ==
  \/ /\ alive
     /\ \/ \E i \in DOMAIN up : up[i].type = "CALL" /\ up[i].id = Call_Tx_Msg.id
        \/ \E i \in DOMAIN down : down[i].type # "CALL" /\ down[i].id = Call_Tx_Msg.id
  \/ pc["R"] = "parsed" /\ Rx_Msg.type = "RES" /\ Rx_Msg.id = Call_Tx_Msg.id

TimeOut == ~respDue /\ bWaitResFlg /\ respDue' = TRUE
           /\ UNCHANGED <<pc, bConnect, bWaitResFlg, hbDue, meterDue, shared, wire, status,
                          flags, conns, server>>

RespTimeElapses == TimeOut /\ ~AnswerComing /\ UNCHANGED env

\* The answer takes longer than the timeout.
RespTimeElapsesEarly == TimeOut /\ AnswerComing /\ Fault

\* The heartbeat interval passes.  Once the charger is registered this is counted with
\* the requests, so that a bounded number of heartbeats is sent.
HbTimeElapses ==
  /\ ~hbDue /\ hbDue' = TRUE
  /\ IF Registered THEN "hb" \in Events /\ events < MaxEvents /\ events' = events + 1
                   ELSE UNCHANGED events
  /\ UNCHANGED <<pc, bConnect, bWaitResFlg, respDue, meterDue, shared, wire, status, flags,
                 conns, server, update, savedOper, session, csCalls, faults>>

\* The second in which a MeterValues period is noticed passes.
MeterTimeElapses ==
  /\ meterDue /\ meterDue' = FALSE
  /\ UNCHANGED <<pc, bConnect, bWaitResFlg, respDue, hbDue, shared, wire, status, flags,
                 conns, server, env>>

-----------------------------------------------------------------------------
(* The other threads raise requests and set statuses. *)

Event == /\ events < MaxEvents /\ events' = events + 1
         /\ UNCHANGED <<pc, bConnect, bWaitResFlg, respDue, hbDue, shared, wire, conns,
                        srvReg, srvStat, csCalls, faults, bPreCpStat, bCpStatChgFlg,
                        bChargerCostCheck, triggerMsgStat, updateStep, update, savedOper, oper,
                        MeterValQ>>

\* SetCpStatus on connector 1: the cable before a session, the vehicle and the fault
\* monitor during one.
StatusOf == [main |-> {"AVAIL", "PREPARE"}, finish |-> {},
             charge |-> {"CHARGING", "SUSPENDEDEV", "SUSPENDEDEVSE", "FAULT"}]

EvStatus ==
  /\ Event
  /\ \E s \in SessionStat \cap StatusOf[session] : bCpStat' = [bCpStat EXCEPT ![1] = s]
  /\ UNCHANGED <<meterDue, req, bReqStartTsNo, owed, session>>

\* The card layers ask for Authorize, the QR layer for its DataTransfers, and so on.
EvRequest ==
  /\ Event
  /\ \E f \in Events \cap (Flag \ {"stopTs"}) :
       req' = (req \ (IF f \in {"q1", "q2"} THEN {"q1", "q2"} ELSE {})) \cup {f}
  /\ UNCHANGED <<bCpStat, meterDue, bReqStartTsNo, owed, session>>

\* The connect layer asks for StartTransaction and charging begins.
EvStart ==
  /\ "start" \in Events /\ session = "main" /\ Event
  /\ bReqStartTsNo' = 1 /\ session' = "charge"
  /\ UNCHANGED <<bCpStat, meterDue, req, owed>>

\* The finish layer asks for StopTransaction.
EvStop ==
  /\ "stopTs" \in Events /\ session = "charge" /\ Event
  /\ req' = req \cup {"stopTs"} /\ owed' = owed \cup {"stopTs"} /\ session' = "finish"
  /\ UNCHANGED <<bCpStat, meterDue, bReqStartTsNo>>

\* MainOnEnter: back to the main layer; statuses and the start request are reset.
EvMainOnEnter ==
  /\ "main" \in Events /\ Event
  /\ IF bCpStat[0] \in {"NONE", "UNAVAIL"} THEN UNCHANGED bCpStat
     ELSE \E s \in {"AVAIL", "PREPARE"} :
            bCpStat' = [c \in Connector |-> IF c = 0 THEN "AVAIL" ELSE s]
  /\ bReqStartTsNo' = 0 /\ session' = "main"
  /\ UNCHANGED <<meterDue, req, owed>>

\* CardWaitLeave: an Authorize not answered yet is called off.
EvCardWaitLeave ==
  /\ "leave" \in Events /\ session = "main" /\ Event
  /\ req' = req \ {"auth"} /\ bReqStartTsNo' = 0
  /\ UNCHANGED <<bCpStat, meterDue, owed, session>>

\* A MeterValues period begins.
EvPeriod ==
  /\ "period" \in Events /\ ~meterDue /\ bCpStat[1] = "CHARGING" /\ Event
  /\ meterDue' = TRUE
  /\ UNCHANGED <<bCpStat, req, bReqStartTsNo, owed, session>>

-----------------------------------------------------------------------------
(* The firmware update, run by sTopStatusTask with sleeps between its steps *)

UpdateStepTo(from, to) ==
  /\ update = from /\ update' = to
  /\ UNCHANGED <<pc, bConnect, bWaitResFlg, timers, shared, wire, bPreCpStat,
                 bCpStatChgFlg, req, bReqStartTsNo, bChargerCostCheck, triggerMsgStat,
                 MeterValQ, conns, server, session, events, csCalls, faults>>

\* The retrieve date has come: the charger goes out of service.
UpdateBegins ==
  /\ updateStep = "CHKDATE" /\ UpdateStepTo("idle", "begun")
  /\ bCpStat' = [c \in Connector |-> "UNAVAIL"] /\ oper' = {} /\ UNCHANGED <<updateStep, savedOper>>

UpdateDownloads ==
  /\ UpdateStepTo("begun", "started")
  /\ updateStep' = "DOWNLOAD" /\ UNCHANGED <<bCpStat, oper, savedOper>>

\* UpgradePackage: the download succeeds ...
UpdateLoads ==
  /\ UpdateStepTo("started", "loaded")
  /\ updateStep' = "DOWNLOADED" /\ UNCHANGED <<bCpStat, oper, savedOper>>

\* ... and the package is installed, or either of them fails.
UpdateEnds ==
  /\ \/ UpdateStepTo("started", "ended") /\ updateStep' = "DOWNLOADFAIL"
     \/ UpdateStepTo("loaded", "ended") /\ updateStep' \in {"INSTALED", "INSTALFAIL"}
  /\ UNCHANGED <<bCpStat, oper, savedOper>>

\* The configuration is saved, and two seconds later the charger reboots, charging or
\* not.
UpdateSaves ==
  /\ UpdateStepTo("ended", "saved") /\ savedOper' = oper
  /\ UNCHANGED <<bCpStat, oper, updateStep>>

UpdateReboots == update = "saved" /\ Reboot /\ oper' = savedOper /\ UNCHANGED faults

UpdateThread == \/ UpdateBegins \/ UpdateDownloads \/ UpdateLoads \/ UpdateEnds
                \/ UpdateSaves \/ UpdateReboots

-----------------------------------------------------------------------------
Trans(t) == Make_Ocpp_Msg(t) \/ WsSend(t) \/ WsSendFails(t) \/ WsRegister(t)

ClientThread ==
  \/ ClientTop \/ RouterPowerCheck \/ RebootOnNoNetwork
  \/ ClientNoNetwork \/ WS_Server_connect \/ WS_Server_connect_fails
  \/ SenarioWaits \/ SenarioTimeout \/ SenarioBoot \/ SenarioMeter
  \/ (\E c \in Connector : SenarioStat(c))
  \/ (\E f \in Pending \ {"member", "stopTs", "trigger"} : SenarioRequest(f))
  \/ SenarioMemberSleeps \/ SenarioMember \/ SenarioStopTs \/ SenarioTrigger \/ SenarioIdle
  \/ Trans("C")

RxThread ==
  \/ RxParse \/ RxFails \/ RxAnswer \/ RxDrop
  \/ RxCallUnregistered \/ RxCallOther \/ DataProcCmd_TriggerMsg
  \/ DataProcCmd_ChangeAvail \/ DataProcCmd_UpdateFw
  \/ DataProcCmd_Auth \/ DataProcCmd_Boot \/ DataProcCmd_Stat \/ DataProcCmd_StartTs
  \/ DataProcCmd_StopTs \/ DataProcCmd_HB \/ DataProcCmd_MeterVal \/ DataProcCmd_Rest
  \/ Trans("R")

CentralSystem == SrvResult \/ SrvAccepts \/ SrvDefersBoot \/ SrvRefuses

OtherThreads == EvStatus \/ EvRequest \/ EvStart \/ EvStop \/ EvMainOnEnter \/ EvCardWaitLeave
                \/ EvPeriod

Next == \/ ClientThread \/ RxThread \/ CentralSystem \/ SrvCalls \/ ConnLost
        \/ RebootOnNetError
        \/ RespTimeElapses \/ RespTimeElapsesEarly \/ HbTimeElapses
        \/ MeterTimeElapses \/ OtherThreads \/ UpdateThread

Spec == Init /\ [][Next]_vars

\* The threads run, the clock ticks and the central system reads what it is sent;
\* faults, requests and the central system's own CALLs may or may not happen.
Fairness == /\ WF_vars(ClientThread) /\ WF_vars(RxThread) /\ WF_vars(CentralSystem)
            /\ WF_vars(RespTimeElapses) /\ WF_vars(HbTimeElapses)

FairSpec == Spec /\ Fairness

-----------------------------------------------------------------------------
(* Properties *)

\* The CALLs some buffer or frame holds, and the answers.
CallsHeld == {m \in {Tx_Msg, sendBuf, Call_Tx_Msg} \cup Elems(up) : m.type = "CALL"}
AnswersHeld == {m \in {Rx_Msg} \cup Elems(down) : m.type = "RES"}

\* Every pair of an id and the action its CALL asks for that a message holds.  An answer
\* stands for the action of the CALL it answers.
Asked == {<<m.id, m.act>> : m \in CallsHeld} \cup {<<m.id, m.of>> : m \in AnswersHeld}

\* The id of a queue entry is used by MeterValues, as is the id of a cleared entry.
Carried == Asked \cup {<<i, "MeterVal">> : i \in {NoId} \cup Elems(MeterValQ)}

\* However CALLs, answers and queued meter values are cut off, retried and repeated, an id
\* (CstGetTime_Msec_test, or Uid_Mv of the queue) stands for one action: the comparison of
\* ids in Tsct_Curl_Ws_Recv can only mistake one kind of answer for another where a sample
\* was queued in the millisecond in which the same pass made its CALL, which the clock
\* does not exclude (tsctwsclient.c:1266 or 1017, then MakeDataCmd).
SameIdSameCall ==
  \A p, q \in Carried : p[1] = q[1] => p[2] = q[2] \/ "MeterVal" \in {p[2], q[2]}

\* The answer that Tsct_Curl_Ws_Recv accepts by comparing ids is the answer to a CALL of
\* the action that is registered, however many CALLs were cut off, retried or repeated:
\* all but MeterValues, whose id may be that of the CALL it was queued with.
AnswerMatchesCall ==
  pc["R"] = "parsed" /\ AnswerAwaited =>
    Rx_Msg.of = Call_Tx_Msg.act \/ "MeterVal" \in {Rx_Msg.of, Call_Tx_Msg.act}

\* The answer is handed to the handler of the CALL it answers (tsctparsing.c takes the
\* action from Call_Tx_Msg when the frame is parsed, before the ids are compared).
RightHandler == pc["R"] = "apply" => Rx_Msg.act \in {Rx_Msg.of, "None"}

\* A CALL or its answer is under way.
Outstanding == \/ \E i \in DOMAIN up : up[i].type = "CALL"
               \/ \E i \in DOMAIN down : down[i].type # "CALL"

\* While a CALL is outstanding on the connection in use the charger waits for the
\* response ("Waiting Response : True , Idle : False"), or is about to.
WaitFlagTruthful ==
  bConnect /\ alive /\ Outstanding => bWaitResFlg \/ \E t \in Thread : pc[t] = "sent"

\* The charger sends no CALL before the previous one is answered, given up with its
\* connection, or lost.
OneCallAtATime == Len(up) + Len(down) <= 1

\* A charger whose registration was neither accepted nor put off since it started
\* sends no CALL but BootNotification.
BootFirst ==
  srvReg \subseteq {"Rejected"} =>
    \A i \in DOMAIN up : up[i].type = "CALL" => up[i].act = "Boot"

\* The request for StartTransaction is dropped only after the central system has
\* received one, short of a reboot.
StartTsDelivered ==
  [][("startTs" \in req \ req' /\ "startTs" \in owed) => Reboot]_vars

\* (TLC refutes this one.) "for Send CP finish status when disconnect cable": the status FINISH that the answer to
\* StopTransaction sets is told, or on its way, before the main layer replaces it.
FinishTold ==
  [][(session = "finish" /\ bCpStat[1] = "FINISH" /\ bCpStat'[1] # "FINISH") =>
       \/ srvStat[1] = "FINISH" \/ Reboot
       \/ \E m \in {Tx_Msg} \cup Elems(up) : m.act = "Stat" /\ m.stat = "FINISH"]_vars

\* "True : Req to Send Stop TR , False : Send Stop TR OK": while StopTransaction has
\* not reached the central system the request stays raised, the CALL is being made, or it is
\* on its way.
StopTsKept ==
  "stopTs" \in owed =>
    \/ "stopTs" \in req
    \/ pc["C"] \in {"made", "encoded"} /\ Tx_Msg.act = "StopTs"
    \/ \E m \in Elems(up) : m.act = "StopTs"

\* It is so within a session as long as nothing fails: no other CALL and no answer takes the
\* request away.  (Not so in the next session: the late answer to the first StopTransaction
\* clears the request of the second.)
StopTsKeptUncut == faults = 0 => StopTsKept

(* Liveness, under FairSpec *)

\* The charger never waits for an answer for ever.
WaitEnds == bWaitResFlg ~> ~bWaitResFlg

\* A charger that is not registered is registered in the end: a rejected, deferred,
\* refused or lost BootNotification is repeated.
Registers == "Accepted" \notin srvReg ~> "Accepted" \in srvReg

\* It comes back after every loss of the connection.
Reconnects == ~bConnect ~> bConnect

\* Every change of status is dealt with.
StatusSettles == \A c \in Connector : StatDue(c) /\ Registered ~> ~StatDue(c)

\* Every request for StartTransaction is answered.
StartTsSettles == "startTs" \in req ~> "startTs" \notin req
=============================================================================
