--------------------------- MODULE OcppCallProofs ---------------------------
(***************************************************************************)
(* What becomes of a CALL and of its answer in OcppLink, under hypotheses  *)
(* on what the other threads and the central system do: that an answer     *)
(* finds the handler of its CALL, that CALLs go out one at a time, and     *)
(* that the requests of a transaction are not lost.  Each theorem names    *)
(* its hypotheses, as weak as its proof allows.                            *)
(***************************************************************************)
EXTENDS OcppLinkProofs

USE DEF shared, wire, status, flags, timers, conns, server, env

-----------------------------------------------------------------------------
(* An answer and its handler *)

\* Nobody asks for MeterValues, whose CALL takes its id from the queue and so repeats it.
NoMeterCalls == "period" \notin Events /\ \A c \in CsActs : c.trig # "METER"

NoMeter == /\ ~meterDue /\ triggerMsgStat # "METER"
           /\ \A m \in Incoming : m.cs.trig # "METER"

\* Neither a CALL nor an answer that is held is one of MeterValues.
NoMeterAsked == \A p \in Asked : p[2] # "MeterVal"

\* No CALL and no answer that is held carries the id.
Unasked(id) == \A p \in Asked : p[1] # id

LEMMA HeldIsAsked ==
  /\ \A m \in CallsHeld : <<m.id, m.act>> \in Asked
  /\ \A m \in AnswersHeld : <<m.id, m.of>> \in Asked
BY DEF Asked

LEMMA HeldIsOther ==
  ASSUME NEW id, Unasked(id)
  PROVE  \A m \in CallsHeld \cup AnswersHeld : m.id # id
BY HeldIsAsked DEF Unasked

\* What the clock yields is such an id, be it that of the sample just queued.
LEMMA ReadingUnasked ==
  ASSUME LinkInv, NEW i \in Ids, i \in JustSampled \/ i \notin UsedIds
  PROVE  Unasked(i)
BY DEF LinkInv, SampledFree, Unasked, Asked, CallsHeld, AnswersHeld, UsedIds

\* So is the id of every CALL, as long as MeterValues are not asked for.
LEMMA ClientMakes ==
  ASSUME LinkInv, ~meterDue, triggerMsgStat # "METER",
         \/ SenarioBoot \/ SenarioMeter \/ (\E c \in Connector : SenarioStat(c))
         \/ (\E f \in Pending \ {"member", "stopTs", "trigger"} : SenarioRequest(f))
         \/ SenarioMember \/ SenarioStopTs \/ SenarioTrigger
  PROVE  \E a, i, c : a # "MeterVal" /\ Unasked(i) /\ MakeDataCmd(a, i, c)
<1>0. TypeOK BY DEF LinkInv
<1>m. ASSUME CanMint({}), NEW i \in Readings PROVE Unasked(i)
  BY <1>0, <1>m, ReadingsOK, ReadingUnasked
<1>1. CASE SenarioBoot BY <1>1, <1>m DEF SenarioBoot
<1>2. CASE SenarioMeter BY <1>2 DEF SenarioMeter, MeterTime
<1>3. CASE \E c \in Connector : SenarioStat(c) BY <1>3, <1>m DEF SenarioStat
<1>4. ASSUME NEW f \in Pending \ {"member", "stopTs", "trigger"}, SenarioRequest(f)
      PROVE  \E a, i, c : a # "MeterVal" /\ Unasked(i) /\ MakeDataCmd(a, i, c)
  <2>1. f \in DOMAIN ActOf BY <1>0, <1>4 DEF Pending, TypeOK, ActOf, Flag
  <2>2. ActOf[f] # "MeterVal" BY <2>1 DEF ActOf
  <2> QED BY <1>4, <1>m, <2>2 DEF SenarioRequest
<1>5. CASE SenarioMember BY <1>5, <1>m DEF SenarioMember, Readings, ActOf
<1>6. CASE SenarioStopTs
  <2>1. PICK q \in Readings : \E i \in {q, FreshId({q})} : MakeDataCmd("StopTs", i, 0)
    BY <1>6 DEF SenarioStopTs
  <2>2. Unasked(q) BY <1>6, <1>m DEF SenarioStopTs
  <2>3. Unasked(FreshId({q})) BY <1>0, <1>6, StopTsIds, ReadingUnasked DEF SenarioStopTs
  <2> QED BY <2>1, <2>2, <2>3
<1>7. CASE SenarioTrigger
  <2>1. triggerMsgStat \in DOMAIN TriggerAct
    BY <1>0, <1>7 DEF SenarioTrigger, First, Pending, TypeOK, Flag
  <2>2. TriggerAct[triggerMsgStat] # "MeterVal" BY <2>1 DEF TriggerAct
  <2> QED BY <1>7, <1>m, <2>2 DEF SenarioTrigger
<1> QED BY <1>1, <1>2, <1>3, <1>4, <1>5, <1>6, <1>7

LEMMA NoMeterAskedStep ==
  ASSUME LinkInv, NoMeter, NoMeterAsked, [Next]_vars PROVE NoMeterAsked'
<1>1. ASSUME NEW a, NEW i, NEW c, a # "MeterVal", MakeDataCmd(a, i, c)
      PROVE  Tx_Msg'.act # "MeterVal"
  BY <1>1 DEF MakeDataCmd
<1>2. \/ Asked' \subseteq Asked
      \/ /\ Asked' \subseteq Asked \cup {<<Tx_Msg'.id, Tx_Msg'.act>>}
         /\ Tx_Msg'.act # "MeterVal"
  BY <1>1, AskedStep, ClientMakes DEF NoMeter
<1> QED BY <1>2 DEF NoMeterAsked

\* A CALL that was sent, or even answered, is registered; at least it is about to be.
SentIsRegistered ==
  Tx_Msg.type = "CALL" =>
    /\ \A m \in Incoming : m.type = "RES" /\ m.id = Tx_Msg.id => Call_Tx_Msg = Tx_Msg
    /\ \A m \in Elems(up) : m.type = "CALL" /\ m.id = Tx_Msg.id =>
         Call_Tx_Msg = Tx_Msg \/ \E t \in Thread : pc[t] = "sent"

\* The action that Parse_Header gave the answer is still the one registered under its id.
ActStillRegistered ==
  Rx_Msg.type = "RES" /\ Rx_Msg.id = Call_Tx_Msg.id => Rx_Msg.act = Call_Tx_Msg.act

HandlerInv == NoMeter /\ SentIsRegistered /\ ActStillRegistered /\ RightHandler

\* A step that makes, registers and receives nothing.
LEMMA HandlerKept ==
  ASSUME HandlerInv, ~meterDue', triggerMsgStat' \in {triggerMsgStat, "NONE"},
         UNCHANGED <<Tx_Msg, Call_Tx_Msg>>, Rx_Msg' \in {Rx_Msg, NoRx},
         Elems(up') \subseteq Elems(up), Elems(down') \subseteq Elems(down),
         \A t \in Thread : pc[t] = "sent" => pc'[t] = "sent",
         pc'["R"] = pc["R"] \/ pc'["R"] # "apply"
  PROVE  HandlerInv'
<1>1. NoMeter' BY DEF HandlerInv, NoMeter, Incoming, NoRx, NoCs
<1>2. \A m \in Incoming' : m \in Incoming \/ m = NoRx BY DEF Incoming
<1>3. SentIsRegistered' BY <1>2 DEF HandlerInv, SentIsRegistered, NoRx
<1>4. ActStillRegistered' /\ RightHandler'
  BY DEF HandlerInv, ActStillRegistered, RightHandler, NoRx
<1> QED BY <1>1, <1>3, <1>4 DEF HandlerInv

LEMMA HandlerReboot == ASSUME Reboot PROVE HandlerInv'
<1>1. Elems(<<>>) = {} BY DEF Elems
<1>2. Incoming' = {NoRx} /\ pc'["R"] = "top" BY <1>1 DEF Reboot, Incoming, Thread
<1> QED
  BY <1>2 DEF Reboot, HandlerInv, NoMeter, SentIsRegistered, ActStillRegistered, RightHandler,
              NoRx, NoCs, ResMsg

\* A CALL with a new id: no frame and no answer carries it.
LEMMA HandlerMake ==
  ASSUME TypeOK, HandlerInv, NEW act, NEW id, Unasked(id), NEW c, MakeDataCmd(act, id, c),
         ~meterDue', triggerMsgStat' \in {triggerMsgStat, "NONE"}
  PROVE  HandlerInv'
<1>1. pc'["R"] = pc["R"] BY DEF MakeDataCmd, Goto, TypeOK, Thread
<1>2. Tx_Msg'.id = id /\ UNCHANGED <<Call_Tx_Msg, Rx_Msg, up, down>> BY DEF MakeDataCmd
<1>3. Incoming' = Incoming BY <1>2 DEF Incoming
<1>4. /\ \A m \in Incoming : m.type = "RES" => m.id # id
      /\ \A m \in Elems(up) : m.type = "CALL" => m.id # id
  BY HeldIsOther DEF CallsHeld, AnswersHeld, Incoming
<1>5. SentIsRegistered' BY <1>2, <1>3, <1>4 DEF SentIsRegistered
<1>6. NoMeter' BY <1>3 DEF HandlerInv, NoMeter
<1>7. ActStillRegistered' /\ RightHandler'
  BY <1>1, <1>2 DEF HandlerInv, ActStillRegistered, RightHandler
<1> QED BY <1>5, <1>6, <1>7 DEF HandlerInv

LEMMA HandlerClient ==
  ASSUME TypeOK, LinkInv, HandlerInv, ClientThread, ~Trans("C"), ~RebootOnNoNetwork
  PROVE  HandlerInv'
<1>0. ~meterDue /\ triggerMsgStat # "METER" BY DEF HandlerInv, NoMeter
<1>1. ASSUME NEW l, Goto("C", l), pc["C"] \in {"top", "net", "sampled"}
      PROVE  pc'["R"] = pc["R"] /\ \A t \in Thread : pc[t] = "sent" => pc'[t] = "sent"
  BY <1>1 DEF Goto, TypeOK, Thread
<1>2. CASE ClientTop
  BY <1>0, <1>1, <1>2, HandlerKept DEF ClientTop
<1>3. CASE RouterPowerCheck BY <1>0, <1>3, HandlerKept DEF RouterPowerCheck
<1>4. CASE SenarioWaits \/ SenarioTimeout
  BY <1>0, <1>1, <1>4, HandlerKept DEF SenarioWaits, SenarioTimeout, Senario, InPass
<1>5. CASE SenarioIdle \/ SenarioMemberSleeps
  BY <1>0, <1>1, <1>5, HandlerKept
     DEF SenarioIdle, SenarioMemberSleeps, SenarioRest, Senario, InPass
<1>6. CASE ClientNoNetwork
  BY <1>0, <1>1, <1>6, HandlerKept DEF ClientNoNetwork, InPass
<1>7. CASE WS_Server_connect \/ WS_Server_connect_fails
  <2>1. up' = <<>> /\ down' = <<>> BY <1>7 DEF WS_Server_connect, WS_Server_connect_fails
  <2>2. Elems(up') = {} /\ Elems(down') = {} BY <2>1, ElemsOK DEF TypeOK
  <2> QED
    BY <1>0, <1>1, <1>7, <2>2, HandlerKept
       DEF WS_Server_connect, WS_Server_connect_fails, NotConnected, InPass
<1>8. CASE \/ SenarioBoot \/ SenarioMeter \/ (\E c \in Connector : SenarioStat(c))
           \/ (\E f \in Pending \ {"member", "stopTs", "trigger"} : SenarioRequest(f))
           \/ SenarioMember \/ SenarioStopTs \/ SenarioTrigger
  <2>1. ~meterDue' /\ triggerMsgStat' \in {triggerMsgStat, "NONE"}
    BY <1>0, <1>8 DEF SenarioBoot, SenarioMeter, SenarioStat, SenarioRequest, SenarioMember,
                      SenarioStopTs, SenarioTrigger, SenarioRest
  <2> QED BY <1>0, <1>8, <2>1, ClientMakes, HandlerMake
<1> QED
  BY <1>2, <1>3, <1>4, <1>5, <1>6, <1>7, <1>8 DEF ClientThread

\* Whichever thread sends the CALL, and whichever registers it.
LEMMA HandlerTrans ==
  ASSUME TypeOK, HandlerInv, NEW t \in Thread, Trans(t) PROVE HandlerInv'
<1>0. ~meterDue BY DEF HandlerInv, NoMeter
<1>1. \A l : Goto(t, l) => pc'[t] = l /\ \A u \in Thread : u # t => pc'[u] = pc[u]
  BY DEF Goto, TypeOK
<1>2. CASE Make_Ocpp_Msg(t) \/ WsSendFails(t)
  BY <1>0, <1>1, <1>2, HandlerKept DEF Make_Ocpp_Msg, WsSendFails, Thread
<1>3. CASE WsSend(t)
  <2>1. /\ pc'[t] = "sent"
        /\ pc'["R"] # "apply" \/ pc'["R"] = pc["R"]
        /\ UNCHANGED <<meterDue, triggerMsgStat, shared, down>>
    BY <1>1, <1>3 DEF WsSend, Thread
  <2>2. Incoming' = Incoming BY <2>1 DEF Incoming
  <2>3. SentIsRegistered' BY <2>1, <2>2, <1>1, <1>3 DEF WsSend, HandlerInv, SentIsRegistered
  <2>4. NoMeter' /\ ActStillRegistered' /\ RightHandler'
    BY <2>1, <2>2 DEF HandlerInv, NoMeter, ActStillRegistered, RightHandler
  <2> QED BY <2>3, <2>4 DEF HandlerInv
<1>4. CASE WsRegister(t)
  <2>1. /\ pc'["R"] # "apply" \/ pc'["R"] = pc["R"]
        /\ UNCHANGED <<meterDue, triggerMsgStat, Tx_Msg, Rx_Msg, up, down>>
        /\ Call_Tx_Msg' = IF Tx_Msg.type = "CALL" THEN Tx_Msg ELSE Call_Tx_Msg
    BY <1>1, <1>4 DEF WsRegister, Thread
  <2>2. Incoming' = Incoming BY <2>1 DEF Incoming
  <2>3. SentIsRegistered' BY <2>1 DEF SentIsRegistered
  <2>4. ActStillRegistered'
    <3>1. Rx_Msg \in Incoming BY DEF Incoming
    <3>2. CASE Tx_Msg.type = "CALL"
      BY <2>1, <3>1, <3>2 DEF HandlerInv, ActStillRegistered, SentIsRegistered
    <3> QED BY <2>1, <3>2 DEF HandlerInv, ActStillRegistered
  <2>5. NoMeter' /\ RightHandler' BY <2>1, <2>2 DEF HandlerInv, NoMeter, RightHandler
  <2> QED BY <2>3, <2>4, <2>5 DEF HandlerInv
<1> QED BY <1>2, <1>3, <1>4 DEF Trans

\* The receive thread: what Parse_Header copies is what the comparison of ids will find.
LEMMA HandlerReceive ==
  ASSUME TypeOK, LinkInv, AnswerMatchesCall, NoMeterAsked, HandlerInv, RxThread, ~Trans("R")
  PROVE  HandlerInv'
<1>0. ~meterDue /\ triggerMsgStat # "METER" BY DEF HandlerInv, NoMeter
<1>1. \A l : Goto("R", l) => pc'["C"] = pc["C"] /\ pc'["R"] = l BY DEF Goto, TypeOK, Thread
<1>2. CASE RxParse
  <2>1. /\ Head(down) \in Elems(down) /\ Elems(down') \subseteq Elems(down)
        /\ Head(down) \in RxMsg
    BY <1>2, ElemsOK DEF RxParse, TypeOK
  <2>2. /\ pc'["C"] = pc["C"] /\ pc'["R"] \in {"top", "parsed"} /\ pc["R"] = "top"
        /\ UNCHANGED <<meterDue, triggerMsgStat, Tx_Msg, Call_Tx_Msg, up>>
    BY <1>1, <1>2 DEF RxParse
  <2>3. Rx_Msg'.type = "RES" => /\ Head(down).type = "RES" /\ Rx_Msg'.id = Head(down).id
                                /\ Rx_Msg'.act = Call_Tx_Msg.act
    BY <1>2, <2>1 DEF RxParse, RxMsg, NoRx
  <2>4. Rx_Msg'.cs \in {Head(down).cs, NoCs} BY <1>2, <2>1 DEF RxParse, RxMsg, NoRx
  <2>5. NoMeter' BY <2>1, <2>2, <2>4 DEF HandlerInv, NoMeter, Incoming, NoCs
  <2>6. SentIsRegistered'
    <3>1. (\E u \in Thread : pc[u] = "sent") => \E u \in Thread : pc'[u] = "sent"
      BY <2>2 DEF Thread
    <3>2. \A m \in Incoming' : m.type = "RES" => \E n \in Incoming : n.type = "RES" /\ n.id = m.id
      BY <2>1, <2>3 DEF Incoming
    <3> QED BY <2>2, <3>1, <3>2 DEF HandlerInv, SentIsRegistered
  <2>7. ActStillRegistered' /\ RightHandler'
    BY <2>2, <2>3 DEF ActStillRegistered, RightHandler
  <2> QED BY <2>5, <2>6, <2>7 DEF HandlerInv
<1>3. CASE RxFails \/ RxDrop
  BY <1>0, <1>1, <1>3, HandlerKept DEF RxFails, RxDrop, Thread
<1>4. CASE RxAnswer
  <2>1. /\ pc'["C"] = pc["C"] /\ pc'["R"] = "apply" /\ pc["R"] = "parsed" /\ AnswerAwaited
        /\ UNCHANGED <<meterDue, triggerMsgStat, shared, up, down>>
    BY <1>1, <1>4 DEF RxAnswer
  <2>2. Rx_Msg.act = Rx_Msg.of
    <3>1. Call_Tx_Msg \in CallsHeld /\ Rx_Msg \in AnswersHeld
      BY <2>1 DEF LinkInv, WaitsForCall, AnswerAwaited, CallsHeld, AnswersHeld
    <3>2. Call_Tx_Msg.act # "MeterVal" /\ Rx_Msg.of # "MeterVal"
      BY <3>1, HeldIsAsked DEF NoMeterAsked
    <3> QED
      BY <2>1, <3>2 DEF AnswerAwaited, AnswerMatchesCall, HandlerInv, ActStillRegistered
  <2>3. Incoming' = Incoming BY <2>1 DEF Incoming
  <2>4. SentIsRegistered' BY <2>1, <2>3 DEF HandlerInv, SentIsRegistered, Thread
  <2>5. NoMeter' /\ ActStillRegistered' /\ RightHandler'
    BY <2>1, <2>2, <2>3 DEF HandlerInv, NoMeter, ActStillRegistered, RightHandler
  <2> QED BY <2>4, <2>5 DEF HandlerInv
<1>5. CASE \/ RxCallUnregistered \/ RxCallOther \/ DataProcCmd_TriggerMsg
           \/ DataProcCmd_ChangeAvail \/ DataProcCmd_UpdateFw
  <2>1. /\ Tx_Msg' \in {Tx_Msg, ResMsg} /\ UNCHANGED <<Call_Tx_Msg, Rx_Msg, up, down, meterDue>>
        /\ pc["R"] = "parsed" /\ pc'["C"] = pc["C"] /\ pc'["R"] \in {"top", "made"}
    BY <1>1, <1>5 DEF RxCallUnregistered, RxCallOther, DataProcCmd_TriggerMsg,
                      DataProcCmd_ChangeAvail, DataProcCmd_UpdateFw, RxCall
  <2>2. Incoming' = Incoming BY <2>1 DEF Incoming
  <2>3. triggerMsgStat' \in {triggerMsgStat, Rx_Msg.cs.trig}
    BY <1>5 DEF RxCallUnregistered, RxCallOther, DataProcCmd_TriggerMsg,
                DataProcCmd_ChangeAvail, DataProcCmd_UpdateFw, RxCall
  <2>4. Rx_Msg.cs.trig # "METER" BY DEF HandlerInv, NoMeter, Incoming
  <2>5. NoMeter' BY <1>0, <2>1, <2>2, <2>3, <2>4 DEF HandlerInv, NoMeter
  <2>6. SentIsRegistered'
    BY <2>1, <2>2 DEF HandlerInv, SentIsRegistered, Thread, ResMsg
  <2>7. ActStillRegistered' /\ RightHandler'
    BY <2>1 DEF HandlerInv, ActStillRegistered, RightHandler
  <2> QED BY <2>5, <2>6, <2>7 DEF HandlerInv
<1>6. ASSUME NEW a, RxApply(a) PROVE HandlerInv'
  BY <1>0, <1>1, <1>6, HandlerKept DEF RxApply, Thread
<1>7. CASE \/ DataProcCmd_Auth \/ DataProcCmd_Boot \/ DataProcCmd_Stat \/ DataProcCmd_StartTs
           \/ DataProcCmd_StopTs \/ DataProcCmd_HB \/ DataProcCmd_MeterVal \/ DataProcCmd_Rest
  BY <1>6, <1>7 DEF DataProcCmd_Auth, DataProcCmd_Boot, DataProcCmd_Stat, DataProcCmd_StartTs,
                    DataProcCmd_StopTs, DataProcCmd_HB, DataProcCmd_MeterVal, DataProcCmd_Rest
<1> QED BY <1>2, <1>3, <1>4, <1>5, <1>7 DEF RxThread

\* The central system, whose answer comes after the registration.
LEMMA HandlerCentral ==
  ASSUME NoMeterCalls, ~PromptAnswers, TypeOK, HandlerInv, CentralSystem \/ SrvCalls
  PROVE  HandlerInv'
<1>1. CASE UNCHANGED down /\ SrvReads
  <2>1. Elems(up') \subseteq Elems(up) BY <1>1, ElemsOK DEF SrvReads, TypeOK
  <2> QED BY <1>1, <2>1, HandlerKept DEF SrvReads, HandlerInv, NoMeter
<1>2. ASSUME SrvReads, NEW type, NEW res, SrvAnswer(Head(up), type, res),
             Head(up).type = "CALL"
      PROVE  HandlerInv'
  <2> DEFINE r == [type |-> type, id |-> Head(up).id, act |-> "None", of |-> Head(up).act,
                   res |-> res, cs |-> NoCs]
  <2>1. /\ Head(up) \in Elems(up) /\ Elems(up') \subseteq Elems(up)
        /\ UNCHANGED <<pc, meterDue, triggerMsgStat, shared>>
        /\ \A t \in Thread : pc[t] # "sent"
    BY <1>2, ElemsOK DEF SrvReads, TypeOK
  <2>2. down' = Append(down, r) BY <1>2 DEF SrvAnswer
  <2>3. r.id = Head(up).id /\ r.cs.trig # "METER" BY DEF NoCs
  <2> HIDE DEF r
  <2>4. Elems(down') \subseteq Elems(down) \cup {r} BY <2>2 DEF TypeOK, Elems
  <2>5. Incoming' \subseteq Incoming \cup {r} BY <2>1, <2>4 DEF Incoming
  <2>6. NoMeter' BY <2>1, <2>3, <2>5 DEF HandlerInv, NoMeter
  <2>7. SentIsRegistered' BY <1>2, <2>1, <2>3, <2>5 DEF HandlerInv, SentIsRegistered
  <2>8. ActStillRegistered' /\ RightHandler'
    BY <2>1 DEF HandlerInv, ActStillRegistered, RightHandler
  <2> QED BY <2>6, <2>7, <2>8 DEF HandlerInv
<1>3. CASE CentralSystem
  BY <1>1, <1>2, <1>3 DEF CentralSystem, SrvResult, SrvAccepts, SrvDefersBoot, SrvRefuses
<1>4. CASE SrvCalls
  <2>1. PICK c \in CsActs : down' = Append(down, [NoRx EXCEPT !.type = "CALL", !.cs = c])
    BY <1>4 DEF SrvCalls
  <2> DEFINE r == [NoRx EXCEPT !.type = "CALL", !.cs = c]
  <2>2. r.type = "CALL" /\ r.cs.trig # "METER" BY DEF NoRx, NoMeterCalls
  <2>3. down' = Append(down, r) BY <2>1
  <2> HIDE DEF r
  <2>4. Elems(down') \subseteq Elems(down) \cup {r} BY <2>3 DEF TypeOK, Elems
  <2>5. UNCHANGED <<pc, meterDue, triggerMsgStat, shared, up>> BY <1>4 DEF SrvCalls
  <2>6. Incoming' \subseteq Incoming \cup {r} BY <2>4, <2>5 DEF Incoming
  <2>7. NoMeter' BY <2>2, <2>5, <2>6 DEF HandlerInv, NoMeter
  <2>8. SentIsRegistered' BY <2>2, <2>5, <2>6 DEF HandlerInv, SentIsRegistered
  <2>9. ActStillRegistered' /\ RightHandler'
    BY <2>5 DEF HandlerInv, ActStillRegistered, RightHandler
  <2> QED BY <2>7, <2>8, <2>9 DEF HandlerInv
<1> QED BY <1>3, <1>4

LEMMA HandlerOthers ==
  ASSUME NoMeterCalls, TypeOK, HandlerInv,
         \/ OtherThreads \/ RespTimeElapses \/ RespTimeElapsesEarly \/ HbTimeElapses
         \/ MeterTimeElapses \/ UNCHANGED vars \/ (UpdateThread /\ ~UpdateReboots) \/ ConnLost
  PROVE  HandlerInv'
<1>0. ~meterDue BY DEF HandlerInv, NoMeter
<1>1. CASE ConnLost
  <2>1. Elems(up') = {} /\ Elems(down') = {} BY <1>1, ElemsOK DEF ConnLost, TypeOK
  <2> QED BY <1>0, <1>1, <2>1, HandlerKept DEF ConnLost
<1>2. CASE EvStatus \/ EvRequest \/ EvStart \/ EvStop \/ EvMainOnEnter \/ EvCardWaitLeave
  BY <1>0, <1>2, HandlerKept
     DEF EvStatus, EvRequest, EvStart, EvStop, EvMainOnEnter, EvCardWaitLeave, Event
<1>3. CASE EvPeriod BY <1>3 DEF EvPeriod, NoMeterCalls
<1>4. CASE UpdateBegins \/ UpdateDownloads \/ UpdateLoads \/ UpdateEnds \/ UpdateSaves
  BY <1>0, <1>4, HandlerKept
     DEF UpdateBegins, UpdateDownloads, UpdateLoads, UpdateEnds, UpdateSaves, UpdateStepTo
<1>5. CASE RespTimeElapses \/ RespTimeElapsesEarly \/ HbTimeElapses \/ MeterTimeElapses
  BY <1>0, <1>5, HandlerKept DEF RespTimeElapses, RespTimeElapsesEarly, TimeOut, HbTimeElapses,
                                 MeterTimeElapses
<1>6. CASE UNCHANGED vars BY <1>0, <1>6, HandlerKept DEF vars
<1> QED BY <1>1, <1>2, <1>3, <1>4, <1>5, <1>6 DEF OtherThreads, UpdateThread

LEMMA HandlerInit == Init => HandlerInv /\ NoMeterAsked
<1>1. Elems(<<>>) = {} BY DEF Elems
<1> QED
  BY <1>1 DEF NoMeterAsked, Asked, CallsHeld, AnswersHeld, Init, PowerOn, Thread, HandlerInv, NoMeter, SentIsRegistered, ActStillRegistered,
              RightHandler, Incoming, NoRx, NoCs, ResMsg

LEMMA HandlerStep ==
  ASSUME NoMeterCalls, ~PromptAnswers, LinkInv, AnswerMatchesCall, NoMeterAsked, HandlerInv,
         [Next]_vars
  PROVE  HandlerInv'
<1>0. TypeOK BY DEF LinkInv
<1>1. CASE RebootOnNoNetwork \/ RebootOnNetError \/ UpdateReboots
  BY <1>1, HandlerReboot DEF RebootOnNoNetwork, RebootOnNetError, UpdateReboots
<1>2. CASE ClientThread BY <1>0, <1>1, <1>2, HandlerClient, HandlerTrans DEF Thread
<1>3. CASE RxThread BY <1>0, <1>3, HandlerReceive, HandlerTrans DEF Thread
<1> QED BY <1>0, <1>1, <1>2, <1>3, HandlerCentral, HandlerOthers DEF Next

\* An answer is handed to the handler of the CALL it answers, late as it may be, whatever the
\* two threads do to the one outgoing message, unless it overtakes the registration of its
\* CALL or MeterValues are sent.
THEOREM HandlerIsRight == NoMeterCalls /\ ~PromptAnswers => (Spec => []RightHandler)
<1> SUFFICES ASSUME NoMeterCalls, ~PromptAnswers PROVE Spec => []RightHandler OBVIOUS
<1>1. LinkInv /\ AnswerMatchesCall /\ NoMeterAsked /\ HandlerInv /\ [Next]_vars => HandlerInv'
  BY HandlerStep
<1>2. LinkInv /\ HandlerInv /\ NoMeterAsked /\ [Next]_vars => NoMeterAsked'
  BY NoMeterAskedStep DEF HandlerInv
<1>3. HandlerInv => RightHandler BY DEF HandlerInv
<1> QED BY <1>1, <1>2, <1>3, HandlerInit, LinkInvariant, AcceptedAnswerMatches, PTL DEF Spec

-----------------------------------------------------------------------------
(* StartTransaction *)

\* The charger is never back in the main layer, short of a reboot: one session is looked at.
OneSession == NoMeterCalls /\ ~PromptAnswers /\ "main" \notin Events

Held == {Tx_Msg, sendBuf, Call_Tx_Msg} \cup Elems(up)

\* Before the session's start is queued nothing of a StartTransaction is left over ...
BeforeStart == session = "main" \/ bReqStartTsNo # 0

NothingStarted ==
  BeforeStart => /\ "startTs" \notin req
                 /\ \A m \in Held : m.act # "StartTs"
                 /\ \A m \in Incoming : m.of # "StartTs"

\* ... and an answer to it means that the central system has received it.
StartInv ==
  /\ NothingStarted
  /\ session = "main" => bReqStartTsNo = 0
  /\ \A m \in Incoming : m.type = "RES" /\ m.of = "StartTs" => "startTs" \notin owed
  /\ pc["R"] = "apply" => Rx_Msg.type = "RES" \/ Rx_Msg.act = "None"

\* A step that asks for no start and turns up nothing of one unless it is asked for.
LEMMA StartKept ==
  ASSUME StartInv, "startTs" \in req' => "startTs" \in req,
         "startTs" \in owed' => "startTs" \in owed,
         BeforeStart' => BeforeStart, session' = "main" => bReqStartTsNo' = 0,
         \A m \in Held' : m \in Held \/ m.act # "StartTs" \/ "startTs" \in req,
         \A m \in Incoming' : m.of = "StartTs" => \E n \in Incoming : n.of = m.of /\ n.type = m.type,
         pc'["R"] = "apply" => Rx_Msg'.type = "RES" \/ Rx_Msg'.act = "None"
  PROVE  StartInv'
<1>1. NothingStarted' BY DEF StartInv, NothingStarted
<1> QED BY <1>1 DEF StartInv

\* A step that touches no frame.
LEMMA StartSame ==
  ASSUME StartInv, "startTs" \in req' => "startTs" \in req, UNCHANGED <<owed, session>>,
         bReqStartTsNo' \in {bReqStartTsNo, 0},
         UNCHANGED <<sendBuf, Call_Tx_Msg, up, down>>, Tx_Msg' \in {Tx_Msg, ResMsg},
         Rx_Msg' \in {Rx_Msg, NoRx}, pc'["R"] = pc["R"] \/ pc'["R"] # "apply"
  PROVE  StartInv'
<1>1. BeforeStart' => BeforeStart BY DEF BeforeStart
<1>2. \A m \in Held' : m \in Held \/ m.act # "StartTs" BY DEF Held, ResMsg
<1>3. \A m \in Incoming' : m.of = "StartTs" => m \in Incoming BY DEF Incoming, NoRx
<1>4. pc'["R"] = "apply" => Rx_Msg'.type = "RES" \/ Rx_Msg'.act = "None" BY DEF StartInv, NoRx
<1>5. session' = "main" => bReqStartTsNo' = 0 BY DEF StartInv
<1> QED BY <1>1, <1>2, <1>3, <1>4, <1>5, StartKept

LEMMA StartReboot == ASSUME Reboot PROVE StartInv'
<1>1. Elems(<<>>) = {} BY DEF Elems
<1>2. Held' = {ResMsg} /\ Incoming' = {NoRx} /\ pc'["R"] = "top"
  BY <1>1 DEF Reboot, Held, Incoming, Thread
<1> QED BY <1>2 DEF Reboot, StartInv, NothingStarted, ResMsg, NoRx

\* A step that empties the wire.
LEMMA StartCleared ==
  ASSUME TypeOK, StartInv, up' = <<>>, down' = <<>>, UNCHANGED <<shared, req, bReqStartTsNo, owed, session>>,
         pc'["R"] = pc["R"]
  PROVE  StartInv'
<1>1. Elems(up') = {} /\ Elems(down') = {} BY ElemsOK DEF TypeOK
<1>2. Held' \subseteq Held /\ Incoming' \subseteq Incoming BY <1>1 DEF Held, Incoming
<1> QED BY <1>2, StartKept DEF StartInv, BeforeStart

LEMMA StartMake ==
  ASSUME TypeOK, StartInv, NEW act, NEW id, NEW c, MakeDataCmd(act, id, c), req' \subseteq req,
         act = "StartTs" => "startTs" \in req
  PROVE  StartInv'
<1>1. pc'["R"] = pc["R"] BY DEF MakeDataCmd, Goto, TypeOK, Thread
<1>2. /\ Tx_Msg'.act = act
      /\ UNCHANGED <<sendBuf, Call_Tx_Msg, Rx_Msg, up, down, bReqStartTsNo, owed, session>>
  BY DEF MakeDataCmd
<1>3. \A m \in Held' : m \in Held \/ m.act # "StartTs" \/ "startTs" \in req BY <1>2 DEF Held
<1>4. Incoming' = Incoming BY <1>2 DEF Incoming
<1> QED BY <1>1, <1>2, <1>3, <1>4, StartKept DEF StartInv, BeforeStart

LEMMA StartClient ==
  ASSUME TypeOK, StartInv, ClientThread, ~Trans("C"), ~RebootOnNoNetwork
  PROVE  StartInv'
<1>1. \A l : Goto("C", l) => pc'["R"] = pc["R"] BY DEF Goto, TypeOK, Thread
<1>2. CASE ClientTop
  <2>1. /\ bReqStartTsNo' = 0 /\ pc'["R"] = pc["R"] /\ UNCHANGED <<shared, up, down, session>>
    BY <1>1, <1>2 DEF ClientTop
  <2>2. CASE bReqStartTsNo # 0
    <3>1. BeforeStart /\ session # "main" BY <2>2 DEF BeforeStart, StartInv
    <3>2. ~BeforeStart' BY <2>1, <3>1 DEF BeforeStart
    <3>3. Incoming' = Incoming BY <2>1 DEF Incoming
    <3> QED BY <2>1, <3>1, <3>2, <3>3 DEF StartInv, NothingStarted
  <2>3. CASE bReqStartTsNo = 0
    <3>1. req' = req /\ owed' = owed BY <1>2, <2>3 DEF ClientTop
    <3> QED BY <2>1, <3>1, StartSame
  <2> QED BY <2>2, <2>3
<1>3. CASE RouterPowerCheck BY <1>3, StartSame DEF RouterPowerCheck
<1>4. CASE SenarioWaits \/ SenarioTimeout \/ SenarioIdle \/ SenarioMemberSleeps
  BY <1>1, <1>4, StartSame
     DEF SenarioWaits, SenarioTimeout, SenarioIdle, SenarioMemberSleeps, AfterRequest
<1>5. CASE ClientNoNetwork BY <1>1, <1>5, StartSame DEF ClientNoNetwork, Fault
<1>6. CASE WS_Server_connect \/ WS_Server_connect_fails
  BY <1>1, <1>6, StartCleared DEF WS_Server_connect, WS_Server_connect_fails, Fault
<1>7. CASE SenarioBoot \/ SenarioMeter \/ SenarioMember
  BY <1>7, StartMake DEF SenarioBoot, SenarioMeter, SenarioMember, ActOf
<1>8. CASE \E c \in Connector : SenarioStat(c) BY <1>8, StartMake DEF SenarioStat
<1>9. ASSUME NEW f \in Pending \ {"member", "stopTs", "trigger"}, SenarioRequest(f) PROVE StartInv'
  <2>1. req' \subseteq req BY <1>9 DEF SenarioRequest, AfterRequest
  <2>2. f \in DOMAIN ActOf BY <1>9 DEF Pending, TypeOK, ActOf, Flag
  <2>3. ActOf[f] = "StartTs" => f = "startTs" BY <2>2 DEF ActOf
  <2>4. f = "startTs" => f \in req BY <1>9 DEF Pending
  <2> QED BY <1>9, <2>1, <2>3, <2>4, StartMake DEF SenarioRequest
<1>10. CASE SenarioStopTs BY <1>10, StartMake DEF SenarioStopTs
<1>11. CASE SenarioTrigger
  <2>1. triggerMsgStat \in DOMAIN TriggerAct
    BY <1>11 DEF SenarioTrigger, First, Pending, TypeOK, Flag
  <2>2. TriggerAct[triggerMsgStat] # "StartTs" BY <2>1 DEF TriggerAct
  <2>3. \E id, c : MakeDataCmd(TriggerAct[triggerMsgStat], id, c)
    <3>1. CASE TriggerAct[triggerMsgStat] = "MeterVal" BY <1>11, <3>1 DEF SenarioTrigger
    <3>2. CASE TriggerAct[triggerMsgStat] # "MeterVal" BY <1>11, <3>2 DEF SenarioTrigger
    <3> QED BY <3>1, <3>2
  <2> QED BY <1>11, <2>2, <2>3, StartMake DEF SenarioTrigger
<1> QED
  BY <1>2, <1>3, <1>4, <1>5, <1>6, <1>7, <1>8, <1>9, <1>10, <1>11 DEF ClientThread

LEMMA StartTrans == ASSUME TypeOK, StartInv, NEW t \in Thread, Trans(t) PROVE StartInv'
<1>1. \A l : Goto(t, l) => pc'["R"] = pc["R"] \/ pc'["R"] = l BY DEF Goto, TypeOK, Thread
<1>2. CASE Make_Ocpp_Msg(t) \/ WsSend(t) \/ WsRegister(t)
  <2>1. UNCHANGED <<Rx_Msg, down, req, bReqStartTsNo, owed, session>>
    BY <1>2 DEF Make_Ocpp_Msg, WsSend, WsRegister
  <2>2. Elems(up') \subseteq Elems(up) \cup {sendBuf}
    <3>1. CASE WsSend(t) BY <3>1, ElemsOK DEF WsSend, TypeOK
    <3>2. CASE UNCHANGED up BY <3>2
    <3> QED BY <1>2, <3>1, <3>2 DEF Make_Ocpp_Msg, WsRegister
  <2>3. Held' \subseteq Held BY <1>2, <2>2 DEF Held, Make_Ocpp_Msg, WsSend, WsRegister
  <2>4. Incoming' = Incoming BY <2>1 DEF Incoming
  <2>5. pc'["R"] = pc["R"] \/ pc'["R"] \in {"encoded", "sent", "top"}
    BY <1>1, <1>2 DEF Make_Ocpp_Msg, WsSend, WsRegister
  <2> QED BY <2>1, <2>3, <2>4, <2>5, StartKept DEF StartInv, BeforeStart
<1>3. CASE WsSendFails(t) BY <1>1, <1>3, StartSame DEF WsSendFails
<1> QED BY <1>2, <1>3 DEF Trans

LEMMA StartReceive ==
  ASSUME TypeOK, StartInv, RxThread, ~Trans("R") PROVE StartInv'
<1>1. \A l : Goto("R", l) => pc'["R"] = l BY DEF Goto, TypeOK, Thread
<1>2. CASE RxParse
  <2>1. /\ Head(down) \in Elems(down) /\ Elems(down') \subseteq Elems(down)
        /\ Head(down) \in RxMsg
    BY <1>2, ElemsOK DEF RxParse, TypeOK
  <2>2. /\ pc'["R"] \in {"top", "parsed"}
        /\ UNCHANGED <<Tx_Msg, sendBuf, Call_Tx_Msg, up, req, bReqStartTsNo, owed, session>>
    BY <1>1, <1>2 DEF RxParse
  <2>3. Rx_Msg'.of = "StartTs" => Rx_Msg'.of = Head(down).of /\ Rx_Msg'.type = Head(down).type
    BY <1>2, <2>1 DEF RxParse, RxMsg, NoRx
  <2>4. \A m \in Incoming' : m.of = "StartTs" => \E n \in Incoming : n.of = m.of /\ n.type = m.type
    BY <2>1, <2>3 DEF Incoming
  <2>5. Held' = Held BY <2>2 DEF Held
  <2> QED BY <2>2, <2>4, <2>5, StartKept DEF StartInv, BeforeStart
<1>3. CASE RxFails \/ RxDrop BY <1>1, <1>3, StartSame DEF RxFails, RxDrop
<1>4. CASE RxAnswer
  <2>1. Rx_Msg.type = "RES" /\ UNCHANGED <<shared, up, down, req, bReqStartTsNo, owed, session>>
    BY <1>4 DEF RxAnswer, AnswerAwaited
  <2>2. Held' = Held /\ Incoming' = Incoming BY <2>1 DEF Held, Incoming
  <2> QED BY <2>1, <2>2, StartKept DEF StartInv, BeforeStart
<1>5. CASE \/ RxCallUnregistered \/ RxCallOther \/ DataProcCmd_TriggerMsg
           \/ DataProcCmd_ChangeAvail \/ DataProcCmd_UpdateFw
  BY <1>1, <1>5, StartSame DEF RxCallUnregistered, RxCallOther, DataProcCmd_TriggerMsg,
                      DataProcCmd_ChangeAvail, DataProcCmd_UpdateFw, RxCall
<1>6. CASE \/ DataProcCmd_Auth \/ DataProcCmd_Boot \/ DataProcCmd_Stat \/ DataProcCmd_StartTs
           \/ DataProcCmd_StopTs \/ DataProcCmd_HB \/ DataProcCmd_MeterVal \/ DataProcCmd_Rest
  <2>1. \E a : RxApply(a)
    BY <1>6 DEF DataProcCmd_Auth, DataProcCmd_Boot, DataProcCmd_Stat, DataProcCmd_StartTs,
                DataProcCmd_StopTs, DataProcCmd_HB, DataProcCmd_MeterVal, DataProcCmd_Rest
  <2>2. "startTs" \in req' => "startTs" \in req
    BY <1>6 DEF DataProcCmd_Auth, DataProcCmd_Boot, DataProcCmd_Stat, DataProcCmd_StartTs,
                DataProcCmd_StopTs, DataProcCmd_HB, DataProcCmd_MeterVal, DataProcCmd_Rest
  <2> QED BY <1>1, <2>1, <2>2, StartSame DEF RxApply
<1> QED BY <1>2, <1>3, <1>4, <1>5, <1>6 DEF RxThread

\* The central system: with its answer to StartTransaction it has received one.
LEMMA StartCentral ==
  ASSUME TypeOK, StartInv, CentralSystem \/ SrvCalls PROVE StartInv'
<1>1. ASSUME SrvReads, Elems(down') \subseteq Elems(down), UNCHANGED <<owed, session>>
      PROVE  StartInv'
  <2>1. Elems(up') \subseteq Elems(up) BY <1>1, ElemsOK DEF SrvReads, TypeOK
  <2>2. Held' \subseteq Held /\ Incoming' \subseteq Incoming
    BY <1>1, <2>1 DEF SrvReads, Held, Incoming
  <2> QED BY <1>1, <2>2, StartKept DEF SrvReads, StartInv, BeforeStart
<1>2. ASSUME SrvReads, NEW type, NEW res, SrvAnswer(Head(up), type, res), owed' \subseteq owed,
             UNCHANGED session,
             type = "RES" /\ Head(up).act = "StartTs" => "startTs" \notin owed'
      PROVE  StartInv'
  <2> DEFINE r == [type |-> type, id |-> Head(up).id, act |-> "None", of |-> Head(up).act,
                   res |-> res, cs |-> NoCs]
  <2>1. /\ Head(up) \in Elems(up) /\ Elems(up') \subseteq Elems(up)
        /\ UNCHANGED <<pc, shared, req, bReqStartTsNo>>
    BY <1>2, ElemsOK DEF SrvReads, TypeOK
  <2>2. down' = Append(down, r) BY <1>2 DEF SrvAnswer
  <2>3. r.of = Head(up).act /\ r.type = type OBVIOUS
  <2> HIDE DEF r
  <2>4. Elems(down') \subseteq Elems(down) \cup {r} BY <2>2 DEF TypeOK, Elems
  <2>5. Held' \subseteq Held /\ Incoming' \subseteq Incoming \cup {r} /\ Head(up) \in Held
    BY <2>1, <2>4 DEF Incoming, Held
  <2>6. NothingStarted'
    BY <1>2, <2>1, <2>3, <2>5 DEF StartInv, NothingStarted, BeforeStart
  <2> QED BY <1>2, <2>1, <2>3, <2>5, <2>6 DEF StartInv
<1>3. CASE SrvResult BY <1>1, <1>3 DEF SrvResult
<1>4. CASE SrvAccepts
  BY <1>2, <1>4 DEF SrvAccepts, SrvLearns
<1>5. CASE SrvDefersBoot BY <1>2, <1>5 DEF SrvDefersBoot, Fault
<1>6. CASE SrvRefuses BY <1>1, <1>2, <1>6 DEF SrvRefuses, Fault
<1>7. CASE SrvCalls
  <2>1. PICK c \in CsActs : down' = Append(down, [NoRx EXCEPT !.type = "CALL", !.cs = c])
    BY <1>7 DEF SrvCalls
  <2> DEFINE r == [NoRx EXCEPT !.type = "CALL", !.cs = c]
  <2>2. r.of = "None" BY DEF NoRx
  <2>3. down' = Append(down, r) BY <2>1
  <2> HIDE DEF r
  <2>4. Elems(down') \subseteq Elems(down) \cup {r} BY <2>3 DEF TypeOK, Elems
  <2>5. UNCHANGED <<pc, shared, up, req, bReqStartTsNo, owed, session>> BY <1>7 DEF SrvCalls
  <2>6. Held' = Held /\ Incoming' \subseteq Incoming \cup {r} BY <2>4, <2>5 DEF Held, Incoming
  <2> QED BY <2>2, <2>5, <2>6, StartKept DEF StartInv, BeforeStart
<1> QED BY <1>3, <1>4, <1>5, <1>6, <1>7 DEF CentralSystem

LEMMA StartOthers ==
  ASSUME OneSession, TypeOK, StartInv,
         \/ OtherThreads \/ RespTimeElapses \/ RespTimeElapsesEarly \/ HbTimeElapses
         \/ MeterTimeElapses \/ UNCHANGED vars \/ (UpdateThread /\ ~UpdateReboots) \/ ConnLost
  PROVE  StartInv'
<1>1. CASE ConnLost BY <1>1, StartCleared DEF ConnLost, Fault
<1>2. CASE EvStatus \/ EvCardWaitLeave \/ EvPeriod
  BY <1>2, StartSame DEF EvStatus, EvCardWaitLeave, EvPeriod, Event
<1>3. CASE EvRequest
  BY <1>3, StartSame, ConstAssumption DEF EvRequest, Event
<1>4. CASE EvStart
  <2>1. BeforeStart /\ session' # "main" BY <1>4 DEF EvStart, BeforeStart
  <2>2. Held' = Held /\ Incoming' = Incoming /\ UNCHANGED <<pc, Rx_Msg, req, owed>>
    BY <1>4 DEF EvStart, Event, Held, Incoming
  <2> QED BY <2>1, <2>2 DEF StartInv, NothingStarted
<1>5. CASE EvStop
  <2>1. /\ session # "main" /\ session' # "main" /\ UNCHANGED <<pc, Rx_Msg, bReqStartTsNo>>
        /\ "startTs" \in req' => "startTs" \in req
        /\ "startTs" \in owed' => "startTs" \in owed
    BY <1>5 DEF EvStop, Event
  <2>2. Held' = Held /\ Incoming' = Incoming BY <1>5 DEF EvStop, Event, Held, Incoming
  <2> QED BY <2>1, <2>2, StartKept DEF StartInv, BeforeStart
<1>6. CASE EvMainOnEnter BY <1>6 DEF EvMainOnEnter, OneSession
<1>7. CASE UpdateBegins \/ UpdateDownloads \/ UpdateLoads \/ UpdateEnds \/ UpdateSaves
  BY <1>7, StartSame
     DEF UpdateBegins, UpdateDownloads, UpdateLoads, UpdateEnds, UpdateSaves, UpdateStepTo
<1>8. CASE RespTimeElapses \/ RespTimeElapsesEarly \/ HbTimeElapses \/ MeterTimeElapses
  BY <1>8, StartSame DEF RespTimeElapses, RespTimeElapsesEarly, TimeOut, HbTimeElapses,
                         MeterTimeElapses, Fault
<1>9. CASE UNCHANGED vars BY <1>9, StartSame DEF vars
<1> QED
  BY <1>1, <1>2, <1>3, <1>4, <1>5, <1>6, <1>7, <1>8, <1>9 DEF OtherThreads, UpdateThread

LEMMA StartInit == Init => StartInv
<1>1. Elems(<<>>) = {} BY DEF Elems
<1> QED
  BY <1>1 DEF Init, PowerOn, Thread, StartInv, NothingStarted, Held, Incoming, NoRx, ResMsg

LEMMA StartStep ==
  ASSUME OneSession, TypeOK, StartInv, [Next]_vars
  PROVE  StartInv'
<1>1. CASE RebootOnNoNetwork \/ RebootOnNetError \/ UpdateReboots
  BY <1>1, StartReboot DEF RebootOnNoNetwork, RebootOnNetError, UpdateReboots
<1>2. CASE ClientThread BY <1>1, <1>2, StartClient, StartTrans DEF Thread
<1>3. CASE RxThread BY <1>3, StartReceive, StartTrans DEF Thread
<1> QED BY <1>1, <1>2, <1>3, StartCentral, StartOthers DEF Next

\* Nothing but the answer takes the request for StartTransaction away.
LEMMA StartRequestStays ==
  ASSUME TypeOK, [Next]_vars, "startTs" \in req, "startTs" \notin req', ~Reboot
  PROVE  pc["R"] = "apply" /\ Rx_Msg.act = "StartTs"
<1>1. CASE ClientThread
  <2>1. CASE \E f \in Pending \ {"member", "stopTs", "trigger"} : SenarioRequest(f)
    BY <2>1 DEF SenarioRequest, AfterRequest
  <2> QED
    BY <1>1, <2>1
       DEF ClientThread, ClientTop, RouterPowerCheck, RebootOnNoNetwork, ClientNoNetwork,
           WS_Server_connect, WS_Server_connect_fails, SenarioWaits, SenarioTimeout, SenarioBoot,
           SenarioMeter, SenarioStat, SenarioMemberSleeps, SenarioMember, AfterRequest,
           SenarioStopTs, SenarioTrigger, SenarioIdle, Trans, Make_Ocpp_Msg, WsSend, WsSendFails, WsRegister
<1>2. CASE RxThread
  <2>1. CASE DataProcCmd_StartTs BY <2>1 DEF DataProcCmd_StartTs, RxApply
  <2> QED
    BY <1>2, <2>1
       DEF RxThread, RxParse, RxFails, RxAnswer, RxDrop, RxCallUnregistered, RxCallOther,
           DataProcCmd_TriggerMsg, DataProcCmd_ChangeAvail, DataProcCmd_UpdateFw, DataProcCmd_Auth,
           DataProcCmd_Boot, DataProcCmd_Stat, DataProcCmd_StopTs, DataProcCmd_HB,
           DataProcCmd_MeterVal, DataProcCmd_Rest, Trans, Make_Ocpp_Msg, WsSend, WsSendFails,
           WsRegister
<1>3. CASE CentralSystem \/ SrvCalls \/ ConnLost \/ UNCHANGED vars
  BY <1>3 DEF CentralSystem, SrvResult, SrvAccepts, SrvDefersBoot, SrvRefuses, SrvReads, SrvCalls,
              ConnLost, vars
<1>4. CASE \/ RebootOnNetError \/ RespTimeElapses \/ RespTimeElapsesEarly \/ HbTimeElapses
           \/ MeterTimeElapses
  BY <1>4 DEF RebootOnNetError, RespTimeElapses, RespTimeElapsesEarly, TimeOut, HbTimeElapses,
              MeterTimeElapses
<1>5. CASE OtherThreads
  BY <1>5 DEF OtherThreads, EvStatus, EvRequest, EvStart, EvStop, EvMainOnEnter, EvCardWaitLeave,
              EvPeriod, Event
<1>6. CASE UpdateThread
  BY <1>6 DEF UpdateThread, UpdateBegins, UpdateDownloads, UpdateLoads, UpdateEnds, UpdateSaves,
              UpdateReboots, UpdateStepTo
<1> QED BY <1>1, <1>2, <1>3, <1>4, <1>5, <1>6 DEF Next

\* The request for StartTransaction is dropped only after the central system has received one,
\* short of a reboot: an answer to another CALL, or one that came late, never takes it away.
THEOREM StartTsReachesServer == OneSession => (Spec => StartTsDelivered)
<1> SUFFICES ASSUME OneSession PROVE Spec => StartTsDelivered OBVIOUS
<1>1. TypeOK /\ StartInv /\ [Next]_vars => StartInv' BY StartStep
<1>2. TypeOK /\ StartInv /\ RightHandler /\ [Next]_vars
        => [("startTs" \in req \ req' /\ "startTs" \in owed) => Reboot]_vars
  <2> SUFFICES ASSUME TypeOK, StartInv, RightHandler, [Next]_vars, "startTs" \in req,
                      "startTs" \notin req', "startTs" \in owed, ~Reboot
               PROVE  FALSE
    OBVIOUS
  <2>1. pc["R"] = "apply" /\ Rx_Msg.act = "StartTs" BY StartRequestStays
  <2>2. Rx_Msg.of = "StartTs" /\ Rx_Msg.type = "RES" BY <2>1 DEF RightHandler, StartInv
  <2> QED BY <2>2 DEF StartInv, Incoming
<1>3. Spec => []RightHandler BY HandlerIsRight DEF OneSession
<1> QED BY <1>1, <1>2, <1>3, StartInit, TypeCorrect, PTL DEF Spec, StartTsDelivered

-----------------------------------------------------------------------------
(* One CALL at a time *)

\* The central system sends no CALL of its own, and no MeterValues are sent.
Quiet == CsActs = {} /\ "period" \notin Events

\* A CALL is in Tx_Msg and not sent; or the client sleeps before it makes the member's.
Made == pc["C"] \in {"made", "encoded"}
Making == Made \/ pc["C"] = "member"
WireFree == up = <<>> /\ down = <<>>

\* Only the client thread transmits, and what it transmits is a CALL.
Alone ==
  /\ ~meterDue /\ triggerMsgStat = "NONE"
  /\ pc["R"] \notin {"made", "encoded", "sent"}
  /\ Made \/ pc["C"] = "sent" => Tx_Msg.type = "CALL"
  /\ pc["C"] \in {"encoded", "sent"} => sendBuf = Tx_Msg
  /\ Rx_Msg.type # "CALL"
  /\ \A m \in Elems(down) : m.type \in {"RES", "ERR"}

\* One frame is under way at most, and none while the next CALL may be made.
InTurn ==
  /\ OneCallAtATime
  /\ bConnect /\ ~bWaitResFlg /\ pc["C"] # "sent" => WireFree
  /\ Making => WireFree
  /\ Making \/ pc["C"] = "sent" => ~bWaitResFlg

\* The answer Rx_Msg holds is old, or it is the last of the frames.
Stale ==
  Rx_Msg.type = "RES" =>
    /\ Made => Rx_Msg.id # Tx_Msg.id
    /\ pc["C"] = "sent" /\ Rx_Msg.id = Tx_Msg.id => WireFree
    /\ bWaitResFlg /\ Rx_Msg.id = Call_Tx_Msg.id => WireFree

\* What is under way belongs to the registered CALL, or to the one about to be.
Answered ==
  /\ up # <<>> => Head(up) = IF pc["C"] = "sent" THEN Tx_Msg ELSE Call_Tx_Msg
  /\ pc["C"] = "sent" => down = <<>>
  /\ down # <<>> => Head(down).of = Call_Tx_Msg.act

QuietInv == Alone /\ InTurn /\ Stale /\ (~PromptAnswers => Answered)

\* A sequence of one frame.
LEMMA OneFrame ==
  ASSUME NEW S, NEW s \in Seq(S), Len(s) = 1
  PROVE  Tail(s) = <<>> /\ Elems(s) = {Head(s)} /\ Head(s) \in S
<1>1. Tail(s) \in Seq(S) /\ Len(Tail(s)) = 0 OBVIOUS
<1>2. \A t \in Seq(S) : Len(t) = 0 => t = <<>> OBVIOUS
<1>3. DOMAIN s = {1} /\ s[1] \in S OBVIOUS
<1>4. Head(s) = s[1] OBVIOUS
<1>5. Elems(s) = {s[1]} BY <1>3 DEF Elems
<1> QED BY <1>1, <1>2, <1>3, <1>4, <1>5

\* Either direction holds a frame at most, and then the other holds none.
LEMMA OneSide ==
  ASSUME TypeOK, InTurn
  PROVE  /\ up # <<>> => /\ down = <<>> /\ Len(up) = 1
                         /\ Tail(up) = <<>> /\ Elems(up) = {Head(up)} /\ Head(up) \in TxMsg
         /\ down # <<>> => /\ up = <<>> /\ Len(down) = 1
                           /\ Tail(down) = <<>> /\ Elems(down) = {Head(down)}
                           /\ Head(down) \in RxMsg
<1>1. Len(up) \in Nat /\ Len(down) \in Nat /\ Len(up) + Len(down) <= 1
  BY DEF TypeOK, InTurn, OneCallAtATime
<1>2. (up = <<>> <=> Len(up) = 0) /\ (down = <<>> <=> Len(down) = 0) BY DEF TypeOK
<1>3. up # <<>> => Len(up) = 1 /\ down = <<>> BY <1>1, <1>2
<1>4. down # <<>> => Len(down) = 1 /\ up = <<>> BY <1>1, <1>2
<1>5. up \in Seq(TxMsg) /\ down \in Seq(RxMsg) BY DEF TypeOK
<1>6. up # <<>> => Tail(up) = <<>> /\ Elems(up) = {Head(up)} /\ Head(up) \in TxMsg
  BY <1>3, <1>5, OneFrame
<1>7. down # <<>> => Tail(down) = <<>> /\ Elems(down) = {Head(down)} /\ Head(down) \in RxMsg
  BY <1>4, <1>5, OneFrame
<1> QED BY <1>3, <1>4, <1>6, <1>7

\* A step that touches no CALL and no frame, and does not turn to sending.
LEMMA QuietSame ==
  ASSUME TypeOK, QuietInv,
         UNCHANGED <<Tx_Msg, sendBuf, Call_Tx_Msg, up, down, bWaitResFlg>>,
         bConnect' => bConnect, Rx_Msg' \in {Rx_Msg, NoRx},
         ~meterDue', triggerMsgStat' = "NONE",
         pc'["C"] = pc["C"] \/ {pc["C"], pc'["C"]} \subseteq {"top", "net", "sampled"},
         pc'["R"] = pc["R"] \/ pc'["R"] \in {"top", "parsed", "apply"}
  PROVE  QuietInv'
<1>1. Alone' BY DEF QuietInv, Alone, Making, Made, NoRx
<1>2. InTurn' BY DEF QuietInv, InTurn, OneCallAtATime, Making, Made, WireFree
<1>3. Stale' BY DEF QuietInv, Stale, Making, Made, WireFree, NoRx
<1>4. ~PromptAnswers => Answered' BY DEF QuietInv, Answered, NoRx
<1> QED BY <1>1, <1>2, <1>3, <1>4 DEF QuietInv

\* A step that empties the wire.
LEMMA QuietCleared ==
  ASSUME TypeOK, QuietInv, up' = <<>>, down' = <<>>,
         UNCHANGED <<Tx_Msg, sendBuf, Call_Tx_Msg>>, bWaitResFlg' => bWaitResFlg,
         Rx_Msg' \in {Rx_Msg, NoRx}, ~meterDue', triggerMsgStat' = "NONE",
         pc'["C"] = pc["C"] \/ pc'["C"] \in {"top", "net", "sampled"}, pc'["R"] = pc["R"]
  PROVE  QuietInv'
<1>1. Elems(<<>>) = {} BY DEF Elems
<1>2. Alone' BY <1>1 DEF QuietInv, Alone, Making, Made, NoRx
<1>3. InTurn' /\ Stale' BY DEF QuietInv, InTurn, OneCallAtATime, Stale, Making, Made, WireFree, NoRx
<1>4. ~PromptAnswers => Answered' BY DEF QuietInv, Answered, NoRx
<1> QED BY <1>2, <1>3, <1>4 DEF QuietInv

\* So does a reboot, with everything else.
LEMMA QuietReboot == ASSUME Reboot PROVE QuietInv'
<1>1. Elems(<<>>) = {} BY DEF Elems
<1>2. pc'["C"] = "top" /\ pc'["R"] = "top" BY DEF Reboot, Thread
<1> QED
  BY <1>1, <1>2 DEF Reboot, QuietInv, Alone, InTurn, OneCallAtATime, Stale, Answered, Making, Made, WireFree, NoRx

\* A CALL with a new id, made when the flag says that none is awaited: the wire is free.
LEMMA QuietMake ==
  ASSUME TypeOK, QuietInv, WireFree, ~bWaitResFlg, NEW act, NEW id, Unasked(id), NEW c,
         MakeDataCmd(act, id, c), ~meterDue', triggerMsgStat' = "NONE"
  PROVE  QuietInv'
<1>1. pc'["C"] = "made" /\ pc'["R"] = pc["R"] BY DEF MakeDataCmd, Goto, TypeOK, Thread
<1>2. Tx_Msg'.type = "CALL" /\ Tx_Msg'.id = id BY DEF MakeDataCmd
<1>3. WireFree /\ UNCHANGED <<bWaitResFlg, sendBuf, Call_Tx_Msg, Rx_Msg, up, down>>
  BY DEF MakeDataCmd
<1>4. Rx_Msg.type = "RES" => Rx_Msg.id # id BY HeldIsOther DEF AnswersHeld
<1>5. Alone' BY <1>1, <1>2, <1>3 DEF QuietInv, Alone, Making, Made
<1>6. InTurn' BY <1>1, <1>3 DEF QuietInv, InTurn, OneCallAtATime, Making, Made, WireFree
<1>7. Stale' BY <1>1, <1>2, <1>3, <1>4 DEF QuietInv, Stale, Making, Made, WireFree
<1>8. ~PromptAnswers => Answered' BY <1>1, <1>3 DEF QuietInv, Answered, WireFree
<1> QED BY <1>5, <1>6, <1>7, <1>8 DEF QuietInv

\* The client thread up to the CALL it makes.
LEMMA QuietClient ==
  ASSUME LinkInv, QuietInv, ClientThread, ~Trans("C"), ~RebootOnNoNetwork
  PROVE  QuietInv'
<1>t. TypeOK BY DEF LinkInv
<1>0. ~meterDue /\ triggerMsgStat = "NONE" BY DEF QuietInv, Alone
<1>1. CASE ClientTop \/ RouterPowerCheck \/ SenarioWaits
  BY <1>t, <1>0, <1>1, QuietSame
     DEF ClientTop, RouterPowerCheck, SenarioWaits, Senario, InPass, Goto, TypeOK, Thread
<1>2. CASE SenarioIdle
  BY <1>t, <1>0, <1>2, QuietSame
     DEF SenarioIdle, SenarioRest, Senario, InPass, Goto, TypeOK, Thread
<1>3. CASE ClientNoNetwork
  BY <1>t, <1>0, <1>3, QuietSame DEF ClientNoNetwork, InPass, Goto, TypeOK, Thread
<1>4. CASE SenarioTimeout
  <2>1. pc["C"] \in {"net", "sampled"} /\ pc'["C"] = "top" /\ pc'["R"] = pc["R"]
    BY <1>t, <1>4 DEF SenarioTimeout, Senario, InPass, Goto, TypeOK, Thread
  <2>2. /\ ~bConnect' /\ ~bWaitResFlg'
        /\ UNCHANGED <<meterDue, triggerMsgStat, shared, up, down>>
    BY <1>4 DEF SenarioTimeout
  <2>3. Alone' /\ Stale' BY <2>1, <2>2 DEF QuietInv, Alone, Stale, Making, Made, WireFree
  <2>4. InTurn' BY <2>1, <2>2 DEF QuietInv, InTurn, OneCallAtATime, Making, Made, WireFree
  <2>5. ~PromptAnswers => Answered' BY <2>1, <2>2 DEF QuietInv, Answered
  <2> QED BY <2>3, <2>4, <2>5 DEF QuietInv
<1>5. CASE WS_Server_connect \/ WS_Server_connect_fails
  BY <1>t, <1>0, <1>5, QuietCleared
     DEF WS_Server_connect, WS_Server_connect_fails, Goto, TypeOK, Thread
<1>6. CASE SenarioMemberSleeps
  <2>1. /\ pc["C"] \in {"net", "sampled"} /\ pc'["C"] = "member" /\ pc'["R"] = pc["R"]
        /\ bConnect /\ ~bWaitResFlg /\ ~meterDue' /\ triggerMsgStat' = "NONE"
        /\ UNCHANGED <<bConnect, bWaitResFlg, shared, up, down>>
    BY <1>t, <1>0, <1>6 DEF SenarioMemberSleeps, SenarioRest, Senario, InPass, Goto, TypeOK, Thread
  <2>2. WireFree BY <2>1 DEF QuietInv, InTurn
  <2>3. Alone' /\ Stale' BY <2>1 DEF QuietInv, Alone, Stale, Made, WireFree
  <2>4. InTurn' BY <2>1, <2>2 DEF QuietInv, InTurn, OneCallAtATime, WireFree
  <2>5. ~PromptAnswers => Answered' BY <2>1 DEF QuietInv, Answered
  <2> QED BY <2>3, <2>4, <2>5 DEF QuietInv
<1>7. CASE \/ SenarioBoot \/ SenarioMeter \/ (\E c \in Connector : SenarioStat(c))
           \/ (\E f \in Pending \ {"member", "stopTs", "trigger"} : SenarioRequest(f))
           \/ SenarioMember \/ SenarioStopTs \/ SenarioTrigger
  <2>1. ~meterDue' /\ triggerMsgStat' = "NONE"
    BY <1>0, <1>7 DEF SenarioBoot, SenarioMeter, SenarioStat, SenarioRequest, SenarioMember,
                      SenarioStopTs, SenarioTrigger, SenarioRest, MakeDataCmd
  <2>2. (Senario /\ ~bWaitResFlg) \/ pc["C"] = "member"
    BY <1>7 DEF SenarioBoot, SenarioMeter, SenarioStat, SenarioRequest, SenarioMember,
                SenarioStopTs, SenarioTrigger, SenarioRest
  <2>3. WireFree /\ ~bWaitResFlg BY <2>2 DEF QuietInv, InTurn, Making, Senario, InPass
  <2>4. triggerMsgStat # "METER" BY <1>0
  <2>5. PICK a, i, c : Unasked(i) /\ MakeDataCmd(a, i, c) BY <1>0, <1>7, <2>4, ClientMakes
  <2> QED BY <1>t, <2>1, <2>3, <2>5, QuietMake
<1> QED
  BY <1>1, <1>2, <1>3, <1>4, <1>5, <1>6, <1>7 DEF ClientThread

\* The transmission of a CALL: the wire is free until the frame is sent.
LEMMA QuietTrans ==
  ASSUME TypeOK, QuietInv, NEW t \in Thread, Trans(t)
  PROVE  QuietInv'
<1>1. t = "C"
  BY DEF Thread, Trans, Make_Ocpp_Msg, WsSend, WsSendFails, WsRegister, QuietInv, Alone
<1>2. \A l : Goto("C", l) => pc'["C"] = l /\ pc'["R"] = pc["R"] BY DEF Goto, TypeOK, Thread
<1>3. CASE Make_Ocpp_Msg("C")
  <2>1. /\ pc["C"] = "made" /\ pc'["C"] = "encoded" /\ pc'["R"] = pc["R"] /\ sendBuf' = Tx_Msg
        /\ UNCHANGED <<bConnect, bWaitResFlg, meterDue, Tx_Msg, Call_Tx_Msg, Rx_Msg, up, down,
                       triggerMsgStat>>
    BY <1>2, <1>3 DEF Make_Ocpp_Msg
  <2>2. Alone' BY <2>1 DEF QuietInv, Alone, Making, Made
  <2>3. InTurn' /\ Stale' BY <2>1 DEF QuietInv, InTurn, OneCallAtATime, Stale, Making, Made, WireFree
  <2>4. ~PromptAnswers => Answered' BY <2>1 DEF QuietInv, InTurn, Answered, Making, Made, WireFree
  <2> QED BY <2>2, <2>3, <2>4 DEF QuietInv
<1>4. CASE WsSend("C")
  <2>1. /\ pc["C"] = "encoded" /\ pc'["C"] = "sent" /\ pc'["R"] = pc["R"]
        /\ UNCHANGED <<bConnect, bWaitResFlg, meterDue, shared, down, triggerMsgStat>>
    BY <1>2, <1>4 DEF WsSend
  <2>2. WireFree /\ sendBuf = Tx_Msg BY <2>1 DEF QuietInv, InTurn, Alone, Making, Made
  <2>3. up' = <<>> \/ up' = <<Tx_Msg>> BY <1>4, <2>2 DEF WsSend, WireFree
  <2>4. Alone' BY <2>1 DEF QuietInv, Alone, Making, Made
  <2>5. InTurn'
    <3>1. down' = <<>> BY <2>1, <2>2 DEF WireFree
    <3>2. OneCallAtATime'
      <4>1. CASE up' = <<>> BY <3>1, <4>1 DEF OneCallAtATime
      <4>2. CASE up' = <<Tx_Msg>> BY <3>1, <4>2 DEF OneCallAtATime
      <4> QED BY <2>3, <4>1, <4>2
    <3> QED BY <2>1, <2>2, <3>2 DEF QuietInv, InTurn, Making, Made, WireFree
  <2>6. Stale' BY <2>1, <2>2 DEF QuietInv, InTurn, Stale, Making, Made, WireFree
  <2>7. ~PromptAnswers => Answered' BY <2>1, <2>2, <2>3 DEF QuietInv, Answered, WireFree
  <2> QED BY <2>4, <2>5, <2>6, <2>7 DEF QuietInv
<1>5. CASE WsSendFails("C")
  <2>1. WireFree BY <1>5 DEF WsSendFails, QuietInv, InTurn, Making, Made
  <2> QED BY <1>2, <1>5, <2>1, QuietCleared DEF WsSendFails, WireFree, QuietInv, Alone
<1>6. CASE WsRegister("C")
  <2>1. /\ pc["C"] = "sent" /\ pc'["C"] = "top" /\ pc'["R"] = pc["R"]
        /\ bWaitResFlg' /\ Call_Tx_Msg' = Tx_Msg
        /\ UNCHANGED <<bConnect, meterDue, Tx_Msg, sendBuf, Rx_Msg, up, down, triggerMsgStat>>
    BY <1>2, <1>6 DEF WsRegister, QuietInv, Alone
  <2>2. Alone' BY <2>1 DEF QuietInv, Alone, Making, Made
  <2>3. InTurn' /\ Stale' BY <2>1 DEF QuietInv, InTurn, OneCallAtATime, Stale, Making, Made, WireFree
  <2>4. ~PromptAnswers => Answered' BY <2>1 DEF QuietInv, Answered
  <2> QED BY <2>2, <2>3, <2>4 DEF QuietInv
<1> QED BY <1>1, <1>3, <1>4, <1>5, <1>6 DEF Trans

\* The receive thread: what it takes for the awaited answer is the last frame under way.
LEMMA QuietReceive ==
  ASSUME TypeOK, QuietInv, RxThread, ~Trans("R")
  PROVE  QuietInv'
<1>0. ~meterDue /\ triggerMsgStat = "NONE" /\ Rx_Msg.type # "CALL" BY DEF QuietInv, Alone
<1>1. CASE RxParse
  <2>1. /\ up = <<>> /\ down' = <<>> /\ Head(down) \in Elems(down) /\ Head(down) \in RxMsg
        /\ down # <<>>
    BY <1>1, OneSide DEF RxParse, QuietInv
  <2>2. Head(down).type \in {"RES", "ERR"} BY <2>1 DEF QuietInv, Alone
  <2>3. /\ pc'["C"] = pc["C"] /\ pc'["R"] \in {"top", "parsed"}
        /\ UNCHANGED <<bConnect, bWaitResFlg, meterDue, triggerMsgStat, Tx_Msg, sendBuf, Call_Tx_Msg,
                       up>>
    BY <1>1 DEF RxParse, Goto, TypeOK, Thread
  <2>4. Rx_Msg'.type # "CALL" BY <1>1, <2>1, <2>2 DEF RxParse, RxMsg, NoRx
  <2>5. ~Making BY <2>1 DEF QuietInv, InTurn, WireFree
  <2>6. Alone'
    <3>1. Elems(down') = {} BY <2>1 DEF Elems
    <3> QED BY <2>3, <2>4, <3>1 DEF QuietInv, Alone, Making, Made
  <2>7. InTurn' /\ Stale' BY <2>1, <2>3, <2>5 DEF QuietInv, InTurn, OneCallAtATime, Stale, Making, Made, WireFree
  <2>8. ~PromptAnswers => Answered' BY <2>1, <2>3 DEF Answered
  <2> QED BY <2>6, <2>7, <2>8 DEF QuietInv
<1>2. CASE RxFails \/ RxDrop
  BY <1>0, <1>2, QuietSame DEF RxFails, RxDrop, Goto, TypeOK, Thread
<1>3. CASE RxAnswer
  <2>1. /\ pc'["C"] = pc["C"] /\ pc'["R"] = "apply" /\ ~bWaitResFlg'
        /\ UNCHANGED <<bConnect, meterDue, triggerMsgStat, shared, up, down>>
    BY <1>3 DEF RxAnswer, Goto, TypeOK, Thread
  <2>2. WireFree BY <1>3 DEF RxAnswer, AnswerAwaited, QuietInv, Stale
  <2>3. Alone' BY <2>1 DEF QuietInv, Alone, Making, Made
  <2>4. InTurn' /\ Stale' BY <2>1, <2>2 DEF QuietInv, InTurn, OneCallAtATime, Stale, Making, Made, WireFree
  <2>5. ~PromptAnswers => Answered' BY <2>1 DEF QuietInv, Answered
  <2> QED BY <2>3, <2>4, <2>5 DEF QuietInv
<1>4. CASE \/ RxCallUnregistered \/ RxCallOther \/ DataProcCmd_TriggerMsg
           \/ DataProcCmd_ChangeAvail \/ DataProcCmd_UpdateFw
  BY <1>0, <1>4 DEF RxCallUnregistered, RxCallOther, DataProcCmd_TriggerMsg,
                    DataProcCmd_ChangeAvail, DataProcCmd_UpdateFw, RxCall
<1>5. ASSUME NEW a, RxApply(a) PROVE QuietInv'
  BY <1>0, <1>5, QuietSame DEF RxApply, Goto, TypeOK, Thread
<1>6. CASE \/ DataProcCmd_Auth \/ DataProcCmd_Boot \/ DataProcCmd_Stat \/ DataProcCmd_StartTs
           \/ DataProcCmd_StopTs \/ DataProcCmd_HB \/ DataProcCmd_MeterVal \/ DataProcCmd_Rest
  BY <1>5, <1>6 DEF DataProcCmd_Auth, DataProcCmd_Boot, DataProcCmd_Stat, DataProcCmd_StartTs,
                    DataProcCmd_StopTs, DataProcCmd_HB, DataProcCmd_MeterVal, DataProcCmd_Rest
<1> QED BY <1>1, <1>2, <1>3, <1>4, <1>6 DEF RxThread

\* The central system takes the only frame and gives one back, or none.
LEMMA QuietCentral == ASSUME TypeOK, QuietInv, CentralSystem PROVE QuietInv'
<1>1. SrvReads BY DEF CentralSystem, SrvResult, SrvAccepts, SrvDefersBoot, SrvRefuses
<1>2. /\ up # <<>> /\ up' = <<>> /\ down = <<>> BY <1>1, OneSide DEF SrvReads, QuietInv
<1>3. /\ UNCHANGED <<pc, bConnect, bWaitResFlg, meterDue, triggerMsgStat, shared>>
      /\ ~PromptAnswers => pc["C"] # "sent"
  BY <1>1 DEF SrvReads, Thread
<1>4. \/ down' = <<>>
      \/ \E type \in {"RES", "ERR"} : \E res : SrvAnswer(Head(up), type, res)
  BY <1>2 DEF CentralSystem, SrvResult, SrvAccepts, SrvDefersBoot, SrvRefuses
<1>5. \/ down' = <<>>
      \/ \E r : down' = <<r>> /\ r.type \in {"RES", "ERR"} /\ r.of = Head(up).act
  <2>1. ASSUME NEW type \in {"RES", "ERR"}, NEW res, SrvAnswer(Head(up), type, res)
        PROVE  \E r : down' = <<r>> /\ r.type \in {"RES", "ERR"} /\ r.of = Head(up).act
    <3> DEFINE r == [type |-> type, id |-> Head(up).id, act |-> "None", of |-> Head(up).act,
                     res |-> res, cs |-> NoCs]
    <3>1. down' = <<r>> BY <1>2, <2>1 DEF SrvAnswer
    <3>2. r.type = type /\ r.of = Head(up).act OBVIOUS
    <3> HIDE DEF r
    <3> QED BY <3>1, <3>2
  <2> QED BY <1>4, <2>1
<1>6. ~Making BY <1>2 DEF QuietInv, InTurn, WireFree
<1>7. CASE down' = <<>>
  <2>1. Elems(down') = {} BY <1>7 DEF Elems
  <2>2. Alone' BY <1>3, <2>1 DEF QuietInv, Alone, Making, Made
  <2>3. InTurn' /\ Stale'
    BY <1>2, <1>3, <1>6, <1>7 DEF QuietInv, InTurn, OneCallAtATime, Stale, Making, Made, WireFree
  <2>4. ~PromptAnswers => Answered' BY <1>2, <1>3, <1>7 DEF QuietInv, Answered
  <2> QED BY <2>2, <2>3, <2>4 DEF QuietInv
<1>8. ASSUME NEW r, down' = <<r>>, r.type \in {"RES", "ERR"}, r.of = Head(up).act
      PROVE  QuietInv'
  <2>1. Elems(down') = {r} BY <1>8 DEF Elems
  <2>2. OneCallAtATime' BY <1>2, <1>8 DEF OneCallAtATime
  <2>3. Alone' BY <1>3, <1>8, <2>1 DEF QuietInv, Alone, Making, Made
  <2>4. InTurn' BY <1>2, <1>3, <1>6, <2>2 DEF QuietInv, InTurn, Making, Made, WireFree
  <2>5. Stale' BY <1>2, <1>3, <1>6 DEF QuietInv, Stale, Making, Made, WireFree
  <2>6. ~PromptAnswers => Answered' BY <1>2, <1>3, <1>8 DEF QuietInv, Answered
  <2> QED BY <2>3, <2>4, <2>5, <2>6 DEF QuietInv
<1> QED BY <1>5, <1>7, <1>8

\* The other threads, time, the update and a lost connection.
LEMMA QuietOthers ==
  ASSUME Quiet, TypeOK, QuietInv,
         \/ OtherThreads \/ RespTimeElapses \/ RespTimeElapsesEarly \/ HbTimeElapses
         \/ MeterTimeElapses \/ UNCHANGED vars \/ (UpdateThread /\ ~UpdateReboots) \/ ConnLost
  PROVE  QuietInv'
<1>0. ~meterDue /\ triggerMsgStat = "NONE" BY DEF QuietInv, Alone
<1>1. CASE ConnLost BY <1>0, <1>1, QuietCleared DEF ConnLost
<1>2. CASE EvStatus \/ EvRequest \/ EvStart \/ EvStop \/ EvMainOnEnter \/ EvCardWaitLeave
  BY <1>0, <1>2, QuietSame
     DEF EvStatus, EvRequest, EvStart, EvStop, EvMainOnEnter, EvCardWaitLeave, Event
<1>3. CASE EvPeriod BY <1>3 DEF EvPeriod, Quiet
<1>4. CASE UpdateBegins \/ UpdateDownloads \/ UpdateLoads \/ UpdateEnds \/ UpdateSaves
  BY <1>0, <1>4, QuietSame
     DEF UpdateBegins, UpdateDownloads, UpdateLoads, UpdateEnds, UpdateSaves, UpdateStepTo
<1>5. CASE RespTimeElapses \/ RespTimeElapsesEarly \/ HbTimeElapses \/ MeterTimeElapses
  BY <1>0, <1>5, QuietSame DEF RespTimeElapses, RespTimeElapsesEarly, TimeOut, HbTimeElapses,
                               MeterTimeElapses
<1>6. CASE UNCHANGED vars BY <1>0, <1>6, QuietSame DEF vars
<1> QED BY <1>1, <1>2, <1>3, <1>4, <1>5, <1>6 DEF OtherThreads, UpdateThread

LEMMA QuietInit == Init => QuietInv
<1>1. Elems(<<>>) = {} BY DEF Elems
<1> QED
  BY <1>1 DEF Init, PowerOn, Thread, QuietInv, Alone, InTurn, OneCallAtATime, Stale, Answered, Making, Made, WireFree,
              NoRx

LEMMA QuietStep == ASSUME Quiet, LinkInv, QuietInv, [Next]_vars PROVE QuietInv'
<1>0. TypeOK BY DEF LinkInv
<1>1. CASE RebootOnNoNetwork \/ RebootOnNetError \/ UpdateReboots
  BY <1>1, QuietReboot DEF RebootOnNoNetwork, RebootOnNetError, UpdateReboots
<1>2. CASE ClientThread BY <1>0, <1>1, <1>2, QuietClient, QuietTrans DEF Thread
<1>3. CASE RxThread BY <1>0, <1>3, QuietReceive, QuietTrans DEF Thread
<1>4. CASE SrvCalls BY <1>4 DEF SrvCalls, Quiet
<1> QED BY <1>0, <1>1, <1>2, <1>3, <1>4, QuietCentral, QuietOthers DEF Next

LEMMA QuietInvariant == ASSUME Quiet PROVE Spec => [](TypeOK /\ QuietInv)
<1>1. LinkInv /\ QuietInv /\ [Next]_vars => QuietInv' BY QuietStep
<1>2. LinkInv => TypeOK BY DEF LinkInv
<1> QED BY <1>1, <1>2, QuietInit, LinkInvariant, PTL DEF Spec

\* The charger sends no CALL before the previous one is answered, given up with its
\* connection, or lost: whatever fails, and even if an answer overtakes the registration.
THEOREM OneAtATime == Quiet => (Spec => []OneCallAtATime)
<1> SUFFICES ASSUME Quiet PROVE Spec => []OneCallAtATime OBVIOUS
<1>1. QuietInv => OneCallAtATime BY DEF QuietInv, InTurn
<1> QED BY <1>1, QuietInvariant, PTL

\* bWaitResFlg tells the truth: while a CALL or its answer is under way on the connection in
\* use the charger waits for it, or is about to.
THEOREM FlagTellsTruth == Quiet => (Spec => []WaitFlagTruthful)
<1> SUFFICES ASSUME Quiet PROVE Spec => []WaitFlagTruthful OBVIOUS
<1>1. QuietInv => WaitFlagTruthful
  <2> SUFFICES ASSUME QuietInv, bConnect, Outstanding, ~bWaitResFlg, pc["C"] # "sent"
               PROVE  FALSE
    BY DEF WaitFlagTruthful, Thread
  <2>1. up = <<>> /\ down = <<>> BY DEF QuietInv, InTurn, WireFree
  <2> QED BY <2>1 DEF Outstanding
<1> QED BY <1>1, QuietInvariant, PTL

-----------------------------------------------------------------------------
(* StopTransaction *)

\* One session, one CALL at a time, and answers that come after the registration.
QuietSession == Quiet /\ ~PromptAnswers /\ "main" \notin Events

\* No update has been asked for.
NoUpdate == update = "idle" /\ updateStep = "NONE"

\* While nothing fails a CALL goes out on a connection that works, and its answer is awaited
\* in time.
Uncut ==
  /\ bConnect => alive
  /\ Making \/ pc["C"] = "sent" => bConnect
  /\ up # <<>> /\ pc["C"] # "sent" => bWaitResFlg /\ ~respDue /\ bConnect
  /\ nConnectCheck = 0
  /\ \A m \in Incoming : m.type # "ERR"

\* There is nothing of a StopTransaction before the finish layer asks for it; from then on it
\* is asked for, made or under way until the central system has received it.
StopKept ==
  /\ session # "finish" => /\ "stopTs" \notin req \cup owed
                           /\ \A m \in Held : m.act # "StopTs"
                           /\ \A m \in Incoming : m.of # "StopTs"
  /\ \A m \in Incoming : m.of = "StopTs" => "stopTs" \notin owed
  /\ "stopTs" \in owed => \/ "stopTs" \in req
                          \/ Made /\ Tx_Msg.act = "StopTs"
                          \/ up # <<>> /\ Head(up).act = "StopTs"

StopInv == NoUpdate /\ (faults = 0 => Uncut /\ StopKept)

\* A step that neither makes nor moves a CALL.
LEMMA StopSame ==
  ASSUME Uncut, StopKept,
         UNCHANGED <<Tx_Msg, sendBuf, Call_Tx_Msg, up, down, alive, bConnect, bWaitResFlg>>,
         UNCHANGED <<session, nConnectCheck>>, respDue' => respDue,
         Rx_Msg' \in {Rx_Msg, NoRx},
         pc'["C"] = pc["C"] \/ {pc["C"], pc'["C"]} \subseteq {"top", "net", "sampled"},
         "stopTs" \in req' <=> "stopTs" \in req, "stopTs" \in owed' <=> "stopTs" \in owed
  PROVE  Uncut' /\ StopKept'
<1>1. Held' = Held BY DEF Held
<1>2. \A m \in Incoming' : m \in Incoming \/ m = NoRx BY DEF Incoming
<1>3. Uncut' BY <1>2 DEF Uncut, Making, Made, NoRx
<1>4. StopKept' BY <1>1, <1>2 DEF StopKept, Making, Made, NoRx
<1> QED BY <1>3, <1>4

\* A CALL is made: any other than StopTransaction leaves the request for that one alone.
LEMMA StopMake ==
  ASSUME TypeOK, QuietInv, Uncut, StopKept, WireFree, bConnect, ~Made,
         NEW act, NEW id, NEW c, MakeDataCmd(act, id, c),
         IF act = "StopTs" THEN "stopTs" \in req ELSE "stopTs" \in req' <=> "stopTs" \in req
  PROVE  Uncut' /\ StopKept'
<1>1. pc'["C"] = "made" BY DEF MakeDataCmd, Goto, TypeOK, Thread
<1>2. /\ Tx_Msg'.act = act
      /\ UNCHANGED <<sendBuf, Call_Tx_Msg, Rx_Msg, up, down, alive, bConnect, bWaitResFlg, respDue,
                     owed, session, nConnectCheck>>
  BY DEF MakeDataCmd
<1>4. Incoming' = Incoming BY <1>2 DEF Incoming
<1>5. Uncut' BY <1>1, <1>2, <1>4 DEF Uncut, WireFree
<1>6. \A m \in Held' : m \in Held \/ m.act = act BY <1>2 DEF Held
<1>7. StopKept'
  <2>1. CASE act = "StopTs"
    <3>1. session = "finish" BY <2>1 DEF StopKept
    <3> QED BY <1>1, <1>2, <1>4, <2>1, <3>1 DEF StopKept, Making, Made
  <2>2. CASE act # "StopTs"
    <3> QED BY <1>2, <1>4, <1>6, <2>2 DEF StopKept, WireFree
  <2> QED BY <2>1, <2>2
<1> QED BY <1>5, <1>7

LEMMA StopClient ==
  ASSUME TypeOK, QuietInv, NoUpdate, Uncut, StopKept, ClientThread, ~Trans("C"), faults' = 0
  PROVE  Uncut' /\ StopKept'
<1>0. ~meterDue /\ triggerMsgStat = "NONE" BY DEF QuietInv, Alone
<1>1. \A l : Goto("C", l) => pc'["C"] = l BY DEF Goto, TypeOK, Thread
<1>2. CASE ClientTop BY <1>1, <1>2, StopSame DEF ClientTop
<1>3. CASE RouterPowerCheck \/ RebootOnNoNetwork
  BY <1>3, ConstAssumption DEF RouterPowerCheck, RebootOnNoNetwork, Uncut
<1>4. CASE SenarioWaits \/ SenarioIdle
  BY <1>1, <1>4, StopSame DEF SenarioWaits, SenarioIdle, SenarioRest, Senario, InPass
<1>5. CASE SenarioTimeout
  <2>1. /\ pc["C"] \in {"net", "sampled"} /\ pc'["C"] = "top" /\ ~bConnect' /\ respDue
        /\ UNCHANGED <<shared, wire, status, flags, conns, server, env>>
    BY <1>1, <1>5 DEF SenarioTimeout, Senario, InPass
  <2>2. up = <<>> BY <2>1 DEF Uncut
  <2>3. Held' = Held /\ Incoming' = Incoming BY <2>1 DEF Held, Incoming
  <2>4. Uncut' BY <2>1, <2>2, <2>3 DEF Uncut, Making, Made
  <2>5. StopKept' BY <2>1, <2>2, <2>3 DEF StopKept, Making, Made
  <2> QED BY <2>4, <2>5
<1>6. CASE ClientNoNetwork \/ WS_Server_connect_fails
  BY <1>6 DEF ClientNoNetwork, WS_Server_connect_fails, Fault, TypeOK
<1>7. CASE WS_Server_connect
  <2>1. /\ pc["C"] \in {"net", "sampled"} /\ pc'["C"] = "top"
        /\ ~bConnect /\ alive' /\ up' = <<>> /\ down' = <<>>
        /\ nConnectCheck' = 0 /\ UNCHANGED <<shared, flags, server, session>>
    BY <1>1, <1>7 DEF WS_Server_connect, NotConnected, InPass
  <2>2. up = <<>> BY <2>1 DEF Uncut
  <2>3. Elems(up') = {} /\ Elems(down') = {} BY <2>1, ElemsOK DEF TypeOK
  <2>4. Held' \subseteq Held /\ Incoming' \subseteq Incoming BY <2>1, <2>3 DEF Held, Incoming
  <2>5. Uncut' BY <2>1, <2>4 DEF Uncut, Making, Made
  <2>6. StopKept' BY <2>1, <2>2, <2>4 DEF StopKept, Making, Made
  <2> QED BY <2>5, <2>6
<1>s. ASSUME (Senario /\ ~bWaitResFlg) \/ pc["C"] = "member" PROVE WireFree /\ bConnect /\ ~Made
  BY <1>s DEF QuietInv, InTurn, Uncut, Making, Made, Senario, InPass
<1>8. CASE SenarioBoot BY <1>8, <1>s, StopMake DEF SenarioBoot
<1>9. CASE SenarioMeter BY <1>0, <1>9 DEF SenarioMeter, MeterTime
<1>10. CASE \E c \in Connector : SenarioStat(c) BY <1>10, <1>s, StopMake DEF SenarioStat
<1>11. ASSUME NEW f \in Pending \ {"member", "stopTs", "trigger"}, SenarioRequest(f)
       PROVE  Uncut' /\ StopKept'
  <2>1. "stopTs" \in req' <=> "stopTs" \in req BY <1>11 DEF SenarioRequest, AfterRequest
  <2>2. f \in DOMAIN ActOf BY <1>11 DEF Pending, TypeOK, ActOf, Flag
  <2>3. ActOf[f] # "StopTs" BY <1>11, <2>2 DEF ActOf
  <2> QED BY <1>11, <1>s, <2>1, <2>3, StopMake DEF SenarioRequest, SenarioRest
<1>12. CASE SenarioStopTs
  <2>1. "stopTs" \in req BY <1>12 DEF SenarioStopTs, First, Pending
  <2> QED BY <1>12, <1>s, <2>1, StopMake DEF SenarioStopTs, SenarioRest
<1>13. CASE SenarioTrigger
  <2>1. triggerMsgStat \in DOMAIN TriggerAct
    BY <1>13 DEF SenarioTrigger, First, Pending, TypeOK, Flag
  <2> QED BY <1>0, <2>1 DEF TriggerAct
<1>14. CASE SenarioMemberSleeps
  <2>1. /\ pc["C"] \in {"net", "sampled"} /\ pc'["C"] = "member" /\ bConnect
        /\ "stopTs" \in req' <=> "stopTs" \in req
        /\ UNCHANGED <<bConnect, bWaitResFlg, respDue, shared, wire, owed, session, nConnectCheck>>
    BY <1>1, <1>14
       DEF SenarioMemberSleeps, SenarioRest, Senario, InPass, AfterRequest
  <2>2. WireFree BY <1>14, <1>s DEF SenarioMemberSleeps, SenarioRest
  <2>3. Held' = Held /\ Incoming' = Incoming BY <2>1 DEF Held, Incoming
  <2>4. Uncut' BY <2>1, <2>2, <2>3 DEF Uncut, WireFree
  <2>5. StopKept' BY <2>1, <2>3 DEF StopKept, Made
  <2> QED BY <2>4, <2>5
<1>15. CASE SenarioMember BY <1>15, <1>s, StopMake DEF SenarioMember, ActOf
<1> QED
  BY <1>2, <1>3, <1>4, <1>5, <1>6, <1>7, <1>8, <1>9, <1>10, <1>11, <1>12, <1>13, <1>14, <1>15
     DEF ClientThread

LEMMA StopTrans ==
  ASSUME TypeOK, QuietInv, Uncut, StopKept, NEW t \in Thread, Trans(t)
  PROVE  Uncut' /\ StopKept'
<1>1. t = "C"
  BY DEF Thread, Trans, Make_Ocpp_Msg, WsSend, WsSendFails, WsRegister, QuietInv, Alone
<1>2. \A l : Goto("C", l) => pc'["C"] = l BY DEF Goto, TypeOK, Thread
<1>3. CASE Make_Ocpp_Msg("C")
  <2>1. /\ pc["C"] = "made" /\ pc'["C"] = "encoded" /\ sendBuf' = Tx_Msg
        /\ UNCHANGED <<bConnect, bWaitResFlg, respDue, Tx_Msg, Call_Tx_Msg, Rx_Msg, wire, req, owed,
                       session, nConnectCheck>>
    BY <1>2, <1>3 DEF Make_Ocpp_Msg
  <2>2. Held' \subseteq Held /\ Incoming' = Incoming BY <2>1 DEF Held, Incoming
  <2>3. Uncut' BY <2>1, <2>2 DEF Uncut, Making, Made
  <2>4. StopKept' BY <2>1, <2>2 DEF StopKept, Making, Made
  <2> QED BY <2>3, <2>4
<1>4. CASE WsSend("C")
  <2>1. /\ pc["C"] = "encoded" /\ pc'["C"] = "sent"
        /\ UNCHANGED <<bConnect, bWaitResFlg, respDue, shared, down, alive, req, owed, session,
                       nConnectCheck>>
    BY <1>2, <1>4 DEF WsSend
  <2>2. /\ bConnect /\ alive /\ sendBuf = Tx_Msg /\ up = <<>>
    BY <2>1 DEF Uncut, QuietInv, Alone, InTurn, Making, Made, WireFree
  <2>3. up' = <<Tx_Msg>> BY <1>4, <2>2 DEF WsSend
  <2>4. Elems(up') = {Tx_Msg} /\ up' # <<>> /\ Head(up') = Tx_Msg BY <2>3 DEF Elems
  <2>5. Held' \subseteq Held /\ Incoming' = Incoming BY <2>1, <2>4 DEF Held, Incoming
  <2>6. Uncut' BY <2>1, <2>2, <2>5 DEF Uncut, Making, Made
  <2>7. StopKept' BY <2>1, <2>2, <2>4, <2>5 DEF StopKept, Making, Made
  <2> QED BY <2>6, <2>7
<1>5. CASE WsSendFails("C") BY <1>5 DEF WsSendFails, Uncut, Making, Made
<1>6. CASE WsRegister("C")
  <2>1. /\ pc["C"] = "sent" /\ pc'["C"] = "top" /\ bWaitResFlg' /\ ~respDue' /\ Call_Tx_Msg' = Tx_Msg
        /\ UNCHANGED <<bConnect, Tx_Msg, sendBuf, Rx_Msg, wire, req, owed, session, nConnectCheck>>
    BY <1>2, <1>6 DEF WsRegister, QuietInv, Alone
  <2>2. Held' \subseteq Held /\ Incoming' = Incoming BY <2>1 DEF Held, Incoming
  <2>3. Uncut' BY <2>1, <2>2 DEF Uncut, Making, Made
  <2>4. StopKept' BY <2>1, <2>2 DEF StopKept, Making, Made
  <2> QED BY <2>3, <2>4
<1> QED BY <1>1, <1>3, <1>4, <1>5, <1>6 DEF Trans

LEMMA StopReceive ==
  ASSUME TypeOK, QuietInv, RightHandler, Uncut, StopKept, RxThread, ~Trans("R")
  PROVE  Uncut' /\ StopKept'
<1>1. \A l : Goto("R", l) => pc'["C"] = pc["C"] BY DEF Goto, TypeOK, Thread
<1>2. CASE RxParse
  <2>1. /\ Head(down) \in Elems(down) /\ Elems(down') \subseteq Elems(down)
        /\ Head(down) \in RxMsg
    BY <1>2, ElemsOK DEF RxParse, TypeOK
  <2>2. /\ pc'["C"] = pc["C"]
        /\ UNCHANGED <<bConnect, bWaitResFlg, respDue, Tx_Msg, sendBuf, Call_Tx_Msg, up, alive, req,
                       owed, session, nConnectCheck>>
    BY <1>1, <1>2 DEF RxParse
  <2>3. Head(down).type # "ERR" BY <2>1 DEF Uncut, Incoming
  <2>4. Rx_Msg'.type = Head(down).type /\ Rx_Msg'.of = Head(down).of
    BY <1>2, <2>1, <2>3 DEF RxParse, RxMsg
  <2>5. \A m \in Incoming' : \E n \in Incoming : n.type = m.type /\ n.of = m.of
    BY <2>1, <2>4 DEF Incoming
  <2>6. Held' = Held BY <2>2 DEF Held
  <2>7. Uncut' BY <2>2, <2>5 DEF Uncut, Making, Made
  <2>8. StopKept' BY <2>2, <2>5, <2>6 DEF StopKept, Making, Made
  <2> QED BY <2>7, <2>8
<1>3. CASE RxFails BY <1>3 DEF RxFails, Uncut
<1>4. CASE RxDrop
  <2>1. Rx_Msg.type # "ERR" BY DEF Uncut, Incoming
  <2>2. bConnect' = bConnect BY <1>4, <2>1 DEF RxDrop, TypeOK
  <2> QED BY <1>1, <1>4, <2>2, StopSame DEF RxDrop
<1>5. CASE RxAnswer
  <2>1. /\ pc'["C"] = pc["C"]
        /\ UNCHANGED <<bConnect, shared, wire, req, owed, session, nConnectCheck>>
    BY <1>1, <1>5 DEF RxAnswer
  <2>2. WireFree BY <1>5 DEF RxAnswer, AnswerAwaited, QuietInv, Stale
  <2>3. Held' = Held /\ Incoming' = Incoming BY <2>1 DEF Held, Incoming
  <2>4. Uncut' BY <2>1, <2>2, <2>3 DEF Uncut, Making, Made, WireFree
  <2>5. StopKept' BY <2>1, <2>3 DEF StopKept, Making, Made
  <2> QED BY <2>4, <2>5
<1>6. CASE \/ RxCallUnregistered \/ RxCallOther \/ DataProcCmd_TriggerMsg
           \/ DataProcCmd_ChangeAvail \/ DataProcCmd_UpdateFw
  BY <1>6 DEF RxCallUnregistered, RxCallOther, DataProcCmd_TriggerMsg,
              DataProcCmd_ChangeAvail, DataProcCmd_UpdateFw, RxCall, QuietInv, Alone
<1>7. CASE DataProcCmd_StopTs
  <2>1. Rx_Msg.of = "StopTs" BY <1>7 DEF DataProcCmd_StopTs, RxApply, RightHandler
  <2>2. "stopTs" \notin owed BY <2>1 DEF StopKept, Incoming
  <2>3. /\ pc'["C"] = pc["C"] /\ req' = (req \ {"stopTs"}) \cup {"chargeAmt"}
        /\ UNCHANGED <<bConnect, bWaitResFlg, respDue, shared, wire, owed, session, nConnectCheck>>
    BY <1>1, <1>7 DEF DataProcCmd_StopTs, RxApply
  <2>4. Held' = Held /\ Incoming' = Incoming BY <2>3 DEF Held, Incoming
  <2>5. Uncut' BY <2>3, <2>4 DEF Uncut, Making, Made
  <2>6. StopKept' BY <2>2, <2>3, <2>4 DEF StopKept
  <2> QED BY <2>5, <2>6
<1>8. CASE \/ DataProcCmd_Auth \/ DataProcCmd_Boot \/ DataProcCmd_Stat \/ DataProcCmd_StartTs
           \/ DataProcCmd_HB \/ DataProcCmd_MeterVal \/ DataProcCmd_Rest
  <2>1. \E a : RxApply(a)
    BY <1>8 DEF DataProcCmd_Auth, DataProcCmd_Boot, DataProcCmd_Stat, DataProcCmd_StartTs,
                DataProcCmd_HB, DataProcCmd_MeterVal, DataProcCmd_Rest
  <2>2. "stopTs" \in req' <=> "stopTs" \in req
    BY <1>8 DEF DataProcCmd_Auth, DataProcCmd_Boot, DataProcCmd_Stat, DataProcCmd_StartTs,
                DataProcCmd_HB, DataProcCmd_MeterVal, DataProcCmd_Rest
  <2> QED BY <1>1, <2>1, <2>2, StopSame DEF RxApply
<1> QED BY <1>2, <1>3, <1>4, <1>5, <1>6, <1>7, <1>8 DEF RxThread

\* The central system: with its answer to StopTransaction it has received it.
LEMMA StopCentral ==
  ASSUME ~PromptAnswers, TypeOK, QuietInv, WaitsForCall, Uncut, StopKept, CentralSystem, faults' = 0
  PROVE  Uncut' /\ StopKept'
<1>1. SrvReads BY DEF CentralSystem, SrvResult, SrvAccepts, SrvDefersBoot, SrvRefuses
<1>2. /\ up # <<>> /\ up' = <<>> /\ down = <<>> /\ pc["C"] # "sent"
  BY <1>1, OneSide DEF SrvReads, QuietInv, Thread
<1>3. Head(up) = Call_Tx_Msg BY <1>2 DEF QuietInv, Answered
<1>4. Head(up).type = "CALL" BY <1>2, <1>3 DEF Uncut, WaitsForCall
<1>5. SrvAccepts
  BY <1>4 DEF CentralSystem, SrvResult, SrvDefersBoot, SrvRefuses, Fault, TypeOK
<1>6. PICK res : SrvAnswer(Head(up), "RES", res) BY <1>5 DEF SrvAccepts
<1> DEFINE r == [type |-> "RES", id |-> Head(up).id, act |-> "None", of |-> Head(up).act,
                 res |-> res, cs |-> NoCs]
<1>7. down' = <<r>> BY <1>2, <1>6 DEF SrvAnswer
<1>8. r.type = "RES" /\ r.of = Head(up).act OBVIOUS
<1> HIDE DEF r
<1>9. Elems(up') = {} /\ Elems(down') = {r} BY <1>2, <1>7 DEF Elems
<1>10. /\ UNCHANGED <<pc, bConnect, bWaitResFlg, respDue, shared, alive, req, session, nConnectCheck>>
       /\ "stopTs" \in owed' <=> "stopTs" \in owed /\ Head(up).act # "StopTs"
  BY <1>1, <1>5 DEF SrvAccepts, SrvReads, SrvLearns
<1>11. Held' \subseteq Held /\ Incoming' \subseteq Incoming \cup {r} BY <1>9, <1>10 DEF Held, Incoming
<1>12. Call_Tx_Msg \in Held BY DEF Held
<1>13. Uncut' BY <1>2, <1>8, <1>10, <1>11 DEF Uncut, Making, Made
<1>14. StopKept' BY <1>2, <1>3, <1>8, <1>10, <1>11, <1>12 DEF StopKept, Making, Made
<1> QED BY <1>13, <1>14

LEMMA StopOthers ==
  ASSUME QuietSession, TypeOK, QuietInv, WaitsForCall, NoUpdate, Uncut, StopKept, faults' = 0,
         \/ OtherThreads \/ RespTimeElapses \/ RespTimeElapsesEarly \/ HbTimeElapses
         \/ MeterTimeElapses \/ UNCHANGED vars \/ UpdateThread \/ ConnLost \/ RebootOnNetError
  PROVE  Uncut' /\ StopKept'
<1>1. CASE ConnLost \/ RebootOnNetError \/ RespTimeElapsesEarly
  BY <1>1 DEF ConnLost, RebootOnNetError, RespTimeElapsesEarly, Fault, TypeOK
<1>2. CASE EvStatus \/ EvCardWaitLeave \/ EvPeriod
  BY <1>2, StopSame DEF EvStatus, EvCardWaitLeave, EvPeriod, Event
<1>3. CASE EvRequest BY <1>3, StopSame DEF EvRequest, Event
<1>4. CASE EvStart
  <2>1. /\ session = "main" /\ session' = "charge"
        /\ UNCHANGED <<pc, bConnect, bWaitResFlg, respDue, shared, wire, req, owed, nConnectCheck>>
    BY <1>4 DEF EvStart, Event
  <2>2. Held' = Held /\ Incoming' = Incoming BY <2>1 DEF Held, Incoming
  <2>3. Uncut' BY <2>1, <2>2 DEF Uncut, Making, Made
  <2>4. StopKept' BY <2>1, <2>2 DEF StopKept, Making, Made
  <2> QED BY <2>3, <2>4
<1>5. CASE EvStop
  <2>1. /\ session = "charge" /\ session' = "finish"
        /\ req' = req \cup {"stopTs"} /\ owed' = owed \cup {"stopTs"}
        /\ UNCHANGED <<pc, bConnect, bWaitResFlg, respDue, shared, wire, nConnectCheck>>
    BY <1>5 DEF EvStop, Event
  <2>2. Held' = Held /\ Incoming' = Incoming BY <2>1 DEF Held, Incoming
  <2>3. Uncut' BY <2>1, <2>2 DEF Uncut, Making, Made
  <2>4. StopKept' BY <2>1, <2>2 DEF StopKept
  <2> QED BY <2>3, <2>4
<1>6. CASE EvMainOnEnter BY <1>6 DEF EvMainOnEnter, QuietSession
<1>7. CASE UpdateThread
  BY <1>7 DEF UpdateThread, UpdateBegins, UpdateDownloads, UpdateLoads, UpdateEnds, UpdateSaves,
              UpdateReboots, UpdateStepTo, NoUpdate
<1>8. CASE RespTimeElapses
  <2>1. /\ bWaitResFlg /\ ~AnswerComing
        /\ UNCHANGED <<pc, bConnect, bWaitResFlg, shared, wire, flags, conns, server, env>>
    BY <1>8 DEF RespTimeElapses, TimeOut
  <2>2. ~(up # <<>> /\ pc["C"] # "sent")
    <3> SUFFICES ASSUME up # <<>>, pc["C"] # "sent" PROVE FALSE OBVIOUS
    <3>1. alive /\ Head(up) = Call_Tx_Msg
      BY <2>1 DEF Uncut, QuietSession, QuietInv, Answered
    <3>2. Call_Tx_Msg.type = "CALL" BY <2>1 DEF WaitsForCall
    <3>3. 1 \in DOMAIN up /\ up[1] = Head(up) BY DEF TypeOK
    <3> QED BY <2>1, <3>1, <3>2, <3>3 DEF AnswerComing
  <2>3. Held' = Held /\ Incoming' = Incoming BY <2>1 DEF Held, Incoming
  <2>4. Uncut' BY <2>1, <2>2, <2>3 DEF Uncut, Making, Made
  <2>5. StopKept' BY <2>1, <2>3 DEF StopKept, Making, Made
  <2> QED BY <2>4, <2>5
<1>9. CASE HbTimeElapses \/ MeterTimeElapses BY <1>9, StopSame DEF HbTimeElapses, MeterTimeElapses
<1>10. CASE UNCHANGED vars BY <1>10, StopSame DEF vars
<1> QED
  BY <1>1, <1>2, <1>3, <1>4, <1>5, <1>6, <1>7, <1>8, <1>9, <1>10 DEF OtherThreads

LEMMA StopInit == Init => StopInv
<1>1. Elems(<<>>) = {} BY DEF Elems
<1> QED
  BY <1>1 DEF Init, PowerOn, Thread, StopInv, NoUpdate, Uncut, StopKept, Making, Made, Held, Incoming,
              NoRx, ResMsg

\* No update is asked for, so none begins.
LEMMA NoUpdateStep ==
  ASSUME QuietInv, NoUpdate, TypeOK, [Next]_vars PROVE NoUpdate'
<1>0. Rx_Msg.type # "CALL" BY DEF QuietInv, Alone
<1>1. CASE ClientThread
  <2>1. CASE RebootOnNoNetwork BY <2>1 DEF RebootOnNoNetwork, Reboot, NoUpdate
  <2>2. ASSUME NEW f \in Pending \ {"member", "stopTs", "trigger"}, SenarioRequest(f) PROVE NoUpdate'
    <3>1. f # "fwStat" BY <2>2 DEF Pending, NoUpdate, FwAfter, TypeOK, Flag
    <3> QED BY <2>2, <3>1 DEF SenarioRequest, MakeDataCmd, NoUpdate
  <2> QED
    BY <1>1, <2>1, <2>2
       DEF NoUpdate, ClientThread, ClientTop, RouterPowerCheck, ClientNoNetwork, Fault,
           WS_Server_connect, WS_Server_connect_fails, SenarioWaits, SenarioTimeout, SenarioBoot,
           SenarioMeter, SenarioStat, SenarioMemberSleeps, SenarioMember, SenarioStopTs,
           SenarioTrigger, SenarioIdle, MakeDataCmd,
           Trans, Make_Ocpp_Msg, WsSend, WsSendFails, WsRegister
<1>2. CASE RxThread
  BY <1>0, <1>2
     DEF NoUpdate, RxThread, RxParse, RxFails, RxAnswer, RxDrop, RxCall, RxCallUnregistered,
         RxCallOther, DataProcCmd_TriggerMsg, DataProcCmd_ChangeAvail, DataProcCmd_UpdateFw,
         RxApply, DataProcCmd_Auth, DataProcCmd_Boot, DataProcCmd_Stat, DataProcCmd_StartTs,
         DataProcCmd_StopTs, DataProcCmd_HB, DataProcCmd_MeterVal, DataProcCmd_Rest,
         Trans, Make_Ocpp_Msg, WsSend, WsSendFails, WsRegister
<1>3. CASE CentralSystem \/ SrvCalls \/ ConnLost \/ UNCHANGED vars
  BY <1>3 DEF NoUpdate, CentralSystem, SrvResult, SrvAccepts, SrvDefersBoot, SrvRefuses, SrvReads,
              SrvCalls, ConnLost, Fault, vars
<1>4. CASE \/ RebootOnNetError \/ RespTimeElapses \/ RespTimeElapsesEarly \/ HbTimeElapses
           \/ MeterTimeElapses
  BY <1>4 DEF NoUpdate, RebootOnNetError, Reboot, RespTimeElapses, RespTimeElapsesEarly, TimeOut,
              Fault, HbTimeElapses, MeterTimeElapses
<1>5. CASE OtherThreads
  BY <1>5 DEF NoUpdate, OtherThreads, EvStatus, EvRequest, EvStart, EvStop, EvMainOnEnter,
              EvCardWaitLeave, EvPeriod, Event
<1>6. CASE UpdateThread
  BY <1>6 DEF NoUpdate, UpdateThread, UpdateBegins, UpdateDownloads, UpdateLoads, UpdateEnds,
              UpdateSaves, UpdateReboots, UpdateStepTo
<1> QED BY <1>1, <1>2, <1>3, <1>4, <1>5, <1>6 DEF Next

\* Faults are never forgotten.
LEMMA FaultsStay == ASSUME TypeOK, [Next]_vars, faults' = 0 PROVE faults = 0
<1>0. ~Fault BY DEF Fault, TypeOK
<1>1. CASE ClientThread
  BY <1>0, <1>1 DEF ClientThread, ClientTop, RouterPowerCheck, RebootOnNoNetwork, ClientNoNetwork,
              WS_Server_connect, WS_Server_connect_fails, SenarioWaits, SenarioTimeout, SenarioBoot,
              SenarioMeter, SenarioStat, SenarioRequest, SenarioMemberSleeps, SenarioMember,
              SenarioStopTs, SenarioTrigger, SenarioIdle,
              MakeDataCmd, Trans, Make_Ocpp_Msg, WsSend, WsSendFails, WsRegister
<1>2. CASE RxThread
  BY <1>2
     DEF RxThread, RxParse, RxFails, RxAnswer, RxDrop, RxCall, RxCallUnregistered,
         RxCallOther, DataProcCmd_TriggerMsg, DataProcCmd_ChangeAvail, DataProcCmd_UpdateFw,
         RxApply, DataProcCmd_Auth, DataProcCmd_Boot, DataProcCmd_Stat, DataProcCmd_StartTs,
         DataProcCmd_StopTs, DataProcCmd_HB, DataProcCmd_MeterVal, DataProcCmd_Rest,
         Trans, Make_Ocpp_Msg, WsSend, WsSendFails, WsRegister
<1>3. CASE CentralSystem \/ SrvCalls \/ ConnLost \/ UNCHANGED vars
  BY <1>0, <1>3 DEF CentralSystem, SrvResult, SrvAccepts, SrvDefersBoot, SrvRefuses, SrvCalls,
                    ConnLost, vars
<1>4. CASE \/ RebootOnNetError \/ RespTimeElapses \/ RespTimeElapsesEarly \/ HbTimeElapses
           \/ MeterTimeElapses
  BY <1>4 DEF RebootOnNetError, RespTimeElapses, RespTimeElapsesEarly, TimeOut,
              Fault, HbTimeElapses, MeterTimeElapses, TypeOK
<1>5. CASE OtherThreads
  BY <1>5 DEF OtherThreads, EvStatus, EvRequest, EvStart, EvStop, EvMainOnEnter,
              EvCardWaitLeave, EvPeriod, Event
<1>6. CASE UpdateThread
  BY <1>6 DEF UpdateThread, UpdateBegins, UpdateDownloads, UpdateLoads, UpdateEnds,
              UpdateSaves, UpdateReboots, UpdateStepTo
<1> QED BY <1>1, <1>2, <1>3, <1>4, <1>5, <1>6 DEF Next

LEMMA StopStep ==
  ASSUME QuietSession, TypeOK, WaitsForCall, RightHandler, QuietInv, StopInv, [Next]_vars
  PROVE  StopInv'
<1>1. NoUpdate' BY NoUpdateStep DEF StopInv
<1>2. ASSUME faults' = 0 PROVE Uncut' /\ StopKept'
  <2>1. NoUpdate /\ Uncut /\ StopKept BY <1>2, FaultsStay DEF StopInv
  <2>2. CASE ClientThread BY <1>2, <2>1, <2>2, StopClient, StopTrans DEF Thread
  <2>3. CASE RxThread BY <2>1, <2>3, StopReceive, StopTrans DEF Thread
  <2>4. CASE CentralSystem BY <1>2, <2>1, <2>4, StopCentral DEF QuietSession
  <2>5. CASE SrvCalls BY <2>5 DEF SrvCalls, QuietSession, Quiet
  <2> QED BY <1>2, <2>1, <2>2, <2>3, <2>4, <2>5, StopOthers DEF Next
<1> QED BY <1>1, <1>2 DEF StopInv

\* Within a session and as long as nothing fails, the request for StopTransaction stays raised,
\* or its CALL is being made or under way, until the central system has received it: neither
\* another CALL nor an answer takes it away.
THEOREM StopTsStays == QuietSession => (Spec => []StopTsKeptUncut)
<1> SUFFICES ASSUME QuietSession PROVE Spec => []StopTsKeptUncut OBVIOUS
<1>1. Quiet /\ NoMeterCalls /\ ~PromptAnswers BY DEF QuietSession, Quiet, NoMeterCalls
<1>2. Spec => []RightHandler BY <1>1, HandlerIsRight
<1>3. Spec => [](TypeOK /\ QuietInv) BY <1>1, QuietInvariant
<1>4. LinkInv => WaitsForCall BY DEF LinkInv
<1>5. TypeOK /\ WaitsForCall /\ RightHandler /\ QuietInv /\ StopInv /\ [Next]_vars => StopInv'
  BY StopStep
<1>6. TypeOK /\ StopInv => StopTsKeptUncut
  <2> SUFFICES ASSUME TypeOK, StopInv, faults = 0, "stopTs" \in owed PROVE StopTsKept
    BY DEF StopTsKeptUncut, StopTsKept
  <2>1. up # <<>> => Head(up) \in Elems(up) BY ElemsOK DEF TypeOK
  <2> QED BY <2>1 DEF StopInv, StopKept, StopTsKept, Making, Made
<1> QED BY <1>2, <1>3, <1>4, <1>5, <1>6, StopInit, LinkInvariant, PTL DEF Spec
=============================================================================
