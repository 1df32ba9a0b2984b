---------------------------- MODULE MeterValues ----------------------------
(***************************************************************************)
(* How the energy of a charging session becomes the sampled values the     *)
(* central system is told.  Four threads share the reading eqp_watt and    *)
(* the queue MeterValQ, none of them under a lock:                         *)
(*                                                                         *)
(*   ValueMonitoringTask reads the watt-hour meter;                        *)
(*   sChargeMonitoringTaskFuntion publishes the reading, byte by byte;     *)
(*   WSClientThread samples it, queues the increase, and sends the queue   *)
(*     as MeterValues or with the StopTransaction (a CALL at a time);      *)
(*   WSRxThread empties the queue when an answer arrives.                  *)
(*                                                                         *)
(* The sampled values are increases since the previous sample, so what the *)
(* central system can add up is exact only while every value is reported   *)
(* once.  When samples and MeterValues are due is MeterClock's subject:    *)
(* here they may come whenever the connector is charging, as the client's  *)
(* other CALLs may come between them.  An answer arrives or does not.      *)
(***************************************************************************)
EXTENDS Naturals, Sequences

CONSTANTS
  Digit,       \* one byte of eqp_watt (256); two digits stand for the four
  MaxQno,      \* MAX_QNO_METERVAL (5)
  Strings,     \* entries sampledValue_Data has room for (4)
  Exact,       \* a float holds every integer up to here (2^24)
  Registers,   \* readings the meter may show when the charger boots
  MaxEnergy,   \* bound on the meter's register
  MaxSessions  \* bound on the sessions

ASSUME Bounds ==
  /\ Digit \in Nat \ {0, 1}
  /\ MaxQno \in Nat \ {0} /\ Strings \in Nat /\ Exact \in Nat /\ MaxSessions \in Nat
  /\ MaxEnergy \in Nat /\ MaxEnergy + 1 < Digit * Digit /\ Registers \subseteq 0..MaxEnergy

VARIABLES
  energy,         \* the meter's register
  gAmiChargeWatt, \* the register as the charging layer last saw it
  eqp_watt,       \* the published reading
  eqp_old,        \* what eqp_watt held before the bytes being written now
  layer,          \* where the session is
  bReqStartTsNo, reqStartTsFlg, MeterStart_Val, bReqStopTsFlg,
  MeterValQ,      \* the values queued, and their type
  asleep,         \* Make_Ocpp_Msg sleeps before a StartTransaction is sent
  call,           \* the CALL whose answer is awaited, and what is in it
  rx              \* the CALL whose answer has been accepted and is being applied

\* What the property compares with: the sessions begun, whether no sample
\* was taken since startTsQ was filled, the reading the central system gets
\* by adding up what it has accepted, and why that can no longer be exact.
VARIABLES session, unsampled, credit, cause

reading == <<energy, gAmiChargeWatt, eqp_watt, eqp_old>>
flags   == <<bReqStartTsNo, reqStartTsFlg, bReqStopTsFlg>>
queue   == <<MeterStart_Val, MeterValQ>>
account == <<session, unsampled, credit, cause>>
vars    == <<reading, layer, flags, queue, asleep, call, rx, account>>

Modulus == Digit * Digit                         \* of a uint32_t
UInt    == 0..Modulus - 1
None    == Modulus                               \* no meterStart accepted yet
Flg     == {"CLOCK", "TRIG", "TRANS"}            \* METER_VAL_..._TYPE
Kind    == {"none", "MeterVal", "StartTs", "StopTs"}
Cause   == {"none", "shift", "dropped", "twice", "leftover", "lateStart"}
Entry   == [flg : Flg, val : UInt]
Layer   == {"main", "ready", "charge", "suspended", "finish"}

TypeOK ==
  /\ energy \in 0..MaxEnergy
  /\ gAmiChargeWatt \in UInt /\ eqp_watt \in UInt /\ eqp_old \in UInt
  /\ layer \in Layer
  /\ bReqStartTsNo \in BOOLEAN /\ reqStartTsFlg \in BOOLEAN /\ bReqStopTsFlg \in BOOLEAN
  /\ MeterStart_Val \in UInt
  /\ MeterValQ \in Seq(Entry) /\ Len(MeterValQ) <= MaxQno
  /\ asleep \in BOOLEAN
  /\ {call, rx} \subseteq [kind : Kind, sent : Seq(Entry), start : UInt]
  /\ session \in 0..MaxSessions /\ unsampled \in BOOLEAN
  /\ credit \in UInt \cup {None} /\ cause \in Cause

NoCall == [kind |-> "none", sent |-> <<>>, start |-> 0]

\* The charger has booted and the meter has answered once.
Init ==
  /\ energy \in Registers
  /\ gAmiChargeWatt = 0 /\ eqp_watt = energy /\ eqp_old = energy
  /\ layer = "main"
  /\ bReqStartTsNo = FALSE /\ reqStartTsFlg = FALSE /\ bReqStopTsFlg = FALSE
  /\ MeterStart_Val = 0 /\ MeterValQ = <<>> /\ asleep = FALSE
  /\ call = NoCall /\ rx = NoCall
  /\ session = 0 /\ unsampled = TRUE /\ credit = None /\ cause = "none"
----------------------------------------------------------------------------
\* Arithmetic of uint32_t on values already in range.
Plus(a, b)  == IF a + b < Modulus THEN a + b ELSE (a + b) - Modulus
Minus(a, b) == IF b <= a THEN a - b ELSE (a + Modulus) - b

\* (float)energy: above Exact, to the nearest even integer, a tie to the multiple of four.
ToFloat(e) ==
  IF e <= Exact \/ e % 2 = 0 THEN e ELSE IF e % 4 = 1 THEN e - 1 ELSE e + 1

\* The bytes of eqp_watt are read one by one while they are written one by one.
ReadWatt == {h * Digit + l : h \in {eqp_old \div Digit, eqp_watt \div Digit},
                             l \in {eqp_old % Digit, eqp_watt % Digit}}

Charging == layer = "charge"                    \* CP_STATUS_CODE_CHARGING and sChCharging
Delivers == layer \in {"charge", "suspended"}   \* sCharging in APP_ORDER_CHARGING

\* The first reason for which a value goes missing; from then on nothing is
\* claimed of what the central system can add up.
Blame(why) ==
  IF why = "none" THEN UNCHANGED <<cause, credit>>
  ELSE /\ cause' = IF cause = "none" THEN why ELSE cause
       /\ credit' = None
----------------------------------------------------------------------------
\* The meter and the charging layer.

Draw ==
  /\ Delivers /\ energy < MaxEnergy /\ energy' = energy + 1
  /\ UNCHANGED <<gAmiChargeWatt, eqp_watt, eqp_old, layer, flags, queue, asleep, call,
                 account, rx>>

\* RequestValueNew with the listener WHMListenerOnCharge.
ReadMeter ==
  /\ layer \in {"ready", "charge", "suspended"}
  /\ gAmiChargeWatt' = ToFloat(energy)
  /\ UNCHANGED <<energy, eqp_watt, eqp_old, layer, flags, queue, asleep, call, account, rx>>

\* sChargeMonitoringTaskFuntion publishes what the listener saw, or the -1 of
\* ChargeOnEnter when the meter has not answered yet.
Publish ==
  /\ Delivers /\ eqp_old = eqp_watt
  /\ eqp_watt' = gAmiChargeWatt
  /\ UNCHANGED <<energy, gAmiChargeWatt, eqp_old, layer, flags, queue, asleep, call, account,
                 rx>>

\* The last byte is written.
Published ==
  /\ eqp_old # eqp_watt /\ eqp_old' = eqp_watt
  /\ UNCHANGED <<energy, gAmiChargeWatt, eqp_watt, layer, flags, queue, asleep, call,
                 account, rx>>

\* The pilot reaches 9 V in the connect layer: a StartTransaction is asked for
\* and the charging layer entered.
ChargeOnEnter ==
  /\ layer = "main" /\ session < MaxSessions
  /\ layer' = "ready" /\ bReqStartTsNo' = TRUE /\ gAmiChargeWatt' = Modulus - 1
  /\ session' = session + 1
  /\ UNCHANGED <<energy, eqp_watt, eqp_old, reqStartTsFlg, bReqStopTsFlg, queue, asleep,
                 call, unsampled, credit, cause, rx>>

\* The pilot reaches 6 V.
StartCharge ==
  /\ layer = "ready" /\ layer' = "charge"
  /\ UNCHANGED <<reading, flags, queue, asleep, call, account, rx>>

\* The vehicle or the central system suspends charging: the status stays so
\* although the contactor may close again.
Suspend ==
  /\ layer = "charge" /\ layer' = "suspended"
  /\ UNCHANGED <<reading, flags, queue, asleep, call, account, rx>>

\* ChargeOnLeave and the finish layer: a StopTransaction is asked for.
ChargeOnLeave ==
  /\ layer \in {"ready", "charge", "suspended"}
  /\ layer' = "finish" /\ bReqStopTsFlg' = TRUE
  /\ UNCHANGED <<reading, bReqStartTsNo, reqStartTsFlg, queue, asleep, call, account, rx>>

\* A StartTransaction the client has not taken up by now is forgotten.
MainOnEnter ==
  /\ layer = "finish" /\ layer' = "main"
  /\ bReqStartTsNo' = FALSE /\ gAmiChargeWatt' = 0
  /\ UNCHANGED <<energy, eqp_watt, eqp_old, reqStartTsFlg, bReqStopTsFlg, queue, asleep,
                 call, account, rx>>
----------------------------------------------------------------------------
\* The client's loop.

\* A request for a StartTransaction becomes startTsQ, with the reading of now.
\* What is queued or under way belongs to the session before.
Promote ==
  /\ ~asleep /\ bReqStartTsNo
  /\ bReqStartTsNo' = FALSE /\ reqStartTsFlg' = TRUE
  /\ MeterStart_Val' \in ReadWatt
  /\ unsampled' = TRUE /\ credit' = None
  /\ cause' = IF MeterValQ = <<>> /\ {call.kind, rx.kind} = {"none"} THEN "none"
              ELSE "leftover"
  /\ UNCHANGED <<reading, layer, bReqStopTsFlg, MeterValQ, asleep, call, session, rx>>

\* Mutant: the base of the next increase is left behind.
Add_MeterVal_QKeepsBase(flg) ==
  /\ \E t \in ReadWatt :
       /\ MeterValQ' = IF Len(MeterValQ) < MaxQno
                       THEN Append(MeterValQ, [flg |-> flg, val |-> Minus(t, MeterStart_Val)])
                       ELSE Append(Tail(MeterValQ), [flg |-> flg, val |-> 0])
       /\ MeterStart_Val' = IF t < MeterStart_Val THEN MeterStart_Val ELSE t
  /\ unsampled' = FALSE
  /\ Blame(IF Len(MeterValQ) < MaxQno THEN "none" ELSE "shift")

\* Mutant: the queue does not shift.
Add_MeterVal_QNoShift(flg) ==
  /\ \E t \in ReadWatt :
       /\ MeterValQ' = Append(MeterValQ, [flg |-> flg, val |-> Minus(t, MeterStart_Val)])
       /\ MeterStart_Val' = t
  /\ unsampled' = FALSE
  /\ Blame(IF Len(MeterValQ) < MaxQno THEN "none" ELSE "shift")

\* Add_MeterVal_Q: the first free slot takes the increase since the last
\* sample (its test for a negative increase never holds of an unsigned one).
\* With no slot free the queue shifts and the last slot keeps the 0 it was
\* given, the increase being written behind the array.
Add_MeterVal_Q(flg) ==
  /\ \E t \in ReadWatt :
       /\ MeterValQ' = IF Len(MeterValQ) < MaxQno
                       THEN Append(MeterValQ, [flg |-> flg, val |-> Minus(t, MeterStart_Val)])
                       ELSE Append(Tail(MeterValQ), [flg |-> flg, val |-> 0])
       /\ MeterStart_Val' = t
  /\ unsampled' = FALSE
  /\ Blame(IF Len(MeterValQ) < MaxQno THEN "none" ELSE "shift")

\* Check_Sampled_Time has fired.
Sample ==
  /\ ~asleep /\ Charging
  /\ Add_MeterVal_Q("CLOCK")
  /\ UNCHANGED <<reading, layer, flags, asleep, call, session, rx>>

\* The answer is given up: a timeout or a new connection.
CallLost ==
  /\ ~asleep /\ call.kind # "none" /\ call' = NoCall
  /\ UNCHANGED <<reading, layer, flags, queue, asleep, account, rx>>

\* What sampledValue_Data may put into the CALL: the entries before the first
\* of a type it does not know; of those beyond the strings it has room for it
\* loses all or none, since it writes past their array.
Known(q)      == {n \in 0..Len(q) : \A i \in 1..n : q[i].flg # "TRIG"}
Reportable(q) == {n \in Known(q) : n + 1 \notin Known(q) \/ n = Strings}

MakeDataCmd_Values(kind, q) ==
  \E n \in Reportable(q) :
    call' = [kind |-> kind, sent |-> SubSeq(q, 1, n), start |-> 0]

Senario == ~asleep /\ call.kind = "none"

\* Check_Meter_Time has fired.
NetMeter ==
  /\ Senario /\ Charging
  /\ MakeDataCmd_Values("MeterVal", MeterValQ)
  /\ UNCHANGED <<reading, layer, flags, queue, asleep, account, rx>>

\* StartTransaction: Make_Ocpp_Msg sleeps for three seconds before it is sent.
NetStartTs ==
  /\ Senario /\ reqStartTsFlg /\ asleep' = TRUE
  /\ UNCHANGED <<reading, layer, flags, queue, call, account, rx>>

\* It carries MeterStart_Val, which a sample may have moved since the session began.
StartTsSent ==
  /\ asleep /\ asleep' = FALSE
  /\ call' = [kind |-> "StartTs", sent |-> <<>>, start |-> MeterStart_Val]
  /\ Blame(IF unsampled THEN "none" ELSE "lateStart")
  /\ UNCHANGED <<reading, layer, flags, queue, session, unsampled, rx>>

\* StopTransaction, with a last sample.
NetStopTs ==
  /\ Senario /\ ~reqStartTsFlg /\ bReqStopTsFlg
  /\ bReqStopTsFlg' = FALSE
  /\ Add_MeterVal_Q("TRANS")
  /\ MakeDataCmd_Values("StopTs", MeterValQ')
  /\ UNCHANGED <<reading, layer, bReqStartTsNo, reqStartTsFlg, asleep, session, rx>>

\* MeterValues that a TriggerMessage, which may come at any time, asked for, with
\* a sample of their own.
NetTrigger ==
  /\ Senario /\ ~reqStartTsFlg /\ ~bReqStopTsFlg
  /\ Add_MeterVal_Q("TRIG")
  /\ MakeDataCmd_Values("MeterVal", MeterValQ')
  /\ UNCHANGED <<reading, layer, bReqStartTsNo, reqStartTsFlg, bReqStopTsFlg, asleep,
                 session, rx>>
----------------------------------------------------------------------------
\* WSRxThread.

\* The sum of queued or reported values.
Total[q \in Seq(Entry)] == IF q = <<>> THEN 0 ELSE Plus(Head(q).val, Total[Tail(q)])

\* The answer is accepted: the client may make its next CALL before the
\* handler has run.
RxAnswer ==
  /\ call.kind # "none" /\ rx.kind = "none"
  /\ rx' = call /\ call' = NoCall
  /\ UNCHANGED <<reading, layer, flags, queue, asleep, account>>

\* DataProcCmd_MeterVal and DataProcCmd_StopTs empty the queue (Reset_MeterVal_Q):
\* of entries too that the answered CALL did not hold, and while the next CALL
\* may already repeat those it did.
AnswerValues ==
  /\ rx.kind \in {"MeterVal", "StopTs"} /\ rx' = NoCall
  /\ MeterValQ' = <<>>
  /\ bReqStopTsFlg' = (bReqStopTsFlg /\ rx.kind # "StopTs")
  /\ IF call.sent # <<>> THEN Blame("twice")
     ELSE IF Len(rx.sent) < Len(MeterValQ) THEN Blame("dropped")
     ELSE /\ credit' = IF credit = None THEN None ELSE Plus(credit, Total[rx.sent])
          /\ UNCHANGED cause
  /\ UNCHANGED <<reading, layer, bReqStartTsNo, reqStartTsFlg, MeterStart_Val, asleep, call,
                 session, unsampled>>

DataProcCmd_StartTs ==
  /\ rx.kind = "StartTs" /\ rx' = NoCall
  /\ reqStartTsFlg' = FALSE
  /\ credit' = IF cause = "none" THEN rx.start ELSE None
  /\ UNCHANGED <<reading, layer, bReqStartTsNo, bReqStopTsFlg, queue, asleep, call, session,
                 unsampled, cause>>

Session == \/ Draw \/ ReadMeter \/ Publish \/ Published \/ ChargeOnEnter \/ StartCharge
           \/ Suspend \/ ChargeOnLeave \/ MainOnEnter
Client == \/ Promote \/ Sample \/ CallLost \/ NetMeter \/ NetStartTs
          \/ StartTsSent \/ NetStopTs \/ NetTrigger
Receiver == RxAnswer \/ AnswerValues \/ DataProcCmd_StartTs

Next == Session \/ Client \/ Receiver

Spec == Init /\ [][Next]_vars
----------------------------------------------------------------------------
\* What the central system can add up, the meterStart of the StartTransaction
\* it accepted and the values of the CALLs it answered, together with what
\* is still queued is the reading of the last sample: whatever the threads
\* saw of a reading half written, rounded or not yet there, and however often
\* CALLs were repeated.  Nothing is claimed once cause records that a value
\* went missing: the full queue shifted; an answer dropped a value its CALL
\* did not hold (a sample taken meanwhile, an entry behind a triggered one or
\* beyond the strings); the next CALL repeated values whose answer was still
\* being applied; the session began with a queue left over; or the
\* StartTransaction was made after a sample.
ReportsExact ==
  credit # None => Plus(credit, Total[MeterValQ]) = MeterStart_Val
=============================================================================
