------------------------------ MODULE SeccLink ------------------------------
(***************************************************************************)
(* The link to the PLC modem (SECC) that talks to the car: the task that   *)
(* writes one Modbus request at a time (SeccRS232ReqTask with InitSecc,    *)
(* SeccSenario and ChrgSecc), the task that reads the answers              *)
(* (SeccRS232ReadTask, ValidSecc, ParsRxData), and the layers that set the *)
(* status word the modem is told.  An answer carries no request number:    *)
(* it is matched by function and length, and filed under the last address. *)
(***************************************************************************)
EXTENDS Integers, Sequences

CONSTANTS
  MaxSilent,            \* 10: requests without an answer before the modem is power-cycled
  VasChunks,            \* the requests one VAS record takes
  TailLens,             \* the registers the last of them may have: the modem and the car say
  Overtakes,            \* whether the request task may run between an answer and its parsing
  MaxFaults,            \* bound: requests or answers lost, wholly or in part, and modem resets
  MaxLates,             \* bound: answers that come after their request was given up
  MaxHangs,             \* bound: times the modem stops answering until it is power-cycled
  MaxTroubles,          \* bound: faults, late answers, hangs and overtaken parses together
  MaxStarts             \* bound: sessions

MAX_LEN == 90

ASSUME SeccAssumption ==
  /\ {MaxSilent, VasChunks, MaxFaults, MaxLates, MaxHangs, MaxTroubles, MaxStarts} \subseteq Nat
  /\ MaxSilent > 0 /\ VasChunks > 0
  /\ TailLens \subseteq 1..MAX_LEN /\ TailLens # {}
  /\ Overtakes \in BOOLEAN

VARIABLES
  wait,                 \* PlcRespWaitCnt # 0: a request is waiting for its answer
  rebootCnt,
  init,                 \* SeccInitStep
  chrg,                 \* SeccChrgStep
  turn,                 \* seccReqStep: what the next round sends
  SendChkFlg,           \* the write of this step is not acknowledged
  vasReadCd,            \* the VAS chunk being read, 0 for none
  ReadTx, WriteTx,      \* SeccModbusReadTx, SeccModbusWriteTx: the last of each built
  rmw,                  \* what a |= on status_fault has loaded, or NoLoad
  status,               \* SeccTxData.status_fault
  rx,                   \* SeccRxData
  parse,                \* the answer the read task is about to parse, or NoAnswer
  cont,                 \* dataContinSize # 0: half an answer is kept
  flight,               \* external: the answers on their way
  modem,                \* external
  session,              \* the layers: "idle", "wait", "charge" or "over"
  faults, lates, hangs, starts,
  revived,              \* history: the request task wrote back the charge bit a layer had cleared
  misfiled,             \* history: the other requests whose answers were filed as the status
  overtaken             \* history: the answers ("read", "write") applied after the next request

txVars == <<ReadTx, WriteTx, wait, rebootCnt, modem, flight, faults>>
stepVars == <<init, chrg, turn, SendChkFlg, vasReadCd, rmw>>
readVars == <<rx, parse, cont, misfiled>>
layerVars == <<session, starts, revived>>
vars == <<txVars, stepVars, readVars, layerVars, status, lates, hangs, overtaken>>

-----------------------------------------------------------------------------
(* Data *)

\* CSM_STAT_*: none, ready, authentication, parameters, charging, stopped
Codes == {0, 1, 4, 5, 8, 10}

StopCodes == 9..11

Bits == {"charg", "stop", "auth", "prm"}

Whys == {"none", "reset", "stopped", "begin", "confirm"}

NoLoad == [why |-> "none", bits |-> {}]

InitSteps == {"none", "csmr", "evser", "chrgprm", "chrgtype", "init",
              "vasreq", "vasreadreq", "vaschk", "done"}

ChrgSteps == {"none", "start", "handsh", "authchk", "prmchk", "charging"}

\* A read of n registers, a write
Read(reg, n) == [fn |-> "read", reg |-> reg, len |-> n]

Write(reg) == [fn |-> "write", reg |-> reg, len |-> 0]

ReadReady == Read("ready", 1)
ChckSeccStat == Read("stat", 6)
ChckSeccSoC == Read("soc", 1)
ChkVasData == Read("vasmap", 10)
ReadVasEnable == Read("vasen", 1)

\* The last chunk is as long as vasMapCnt leaves it
ReadVasData ==
  {Read("vas", n) : n \in IF vasReadCd < VasChunks THEN {MAX_LEN} ELSE TailLens}

SendChrgReady == Write("status")
SendChrgPrm == Write("prm")

Reads == {ReadReady, ChckSeccStat, ChckSeccSoC, ChkVasData, ReadVasEnable}
           \cup {Read("vas", n) : n \in {MAX_LEN} \cup TailLens}

Writes == {Write(r) : r \in {"status", "prm", "type", "pay", "vasreq"}}

NoTx == Read("none", 0)

Answers == [q : Reads \cup Writes, code : Codes, vas : BOOLEAN, half : BOOLEAN]

NoAnswer == [q |-> NoTx, code |-> 0, vas |-> FALSE, half |-> FALSE]

\* The status word moves through its bits, the indices through their steps, and a VAS record is
\* never read past its last chunk.
TypeOK ==
  /\ wait \in BOOLEAN /\ rebootCnt \in 0..MaxSilent
  /\ init \in InitSteps /\ chrg \in ChrgSteps /\ turn \in 0..1
  /\ SendChkFlg \in BOOLEAN /\ vasReadCd \in 0..VasChunks
  /\ ReadTx \in Reads \cup {NoTx} /\ WriteTx \in Writes \cup {NoTx}
  /\ status \subseteq Bits /\ rmw \in [why : Whys, bits : SUBSET Bits]
  /\ rx \in [ready : BOOLEAN, code : Codes, err : BOOLEAN, vas : BOOLEAN]
  /\ parse \in Answers \cup {NoAnswer} /\ cont \in BOOLEAN
  /\ Len(flight) <= MaxLates + 1 /\ \A i \in DOMAIN flight : flight[i] \in Answers
  /\ modem \in [code : Codes, vas : BOOLEAN, hung : BOOLEAN, told : SUBSET Bits]
  /\ session \in {"idle", "wait", "charge", "over"}
  /\ faults \in 0..MaxFaults /\ lates \in 0..MaxLates /\ hangs \in 0..MaxHangs /\ starts \in 0..MaxStarts
  /\ revived \in BOOLEAN
  /\ misfiled \subseteq Reads \cup Writes /\ overtaken \subseteq {"read", "write"}

\* The modem after power-up
Cold == [code |-> 0, vas |-> FALSE, hung |-> FALSE, told |-> {}]

\* SeccInit
Init ==
  /\ wait = FALSE /\ rebootCnt = 0
  /\ init = "none" /\ chrg = "none" /\ turn = 0
  /\ SendChkFlg = FALSE /\ vasReadCd = 0 /\ rmw = NoLoad
  /\ ReadTx = NoTx /\ WriteTx = NoTx /\ status = {}
  /\ rx = [ready |-> FALSE, code |-> 1, err |-> TRUE, vas |-> FALSE]
  /\ parse = NoAnswer /\ cont = FALSE /\ flight = <<>> /\ modem = Cold
  /\ session = "idle" /\ faults = 0 /\ lates = 0 /\ hangs = 0 /\ starts = 0
  /\ revived = FALSE /\ misfiled = {} /\ overtaken = {}

-----------------------------------------------------------------------------
(* Writing a request *)

Troubles == faults + lates + hangs + (IF overtaken = {} THEN 0 ELSE 1)

\* What may still go wrong
Spare(n, max) == n < max /\ Troubles < MaxTroubles

\* The request reaches the modem
Heard(q) ==
  IF q = SendChrgReady THEN [modem EXCEPT !.told = status']
  ELSE IF q = Write("vasreq") THEN [modem EXCEPT !.vas = TRUE] ELSE modem

\* An answer holds the state, or whether there is a VAS, if it was asked for
Answer(q) ==
  [q |-> q, code |-> IF q.reg \in {"ready", "stat"} THEN modem.code ELSE 0,
   vas |-> q.reg \in {"vasen", "vasmap"} /\ modem.vas, half |-> FALSE]

\* It answers, or the request or its answer is lost
OnTheWire(q) ==
  \/ modem.hung /\ UNCHANGED <<modem, flight, faults>>
  \/ ~modem.hung /\ modem' = Heard(q) /\ flight' = Append(flight, Answer(q)) /\ UNCHANGED faults
  \/ /\ ~modem.hung /\ Spare(faults, MaxFaults)
     /\ modem' \in {modem, Heard(q)} /\ faults' = faults + 1 /\ UNCHANGED flight

\* The end of a round of the request task: the request, if any, is written; after MaxSilent
\* unanswered ones the modem's power is cut and the initialisation starts over.
Round(request, nextInit) ==
  /\ IF request = {}
     THEN UNCHANGED <<wait, ReadTx, WriteTx>>
     ELSE \E q \in request :
            /\ wait' = TRUE
            /\ ReadTx' = (IF q.fn = "read" THEN q ELSE ReadTx)
            /\ WriteTx' = (IF q.fn = "write" THEN q ELSE WriteTx)
  /\ overtaken' = IF parse = NoAnswer THEN overtaken ELSE overtaken \cup {parse.q.fn}
  /\ IF rebootCnt < MaxSilent
     THEN /\ init' = nextInit
          /\ IF request = {} THEN UNCHANGED <<modem, flight, faults>>
                             ELSE \E q \in request : OnTheWire(q)
          /\ UNCHANGED rebootCnt
     ELSE /\ init' = "none" /\ rebootCnt' = 0
          /\ modem' = Cold /\ flight' = <<>> /\ UNCHANGED faults

\* A round starts when nothing is waited for
Free ==
  ~wait /\ (parse = NoAnswer \/ (Overtakes /\ overtaken = {} /\ Troubles < MaxTroubles))

\* Mutant: the unanswered request is not counted.
NoAnswerInTimeUncounted ==
  /\ wait /\ (flight = <<>> \/ Spare(lates, MaxLates))
  /\ wait' = FALSE /\ vasReadCd' = 0
  /\ lates' = IF flight = <<>> THEN lates ELSE lates + 1
  /\ UNCHANGED <<ReadTx, WriteTx, rebootCnt, modem, flight, faults, init, chrg, turn, SendChkFlg, rmw,
                 readVars, layerVars, status, hangs, overtaken>>

\* The answer has not come within ten polls: it is lost, or late
NoAnswerInTime ==
  /\ wait /\ (flight = <<>> \/ Spare(lates, MaxLates))
  /\ wait' = FALSE /\ vasReadCd' = 0
  /\ rebootCnt' = rebootCnt + 1
  /\ lates' = IF flight = <<>> THEN lates ELSE lates + 1
  /\ UNCHANGED <<ReadTx, WriteTx, modem, flight, faults, init, chrg, turn, SendChkFlg, rmw,
                 readVars, layerVars, status, hangs, overtaken>>

-----------------------------------------------------------------------------
(* InitSecc *)

\* The steps that write and wait for the acknowledgement, and where that leads
InitWrite == [csmr |-> "status", evser |-> "prm", chrgprm |-> "type", chrgtype |-> "pay",
              vasreq |-> "vasreq"]

InitNext == [csmr |-> "evser", evser |-> "chrgprm", chrgprm |-> "chrgtype",
             chrgtype |-> "init", vasreq |-> "vasreadreq"]

\* InitSecc at step s, within a round that leaves the rest of the task alone
InitSecc(s) ==
  \/ /\ s = "none"
     /\ IF rx.ready THEN SendChkFlg' = TRUE /\ Round({}, "csmr")
                    ELSE UNCHANGED SendChkFlg /\ Round({ReadReady}, "none")
  \/ /\ s \in DOMAIN InitWrite
     /\ IF SendChkFlg
        THEN UNCHANGED SendChkFlg /\ Round({Write(InitWrite[s])}, s)
        ELSE SendChkFlg' = (s \notin {"chrgtype", "vasreq"}) /\ Round({}, InitNext[s])
  \/ /\ s = "init"
     /\ IF rx.code = 0 \/ rx.err
        THEN UNCHANGED SendChkFlg /\ Round({ChckSeccStat}, "init")
        ELSE SendChkFlg' = TRUE /\ Round({}, "vasreq")
  \/ s = "vasreadreq" /\ UNCHANGED SendChkFlg /\ Round({ReadVasEnable}, "vaschk")
  \/ s = "vaschk" /\ UNCHANGED SendChkFlg /\ Round({}, IF rx.vas THEN "done" ELSE "vasreq")

Initialise ==
  /\ Free /\ rmw = NoLoad /\ init # "done"
  /\ UNCHANGED <<chrg, turn, vasReadCd, rmw, readVars, layerVars, status, lates, hangs>>
  /\ InitSecc(init)

-----------------------------------------------------------------------------
(* Initialised: SendChrgReady and SeccSenario in turn *)

Idle == UNCHANGED <<readVars, session, starts, lates, hangs, vasReadCd>>

\* Mutant: the status word is not sent in turn.
TellStatusNever ==
  /\ Free /\ rmw = NoLoad /\ init = "done" /\ turn = 0
  /\ turn' = 1
  /\ Idle /\ UNCHANGED <<chrg, SendChkFlg, rmw, status, revived>>
  /\ Round({ChckSeccStat}, "done")

TellStatus ==
  /\ Free /\ rmw = NoLoad /\ init = "done" /\ turn = 0
  /\ turn' = 1
  /\ Idle /\ UNCHANGED <<chrg, SendChkFlg, rmw, status, revived>>
  /\ Round({SendChrgReady}, "done")

\* Once it has loaded the status word it goes on, whatever CardWaitEnter does to SeccInitStep
Senario == Free /\ (init = "done" \/ rmw # NoLoad) /\ turn = 1 /\ turn' = 0

\* The modem reports no state: start over, and stop the session
Reinitialise ==
  /\ Senario /\ rmw.why = "reset"
  /\ status' = (rmw.bits \ {"charg"}) \cup {"stop"} /\ rmw' = NoLoad
  /\ InitSecc("none")
  /\ Idle /\ UNCHANGED <<chrg, revived>>

\* Not charging: poll the modem
Poll ==
  /\ Senario /\ rmw = NoLoad /\ rx.code # 0 /\ "charg" \notin status
  /\ chrg' = "none"
  /\ Round({ChckSeccStat}, "done")
  /\ Idle /\ UNCHANGED <<SendChkFlg, rmw, status, revived>>

\* The steps that change the status word load it first: SeccSenario without a state; ChrgSecc at a
\* stop code, or at NONE, AUTHCHK and PRMCHK unless there is a stop to send
Change ==
  CASE rx.code = 0 -> "reset"
    [] rx.code # 0 /\ "charg" \notin status -> "none"
    [] rx.code \in StopCodes /\ "charg" \in status -> "stopped"
    [] rx.code \notin StopCodes \cup {0} /\ "charg" \in status /\ chrg = "none" -> "begin"
    [] rx.code \notin StopCodes \cup {0} /\ "charg" \in status
         /\ chrg \in {"authchk", "prmchk"} /\ "stop" \notin status -> "confirm"
    [] OTHER -> "none"

LoadStatus ==
  /\ Free /\ init = "done" /\ turn = 1 /\ rmw = NoLoad
  /\ Change # "none"
  /\ rmw' = [why |-> Change, bits |-> status]
  /\ UNCHANGED <<txVars, init, chrg, turn, SendChkFlg, readVars, layerVars, lates, hangs, vasReadCd,
                 status, overtaken>>

\* Mutant: the layer is not told that the modem stopped.
ModemStoppedUntold ==
  /\ Senario /\ rmw.why = "stopped"
  /\ chrg' = "none"
  /\ status' = rmw.bits \ {"charg"} /\ rmw' = NoLoad
  /\ Round({ChckSeccStat}, init)
  /\ Idle /\ UNCHANGED <<SendChkFlg, revived>>

\* The modem has stopped: the charging layer is told through the stop bit
ModemStopped ==
  /\ Senario /\ rmw.why = "stopped"
  /\ chrg' = "none"
  /\ status' = (rmw.bits \ {"charg"}) \cup {"stop"} /\ rmw' = NoLoad
  /\ Round({ChckSeccStat}, init)
  /\ Idle /\ UNCHANGED <<SendChkFlg, revived>>

\* SECC_CHRG_STEP_NONE
Begin ==
  /\ Senario /\ rmw.why = "begin"
  /\ chrg' = "start" /\ SendChkFlg' = TRUE
  /\ status' = rmw.bits \cup {"auth", "prm"} /\ rmw' = NoLoad
  /\ revived' = (revived \/ "charg" \notin status)
  /\ Round({ChckSeccStat}, init)
  /\ Idle

\* AUTHCHK and PRMCHK: tell the modem the bit it waits for
Confirm ==
  /\ Senario /\ rmw.why = "confirm"
  /\ status' = rmw.bits \cup {IF chrg = "authchk" THEN "auth" ELSE "prm"} /\ rmw' = NoLoad
  /\ revived' = (revived \/ "charg" \notin status)
  /\ IF SendChkFlg THEN UNCHANGED chrg /\ Round({SendChrgReady}, init)
                   ELSE chrg' = "handsh" /\ Round({ChckSeccStat}, init)
  /\ Idle /\ UNCHANGED SendChkFlg

\* The other steps leave the status word alone
Steady ==
  /\ Senario /\ rmw = NoLoad /\ rx.code # 0 /\ "charg" \in status /\ rx.code \notin StopCodes
  /\ Idle /\ UNCHANGED <<rmw, status, revived>>

\* A stop bit while the modem charges is sent at once
SendStop ==
  /\ Steady /\ chrg \notin {"none", "start"} /\ "stop" \in status
  /\ Round({SendChrgReady}, "done")
  /\ UNCHANGED <<chrg, SendChkFlg>>

Start ==
  /\ Steady /\ chrg = "start"
  /\ IF SendChkFlg THEN UNCHANGED chrg /\ Round({SendChrgReady}, "done")
                   ELSE chrg' = "handsh" /\ Round({ChckSeccStat}, "done")
  /\ UNCHANGED SendChkFlg

\* HANDSH: where the modem is; 8 with the pilot not yet at 6 V waits
Handshake ==
  /\ Steady /\ chrg = "handsh" /\ "stop" \notin status
  /\ \/ rx.code = 8 /\ chrg' \in {"handsh", "charging"} /\ UNCHANGED SendChkFlg
     \/ rx.code = 4 /\ chrg' = "authchk" /\ SendChkFlg' = TRUE
     \/ rx.code = 5 /\ chrg' = "prmchk" /\ SendChkFlg' = TRUE
     \/ rx.code = 1 /\ chrg' = "start" /\ SendChkFlg' = TRUE
  /\ Round({ChckSeccStat}, "done")

\* CHARGING: charge_cnt takes the requests round, and a VAS record goes first
Supervise(q) ==
  /\ Steady /\ chrg = "charging" /\ "stop" \notin status
  /\ IF vasReadCd # 0 THEN q \in ReadVasData
                      ELSE q \in {ChkVasData, SendChrgPrm, ChckSeccSoC, ChckSeccStat}
  /\ Round({q}, "done")
  /\ UNCHANGED <<chrg, SendChkFlg>>

ChrgSecc ==
  \/ ModemStopped \/ Begin \/ Confirm \/ SendStop \/ Start \/ Handshake
  \/ \E q \in Reads \cup Writes : Supervise(q)

ReqTask ==
  \/ NoAnswerInTime \/ Initialise \/ TellStatus \/ Reinitialise \/ Poll \/ LoadStatus \/ ChrgSecc

-----------------------------------------------------------------------------
(* SeccRS232ReadTask *)

\* Mutant: the length of a read answer is not compared.
AcceptsAnyLength(a) ==
  IF a.q.fn = "read" THEN ReadTx # NoTx ELSE a.q = WriteTx

\* ValidSecc: the function and the length, or the address, of the last request of that kind
Accepts(a) ==
  IF a.q.fn = "read" THEN ReadTx # NoTx /\ a.q.len = ReadTx.len ELSE a.q = WriteTx

\* What follows a kept half is taken for its other half
Complete(a) == cont = a.half

ReadHalf ==
  /\ parse = NoAnswer /\ flight # <<>> /\ ~cont /\ ~Head(flight).half
  /\ cont' = TRUE
  /\ flight' = [flight EXCEPT ![1].half = TRUE]
  /\ UNCHANGED <<ReadTx, WriteTx, wait, rebootCnt, modem, faults, stepVars, rx, parse, misfiled,
                 layerVars, status, lates, hangs, overtaken>>

\* The wait is over before the answer is applied
ReadAnswer ==
  /\ parse = NoAnswer /\ flight # <<>> /\ (Head(flight).half => cont)
  /\ flight' = Tail(flight) /\ cont' = FALSE
  /\ LET a == Head(flight) IN
       IF Complete(a) /\ Accepts(a)
       THEN rebootCnt' = 0 /\ wait' = FALSE /\ parse' = a
       ELSE UNCHANGED <<rebootCnt, wait, parse>>
  /\ UNCHANGED <<ReadTx, WriteTx, modem, faults, stepVars, rx, misfiled,
                 layerVars, status, lates, hangs, overtaken>>

\* A write is acknowledged
Acknowledge ==
  /\ parse.q.fn = "write"
  /\ SendChkFlg' = FALSE /\ parse' = NoAnswer
  /\ UNCHANGED <<txVars, init, chrg, turn, vasReadCd, rmw, rx, misfiled, cont, layerVars, status,
                 lates, hangs, overtaken>>

\* Where the registers lie in the order ParsRxData falls through them
Place == [ready |-> 1, stat |-> 2, soc |-> 8, vasmap |-> 9, vasen |-> 10, vas |-> 100]

FieldAt == [ready |-> 1, code |-> 2, err |-> 3, vas |-> 10, rxCnt |-> 13]

\* The fields an answer of n registers reaches when it is filed under reg
Filed(reg, n) == {f \in DOMAIN FieldAt : FieldAt[f] \in Place[reg]..(Place[reg] + n - 1)}

\* Mutant: the last chunk does not end the record.
NextChunkEndless == vasReadCd + 1

\* vasParsFunc: the next chunk, or none after the last.  With vasReadCd already reset by a timeout
\* the late chunk starts the reading again.
NextChunk == IF vasReadCd < VasChunks THEN vasReadCd + 1 ELSE 0

\* ParsRxData files the answer under the address of the last read built
ParsRxData ==
  /\ parse # NoAnswer /\ parse.q.fn = "read"
  /\ LET right == parse.q.reg = ReadTx.reg
         fields == Filed(ReadTx.reg, parse.q.len)
         new(f, was, values) == IF f \in fields THEN values ELSE {was}
     IN /\ \E ready \in new("ready", rx.ready, IF right THEN {parse.code # 0} ELSE BOOLEAN),
              code \in new("code", rx.code, IF right THEN {parse.code} ELSE Codes),
              err \in new("err", rx.err, IF right THEN {FALSE} ELSE BOOLEAN),
              vas \in new("vas", rx.vas, IF right THEN {parse.vas} ELSE BOOLEAN) :
             rx' = [ready |-> ready, code |-> code, err |-> err, vas |-> vas]
        /\ misfiled' = misfiled \cup (IF "code" \in fields /\ ~right THEN {parse.q} ELSE {})
        /\ \/ "rxCnt" \in fields /\ vasReadCd' = 1
           \/ ReadTx.reg # "vas" /\ UNCHANGED vasReadCd
           \/ ReadTx.reg = "vas" /\ vasReadCd' = NextChunk
  /\ parse' = NoAnswer
  /\ UNCHANGED <<txVars, init, chrg, turn, SendChkFlg, rmw, cont, layerVars, status, lates, hangs,
                 overtaken>>

ReadTask == ReadAnswer \/ Acknowledge \/ ParsRxData

-----------------------------------------------------------------------------
(* The layers; they change the status word at most once within a |= of the request task *)

Unraced == rmw = NoLoad \/ rmw.bits = status

Layers == UNCHANGED <<txVars, chrg, turn, SendChkFlg, vasReadCd, rmw, readVars, lates, hangs, overtaken>>

CardWaitEnter ==
  /\ session = "idle" /\ starts < MaxStarts /\ Unraced
  /\ session' = "wait" /\ starts' = starts + 1
  /\ status' = {} /\ init' = "none" /\ revived' = FALSE
  /\ Layers

ChargeOnEnter ==
  /\ session = "wait" /\ Unraced
  /\ session' = "charge"
  /\ status' = status \cup {"charg"}
  /\ Layers /\ UNCHANGED <<starts, init, revived>>

\* After a stop of the user, the car, the server, or the monitoring task that saw the stop bit
ChargeOnLeave ==
  /\ session = "charge" /\ Unraced
  /\ session' = "over"
  /\ status' = (status \ {"charg"}) \cup {"stop"}
  /\ Layers /\ UNCHANGED <<starts, init, revived>>

MainOnEnter ==
  /\ session \in {"wait", "over"} /\ Unraced
  /\ session' = "idle"
  /\ status' = {} /\ revived' = FALSE
  /\ Layers /\ UNCHANGED <<starts, init>>

-----------------------------------------------------------------------------
(* External: the modem and the line *)

ModemGoes(c) ==
  /\ ~modem.hung /\ modem' = [modem EXCEPT !.code = c]
  /\ UNCHANGED <<ReadTx, WriteTx, wait, rebootCnt, flight, stepVars, readVars, layerVars, status,
                 lates, hangs, overtaken>>

\* It boots, goes through the handshake as it is told, and returns when it is told to stop
ModemMoves ==
  /\ \/ modem.code = 0 /\ ModemGoes(1)
     \/ modem.code = 1 /\ "charg" \in modem.told /\ ModemGoes(4)
     \/ modem.code = 4 /\ "auth" \in modem.told /\ ModemGoes(5)
     \/ modem.code = 5 /\ "prm" \in modem.told /\ ModemGoes(8)
     \/ modem.code \in {4, 5, 8, 10} /\ "charg" \notin modem.told /\ ModemGoes(1)
  /\ UNCHANGED faults

\* The car ends the charging
CarStops == modem.code = 8 /\ ModemGoes(10) /\ UNCHANGED faults

\* It resets by itself
ModemBlips ==
  /\ modem.code # 0 /\ Spare(faults, MaxFaults)
  /\ ModemGoes(0) /\ faults' = faults + 1

ModemHangs ==
  /\ Spare(hangs, MaxHangs) /\ ~modem.hung
  /\ modem' = [modem EXCEPT !.hung = TRUE] /\ hangs' = hangs + 1
  /\ UNCHANGED <<ReadTx, WriteTx, wait, rebootCnt, flight, faults, stepVars, readVars, layerVars,
                 status, lates, overtaken>>

\* The second half of an answer is lost
RestLost ==
  /\ flight # <<>> /\ Head(flight).half /\ Spare(faults, MaxFaults)
  /\ flight' = Tail(flight) /\ faults' = faults + 1
  /\ UNCHANGED <<ReadTx, WriteTx, wait, rebootCnt, modem, stepVars, readVars, layerVars, status,
                 lates, hangs, overtaken>>

Layer == CardWaitEnter \/ ChargeOnEnter \/ ChargeOnLeave \/ MainOnEnter

Modem == ModemMoves \/ CarStops \/ ModemBlips \/ ModemHangs \/ RestLost

Next == ReqTask \/ ReadTask \/ ReadHalf \/ Layer \/ Modem

Spec == Init /\ [][Next]_vars

\* Both tasks run, the modem boots and follows what it is told, the charge layer leaves a stopped
\* session, and charge_cnt comes round to the status read.  Nothing makes the user leave the
\* finish screen: it has no timer.
LiveSpec ==
  /\ Spec
  /\ WF_vars(ReqTask) /\ WF_vars(ReadTask) /\ WF_vars(ModemMoves)
  /\ WF_vars(ChargeOnLeave /\ "stop" \in status)
  /\ SF_vars(Supervise(ChckSeccStat))

-----------------------------------------------------------------------------
(* Properties *)

\* The state and the pilot voltage that drive the charging come from the status registers,
\* whatever is lost or cut in two; of the late answers only a last VAS chunk of six registers, as
\* many as the status has, can be taken for it (ValidSecc, tsctsecc.c:865).  (Unless the request
\* task builds its next read between PlcRespWaitCnt = 0 and ParsRxData, tsctsecc.c:1231.)
StatusIsStatus ==
  "read" \notin overtaken => misfiled \subseteq (IF lates = 0 THEN {} ELSE {Read("vas", 6)})

\* No answer came after its request was given up.  One late acknowledgement can clear SendChkFlg
\* before the VAS request was heard, and the initialisation goes round without end.
Timely == lates = 0

\* When the modem stops while a session charges, wherever the handshake stands, the session is
\* stopped (unless the modem resets before it could be asked).
ModemStopHonoured ==
  (session = "charge" /\ modem.code = 10 /\ Timely)
    ~> (session # "charge" \/ modem.code = 0 \/ ~Timely)

\* When a session is over the modem comes to know, although the stop branch of ChrgSecc is not
\* reached then: unless the |= of the request task (tsctsecc.c:328, 446, 470) wrote the charge bit
\* back, from a load before the layer cleared it.
ModemTold ==
  (session \in {"over", "idle"} /\ Timely)
    ~> ("charg" \notin modem.told \/ revived \/ session = "charge" \/ ~Timely)

\* A modem that no longer answers is power-cycled and initialised again.
Recovers == (modem.hung /\ Timely) ~> ((init = "done" /\ ~modem.hung) \/ ~Timely)

\* (TLC refutes this one.)  tsctsecc.c:174 "1. Check CSM Ready = True [30001 - 0]": no initialisation goes past its first
\* step while the modem says it is not ready.
ReadyChecked == [][init = "none" /\ init' = "csmr" => modem.code # 0]_vars
=============================================================================
