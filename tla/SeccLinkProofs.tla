--------------------------- MODULE SeccLinkProofs ---------------------------
(***************************************************************************)
(* Proofs about SeccLink, for every number of silent polls, every length   *)
(* of a VAS record and all bounds: the types, and that the modem's state   *)
(* is read from the status registers only.                                 *)
(***************************************************************************)
EXTENDS SeccLink, TLAPS

-----------------------------------------------------------------------------
(* The inductive invariant *)

\* The line: a request that waits has at most its own answer on the way beside the late ones,
\* and is counted before the modem's power is cut.
LineInv ==
  /\ wait \in BOOLEAN /\ rebootCnt \in 0..MaxSilent /\ (wait => rebootCnt < MaxSilent)
  /\ ReadTx \in Reads \cup {NoTx} /\ WriteTx \in Writes \cup {NoTx}
  /\ modem \in [code : Codes, vas : BOOLEAN, hung : BOOLEAN, told : SUBSET Bits]
  /\ flight \in Seq(Answers) /\ Len(flight) <= lates + (IF wait THEN 1 ELSE 0)
  /\ faults \in 0..MaxFaults /\ lates \in 0..MaxLates
  /\ overtaken \subseteq {"read", "write"}

\* The steps of the request task
StepInv ==
  /\ init \in InitSteps /\ chrg \in ChrgSteps /\ turn \in 0..1
  /\ SendChkFlg \in BOOLEAN /\ vasReadCd \in 0..VasChunks
  /\ rmw \in [why : Whys, bits : SUBSET Bits]
  /\ status \subseteq Bits /\ revived \in BOOLEAN

\* What the read task holds
ReadInv ==
  /\ rx \in [ready : BOOLEAN, code : Codes, err : BOOLEAN, vas : BOOLEAN]
  /\ parse \in Answers \cup {NoAnswer} /\ cont \in BOOLEAN
  /\ misfiled \subseteq Reads \cup Writes

\* The layers, and the troubles the line does not count
LayerInv ==
  /\ session \in {"idle", "wait", "charge", "over"}
  /\ hangs \in 0..MaxHangs /\ starts \in 0..MaxStarts

\* Unless the request task overtook the parsing, a read answer that is about to be parsed is as
\* long as the last read asked for.
ParseFits ==
  "read" \notin overtaken /\ parse # NoAnswer /\ parse.q.fn = "read"
    => ReadTx \in Reads /\ parse.q.len = ReadTx.len

\* As long as no answer is late, the read answers on their way, and the one about to be parsed,
\* answer the last read.
Punctual ==
  lates = 0 =>
    /\ \A i \in DOMAIN flight : flight[i].q.fn = "read" => flight[i].q = ReadTx
    /\ "read" \notin overtaken /\ parse # NoAnswer /\ parse.q.fn = "read" => parse.q = ReadTx

\* The parts that are inductive together: most need another.
IInv == LineInv /\ StepInv /\ ReadInv /\ LayerInv /\ ParseFits /\ Punctual /\ StatusIsStatus

\* The parts make up the type invariant.
LEMMA InvTypes == IInv => TypeOK
<1> SUFFICES ASSUME IInv PROVE TypeOK OBVIOUS
<1>1. Len(flight) <= MaxLates + 1
  BY SeccAssumption DEF IInv, LineInv
<1>2. \A i \in DOMAIN flight : flight[i] \in Answers BY DEF IInv, LineInv
<1> QED BY <1>1, <1>2 DEF IInv, LineInv, StepInv, ReadInv, LayerInv, TypeOK

-----------------------------------------------------------------------------
(* The line *)

\* The answer to a request is one of the answers.
LEMMA AnswerType ==
  ASSUME modem \in [code : Codes, vas : BOOLEAN, hung : BOOLEAN, told : SUBSET Bits],
         NEW q \in Reads \cup Writes
  PROVE  Answer(q) \in Answers
<1>1. 0 \in Codes BY DEF Codes
<1> QED BY <1>1 DEF Answer, Answers

\* Requests are reads and writes.
LEMMA Functions ==
  /\ \A q \in Reads : q.fn = "read"
  /\ \A q \in Writes : q.fn = "write" /\ q.len = 0
BY DEF Reads, Read, ReadReady, ChckSeccStat, ChckSeccSoC, ChkVasData, ReadVasEnable, Writes, Write

\* What is about to be applied answers a read or a write.
LEMMA ParseFn ==
  ASSUME parse \in Answers \cup {NoAnswer}, parse # NoAnswer
  PROVE  parse.q \in Reads \cup Writes /\ parse.q.fn \in {"read", "write"}
<1>1. parse.q \in Reads \cup Writes BY DEF Answers
<1> QED BY <1>1, Functions

\* A modem that hears a request stays a modem.
LEMMA HeardType ==
  ASSUME modem \in [code : Codes, vas : BOOLEAN, hung : BOOLEAN, told : SUBSET Bits],
         status' \subseteq Bits, NEW q
  PROVE  Heard(q) \in [code : Codes, vas : BOOLEAN, hung : BOOLEAN, told : SUBSET Bits]
<1>1. CASE q = SendChrgReady BY <1>1 DEF Heard
<1>2. CASE q # SendChrgReady BY <1>2 DEF Heard
<1> QED BY <1>1, <1>2

\* A round that begins when nothing is waited for, whatever it sends, keeps the line's invariant.
LEMMA RoundLine ==
  ASSUME LineInv, parse \in Answers \cup {NoAnswer}, ~wait, status' \subseteq Bits, UNCHANGED lates,
         NEW request \in SUBSET (Reads \cup Writes), NEW s, Round(request, s)
  PROVE  LineInv'
<1> USE DEF LineInv
<1>1. ReadTx' \in Reads \cup {NoTx} /\ WriteTx' \in Writes \cup {NoTx} /\ wait' \in BOOLEAN
  <2>1. CASE request = {} BY <2>1 DEF Round
  <2>2. CASE request # {}
    <3>1. PICK q \in request : /\ wait' = TRUE
                               /\ ReadTx' = (IF q.fn = "read" THEN q ELSE ReadTx)
                               /\ WriteTx' = (IF q.fn = "write" THEN q ELSE WriteTx)
      BY <2>2 DEF Round
    <3>2. q \in Reads \/ q \in Writes OBVIOUS
    <3> QED BY <3>1, <3>2, Functions
  <2> QED BY <2>1, <2>2
<1>2. overtaken' \subseteq {"read", "write"} BY ParseFn DEF Round
<1>3. CASE rebootCnt < MaxSilent
  <2>1. rebootCnt' = rebootCnt BY <1>3 DEF Round
  <2>2. /\ modem' \in [code : Codes, vas : BOOLEAN, hung : BOOLEAN, told : SUBSET Bits]
        /\ flight' \in Seq(Answers) /\ Len(flight') <= lates' + (IF wait' THEN 1 ELSE 0)
        /\ faults' \in 0..MaxFaults
    <3>1. CASE request = {} BY <1>3, <3>1 DEF Round
    <3>2. CASE request # {}
      <4>1. wait' = TRUE BY <3>2 DEF Round
      <4>2. PICK q \in request : OnTheWire(q) BY <1>3, <3>2 DEF Round
      <4>3. Answer(q) \in Answers BY AnswerType
      <4>4. Heard(q) \in [code : Codes, vas : BOOLEAN, hung : BOOLEAN, told : SUBSET Bits]
        BY HeardType
      <4>5. CASE UNCHANGED <<modem, flight, faults>> BY <4>1, <4>5, SeccAssumption
      <4>6. CASE modem' = Heard(q) /\ flight' = Append(flight, Answer(q)) /\ UNCHANGED faults
        <5>1. flight' \in Seq(Answers) /\ Len(flight') = Len(flight) + 1 BY <4>3, <4>6
        <5> QED BY <4>1, <4>4, <4>6, <5>1, SeccAssumption
      <4>7. CASE /\ Spare(faults, MaxFaults) /\ modem' \in {modem, Heard(q)}
                 /\ faults' = faults + 1 /\ UNCHANGED flight
        BY <4>1, <4>4, <4>7, SeccAssumption DEF Spare
      <4> QED BY <4>2, <4>5, <4>6, <4>7 DEF OnTheWire
    <3> QED BY <3>1, <3>2
  <2> QED BY <1>1, <1>2, <1>3, <2>1, <2>2, SeccAssumption
<1>4. CASE ~(rebootCnt < MaxSilent)
  <2>1. rebootCnt' = 0 /\ modem' = Cold /\ flight' = <<>> /\ UNCHANGED faults BY <1>4 DEF Round
  <2>2. Cold \in [code : Codes, vas : BOOLEAN, hung : BOOLEAN, told : SUBSET Bits]
    BY DEF Cold, Codes
  <2>3. <<>> \in Seq(Answers) /\ Len(<<>>) = 0 OBVIOUS
  <2> QED BY <1>1, <1>2, <2>1, <2>2, <2>3, SeccAssumption
<1> QED BY <1>3, <1>4

\* A round leads to a step of the initialisation.
LEMMA RoundInit ==
  ASSUME NEW request, NEW s \in InitSteps, Round(request, s) PROVE init' \in InitSteps
BY DEF Round, InitSteps

\* A round with an answer still to be parsed is recorded.
LEMMA RoundFits ==
  ASSUME NEW request, NEW s, Round(request, s), UNCHANGED parse
  PROVE  ParseFits'
BY DEF Round, ParseFits

\* After a round only the answer to its request is on the way, as long as no answer was late.
LEMMA RoundPunctual ==
  ASSUME LineInv, ~wait, UNCHANGED <<lates, parse>>,
         NEW request \in SUBSET (Reads \cup Writes), \A p, q \in request : p = q,
         NEW s, Round(request, s)
  PROVE  Punctual'
<1> SUFFICES ASSUME lates = 0 PROVE Punctual' BY DEF Punctual
<1>1. flight = <<>>
  <2>1. flight \in Seq(Answers) /\ Len(flight) <= 0 BY DEF LineInv
  <2>2. Len(flight) \in Nat BY <2>1
  <2>3. Len(flight) = 0 BY <2>1, <2>2
  <2> QED BY <2>1, <2>3
<1>2. "read" \notin overtaken' /\ parse' # NoAnswer => parse'.q.fn # "read" BY DEF Round
<1>3. CASE flight' = <<>> BY <1>2, <1>3 DEF Punctual
<1>4. ASSUME NEW q \in request, OnTheWire(q), ReadTx' = (IF q.fn = "read" THEN q ELSE ReadTx)
      PROVE  Punctual'
  <2>1. CASE flight' = flight BY <1>1, <1>3, <2>1
  <2>2. CASE flight' = Append(flight, Answer(q))
    <3>1. flight' = <<Answer(q)>> BY <1>1, <2>2
    <3>2. Answer(q).q = q BY DEF Answer
    <3>3. \A i \in DOMAIN flight' : flight'[i] = Answer(q) BY <3>1
    <3> QED BY <1>2, <1>4, <3>2, <3>3 DEF Punctual
  <2> QED BY <1>4, <2>1, <2>2 DEF OnTheWire
<1>5. CASE rebootCnt < MaxSilent /\ request # {}
  <2>1. PICK q \in request : OnTheWire(q) BY <1>5 DEF Round
  <2>2. PICK p \in request : ReadTx' = (IF p.fn = "read" THEN p ELSE ReadTx) BY <1>5 DEF Round
  <2>3. p = q OBVIOUS
  <2> QED BY <1>4, <2>1, <2>2, <2>3
<1>6. CASE ~(rebootCnt < MaxSilent /\ request # {})
  <2>1. flight' = <<>> BY <1>1, <1>6 DEF Round
  <2> QED BY <1>3, <2>1
<1> QED BY <1>5, <1>6

-----------------------------------------------------------------------------
(* The request task *)

\* The requests of the task are requests.
LEMMA RequestTypes ==
  /\ {ReadReady, ChckSeccStat, ChckSeccSoC, ChkVasData, ReadVasEnable} \cup ReadVasData \subseteq Reads
  /\ {SendChrgReady, SendChrgPrm} \subseteq Writes
  /\ \A s \in DOMAIN InitWrite : Write(InitWrite[s]) \in Writes /\ InitNext[s] \in InitSteps
BY DEF Reads, ReadReady, ChckSeccStat, ChckSeccSoC, ChkVasData, ReadVasEnable, ReadVasData,
       Writes, SendChrgReady, SendChrgPrm, InitWrite, InitNext, InitSteps

\* A round of the initialisation keeps the line's invariant and the step's type.
LEMMA InitSeccStep ==
  ASSUME LineInv, parse \in Answers \cup {NoAnswer}, ~wait, status' \subseteq Bits,
         UNCHANGED <<lates, parse>>, SendChkFlg \in BOOLEAN, NEW s \in InitSteps, InitSecc(s)
  PROVE  LineInv' /\ ParseFits' /\ Punctual' /\ init' \in InitSteps /\ SendChkFlg' \in BOOLEAN
<1>1. /\ SendChkFlg' \in BOOLEAN
      /\ \E request \in SUBSET (Reads \cup Writes), next \in InitSteps :
           Round(request, next) /\ \A p, q \in request : p = q
  <2> USE RequestTypes
  <2>1. CASE s = "none" /\ rx.ready
    <3>1. Round({}, "csmr") /\ SendChkFlg' = TRUE BY <2>1 DEF InitSecc, InitWrite
    <3> QED BY <3>1 DEF InitSteps
  <2>2. CASE s = "none" /\ ~rx.ready
    <3>1. Round({ReadReady}, "none") /\ UNCHANGED SendChkFlg
      BY <2>2 DEF InitSecc, InitWrite
    <3> QED BY <3>1 DEF InitSteps
  <2>3. CASE s \in DOMAIN InitWrite
    <3>1. \/ UNCHANGED SendChkFlg /\ Round({Write(InitWrite[s])}, s)
          \/ SendChkFlg' \in BOOLEAN /\ Round({}, InitNext[s])
      BY <2>3 DEF InitSecc, InitWrite
    <3> QED BY <2>3, <3>1
  <2>4. CASE s = "init"
    <3>1. \/ UNCHANGED SendChkFlg /\ Round({ChckSeccStat}, "init")
          \/ SendChkFlg' = TRUE /\ Round({}, "vasreq")
      BY <2>4 DEF InitSecc, InitWrite
    <3>2. "init" \in InitSteps /\ "vasreq" \in InitSteps BY DEF InitSteps
    <3>3. CASE UNCHANGED SendChkFlg /\ Round({ChckSeccStat}, "init")
      <4>1. {ChckSeccStat} \in SUBSET (Reads \cup Writes) /\ \A p, q \in {ChckSeccStat} : p = q
        OBVIOUS
      <4> QED BY <3>2, <3>3, <4>1
    <3>4. CASE SendChkFlg' = TRUE /\ Round({}, "vasreq") BY <3>2, <3>4
    <3> QED BY <3>1, <3>3, <3>4
  <2>5. CASE s = "vasreadreq"
    <3>1. UNCHANGED SendChkFlg /\ Round({ReadVasEnable}, "vaschk")
      BY <2>5 DEF InitSecc, InitWrite
    <3> QED BY <3>1 DEF InitSteps
  <2>6. CASE s = "vaschk"
    <3>1. UNCHANGED SendChkFlg /\ (Round({}, "done") \/ Round({}, "vasreq"))
      BY <2>6 DEF InitSecc, InitWrite
    <3> QED BY <3>1 DEF InitSteps
  <2> QED BY <2>1, <2>2, <2>3, <2>4, <2>5, <2>6 DEF InitSecc
<1>2. PICK request \in SUBSET (Reads \cup Writes), next \in InitSteps :
        Round(request, next) /\ \A p, q \in request : p = q
  BY <1>1
<1> QED BY <1>1, <1>2, RoundLine, RoundInit, RoundFits, RoundPunctual

\* So does a round of the initialised link.
LEMMA DoneRound ==
  ASSUME LineInv, parse \in Answers \cup {NoAnswer}, ~wait, status' \subseteq Bits,
         UNCHANGED <<lates, parse>>,
         NEW q \in Reads \cup Writes, NEW s \in InitSteps, Round({q}, s)
  PROVE  LineInv' /\ ParseFits' /\ Punctual' /\ init' \in InitSteps
<1>1. {q} \in SUBSET (Reads \cup Writes) /\ \A p, r \in {q} : p = r OBVIOUS
<1> QED BY <1>1, RoundLine, RoundInit, RoundFits, RoundPunctual

\* What the request task leaves alone keeps its types.
LEMMA IdleKeeps ==
  ASSUME IInv, UNCHANGED <<readVars, session, starts, lates, hangs>>
  PROVE  ReadInv' /\ LayerInv' /\ (overtaken \subseteq overtaken' => StatusIsStatus')
BY DEF IInv, ReadInv, LayerInv, StatusIsStatus, readVars

\* A round never forgets that a parse was overtaken.
LEMMA RoundKeeps ==
  ASSUME NEW request, NEW s, Round(request, s)
  PROVE  overtaken \subseteq overtaken'
BY DEF Round

\* The steps of ChrgSecc and SeccSenario that end with a round of the initialised link.
LEMMA RoundStep ==
  ASSUME IInv, ~wait, Idle, NEW q \in Reads \cup Writes, NEW s \in InitSteps, Round({q}, s),
         revived' \in BOOLEAN,
         status' \subseteq Bits, chrg' \in ChrgSteps, turn' \in 0..1, SendChkFlg' \in BOOLEAN,
         rmw' \in [why : Whys, bits : SUBSET Bits]
  PROVE  IInv'
<1>1. UNCHANGED <<readVars, session, starts, lates, hangs>> /\ UNCHANGED <<lates, parse, vasReadCd>>
  BY DEF Idle, readVars
<1>2. LineInv' /\ ParseFits' /\ Punctual' /\ init' \in InitSteps
  BY <1>1, DoneRound DEF IInv, ReadInv
<1>3. overtaken \subseteq overtaken' BY RoundKeeps
<1>4. ReadInv' /\ LayerInv' /\ StatusIsStatus' BY <1>1, <1>3, IdleKeeps
<1>5. StepInv' BY <1>1, <1>2 DEF IInv, StepInv
<1> QED BY <1>2, <1>4, <1>5 DEF IInv

\* NoLoad is a load of nothing.
LEMMA NoLoadType == NoLoad \in [why : Whys, bits : SUBSET Bits]
BY DEF NoLoad, Whys

\* The request task keeps the invariant.
LEMMA ReqTaskStep == ASSUME IInv, ReqTask PROVE IInv'
<1>1. CASE NoAnswerInTime
  <2>1. LineInv'
    <3>1. wait /\ wait' = FALSE /\ rebootCnt' = rebootCnt + 1 /\ rebootCnt' \in 0..MaxSilent
      BY <1>1, SeccAssumption DEF NoAnswerInTime, IInv, LineInv
    <3>2. flight' = flight /\ Len(flight) \in Nat /\ Len(flight) <= lates + 1
      BY <1>1, <3>1 DEF NoAnswerInTime, IInv, LineInv
    <3>3. lates' \in 0..MaxLates /\ Len(flight') <= lates'
      <4>1. CASE flight = <<>>
        BY <1>1, <3>2, <4>1, SeccAssumption DEF NoAnswerInTime, IInv, LineInv
      <4>2. CASE flight # <<>>
        BY <1>1, <3>2, <4>2, SeccAssumption DEF NoAnswerInTime, IInv, LineInv, Spare
      <4> QED BY <4>1, <4>2
    <3>4. UNCHANGED <<ReadTx, WriteTx, modem, flight, faults, overtaken>>
      BY <1>1 DEF NoAnswerInTime
    <3>5. Len(flight') <= lates' + (IF wait' THEN 1 ELSE 0)
      <4>1. lates' \in Nat /\ Len(flight') <= lates' + 0 BY <3>3, SeccAssumption
      <4> QED BY <3>1, <4>1
    <3> QED BY <3>1, <3>3, <3>4, <3>5 DEF IInv, LineInv
  <2>2. StepInv' BY <1>1, SeccAssumption DEF NoAnswerInTime, IInv, StepInv, layerVars
  <2>3. ReadInv' /\ LayerInv' /\ ParseFits'
    BY <1>1 DEF NoAnswerInTime, IInv, ReadInv, LayerInv, ParseFits, readVars, layerVars
  <2>4. UNCHANGED <<flight, ReadTx, parse, misfiled, overtaken>> /\ (lates' = 0 => lates = 0)
    BY <1>1, SeccAssumption DEF NoAnswerInTime, readVars, IInv, LineInv
  <2>5. Punctual' /\ StatusIsStatus' BY <2>4 DEF IInv, Punctual, StatusIsStatus
  <2> QED BY <2>1, <2>2, <2>3, <2>5 DEF IInv
<1>2. ASSUME Free, turn' \in {turn, 0}, rmw' \in {rmw, NoLoad},
             UNCHANGED <<vasReadCd, readVars, layerVars, lates, hangs, chrg>>,
             status' \subseteq Bits, InitSecc(init) \/ InitSecc("none")
      PROVE  IInv'
  <2>1. /\ UNCHANGED <<readVars, session, starts, lates, hangs>>
        /\ UNCHANGED <<lates, parse, vasReadCd, chrg, revived>> /\ ~wait
    BY <1>2 DEF readVars, layerVars, Free
  <2>2. PICK s \in InitSteps : InitSecc(s) BY <1>2 DEF IInv, StepInv, InitSteps
  <2>3. LineInv' /\ ParseFits' /\ Punctual' /\ init' \in InitSteps /\ SendChkFlg' \in BOOLEAN
    BY <2>1, <2>2, <1>2, InitSeccStep DEF IInv, StepInv, ReadInv
  <2>4. \E request, next : Round(request, next)
    BY <2>2 DEF InitSecc
  <2>5. overtaken \subseteq overtaken' BY <2>4, RoundKeeps
  <2>6. ReadInv' /\ LayerInv' /\ StatusIsStatus' BY <2>1, <2>5, IdleKeeps
  <2>7. StepInv' BY <1>2, <2>1, <2>3, NoLoadType DEF IInv, StepInv
  <2> QED BY <2>3, <2>6, <2>7 DEF IInv
<1>3. CASE Initialise
  <2>1. status' \subseteq Bits BY <1>3 DEF Initialise, IInv, StepInv
  <2> QED BY <1>2, <1>3, <2>1 DEF Initialise
<1>4. CASE Reinitialise
  <2>1. status' \subseteq Bits BY <1>4 DEF Reinitialise, IInv, StepInv, Bits
  <2> QED BY <1>2, <1>4, <2>1 DEF Reinitialise, Senario, Idle, layerVars
<1>0. "done" \in InitSteps /\ init \in InitSteps /\ revived \in BOOLEAN
  BY DEF InitSteps, IInv, StepInv
<1> USE RequestTypes, NoLoadType, <1>0
<1>5. CASE TellStatus
  <2>1. ~wait /\ Idle /\ Round({SendChrgReady}, "done") /\ SendChrgReady \in Reads \cup Writes
    BY <1>5 DEF TellStatus, Free
  <2>2. /\ status' \subseteq Bits /\ chrg' \in ChrgSteps /\ SendChkFlg' \in BOOLEAN /\ turn' \in 0..1
        /\ revived' \in BOOLEAN
        /\ rmw' \in [why : Whys, bits : SUBSET Bits]
    BY <1>5 DEF TellStatus, IInv, StepInv
  <2> QED BY <2>1, <2>2, RoundStep
<1>6. CASE Poll
  <2>1. "none" \in ChrgSteps BY DEF ChrgSteps
  <2> QED BY <1>6, <2>1, RoundStep DEF Poll, Senario, Free, IInv, StepInv
<1>7. CASE LoadStatus
  <2>1. Change \in Whys BY DEF Change, Whys
  <2>2. rmw' \in [why : Whys, bits : SUBSET Bits] BY <1>7, <2>1 DEF LoadStatus, IInv, StepInv
  <2>3. StepInv' BY <1>7, <2>2 DEF LoadStatus, IInv, StepInv, layerVars
  <2> QED BY <1>7, <2>3 DEF LoadStatus, IInv, LineInv, ReadInv, LayerInv, ParseFits, Punctual,
                            StatusIsStatus, txVars, readVars, layerVars
<1>8. CASE ChrgSecc
  <2> USE DEF Senario, Free
  <2>0. /\ {"none", "start", "handsh", "authchk", "prmchk", "charging"} = ChrgSteps
        /\ rmw.bits \subseteq Bits /\ {"auth", "prm", "stop"} \subseteq Bits
        /\ chrg \in ChrgSteps /\ SendChkFlg \in BOOLEAN /\ status \subseteq Bits
        /\ rmw \in [why : Whys, bits : SUBSET Bits]
    BY DEF ChrgSteps, IInv, StepInv, Bits
  <2>1. CASE ModemStopped
    <3>1. status' \subseteq Bits /\ chrg' \in ChrgSteps BY <2>1, <2>0 DEF ModemStopped
    <3> QED BY <2>1, <2>0, <3>1, RoundStep DEF ModemStopped
  <2>2. CASE Begin
    <3>1. status' \subseteq Bits /\ chrg' \in ChrgSteps BY <2>2, <2>0 DEF Begin
    <3> QED BY <2>2, <2>0, <3>1, RoundStep DEF Begin
  <2>3. CASE Confirm
    <3>1. status' \subseteq Bits BY <2>3, <2>0 DEF Confirm
    <3>2. /\ ~wait /\ Idle /\ turn' \in 0..1 /\ UNCHANGED SendChkFlg /\ rmw' = NoLoad
          /\ revived' \in BOOLEAN
      BY <2>3 DEF Confirm
    <3>3. CASE SendChkFlg
      <4>1. UNCHANGED chrg /\ Round({SendChrgReady}, init) BY <2>3, <3>3 DEF Confirm
      <4> QED BY <2>0, <3>1, <3>2, <4>1, RoundStep
    <3>4. CASE ~SendChkFlg
      <4>1. chrg' = "handsh" /\ Round({ChckSeccStat}, init) BY <2>3, <3>4 DEF Confirm
      <4> QED BY <2>0, <3>1, <3>2, <4>1, RoundStep
    <3> QED BY <3>3, <3>4
  <2>4. CASE SendStop BY <2>4, <2>0, RoundStep DEF SendStop, Steady
  <2>5. CASE Start
    <3>1. /\ ~wait /\ Idle /\ turn' \in 0..1 /\ UNCHANGED <<SendChkFlg, rmw, status, revived>>
      BY <2>5 DEF Start, Steady
    <3>2. CASE SendChkFlg
      <4>1. UNCHANGED chrg /\ Round({SendChrgReady}, "done") BY <2>5, <3>2 DEF Start
      <4> QED BY <2>0, <3>1, <4>1, RoundStep
    <3>3. CASE ~SendChkFlg
      <4>1. chrg' = "handsh" /\ Round({ChckSeccStat}, "done") BY <2>5, <3>3 DEF Start
      <4> QED BY <2>0, <3>1, <4>1, RoundStep
    <3> QED BY <3>2, <3>3
  <2>6. CASE Handshake
    <3>1. chrg' \in ChrgSteps /\ SendChkFlg' \in BOOLEAN BY <2>6, <2>0 DEF Handshake
    <3> QED BY <2>6, <2>0, <3>1, RoundStep DEF Handshake, Steady
  <2>7. ASSUME NEW q \in Reads \cup Writes, Supervise(q) PROVE IInv'
    BY <2>7, <2>0, RoundStep DEF Supervise, Steady
  <2> QED BY <1>8, <2>1, <2>2, <2>3, <2>4, <2>5, <2>6, <2>7 DEF ChrgSecc
<1> QED BY <1>1, <1>3, <1>4, <1>5, <1>6, <1>7, <1>8 DEF ReqTask

-----------------------------------------------------------------------------
(* The read task *)

\* An answer in the sequence of answers is one of them.
LEMMA HeadType ==
  ASSUME flight \in Seq(Answers), flight # <<>>
  PROVE  /\ Head(flight) \in Answers /\ Tail(flight) \in Seq(Answers)
         /\ Len(flight) \in Nat /\ Len(Tail(flight)) = Len(flight) - 1
OBVIOUS

\* The first half of an answer is kept.
LEMMA ReadHalfStep == ASSUME IInv, ReadHalf PROVE IInv'
<1>1. /\ flight # <<>> /\ cont' = TRUE /\ flight' = [flight EXCEPT ![1].half = TRUE]
      /\ UNCHANGED <<ReadTx, WriteTx, wait, rebootCnt, modem, faults, lates, overtaken>>
      /\ UNCHANGED <<rx, parse, misfiled>> /\ UNCHANGED stepVars /\ UNCHANGED status
      /\ UNCHANGED layerVars /\ UNCHANGED hangs
  BY DEF ReadHalf
<1>2. flight' \in Seq(Answers) /\ Len(flight') = Len(flight)
  <2>1. flight \in Seq(Answers) BY DEF IInv, LineInv
  <2>2. 1 \in DOMAIN flight /\ flight[1] \in Answers BY <1>1, <2>1
  <2>3. [flight[1] EXCEPT !.half = TRUE] \in Answers BY <2>2 DEF Answers
  <2> QED BY <1>1, <2>1, <2>2, <2>3
<1>3. LineInv' BY <1>1, <1>2 DEF IInv, LineInv
<1>4. StepInv' BY <1>1 DEF IInv, StepInv, stepVars, layerVars
<1>5. Punctual'
  <2>1. DOMAIN flight' = DOMAIN flight /\ \A i \in DOMAIN flight : flight'[i].q = flight[i].q
    <3>1. flight \in Seq(Answers) BY DEF IInv, LineInv
    <3>2. \A i \in DOMAIN flight : flight[i] \in Answers BY <3>1
    <3>3. \A i \in DOMAIN flight : i # 1 => flight'[i] = flight[i] BY <1>1, <3>1
    <3>4. 1 \in DOMAIN flight BY <1>1, <3>1
    <3>5. flight'[1] = [flight[1] EXCEPT !.half = TRUE] BY <1>1, <3>4
    <3>6. flight'[1].q = flight[1].q BY <3>2, <3>4, <3>5 DEF Answers
    <3>7. DOMAIN flight' = DOMAIN flight BY <1>1
    <3> QED BY <3>3, <3>6, <3>7
  <2> QED BY <1>1, <2>1 DEF IInv, Punctual
<1> QED BY <1>1, <1>3, <1>4, <1>5
        DEF IInv, ReadInv, LayerInv, ParseFits, StatusIsStatus, layerVars

\* An answer is accepted only if it is as long as the last read, or acknowledges the last write.
LEMMA ReadAnswerStep == ASSUME IInv, ReadAnswer PROVE IInv'
<1> DEFINE a == Head(flight)
<1>1. /\ parse = NoAnswer /\ flight # <<>> /\ flight' = Tail(flight) /\ cont' = FALSE
      /\ UNCHANGED <<ReadTx, WriteTx, modem, faults, stepVars, rx, misfiled,
                     layerVars, status, lates, hangs, overtaken>>
  BY DEF ReadAnswer
<1>2. /\ a \in Answers /\ flight' \in Seq(Answers)
      /\ Len(flight) \in Nat /\ Len(flight') = Len(flight) - 1
  BY <1>1, HeadType DEF IInv, LineInv
<1>3. \/ Accepts(a) /\ rebootCnt' = 0 /\ wait' = FALSE /\ parse' = a
      \/ UNCHANGED <<rebootCnt, wait, parse>>
  BY DEF ReadAnswer
<1>4. LineInv'
  <2>1. Len(flight') <= lates' + (IF wait' THEN 1 ELSE 0)
    <3>1. Len(flight) <= lates + (IF wait THEN 1 ELSE 0) /\ lates \in Nat /\ wait \in BOOLEAN
      BY SeccAssumption DEF IInv, LineInv
    <3>2. CASE wait' BY <1>1, <1>2, <1>3, <3>1, <3>2
    <3>3. CASE ~wait' BY <1>1, <1>2, <1>3, <3>1, <3>3
    <3> QED BY <3>2, <3>3
  <2>2. /\ wait' \in BOOLEAN /\ rebootCnt' \in 0..MaxSilent /\ (wait' => rebootCnt' < MaxSilent)
    <3>1. MaxSilent \in Nat /\ MaxSilent > 0 BY SeccAssumption
    <3>2. CASE rebootCnt' = 0 /\ wait' = FALSE
      <4>1. rebootCnt' \in 0..MaxSilent BY <3>1, <3>2
      <4>2. wait' \in BOOLEAN /\ ~wait' BY <3>2
      <4> QED BY <4>1, <4>2
    <3>3. CASE UNCHANGED <<rebootCnt, wait>> BY <3>1, <3>3 DEF IInv, LineInv
    <3> QED BY <1>3, <3>2, <3>3
  <2> QED BY <1>1, <1>2, <2>1, <2>2 DEF IInv, LineInv
<1>5. StepInv' BY <1>1 DEF IInv, StepInv, stepVars, layerVars
<1>6. ReadInv' /\ LayerInv' /\ StatusIsStatus'
  BY <1>1, <1>2, <1>3 DEF IInv, ReadInv, LayerInv, StatusIsStatus, layerVars
<1>7. ParseFits'
  <2>1. CASE parse' = NoAnswer BY <2>1 DEF ParseFits
  <2>2. CASE parse' # NoAnswer
    <3>1. Accepts(a) /\ parse' = a BY <1>1, <1>3, <2>2
    <3>2. a.q.fn = "read" => ReadTx # NoTx /\ a.q.len = ReadTx.len BY <3>1 DEF Accepts
    <3> QED BY <1>1, <3>1, <3>2 DEF IInv, LineInv, ParseFits
  <2> QED BY <2>1, <2>2
<1>8. Punctual'
  <2>1. /\ 1 \in DOMAIN flight /\ a = flight[1]
        /\ \A i \in DOMAIN flight' : i + 1 \in DOMAIN flight /\ flight'[i] = flight[i + 1]
    BY <1>1, <1>2, HeadType DEF IInv, LineInv
  <2>2. parse' \in {a, NoAnswer} BY <1>1, <1>3
  <2> QED BY <1>1, <2>1, <2>2 DEF IInv, Punctual
<1> QED BY <1>4, <1>5, <1>6, <1>7, <1>8 DEF IInv

\* An acknowledgement changes SendChkFlg only.
LEMMA AcknowledgeStep == ASSUME IInv, Acknowledge PROVE IInv'
<1>1. /\ SendChkFlg' = FALSE /\ parse' = NoAnswer
      /\ UNCHANGED <<txVars, init, chrg, turn, vasReadCd, rmw, rx, misfiled, cont, layerVars, status,
                     lates, hangs, overtaken>>
  BY DEF Acknowledge
<1>2. LineInv' BY <1>1 DEF IInv, LineInv, txVars
<1>3. StepInv' /\ ReadInv' /\ LayerInv' BY <1>1 DEF IInv, StepInv, ReadInv, LayerInv, layerVars
<1>4. ParseFits' /\ Punctual' /\ StatusIsStatus'
  BY <1>1 DEF IInv, ParseFits, Punctual, StatusIsStatus, txVars
<1> QED BY <1>2, <1>3, <1>4 DEF IInv

\* The lengths tell the status read from every other one but a last VAS chunk of six.
LEMMA StatusAlone ==
  ASSUME NEW q \in Reads, q.len = 6
  PROVE  q = ChckSeccStat \/ q = Read("vas", 6)
BY SeccAssumption DEF Reads, Read, ReadReady, ChckSeccStat, ChckSeccSoC, ChkVasData,
       ReadVasEnable, MAX_LEN

\* Of the reads only the status read reaches the state of the modem.
LEMMA CodeOnlyFromStatus ==
  ASSUME NEW q \in Reads, "code" \in Filed(q.reg, q.len)
  PROVE  q = ChckSeccStat
BY SeccAssumption DEF Filed, FieldAt, Place, Reads, Read, ReadReady, ChckSeccStat, ChckSeccSoC, ChkVasData,
       ReadVasEnable

\* Filing an answer keeps the types, and without an overtaken parse a state comes from a status.
LEMMA ParsRxDataStep == ASSUME IInv, ParsRxData PROVE IInv'
<1> DEFINE right == parse.q.reg = ReadTx.reg
           fields == Filed(ReadTx.reg, parse.q.len)
<1>1. /\ parse # NoAnswer /\ parse \in Answers /\ parse' = NoAnswer
      /\ UNCHANGED <<txVars, init, chrg, turn, SendChkFlg, rmw, cont, layerVars, status, lates,
                     hangs, overtaken>>
  BY DEF ParsRxData, IInv, ReadInv
<1>2. rx' \in [ready : BOOLEAN, code : Codes, err : BOOLEAN, vas : BOOLEAN]
  <2>1. rx \in [ready : BOOLEAN, code : Codes, err : BOOLEAN, vas : BOOLEAN]
        /\ parse \in Answers
    BY <1>1 DEF IInv, ReadInv
  <2>2. PICK ready \in (IF "ready" \in fields THEN IF right THEN {parse.code # 0} ELSE BOOLEAN
                        ELSE {rx.ready}),
             code \in (IF "code" \in fields THEN IF right THEN {parse.code} ELSE Codes
                       ELSE {rx.code}),
             err \in (IF "err" \in fields THEN IF right THEN {FALSE} ELSE BOOLEAN
                      ELSE {rx.err}),
             vas \in (IF "vas" \in fields THEN IF right THEN {parse.vas} ELSE BOOLEAN
                      ELSE {rx.vas}) :
             rx' = [ready |-> ready, code |-> code, err |-> err, vas |-> vas]
    BY DEF ParsRxData
  <2>3. ready \in BOOLEAN /\ err \in BOOLEAN /\ vas \in BOOLEAN BY <2>1, <2>2 DEF Answers
  <2>4. code \in Codes BY <2>1, <2>2 DEF Answers
  <2> QED BY <2>2, <2>3, <2>4
<1>3. vasReadCd' \in 0..VasChunks
  <2>1. vasReadCd' = 1 \/ vasReadCd' = vasReadCd \/ vasReadCd' = NextChunk BY DEF ParsRxData
  <2> QED BY <2>1, SeccAssumption DEF IInv, StepInv, NextChunk
<1>4. misfiled' = misfiled \cup (IF "code" \in fields /\ ~right THEN {parse.q} ELSE {})
      /\ parse.q.fn = "read" /\ parse.q \in Reads
  <2>1. parse.q.fn = "read" BY DEF ParsRxData
  <2> QED BY <1>1, <2>1, ParseFn, Functions DEF ParsRxData
<1>5. StatusIsStatus'
  <2> SUFFICES ASSUME "read" \notin overtaken, "code" \in fields, ~right
               PROVE  lates # 0 /\ parse.q = Read("vas", 6)
    BY <1>1, <1>4 DEF IInv, StatusIsStatus
  <2>1. ReadTx \in Reads /\ parse.q.len = ReadTx.len BY <1>1, <1>4 DEF IInv, ParseFits
  <2>2. ReadTx = ChckSeccStat BY <2>1, CodeOnlyFromStatus
  <2>3. parse.q.len = 6 BY <2>1, <2>2 DEF ChckSeccStat, Read
  <2>4. parse.q = Read("vas", 6) BY <1>4, <2>2, <2>3, StatusAlone
  <2>5. lates # 0 BY <1>1, <1>4 DEF IInv, Punctual
  <2> QED BY <2>4, <2>5
<1>6. LineInv' BY <1>1 DEF IInv, LineInv, txVars
<1>7. StepInv' BY <1>1, <1>3 DEF IInv, StepInv, layerVars
<1>8. ReadInv' BY <1>1, <1>2, <1>4 DEF IInv, ReadInv
<1>9. LayerInv' /\ ParseFits' /\ Punctual'
  BY <1>1 DEF IInv, LayerInv, ParseFits, Punctual, layerVars, txVars
<1> QED BY <1>5, <1>6, <1>7, <1>8, <1>9 DEF IInv

-----------------------------------------------------------------------------
(* The layers and the modem *)

\* The layers change the status word and restart the initialisation, nothing of the line.
LEMMA LayerStep == ASSUME IInv, Layer PROVE IInv'
<1>1. Layers
  BY DEF Layer, CardWaitEnter, ChargeOnEnter, ChargeOnLeave, MainOnEnter
<1>2. LineInv' /\ ReadInv' /\ ParseFits' /\ Punctual' /\ StatusIsStatus'
  BY <1>1 DEF IInv, LineInv, ReadInv, ParseFits, Punctual, StatusIsStatus, Layers, txVars, readVars
<1>3. status' \subseteq Bits /\ init' \in InitSteps /\ revived' \in BOOLEAN
  BY DEF Layer, CardWaitEnter, ChargeOnEnter, ChargeOnLeave, MainOnEnter, IInv, StepInv, Bits,
         InitSteps
<1>4. StepInv' BY <1>1, <1>3 DEF IInv, StepInv, Layers
<1>5. session' \in {"idle", "wait", "charge", "over"} /\ starts' \in 0..MaxStarts
  <2>1. CASE CardWaitEnter BY <2>1, SeccAssumption DEF CardWaitEnter, IInv, LayerInv
  <2>2. CASE ChargeOnEnter \/ ChargeOnLeave \/ MainOnEnter
    BY <2>2 DEF ChargeOnEnter, ChargeOnLeave, MainOnEnter, IInv, LayerInv
  <2> QED BY <2>1, <2>2 DEF Layer
<1>6. LayerInv' BY <1>1, <1>5 DEF IInv, LayerInv, Layers
<1> QED BY <1>2, <1>4, <1>6 DEF IInv

\* The modem and the line change the modem, the answers on their way and what may go wrong.
LEMMA ModemStep == ASSUME IInv, Modem PROVE IInv'
<1>1. UNCHANGED <<ReadTx, WriteTx, wait, rebootCnt, stepVars, readVars, layerVars, status, lates,
                  overtaken>>
  BY DEF Modem, ModemMoves, CarStops, ModemBlips, ModemHangs, RestLost, ModemGoes
<1>2. StepInv' /\ ReadInv' /\ ParseFits' /\ StatusIsStatus'
  BY <1>1 DEF IInv, StepInv, ReadInv, ParseFits, StatusIsStatus, stepVars, readVars, layerVars
<1>3. hangs' \in 0..MaxHangs
  <2>1. CASE ModemHangs BY <2>1, SeccAssumption DEF ModemHangs, Spare, IInv, LayerInv
  <2>2. CASE ~ModemHangs
    BY <2>2 DEF Modem, ModemMoves, CarStops, ModemBlips, RestLost, ModemGoes, IInv, LayerInv
  <2> QED BY <2>1, <2>2
<1>4. LayerInv' BY <1>1, <1>3 DEF IInv, LayerInv, layerVars
<1>5. modem' \in [code : Codes, vas : BOOLEAN, hung : BOOLEAN, told : SUBSET Bits]
  <2>1. modem \in [code : Codes, vas : BOOLEAN, hung : BOOLEAN, told : SUBSET Bits]
    BY DEF IInv, LineInv
  <2>2. ASSUME NEW c \in Codes, modem' = [modem EXCEPT !.code = c]
        PROVE  modem' \in [code : Codes, vas : BOOLEAN, hung : BOOLEAN, told : SUBSET Bits]
    BY <2>1, <2>2
  <2>3. CASE ModemMoves \/ CarStops \/ ModemBlips
    <3>1. \E c \in Codes : modem' = [modem EXCEPT !.code = c]
      BY <2>3 DEF ModemMoves, CarStops, ModemBlips, ModemGoes, Codes
    <3> QED BY <2>2, <3>1
  <2>4. CASE ModemHangs BY <2>1, <2>4 DEF ModemHangs
  <2>5. CASE RestLost BY <2>1, <2>5 DEF RestLost
  <2> QED BY <2>3, <2>4, <2>5 DEF Modem
<1>6. faults' \in 0..MaxFaults
  <2>1. CASE faults' = faults + 1 /\ Spare(faults, MaxFaults)
    BY <2>1, SeccAssumption DEF Spare, IInv, LineInv
  <2>2. CASE UNCHANGED faults BY <2>2 DEF IInv, LineInv
  <2> QED BY <2>1, <2>2 DEF Modem, ModemMoves, CarStops, ModemBlips, ModemHangs, RestLost
<1>7. flight' \in Seq(Answers) /\ Len(flight') <= lates' + (IF wait' THEN 1 ELSE 0)
  <2>1. CASE UNCHANGED flight BY <1>1, <2>1 DEF IInv, LineInv
  <2>2. CASE RestLost
    <3>1. flight # <<>> /\ flight' = Tail(flight) BY <2>2 DEF RestLost
    <3>2. /\ flight' \in Seq(Answers) /\ Len(flight) \in Nat /\ Len(flight') = Len(flight) - 1
      BY <3>1, HeadType DEF IInv, LineInv
    <3>3. Len(flight) <= lates + (IF wait THEN 1 ELSE 0) /\ lates \in Nat /\ wait \in BOOLEAN
      BY SeccAssumption DEF IInv, LineInv
    <3>4. Len(flight') <= lates + (IF wait THEN 1 ELSE 0)
      <4> DEFINE room == lates + (IF wait THEN 1 ELSE 0)
      <4>1. room \in Nat /\ Len(flight) <= room BY <3>3
      <4> QED BY <3>2, <4>1
    <3>5. wait' = wait /\ lates' = lates BY <1>1
    <3> QED BY <3>2, <3>4, <3>5
  <2> QED BY <2>1, <2>2 DEF Modem, ModemMoves, CarStops, ModemBlips, ModemHangs, ModemGoes
<1>8. LineInv' BY <1>1, <1>5, <1>6, <1>7 DEF IInv, LineInv
<1>9. Punctual'
  <2>1. CASE UNCHANGED flight BY <1>1, <2>1 DEF IInv, Punctual, readVars
  <2>2. CASE RestLost
    <3>1. flight # <<>> /\ flight' = Tail(flight) BY <2>2 DEF RestLost
    <3>2. \A i \in DOMAIN flight' : i + 1 \in DOMAIN flight /\ flight'[i] = flight[i + 1]
      BY <3>1, HeadType DEF IInv, LineInv
    <3> QED BY <1>1, <3>2 DEF IInv, Punctual, readVars
  <2> QED BY <2>1, <2>2 DEF Modem, ModemMoves, CarStops, ModemBlips, ModemHangs, ModemGoes
<1> QED BY <1>2, <1>4, <1>8, <1>9 DEF IInv

-----------------------------------------------------------------------------
(* The theorems *)

\* SeccInit establishes the invariant.
LEMMA InitInv == Init => IInv
<1> SUFFICES ASSUME Init PROVE IInv OBVIOUS
<1> USE DEF Init
<1>1. flight \in Seq(Answers) /\ Len(flight) = 0 OBVIOUS
<1>2. Cold \in [code : Codes, vas : BOOLEAN, hung : BOOLEAN, told : SUBSET Bits]
  BY DEF Cold, Codes
<1>3. 0 \in 0..MaxSilent /\ 0 \in 0..MaxFaults /\ 0 \in 0..MaxLates /\ 0 \in 0..MaxHangs
      /\ 0 \in 0..MaxStarts /\ 0 \in 0..VasChunks /\ 0 < MaxSilent
  BY SeccAssumption
<1>4. LineInv
  <2>1. wait \in BOOLEAN /\ ~wait /\ overtaken \subseteq {"read", "write"} OBVIOUS
  <2>2. Len(flight) <= lates + (IF wait THEN 1 ELSE 0) BY <1>1, <2>1
  <2>3. /\ rebootCnt \in 0..MaxSilent /\ faults \in 0..MaxFaults /\ lates \in 0..MaxLates
        /\ ReadTx \in Reads \cup {NoTx} /\ WriteTx \in Writes \cup {NoTx}
    BY <1>3
  <2>4. modem \in [code : Codes, vas : BOOLEAN, hung : BOOLEAN, told : SUBSET Bits] BY <1>2
  <2> QED BY <1>1, <2>1, <2>2, <2>3, <2>4 DEF LineInv
<1>5. StepInv
  <2>1. init \in InitSteps /\ chrg \in ChrgSteps BY DEF InitSteps, ChrgSteps
  <2>2. turn \in 0..1 /\ vasReadCd \in 0..VasChunks BY <1>3
  <2>3. SendChkFlg \in BOOLEAN /\ status \subseteq Bits /\ revived \in BOOLEAN OBVIOUS
  <2>4. rmw \in [why : Whys, bits : SUBSET Bits] BY NoLoadType
  <2> QED BY <2>1, <2>2, <2>3, <2>4 DEF StepInv
<1>6. ReadInv BY DEF ReadInv, Codes
<1>7. LayerInv /\ ParseFits /\ Punctual /\ StatusIsStatus
  BY <1>1, <1>3 DEF LayerInv, ParseFits, Punctual, StatusIsStatus
<1> QED BY <1>4, <1>5, <1>6, <1>7 DEF IInv

\* A stutter keeps it.
LEMMA StutterStep == ASSUME IInv, UNCHANGED vars PROVE IInv'
BY DEF IInv, LineInv, StepInv, ReadInv, LayerInv, ParseFits, Punctual, StatusIsStatus, vars, txVars, stepVars,
       readVars, layerVars

\* Every reachable state satisfies it.
THEOREM Invariance == Spec => []IInv
<1>1. IInv /\ [Next]_vars => IInv'
  BY ReqTaskStep, ReadAnswerStep, AcknowledgeStep, ParsRxDataStep, ReadHalfStep, LayerStep, ModemStep, StutterStep
     DEF Next, ReadTask
<1> QED BY <1>1, InitInv, PTL DEF Spec

\* The tasks, the layers and the line keep every type: the polls are counted and reset, a VAS
\* record is not read past its last chunk, and no more answers than one beside the late ones are
\* on their way.
THEOREM TypeCorrect == Spec => []TypeOK
BY Invariance, InvTypes, PTL

\* Whatever is lost or cut in two, the state that drives the charging (SeccRxData.stcode) is read
\* from the status registers; the one late answer that can be taken for it is a last VAS chunk of
\* six registers.
THEOREM StatusFromStatus == Spec => []StatusIsStatus
<1>1. IInv => StatusIsStatus BY DEF IInv
<1> QED BY <1>1, Invariance, PTL
=============================================================================
