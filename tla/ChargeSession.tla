--------------------------- MODULE ChargeSession ---------------------------
(***************************************************************************)
(* One charging session at the charger: the scene that switches layers,    *)
(* the enter and leave handlers of the main, card-wait, connect, charge,   *)
(* finish and disconnect layers, and the threads that act on them without  *)
(* a lock: control pilot, emergency button, charge monitoring and card     *)
(* reader, fault monitoring, order sequence, top timer, card-wait task,    *)
(* status task and the OCPP client.                                        *)
(*                                                                         *)
(* ituLayerGoto may be called by any thread.  It only queues the Leave and *)
(* Enter handlers; the scene thread runs them in order, and the handlers   *)
(* sleep.  Code between two sleeps is one step, with two exceptions.  A    *)
(* 6 V call of the charge listener reads its guards in one step and closes *)
(* the contactor in a later one (AudioPlay, which takes a mutex, is        *)
(* between).  GotoNextLayerOnCharge tests bLayerChargeFlg and goes to the  *)
(* finish layer in one step and resets the flag in a later one.            *)
(***************************************************************************)
EXTENDS Integers, Sequences, FiniteSets

CONSTANTS
  Voltages,             \* the pilot levels the car shows, with "12V" among them
  Plugged,              \* the level when the charger boots
  StopOnDisconnect,     \* CfgKeyVal[13], StopTransactionOnEVSideDisconnect
  MaxMoves,             \* bound: changes of the pilot level
  MaxPresses,           \* bound: moves of the emergency button
  MaxRemotes,           \* bound: remote starts and stops accepted, starts refused
  MaxFaults,            \* bound: faults of the current, the voltage or the meter
  MaxResets,            \* bound: reset requests accepted
  MaxStrays,            \* bound: gotos issued for a layer that is no longer shown
  MaxActs               \* bound: all of these together

ASSUME SessionAssumption ==
  /\ Voltages \subseteq {"12V", "9V", "6V", "unknown"} /\ "12V" \in Voltages
  /\ Plugged \in Voltages
  /\ StopOnDisconnect \in BOOLEAN
  /\ MaxMoves \in Nat /\ MaxPresses \in Nat /\ MaxRemotes \in Nat /\ MaxFaults \in Nat
  /\ MaxResets \in Nat /\ MaxStrays \in Nat /\ MaxActs \in Nat

VARIABLES
  visible, queue, pos, step,      \* the scene: layer shown, action queue, handler running
  missed,                         \* history: the main layer is shown, its Enter not to come
  cable, listener, old,           \* the pilot: level, sCh1CPListener, sCh1OldVoltage
  contactor, sCharging,           \* MCOn, sCharging
  bLayerChargeFlg, btnState, StartTimeCheck, chargecomp_stop, stime, monitoring,
  app_order, EmgControl, emgButton,
  req,                            \* flags between threads (Flags)
  cpStatus, cpStatChk,
  timer, waiting, toStart, toConnect,
  bHomeLayerChk,
  pc,                             \* where each thread is
  h,                              \* history: what properties read, no action does
  left                            \* what remains of the bounds

scene   == <<visible, queue, pos, step, missed>>
pilot   == <<cable, listener, old>>
charge  == <<bLayerChargeFlg, btnState, StartTimeCheck, chargecomp_stop, stime, monitoring>>
emg     == <<EmgControl, emgButton>>
status  == <<cpStatus, cpStatChk>>
waits   == <<timer, waiting, toStart, toConnect>>
vars    == <<scene, pilot, contactor, sCharging, charge, app_order, emg, req, status, waits,
             bHomeLayerChk, pc, h, left>>

-----------------------------------------------------------------------------
(* Values *)

Layers == {"main", "cardwait", "connect", "charge", "finish", "disconnect"}

\* APP_ORDER_..., in the order of the enumeration: handlers compare them
WAIT == 1
KAKAO_QR == 3
REMOTE_CHECK == 5
CUSTOMER_AUTH == 6
CONNECTOR_SELECT == 7
PAYMENT_METHOD == 9
CHARGE_INPUT == 10
CHARGE_READY == 11
CHARGING == 12
CHARGING_STOP == 13
CHARGE_END == 14
CONNECT_OUT == 17
FINISH == 18

Threads == {"cp", "stopper", "fault", "order", "wait", "status", "top", "scene"}

\* start, asked, refused: bReqStartTsNo, a StartTransaction under way, startTsQ.faultChargFlg;
\* stopTs, sent: bReqStopTsFlg, a StopTransaction under way; power: the stop reason PowerLoss
\* ChargeOnEnter gives beforehand, with chargingstatus's bit of a charge
Flags == {"rmtStart", "rmtStop", "reset", "start", "asked", "refused", "stopTs", "sent", "power"}

\* a 6 V call that has read its guards and not yet closed the contactor
Closing == {"start", "resume"}

\* a thread that has gone to the finish layer and not yet reset bLayerChargeFlg; "parted" is the
\* listener's call that goes on after it
Between == {"passed", "parted"}

Handlers == Layers \X {"Enter", "Leave", "Stop"}

SceneType ==
  /\ visible \in Layers /\ queue \in Seq(Handlers) /\ pos \in 0..Len(queue) /\ step \in 0..3
  /\ missed \in BOOLEAN

FlagType ==
  /\ contactor \in BOOLEAN /\ sCharging \in BOOLEAN /\ bLayerChargeFlg \in BOOLEAN
  /\ StartTimeCheck \in BOOLEAN /\ chargecomp_stop \in BOOLEAN /\ monitoring \in BOOLEAN
  /\ EmgControl \in BOOLEAN /\ emgButton \in BOOLEAN /\ cpStatChk \in BOOLEAN
  /\ waiting \in BOOLEAN /\ toStart \in BOOLEAN /\ toConnect \in BOOLEAN
  /\ bHomeLayerChk \in BOOLEAN

Budgets == [moves : 0..MaxMoves, presses : 0..MaxPresses, remotes : 0..MaxRemotes,
            faults : 0..MaxFaults, resets : 0..MaxResets, strays : 0..MaxStrays]

DataType ==
  /\ cable \in Voltages /\ old \in Voltages \cup {"unknown"}
  /\ listener \in {"none", "ahead", "connect", "charge", "finish", "disconnect"}
  /\ btnState \in 0..1 /\ stime \in {"zero", "fresh", "old"} /\ app_order \in 0..FINISH
  /\ req \in SUBSET Flags
  /\ cpStatus \in {"AVAIL", "PREPARE", "CHARGING", "SUSPENDEDEV", "SUSPENDEDEVSE", "FINISH",
                  "FAULT"}
  /\ timer \in {"off", "card", "connect", "charge", "disconnect"}
  /\ left \in Budgets

Places == Closing \cup Between \cup
  {"idle", "started", "unplug", "unplugged", "stop", "finish", "seen", "ok", "fail", "remote",
   "astray"}

Histories == [overtaken : BOOLEAN, crossed : BOOLEAN, straight : BOOLEAN, stale : BOOLEAN,
              stops : 0..2, ended : {"no", "button", "remote", "other"}]

ThreadType == pc \in [Threads -> Places] /\ h \in Histories

TypeOK == SceneType /\ FlagType /\ DataType /\ ThreadType

NoHistory == [overtaken |-> FALSE, crossed |-> FALSE, straight |-> FALSE, stale |-> FALSE,
              stops |-> 0, ended |-> "no"]

\* After a boot: the main layer is to be entered and the pilot's level not yet seen.
Init ==
  /\ visible = "main" /\ queue = << <<"main", "Enter">> >> /\ pos = 0 /\ step = 0
  /\ missed = FALSE
  /\ cable = Plugged /\ listener = "none" /\ old = "unknown"
  /\ contactor = FALSE /\ sCharging = FALSE
  /\ bLayerChargeFlg = FALSE /\ btnState = 0 /\ StartTimeCheck = FALSE
  /\ chargecomp_stop = FALSE /\ stime = "zero" /\ monitoring = FALSE
  /\ app_order = 0 /\ EmgControl = FALSE /\ emgButton = FALSE /\ req = {}
  /\ cpStatus = "AVAIL" /\ cpStatChk = FALSE
  /\ timer = "off" /\ waiting = FALSE /\ toStart = FALSE /\ toConnect = FALSE
  /\ bHomeLayerChk = FALSE /\ pc = [t \in Threads |-> "idle"] /\ h = NoHistory
  /\ left = [moves |-> MaxMoves, presses |-> MaxPresses, remotes |-> MaxRemotes,
             faults |-> MaxFaults, resets |-> MaxResets, strays |-> MaxStrays]

-----------------------------------------------------------------------------
(* The scene.  An action already in the queue is not queued again, and the  *)
(* queue is emptied only when its last action has returned: an action that  *)
(* has already run in this flush still counts.                              *)

Queued(q, e) == IF \E i \in DOMAIN q : q[i] = e THEN q ELSE Append(q, e)

AfterGoto(q, from, to) == Queued(Queued(q, <<from, "Leave">>), <<to, "Enter">>)

\* In queue q the Enter of the main layer is still to return, and no charge layer's follows it.
MainToCome(q) ==
  \E i \in DOMAIN q :
    /\ q[i] = <<"main", "Enter">> /\ pos <= i
    /\ \A j \in DOMAIN q : q[j] = <<"charge", "Enter">> => j < i

Shows(l) ==
  /\ queue' = AfterGoto(queue, visible, l)
  /\ visible' = l
  /\ missed' = IF l = "main" THEN ~MainToCome(queue') ELSE missed

ituLayerGoto(l) == Shows(l) /\ UNCHANGED <<pos, step>>

\* a move of the pilot level counts one act, everything else two
Spent == (MaxMoves - left.moves) + 2 * ((MaxPresses - left.presses) + (MaxRemotes - left.remotes)
           + (MaxFaults - left.faults) + (MaxResets - left.resets) + (MaxStrays - left.strays))

CanSpend(count) == left[count] > 0 /\ Spent + (IF count = "moves" THEN 1 ELSE 2) <= MaxActs

Spend(count) == CanSpend(count) /\ left' = [left EXCEPT ![count] = @ - 1]

\* A goto issued for layer l: free while l is shown, else one of the strays
GotoFrom(l, to) ==
  /\ ituLayerGoto(to)
  /\ IF visible = l THEN UNCHANGED left
     ELSE Spend("strays")

Goes(t, where) == pc' = [pc EXCEPT ![t] = where]

\* What a thread does after GotoNextLayerOnCharge: the call for a pulled plug goes on, the order
\* task forgets the pause, the fault task reports a fault (or none: a meter that is not read)
GoesOn(t) ==
  /\ Goes(t, IF pc[t] \in {"unplug", "parted"} THEN "unplugged" ELSE "idle")
  /\ chargecomp_stop' = (chargecomp_stop /\ t # "order")
  /\ cpStatus' \in {cpStatus} \cup (IF t = "fault" THEN {"FAULT"} ELSE {})

Parts(t) == Goes(t, IF pc[t] = "unplug" THEN "parted" ELSE "passed")

\* Mutant: the charge layer goes home.
GotoNextLayerHome(t) ==
  /\ IF bLayerChargeFlg
     THEN ituLayerGoto("main") /\ Parts(t) /\ UNCHANGED <<chargecomp_stop, cpStatus>>
     ELSE UNCHANGED scene /\ GoesOn(t)
  /\ UNCHANGED bLayerChargeFlg

\* Thread t goes to the finish layer, once per charge layer.  The flag is reset by LayerPassed,
\* after the whole of ituLayerGoto: another thread may find it still set.
GotoNextLayerOnCharge(t) ==
  /\ IF bLayerChargeFlg
     THEN ituLayerGoto("finish") /\ Parts(t) /\ UNCHANGED <<chargecomp_stop, cpStatus>>
     ELSE UNCHANGED scene /\ GoesOn(t)
  /\ UNCHANGED bLayerChargeFlg

\* Mutant: bLayerChargeFlg stays set.
LayerPassedAgain(t) ==
  /\ pc[t] \in Between
  /\ GoesOn(t)
  /\ UNCHANGED <<scene, pilot, contactor, sCharging, bLayerChargeFlg, btnState, StartTimeCheck,
                 stime, monitoring, app_order, emg, req, cpStatChk, waits, bHomeLayerChk, h, left>>

LayerPassed(t) ==
  /\ pc[t] \in Between
  /\ bLayerChargeFlg' = FALSE /\ GoesOn(t)
  /\ UNCHANGED <<scene, pilot, contactor, sCharging, btnState, StartTimeCheck, stime, monitoring,
                 app_order, emg, req, cpStatChk, waits, bHomeLayerChk, h, left>>

\* Timing.  The rest of ituLayerGoto takes milliseconds: whoever has slept meanwhile, or loads a
\* sound, or answers a screen that has just changed, finds the flag reset.
Slept == \A t \in Threads : pc[t] \notin Between

At(l, ev, s) == pos > 0 /\ queue[pos] = <<l, ev>> /\ step = s

\* the handler sleeps and goes on at step s
Sleep(s) == step' = s /\ UNCHANGED <<visible, queue, pos, missed>>

\* the handler returns with the queue q, the next one starts or the flush ends
\* Mutant: the bound of the flush is off by one.
ReturnWithOneMore(q) ==
  IF pos <= Len(q)
  THEN queue' = q /\ pos' = pos + 1 /\ step' = 1
  ELSE queue' = <<>> /\ pos' = 0 /\ step' = 0

ReturnWith(q) ==
  IF pos < Len(q)
  THEN queue' = q /\ pos' = pos + 1 /\ step' = 1
  ELSE queue' = <<>> /\ pos' = 0 /\ step' = 0

Return == ReturnWith(queue) /\ UNCHANGED <<visible, missed>>

ituFlushActionQueue ==
  /\ pos = 0 /\ queue # <<>>
  /\ pos' = 1 /\ step' = 1
  /\ UNCHANGED <<visible, queue, missed, pilot, contactor, sCharging, charge, app_order, emg, req,
                 status, waits, bHomeLayerChk, pc, h, left>>

\* Mutant: the level already seen is not shown to the new listener.
SetListenerKeepsOld(l) == listener' = l /\ UNCHANGED <<cable, old>>

SetListener(l) == listener' = l /\ old' = "unknown" /\ UNCHANGED cable

MagneticContactorOff ==
  /\ contactor' = FALSE
  /\ h' = [h EXCEPT !.overtaken = @ \/ pc["cp"] \in Closing]

MagneticContactorOn == contactor' = TRUE

\* rmtStop is cleared: with the listener of the charge layer still installed nothing keeps a
\* charge the server has stopped from going on
StopForgotten ==
  h' = [h EXCEPT !.ended = IF @ = "remote" /\ listener = "charge" THEN "other" ELSE @]

-----------------------------------------------------------------------------
(* Layer handlers *)

MainOnEnter1 ==
  /\ At("main", "Enter", 1)
  /\ SetListener("ahead") /\ timer' = "off"
  /\ Sleep(2)
  /\ UNCHANGED <<contactor, sCharging, charge, app_order, emg, req, status, waiting, toStart,
                 toConnect, bHomeLayerChk, pc, h, left>>

\* Mutant: the main layer leaves the contactor alone.
MainOnEnter2Closed ==
  /\ At("main", "Enter", 2) /\ Slept
  /\ app_order' = WAIT /\ req' = req \ {"start"}
  /\ cpStatus' = IF cpStatChk THEN "PREPARE" ELSE "AVAIL"
  /\ bHomeLayerChk' = TRUE
  /\ Return
  /\ UNCHANGED <<pilot, sCharging, charge, emg, cpStatChk, waits, pc, contactor, h, left>>

MainOnEnter2 ==
  /\ At("main", "Enter", 2) /\ Slept
  /\ MagneticContactorOff
  /\ app_order' = WAIT /\ req' = req \ {"start"}
  /\ cpStatus' = IF cpStatChk THEN "PREPARE" ELSE "AVAIL"
  /\ bHomeLayerChk' = TRUE
  /\ Return
  /\ UNCHANGED <<pilot, sCharging, charge, emg, cpStatChk, waits, pc, left>>

MainOnLeave ==
  /\ At("main", "Leave", 1)
  /\ bHomeLayerChk' = FALSE
  /\ Return
  /\ UNCHANGED <<pilot, contactor, sCharging, charge, app_order, emg, req, status, waits, pc,
                 h, left>>

CardWaitEnter ==
  /\ At("cardwait", "Enter", 1)
  /\ toStart' = TRUE /\ toConnect' = TRUE
  /\ app_order' = CUSTOMER_AUTH /\ req' = req \ {"rmtStart"}
  /\ waiting' = TRUE /\ timer' = "card"
  /\ Return
  /\ UNCHANGED <<pilot, contactor, sCharging, charge, emg, status, bHomeLayerChk, pc, h, left>>

CardWaitLeave1 ==
  /\ At("cardwait", "Leave", 1)
  /\ waiting' = FALSE /\ timer' = "off" /\ toStart' = FALSE /\ toConnect' = FALSE
  /\ req' = req \ {"start"}
  /\ Sleep(2)
  /\ UNCHANGED <<pilot, contactor, sCharging, charge, app_order, emg, status, bHomeLayerChk, pc,
                 h, left>>

ConnectOnEnter1 ==
  /\ At("connect", "Enter", 1)
  /\ app_order' = CONNECTOR_SELECT
  /\ Sleep(2)
  /\ UNCHANGED <<pilot, contactor, sCharging, charge, emg, req, status, waits,
                 bHomeLayerChk, pc, h, left>>

ConnectOnEnter2 ==
  /\ At("connect", "Enter", 2) /\ Slept
  /\ timer' = "connect" /\ SetListener("connect")
  /\ Return
  /\ UNCHANGED <<contactor, sCharging, charge, app_order, emg, req, status, waiting, toStart,
                 toConnect, bHomeLayerChk, pc, h, left>>

ConnectOnLeave1 ==
  /\ At("connect", "Leave", 1)
  /\ timer' = "off"
  /\ Sleep(2)
  /\ UNCHANGED <<pilot, contactor, sCharging, charge, app_order, emg, req, status, waiting,
                 toStart, toConnect, bHomeLayerChk, pc, h, left>>

\* The charge layer is still shown when its Enter runs, nothing is queued behind it, and this
\* flush has not entered the finish layer (a goto there would be dropped as a duplicate).
Straight ==
  /\ visible = "charge" /\ pos = Len(queue)
  /\ \A i \in DOMAIN queue : queue[i] # <<"finish", "Enter">>

\* Mutant: StartTimeCheck is left as the last session had it.
ChargeOnEnterStale ==
  /\ At("charge", "Enter", 1)
  /\ IF EmgControl
     THEN Shows("finish") /\ pos' = pos /\ step' = 2 /\ Parts("scene")
     ELSE Return /\ UNCHANGED pc
  /\ bLayerChargeFlg' = TRUE
  /\ UNCHANGED StartTimeCheck /\ sCharging' = FALSE /\ btnState' = 0 /\ stime' = "zero"
  /\ monitoring' = TRUE /\ timer' = "charge" /\ app_order' = CHARGE_READY
  /\ SetListener("charge") /\ req' = req \cup {"power"}
  /\ h' = [NoHistory EXCEPT !.overtaken = pc["cp"] \in Closing \/ (h.overtaken /\ contactor),
                            !.straight = Straight]
  /\ UNCHANGED <<contactor, chargecomp_stop, emg, status, waiting, toStart, toConnect,
                 bHomeLayerChk, left>>

\* With the emergency button pressed the layer is left at once (UpdateStopGui).
ChargeOnEnter ==
  /\ At("charge", "Enter", 1)
  /\ IF EmgControl
     THEN Shows("finish") /\ pos' = pos /\ step' = 2 /\ Parts("scene")
     ELSE Return /\ UNCHANGED pc
  /\ bLayerChargeFlg' = TRUE
  /\ StartTimeCheck' = TRUE /\ sCharging' = FALSE /\ btnState' = 0 /\ stime' = "zero"
  /\ monitoring' = TRUE /\ timer' = "charge" /\ app_order' = CHARGE_READY
  /\ SetListener("charge") /\ req' = req \cup {"power"}
  /\ h' = [NoHistory EXCEPT !.overtaken = pc["cp"] \in Closing \/ (h.overtaken /\ contactor),
                            !.straight = Straight]
  /\ UNCHANGED <<contactor, chargecomp_stop, emg, status, waiting, toStart, toConnect,
                 bHomeLayerChk, left>>

ChargeOnLeave1 ==
  /\ At("charge", "Leave", 1)
  /\ chargecomp_stop' = FALSE /\ sCharging' = FALSE
  /\ contactor' = FALSE
  /\ h' = [h EXCEPT !.overtaken = @ \/ pc["cp"] \in Closing,
                    !.ended = IF btnState # 0 THEN "button"
                              ELSE IF "rmtStop" \in req THEN "remote" ELSE "other"]
  /\ Sleep(2)
  /\ UNCHANGED <<pilot, bLayerChargeFlg, btnState, StartTimeCheck, stime, monitoring, app_order,
                 emg, req, status, waits, bHomeLayerChk, pc, left>>

\* StopCharge has slept: the listener of the charge layer has been live meanwhile
ChargeOnLeave2 ==
  /\ At("charge", "Leave", 2) /\ Slept
  /\ sCharging' = FALSE /\ monitoring' = FALSE
  /\ Sleep(3)
  /\ UNCHANGED <<pilot, contactor, bLayerChargeFlg, btnState, StartTimeCheck, chargecomp_stop,
                 stime, app_order, emg, req, status, waits, bHomeLayerChk, pc, h, left>>

Ch2FinishOnEnter1 ==
  /\ At("finish", "Enter", 1) /\ Slept
  /\ app_order' = CHARGING_STOP /\ SetListener("finish")
  /\ req' = (req \cup {"stopTs"}) \ {"power"}
  /\ h' = [h EXCEPT !.stops = IF @ < 2 THEN @ + 1 ELSE @]
  /\ Sleep(2)
  /\ UNCHANGED <<contactor, sCharging, charge, emg, status, waits, bHomeLayerChk, pc, left>>

Ch2FinishOnLeave ==
  /\ At("finish", "Leave", 1)
  /\ req' = req \ {"rmtStop"} /\ StopForgotten
  /\ Return
  /\ UNCHANGED <<pilot, contactor, sCharging, charge, app_order, emg, status, waits,
                 bHomeLayerChk, pc, left>>

DisconnectOnEnter ==
  /\ At("disconnect", "Enter", 1)
  /\ app_order' = CONNECT_OUT /\ SetListener("disconnect")
  /\ timer' = IF EmgControl THEN timer ELSE "disconnect"
  /\ Return
  /\ UNCHANGED <<contactor, sCharging, charge, emg, req, status, waiting, toStart, toConnect,
                 bHomeLayerChk, pc, h, left>>

\* The stop button, confirmed: only a charge that has started is stopped here
ChargeStopOnDialog1 ==
  /\ At("charge", "Stop", 1)
  /\ IF sCharging
     THEN btnState' = 1 /\ app_order' = CHARGING_STOP /\ MagneticContactorOff
     ELSE UNCHANGED <<btnState, app_order, contactor, h>>
  /\ Sleep(2)
  /\ UNCHANGED <<pilot, sCharging, bLayerChargeFlg, StartTimeCheck, chargecomp_stop, stime,
                 monitoring, emg, req, status, waits, bHomeLayerChk, pc, left>>

ChargeStopOnDialog2 ==
  /\ At("charge", "Stop", 2) /\ Slept
  /\ sCharging' = IF btnState = 1 THEN FALSE ELSE sCharging
  /\ timer' = "off"
  /\ IF bLayerChargeFlg
     THEN Shows("finish") /\ pos' = pos /\ step' = 3 /\ Parts("scene")
     ELSE Return /\ UNCHANGED pc
  /\ UNCHANGED <<pilot, contactor, bLayerChargeFlg, btnState, StartTimeCheck, chargecomp_stop,
                 stime, monitoring, app_order, emg, req, status, waiting, toStart, toConnect,
                 bHomeLayerChk, h, left>>

\* a handler that has gone to the finish layer resets the flag and returns
HandlerParts ==
  /\ pc["scene"] \in Between
  /\ At("charge", "Enter", 2) \/ At("charge", "Stop", 3)
  /\ bLayerChargeFlg' = FALSE /\ Goes("scene", "idle")
  /\ Return
  /\ UNCHANGED <<pilot, contactor, sCharging, btnState, StartTimeCheck, chargecomp_stop, stime,
                 monitoring, app_order, emg, req, status, waits, bHomeLayerChk, h, left>>

\* handlers whose last sleep is over, and DisconnectOnLeave, which changes nothing here
HandlerReturns ==
  /\ \/ At("cardwait", "Leave", 2) \/ At("connect", "Leave", 2) \/ At("charge", "Leave", 3)
     \/ At("finish", "Enter", 2) \/ At("disconnect", "Leave", 1)
  /\ step > 1 => Slept
  /\ Return
  /\ UNCHANGED <<pilot, contactor, sCharging, charge, app_order, emg, req, status, waits,
                 bHomeLayerChk, pc, h, left>>

-----------------------------------------------------------------------------
(* The control pilot thread: a changed level is handed to the listener       *)

CPChanged(l, v) ==
  /\ pc["cp"] = "idle" /\ cable # old
  /\ listener = l /\ cable \in v
  /\ old' = cable /\ UNCHANGED <<cable, listener>>

\* Mutant: 12 V does not make the connector available.
CPListenerOnAheadSticks ==
  /\ CPChanged("ahead", {"12V", "9V", "6V"})
  /\ cpStatChk' = (cable # "12V")
  /\ cpStatus' = IF cable = "12V" THEN cpStatus ELSE "PREPARE"
  /\ UNCHANGED <<scene, contactor, sCharging, charge, app_order, emg, req, waits, bHomeLayerChk,
                 pc, h, left>>

CPListenerOnAhead ==
  /\ CPChanged("ahead", {"12V", "9V", "6V"})
  /\ cpStatChk' = (cable # "12V")
  /\ cpStatus' = IF cable = "12V" THEN "AVAIL" ELSE "PREPARE"
  /\ UNCHANGED <<scene, contactor, sCharging, charge, app_order, emg, req, waits, bHomeLayerChk,
                 pc, h, left>>

CPListenerOnConnect ==
  /\ CPChanged("connect", {"9V"})
  /\ GotoFrom("connect", "charge") /\ req' = req \cup {"start"}
  /\ UNCHANGED <<contactor, sCharging, charge, app_order, emg, status, waits, bHomeLayerChk, pc,
                 h>>

\* 12 V in the charge layer
CPUnplugged ==
  /\ CPChanged("charge", {"12V"}) /\ ~EmgControl
  /\ IF StopOnDisconnect
     THEN /\ chargecomp_stop' = FALSE /\ app_order' = CHARGING_STOP /\ MagneticContactorOff
          /\ Goes("cp", "unplug")
          /\ UNCHANGED <<stime, cpStatus>>
     ELSE /\ Goes("cp", "unplugged") /\ UNCHANGED app_order
          /\ IF contactor
             THEN /\ MagneticContactorOff /\ stime' = "fresh" /\ chargecomp_stop' = TRUE
                  /\ cpStatus' = "SUSPENDEDEV"
             ELSE UNCHANGED <<contactor, h, stime, chargecomp_stop, cpStatus>>
  /\ UNCHANGED <<scene, sCharging, bLayerChargeFlg, btnState, StartTimeCheck, monitoring, emg,
                 req, cpStatChk, waits, bHomeLayerChk, left>>

\* StopCharge has slept; then UpdateStopGui
CPUnplugStop ==
  /\ pc["cp"] = "unplug"
  /\ sCharging' = FALSE /\ GotoNextLayerOnCharge("cp")
  /\ UNCHANGED <<pilot, contactor, btnState, StartTimeCheck, stime, monitoring, app_order, emg,
                 req, cpStatChk, waits, bHomeLayerChk, h, left>>

\* A charge that has started goes to the finish layer; one that has not shows the
\* error box (TimeOutChargeStartWait), which first stops a ready or charging one
CPUnplugEnd ==
  /\ pc["cp"] = "unplugged"
  /\ IF ~sCharging /\ app_order \in {CHARGE_READY, CHARGING}
     THEN /\ MagneticContactorOff /\ Goes("cp", "stop")
          /\ UNCHANGED <<scene, bLayerChargeFlg, chargecomp_stop, cpStatus>>
     ELSE GotoNextLayerOnCharge("cp") /\ UNCHANGED <<contactor, h>>
  /\ UNCHANGED <<pilot, sCharging, btnState, StartTimeCheck, stime, monitoring, app_order, emg,
                 req, cpStatChk, waits, bHomeLayerChk, left>>

CPPaused ==
  /\ CPChanged("charge", {"9V"}) /\ ~EmgControl
  /\ sCharging /\ contactor
  /\ MagneticContactorOff /\ stime' = "fresh" /\ chargecomp_stop' = TRUE
  /\ UNCHANGED <<scene, sCharging, bLayerChargeFlg, btnState, StartTimeCheck, monitoring,
                 app_order, emg, req, status, waits, bHomeLayerChk, pc, left>>

CPUnknown ==
  /\ CPChanged("charge", {"unknown"}) /\ ~EmgControl
  /\ chargecomp_stop' = FALSE
  /\ UNCHANGED <<scene, contactor, sCharging, bLayerChargeFlg, btnState, StartTimeCheck, stime,
                 monitoring, app_order, emg, req, status, waits, bHomeLayerChk, pc, h, left>>

\* Mutant: the stop button is not looked at.
MayCloseNoButton == ~EmgControl /\ "rmtStop" \notin req

\* Mutant: the emergency button is not looked at.
MayCloseNoEmg == "rmtStop" \notin req /\ btnState = 0

\* 6 V: what the guards of the listener let through
MayClose == ~EmgControl /\ "rmtStop" \notin req /\ btnState = 0

CPRequested ==
  /\ CPChanged("charge", {"6V"}) /\ MayClose
  /\ ~sCharging \/ ~contactor
  /\ Goes("cp", IF sCharging THEN "resume" ELSE "start")
  /\ UNCHANGED <<scene, contactor, sCharging, charge, app_order, emg, req, status, waits,
                 bHomeLayerChk, h, left>>

CPStart ==
  /\ pc["cp"] = "start"
  /\ StartTimeCheck' = FALSE /\ app_order' = CHARGING
  /\ cpStatus' = IF StartTimeCheck THEN "CHARGING" ELSE cpStatus
  /\ MagneticContactorOn
  /\ Goes("cp", "started")
  /\ UNCHANGED <<scene, pilot, sCharging, bLayerChargeFlg, btnState, chargecomp_stop, stime,
                 monitoring, emg, req, cpStatChk, waits, bHomeLayerChk, h, left>>

CPStarted ==
  /\ pc["cp"] = "started"
  /\ sCharging' = TRUE /\ timer' = "off" /\ Goes("cp", "idle")
  /\ UNCHANGED <<scene, pilot, contactor, charge, app_order, emg, req, status, waiting, toStart,
                 toConnect, bHomeLayerChk, h, left>>

CPResume ==
  /\ pc["cp"] = "resume"
  /\ chargecomp_stop' = FALSE /\ stime' = "zero" /\ MagneticContactorOn
  /\ Goes("cp", "idle")
  /\ UNCHANGED <<scene, pilot, sCharging, bLayerChargeFlg, btnState, StartTimeCheck, monitoring,
                 app_order, emg, req, status, waits, bHomeLayerChk, h, left>>

CPListenerOnFinish ==
  /\ CPChanged("finish", {"12V"})
  /\ Goes("cp", "finish")
  /\ UNCHANGED <<scene, contactor, sCharging, charge, app_order, emg, req, status, waits,
                 bHomeLayerChk, h, left>>

CPFinished ==
  /\ pc["cp"] = "finish"
  /\ ituLayerGoto("main") /\ Goes("cp", "idle")
  /\ UNCHANGED <<pilot, contactor, sCharging, charge, app_order, emg, req, status, waits,
                 bHomeLayerChk, h, left>>

CPListenerOnDisconnect ==
  /\ CPChanged("disconnect", {"12V"})
  /\ timer' = "off" /\ app_order' = FINISH /\ ituLayerGoto("main")
  /\ UNCHANGED <<contactor, sCharging, charge, emg, req, status, waiting, toStart, toConnect,
                 bHomeLayerChk, pc, h, left>>

\* every other call of a listener returns without an effect
CPIgnored ==
  /\ \/ CPChanged("ahead", {"unknown"})
     \/ CPChanged("connect", Voltages \ {"9V"})
     \/ CPChanged("finish", Voltages \ {"12V"}) \/ CPChanged("disconnect", Voltages \ {"12V"})
     \/ CPChanged("charge", Voltages) /\ EmgControl
     \/ CPChanged("charge", {"9V"}) /\ ~(sCharging /\ contactor)
     \/ CPChanged("charge", {"6V"}) /\ (~MayClose \/ (sCharging /\ contactor))
  /\ UNCHANGED <<scene, contactor, sCharging, charge, app_order, emg, req, status, waits,
                 bHomeLayerChk, pc, h, left>>

-----------------------------------------------------------------------------
(* The emergency button thread *)

\* Mutant: a charge that runs is taken for an idle charger.
EmbPressedHome ==
  /\ emgButton /\ ~EmgControl
  /\ EmgControl' = TRUE /\ timer' = "off"
  /\ contactor' = FALSE
  /\ h' = [h EXCEPT !.overtaken = @ \/ pc["cp"] \in Closing]
  /\ CASE app_order \in CHARGING_STOP..CHARGING_STOP ->
            app_order' = CHARGE_END /\ ituLayerGoto("finish")
       [] app_order \in WAIT..CHARGING \cup {FINISH} ->
            app_order' = WAIT /\ ituLayerGoto("main")
       [] OTHER -> UNCHANGED <<app_order, scene>>
  /\ UNCHANGED <<pilot, sCharging, charge, emgButton, req, status, waiting, toStart, toConnect,
                 bHomeLayerChk, pc, left>>

EmbPressed ==
  /\ emgButton /\ ~EmgControl
  /\ EmgControl' = TRUE /\ timer' = "off"
  /\ contactor' = FALSE
  /\ h' = [h EXCEPT !.overtaken = @ \/ pc["cp"] \in Closing]
  /\ CASE app_order \in CHARGE_INPUT..CHARGING_STOP ->
            app_order' = CHARGE_END /\ ituLayerGoto("finish")
       [] app_order \in WAIT..PAYMENT_METHOD \cup {FINISH} ->
            app_order' = WAIT /\ ituLayerGoto("main")
       [] OTHER -> UNCHANGED <<app_order, scene>>
  /\ UNCHANGED <<pilot, sCharging, charge, emgButton, req, status, waiting, toStart, toConnect,
                 bHomeLayerChk, pc, left>>

EmbReleased ==
  /\ ~emgButton /\ EmgControl
  /\ EmgControl' = FALSE
  /\ UNCHANGED <<scene, pilot, contactor, sCharging, charge, app_order, emgButton, req, status,
                 waits, bHomeLayerChk, pc, h, left>>

-----------------------------------------------------------------------------
(* TSCT_ChargingStop, from the charge monitoring task and the card listener  *)
(* ("stopper"), from the fault monitoring task through its error box and     *)
(* from the status task on a reset request.                                  *)

StopBegins(t) ==
  /\ pc[t] = "idle"
  /\ MagneticContactorOff /\ Goes(t, "stop")
  /\ UNCHANGED <<scene, pilot, sCharging, charge, app_order, emg, req, status, waits,
                 bHomeLayerChk>>

TSCT_ChargingStop(t) ==
  /\ pc[t] = "stop"
  /\ app_order' = CHARGING_STOP /\ GotoNextLayerOnCharge(t)
  /\ UNCHANGED <<pilot, contactor, sCharging, btnState, StartTimeCheck, stime, monitoring, emg,
                 req, cpStatChk, waits, bHomeLayerChk, h, left>>

\* the same card, SOC, SECC, free time, network loss, a refused start: any of them, any time
LocalStop == monitoring /\ StopBegins("stopper") /\ UNCHANGED left

\* A refused StartTransaction, with CfgKeyVal[14] not set: the charge goes on
SuspendsEvse ==
  /\ monitoring /\ pc["stopper"] = "idle" /\ "refused" \in req
  /\ cpStatus' = "SUSPENDEDEVSE"
  /\ UNCHANGED <<scene, pilot, contactor, sCharging, charge, app_order, emg, req, cpStatChk, waits,
                 bHomeLayerChk, pc, h, left>>

\* Over-current, over- or undervoltage, or a meter that is not read: the error box first stops a
\* charge that is ready or running; the first three are then reported
FaultStops ==
  monitoring /\ app_order \in {CHARGE_READY, CHARGING} /\ StopBegins("fault") /\ Spend("faults")

FaultSeen ==
  /\ monitoring /\ app_order \notin {CHARGE_READY, CHARGING} /\ pc["fault"] = "idle"
  /\ cpStatus' = "FAULT" /\ Spend("faults")
  /\ UNCHANGED <<scene, pilot, contactor, sCharging, charge, app_order, emg, req, cpStatChk, waits,
                 bHomeLayerChk, pc, h>>

RemoteStopSeen ==
  monitoring /\ "rmtStop" \in req /\ StopBegins("stopper") /\ UNCHANGED left

ResetSeen ==
  "reset" \in req /\ cpStatus \in {"CHARGING", "PREPARE"} /\ StopBegins("status") /\ UNCHANGED left

\* not charging: the charger restarts
Reboots ==
  /\ pc["status"] = "idle" /\ "reset" \in req /\ cpStatus \notin {"CHARGING", "PREPARE"}
  /\ visible' = "main" /\ queue' = << <<"main", "Enter">> >> /\ pos' = 0 /\ step' = 0
  /\ missed' = FALSE
  /\ listener' = "none" /\ old' = "unknown"
  /\ contactor' = FALSE /\ sCharging' = FALSE
  /\ bLayerChargeFlg' = FALSE /\ btnState' = 0 /\ StartTimeCheck' = FALSE
  /\ chargecomp_stop' = FALSE /\ stime' = "zero" /\ monitoring' = FALSE
  /\ app_order' = 0 /\ EmgControl' = FALSE /\ req' = req \cap {"power"}
  /\ cpStatus' = "AVAIL" /\ cpStatChk' = FALSE
  /\ timer' = "off" /\ waiting' = FALSE /\ toStart' = FALSE /\ toConnect' = FALSE
  /\ bHomeLayerChk' = FALSE /\ pc' = [t \in Threads |-> "idle"] /\ h' = NoHistory
  /\ UNCHANGED <<cable, emgButton, left>>

-----------------------------------------------------------------------------
(* The order sequence task: a pause of the car of a minute ends the charge    *)

OrderSeesPause ==
  /\ pc["order"] = "idle" /\ chargecomp_stop
  /\ Goes("order", "seen")
  /\ UNCHANGED <<scene, pilot, contactor, sCharging, charge, app_order, emg, req, status, waits,
                 bHomeLayerChk, h, left>>

\* evc_get_time() - stime > 59, which a stime of 0 always satisfies
OrderDecides ==
  /\ pc["order"] = "seen"
  /\ IF stime = "fresh"
     THEN Goes("order", "idle") /\ UNCHANGED <<app_order, contactor, h>>
     ELSE app_order' = CHARGING_STOP /\ MagneticContactorOff /\ Goes("order", "stop")
  /\ UNCHANGED <<scene, pilot, sCharging, charge, emg, req, status, waits, bHomeLayerChk, left>>

OrderStops ==
  /\ pc["order"] = "stop"
  /\ sCharging' = FALSE /\ GotoNextLayerOnCharge("order")
  /\ UNCHANGED <<pilot, contactor, btnState, StartTimeCheck, stime, monitoring, app_order, emg,
                 req, cpStatChk, waits, bHomeLayerChk, h, left>>

MinutePasses ==
  /\ stime = "fresh" /\ stime' = "old"
  /\ UNCHANGED <<scene, pilot, contactor, sCharging, bLayerChargeFlg, btnState, StartTimeCheck,
                 chargecomp_stop, monitoring, app_order, emg, req, status, waits, bHomeLayerChk,
                 pc, h, left>>

-----------------------------------------------------------------------------
(* The top timer, the card-wait task and the status task *)

TimerLayer(t) == IF t = "card" THEN "cardwait" ELSE t

\* Timing.  The status task sleeps 1 s before it looks at the request, enough for the
\* scene to come to a sleep of its own, and 2 s before its goto; a timer and the
\* card-wait task act later than that after the layer's Enter has taken the request.
Settled == queue = <<>> \/ step > 1

TimerFires ==
  /\ timer \in {"card", "connect", "disconnect"} /\ timer' = "off"
  /\ pc["status"] \notin {"remote", "astray"}
  /\ waiting' = (waiting /\ timer # "card")
  /\ toStart' = (toStart /\ timer # "card")
  /\ app_order' = IF timer = "disconnect" THEN FINISH ELSE app_order
  /\ IF timer = "card" /\ ~toStart THEN UNCHANGED <<scene, left>>
     ELSE GotoFrom(TimerLayer(timer), "main")
  /\ UNCHANGED <<pilot, contactor, sCharging, charge, emg, req, status, toConnect,
                 bHomeLayerChk, pc, h>>

\* TimeOutChargeStartWait: no 6 V within 100 s; the error box stops a ready or charging one
ChargeTimerFires ==
  /\ timer = "charge" /\ timer' = "off" /\ pc["top"] = "idle"
  /\ IF app_order \in {CHARGE_READY, CHARGING}
     THEN /\ MagneticContactorOff /\ Goes("top", "stop")
          /\ UNCHANGED <<scene, bLayerChargeFlg, chargecomp_stop, cpStatus>>
     ELSE GotoNextLayerOnCharge("top") /\ UNCHANGED <<contactor, h>>
  /\ UNCHANGED <<pilot, sCharging, btnState, StartTimeCheck, stime, monitoring, app_order, emg,
                 req, cpStatChk, waiting, toStart, toConnect, bHomeLayerChk, left>>

\* card_auth is CARD_AUTH_OK, or it is CARD_AUTH_FAILD or the server is not connected
WaitAnswered(result) ==
  /\ waiting /\ pc["wait"] = "idle"
  /\ waiting' = FALSE /\ timer' = "off"
  /\ cpStatus' = IF result = "ok" /\ cpStatus = "AVAIL" THEN "PREPARE" ELSE cpStatus
  /\ Goes("wait", result)
  /\ UNCHANGED <<scene, pilot, contactor, sCharging, charge, app_order, emg, req, cpStatChk,
                 toStart, toConnect, bHomeLayerChk, h, left>>

WaitGoes ==
  /\ pc["wait"] \in {"ok", "fail"} /\ pc["status"] \notin {"remote", "astray"} /\ Slept
  /\ Goes("wait", "idle")
  /\ IF pc["wait"] = "ok"
     THEN /\ toConnect' = FALSE /\ UNCHANGED toStart
          /\ IF toConnect THEN GotoFrom("cardwait", "connect") ELSE UNCHANGED <<scene, left>>
     ELSE /\ toStart' = FALSE /\ UNCHANGED toConnect
          /\ IF toStart THEN GotoFrom("cardwait", "main") ELSE UNCHANGED <<scene, left>>
  /\ UNCHANGED <<pilot, contactor, sCharging, charge, app_order, emg, req, status, timer, waiting,
                 bHomeLayerChk, h>>

RemoteStartSeen ==
  /\ pc["status"] = "idle" /\ "rmtStart" \in req
  /\ Settled /\ app_order' = REMOTE_CHECK
  /\ IF visible = "main" THEN Goes("status", "remote") /\ UNCHANGED left
     ELSE Goes("status", "astray") /\ Spend("strays")
  /\ UNCHANGED <<scene, pilot, contactor, sCharging, charge, emg, req, status, waits,
                 bHomeLayerChk, h>>

RemoteStartGoes ==
  /\ pc["status"] \in {"remote", "astray"}
  /\ IF pc["status"] = "remote" THEN GotoFrom("main", "cardwait")
     ELSE ituLayerGoto("cardwait") /\ UNCHANGED left
  /\ Goes("status", "idle")
  /\ UNCHANGED <<pilot, contactor, sCharging, charge, app_order, emg, req, status, waits,
                 bHomeLayerChk, h>>

-----------------------------------------------------------------------------
(* The OCPP client, as far as it touches the session *)

Asks(flag, count) ==
  /\ flag \notin req /\ req' = req \cup {flag}
  /\ Spend(count)
  /\ UNCHANGED <<scene, pilot, contactor, sCharging, charge, app_order, emg, status, waits,
                 bHomeLayerChk, pc, h>>

DataProcCmd_RmStart ==
  cpStatus # "CHARGING" /\ app_order <= KAKAO_QR /\ Asks("rmtStart", "remotes")

DataProcCmd_Reset == Asks("reset", "resets")

DataProcCmd_RmStopTr ==
  cpStatus \in {"CHARGING", "SUSPENDEDEV"} /\ Asks("rmtStop", "remotes")

\* The client takes the start that the connect layer asked for.  Of the answers only a refusal
\* changes anything here, so only a call that will be refused is kept.
TakesStart ==
  /\ "start" \in req
  /\ \/ req' = req \ {"start", "refused"} /\ UNCHANGED left
     \/ req' = (req \ {"start", "refused"}) \cup {"asked"} /\ Spend("remotes")
  /\ h' = [h EXCEPT !.stale = @ \/ ("refused" \in req /\ cpStatus = "SUSPENDEDEVSE")]
  /\ UNCHANGED <<scene, pilot, contactor, sCharging, charge, app_order, emg, status, waits,
                 bHomeLayerChk, pc>>

\* the server refuses the StartTransaction
DataProcCmd_StartTs ==
  /\ "asked" \in req
  /\ req' = (req \ {"asked"}) \cup {"refused"}
  /\ UNCHANGED <<scene, pilot, contactor, sCharging, charge, app_order, emg, status, waits,
                 bHomeLayerChk, pc, h, left>>

MakeDataCmd_StopTs ==
  /\ "stopTs" \in req
  /\ req' = (req \ {"stopTs", "rmtStop"}) \cup {"sent"}
  /\ StopForgotten
  /\ UNCHANGED <<scene, pilot, contactor, sCharging, charge, app_order, emg, status, waits,
                 bHomeLayerChk, pc, left>>

DataProcCmd_StopTs ==
  /\ "sent" \in req
  /\ req' = req \ {"sent", "stopTs", "power"}
  /\ cpStatus' = IF "power" \in req \/ cpStatus = "AVAIL" THEN "AVAIL" ELSE "FINISH"
  /\ h' = [h EXCEPT !.crossed = @ \/ visible # "finish"]
  /\ UNCHANGED <<scene, pilot, contactor, sCharging, charge, app_order, emg, cpStatChk, waits,
                 bHomeLayerChk, pc, left>>

-----------------------------------------------------------------------------
(* The car, the button and the touch screen.  A touch is handled by the      *)
(* scene thread between two flushes.                                         *)

CableMoves(v) ==
  /\ v # cable /\ cable' = v
  /\ Spend("moves")
  /\ UNCHANGED <<scene, listener, old, contactor, sCharging, charge, app_order, emg, req, status,
                 waits, bHomeLayerChk, pc, h>>

ButtonMoves ==
  /\ emgButton' = ~emgButton
  /\ Spend("presses")
  /\ UNCHANGED <<scene, pilot, contactor, sCharging, charge, app_order, EmgControl, req, status,
                 waits, bHomeLayerChk, pc, h>>

ChargeStopOnPress ==
  /\ pos = 0 /\ queue = <<>> /\ visible = "charge"
  /\ queue' = << <<"charge", "Stop">> >> /\ UNCHANGED <<visible, pos, step, missed>>
  /\ UNCHANGED <<pilot, contactor, sCharging, charge, app_order, emg, req, status, waits,
                 bHomeLayerChk, pc, h, left>>

Ch2FinishConfirmOnPress ==
  /\ pos = 0 /\ queue = <<>> /\ visible = "finish" /\ Slept
  /\ ituLayerGoto("disconnect")
  /\ UNCHANGED <<pilot, contactor, sCharging, charge, app_order, emg, req, status, waits,
                 bHomeLayerChk, pc, h, left>>

-----------------------------------------------------------------------------
SceneThread ==
  \/ ituFlushActionQueue \/ HandlerReturns
  \/ MainOnEnter1 \/ MainOnEnter2 \/ MainOnLeave
  \/ CardWaitEnter \/ CardWaitLeave1
  \/ ConnectOnEnter1 \/ ConnectOnEnter2 \/ ConnectOnLeave1
  \/ ChargeOnEnter \/ ChargeOnLeave1 \/ ChargeOnLeave2
  \/ ChargeStopOnDialog1 \/ ChargeStopOnDialog2 \/ HandlerParts
  \/ Ch2FinishOnEnter1 \/ Ch2FinishOnLeave \/ DisconnectOnEnter

PilotThread ==
  \/ CPListenerOnAhead \/ CPListenerOnConnect \/ CPListenerOnFinish \/ CPFinished
  \/ CPListenerOnDisconnect \/ CPIgnored
  \/ CPUnplugged \/ CPUnplugStop \/ CPUnplugEnd \/ CPPaused \/ CPUnknown
  \/ CPRequested \/ CPStart \/ CPStarted \/ CPResume \/ TSCT_ChargingStop("cp")
  \/ LayerPassed("cp")

TopTimer == TimerFires \/ ChargeTimerFires \/ TSCT_ChargingStop("top") \/ LayerPassed("top")

EmbThread == EmbPressed \/ EmbReleased

StopperThread ==
  LocalStop \/ RemoteStopSeen \/ SuspendsEvse \/ TSCT_ChargingStop("stopper")
    \/ LayerPassed("stopper")

FaultThread == FaultStops \/ FaultSeen \/ TSCT_ChargingStop("fault") \/ LayerPassed("fault")

OrderThread == OrderSeesPause \/ OrderDecides \/ OrderStops \/ LayerPassed("order")

WaitThread == WaitGoes \/ \E r \in {"ok", "fail"} : WaitAnswered(r)

StatusThread ==
  RemoteStartSeen \/ RemoteStartGoes \/ ResetSeen \/ TSCT_ChargingStop("status")
    \/ LayerPassed("status") \/ Reboots

Client ==
  DataProcCmd_RmStart \/ DataProcCmd_RmStopTr \/ DataProcCmd_Reset
    \/ TakesStart \/ DataProcCmd_StartTs
    \/ MakeDataCmd_StopTs \/ DataProcCmd_StopTs

World ==
  \/ ButtonMoves \/ ChargeStopOnPress \/ Ch2FinishConfirmOnPress \/ MinutePasses
  \/ \E v \in Voltages : CableMoves(v)

Next ==
  SceneThread \/ PilotThread \/ EmbThread \/ StopperThread \/ FaultThread \/ OrderThread
    \/ TopTimer \/ WaitThread \/ StatusThread \/ Client \/ World

Spec == Init /\ [][Next]_vars

\* The threads run; the car, the user and the server need not act.
LiveSpec ==
  /\ Spec
  /\ WF_vars(SceneThread) /\ WF_vars(PilotThread) /\ WF_vars(EmbThread)
  /\ WF_vars(TSCT_ChargingStop("stopper")) /\ WF_vars(TopTimer) /\ WF_vars(WaitGoes)
  /\ WF_vars(StatusThread) /\ \A t \in Threads : WF_vars(LayerPassed(t))

-----------------------------------------------------------------------------
(* Properties.  h.overtaken excuses one race: a 6 V call of the listener     *)
(* that has read its guards closes the contactor although a stop opened it   *)
(* in between (layer_charge.c:689-709); it lasts while the contactor is      *)
(* closed by such a call.                                                    *)

\* No goto was issued for a layer that is no longer shown
Orderly == left.strays = MaxStrays

\* The emergency button has not been pressed.
Unpressed == left.presses = MaxPresses

\* The main layer is shown and nothing is left in the action queue
AtHome == visible = "main" /\ queue = <<>>

\* No power at home: whatever brought the charger back to the main layer (a stop, a timer,
\* the button, a pulled plug), the contactor is open there.  ChargeOnLeave opens it, but its
\* listener stays installed while it sleeps and can close it again; MainOnEnter opens it last.
\* (Excused: the main layer is shown while its Enter is in the queue and has run, or has the
\* charge layer's behind it; the queue drops the second one as a duplicate.)
HomeIsDead == AtHome /\ ~missed /\ ~h.overtaken => ~contactor

\* While the emergency button is seen pressed the contactor is open: no listener, handler or
\* task closes it, in any order with EMBListenerOnCharge12.
EmergencyHolds == EmgControl /\ ~h.overtaken => ~contactor

\* A charge stopped by the user's button or by the server stays stopped: the 6 V the car still
\* shows while ChargeOnLeave sleeps does not close the contactor again.
StopSticks == h.ended \in {"button", "remote"} /\ ~h.overtaken => ~contactor

\* A session that entered the charge layer has raised StopTransaction by the time the charger is
\* home.  It is the finish layer that raises it, so every way out of the charge layer must go
\* there.  A restart forgets the session.
\* (Excused: a charge layer that was left before its Enter ran, as a press does then
\* because app_order is still CONNECTOR_SELECT, or whose flush has entered the finish layer.)
SessionReported == AtHome /\ h.straight /\ Orderly => h.stops > 0

\* Racing stops (card, SOC, server, pilot, pause, timer, reset) end a session once: the finish
\* layer is entered, and StopTransaction raised, once.  A press of the emergency button is the
\* exception: it goes to the finish layer without bLayerChargeFlg.
OneStopPerSession == Unpressed /\ Orderly => h.stops <= 1

\* While energy flows in the charge layer the connector's status says so: it is CHARGING, or it
\* says why the charge is not a plain one.  SUSPENDEDEVSE: the server refused this session's
\* StartTransaction and the charge goes on (layer_charge.c:442-452), or the client took the start
\* only after the monitoring task had seen the refusal of the session before, whose
\* faultChargFlg is cleared only then (tsctwsclient.c:1251); in both the status stays.  FAULT: a
\* fault is stopping the charge and a 6 V call has closed the contactor once more.
\* (Excused: an answer to StopTransaction handled after the finish layer was left, which sets
\* FINISH whatever session runs; and a charge layer or main layer entered out of turn, as above.)
ChargingReported ==
  contactor /\ visible = "charge" /\ listener = "charge" /\ ~h.overtaken
    /\ h.straight /\ ~missed /\ ~h.crossed /\ Orderly
      => \/ cpStatus = "CHARGING"
         \/ cpStatus = "SUSPENDEDEVSE" /\ ("refused" \in req \/ h.stale)
         \/ cpStatus = "FAULT" /\ app_order = CHARGING_STOP

\* Once the plug stays out the charger ends at home with the contactor open, wherever the
\* session was: the pilot listener, the timers and the queued handlers see to it.  (Excused: a
\* press while the main layer's Enter runs.  The goto back to the main layer is dropped as a
\* duplicate, and the card-wait layer can be shown with its timer and its task stopped; likewise
\* a goto of a timer or task for a layer that is no longer shown.)
UnpluggedReturnsHome ==
  <>[](cable = "12V" /\ Unpressed /\ Orderly) => <>[](AtHome /\ (contactor => h.overtaken))

\* A reset request is carried out once the plug stays out: the status task's stops of a
\* charging or preparing connector lead to a status that lets it restart.
ResetHonoured == <>[](cable = "12V" /\ Unpressed /\ Orderly) => []<>("reset" \notin req)

\* (TLC refutes this one.) layer_main.c:25 says of bHomeLayerChk "True : Home Layer Display /
\* False : Other Layer Display".  Not so: a goto to the main layer while MainOnEnter runs queues MainOnLeave and
\* drops the second MainOnEnter as a duplicate.
HomeFlagTruthful == queue = <<>> => (bHomeLayerChk <=> visible = "main")
=============================================================================
