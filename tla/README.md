# TSCT-2007CP charger firmware: a TLA+ model of its control program

The repository is the firmware of an AC charging station (one connector) that
talks OCPP 1.6J over a WebSocket to a central system. The program itself is
`src/project/tsct2007a/`; `sdk/`, `openrtos/`, `doc/`, `tool/` and `build/` are
the vendor's platform. It is built from POSIX threads that share global
variables; apart from the configuration file's mutex nothing is locked.

## 1. The system

| part | files | state | operations | interacts through |
|---|---|---|---|---|
| OCPP client thread | `tsctwsclient.c` | `bConnect`, `bWaitResFlg`, `Tx_Msg`, `Call_Tx_Msg`, send buffer, `MeterValQ`, `startTsQ` | connect, pick the next CALL (`OCPP_CALL_Senario`), transmit, time out, power-cycle the router, reboot | shares every buffer with the receive thread, every request flag with the layers |
| OCPP receive thread | `tsctwsclient.c`, `tsctparsing.c` | `Rx_Msg` | receive, parse, apply an answer, answer a CALL | writes `Tx_Msg`, the statuses and the flags |
| OCPP commands | `ocpp_cmd.c` | `CsConfigVal`, `fwUpdateVals`, `StopTsConfig` | `MakeDataCmd_*` (client thread), `DataProcCmd_*` (receive thread) | called by both threads |
| charging session | `layer_main/cardwait/connect/charge/ch2_finish/disconnect.c` | `app_order`, connector status, `sCharging`, `bLayerChargeFlg`, `btnState` | enter and leave handlers, listeners of pilot and meter, monitoring task, timers | raises `bReqAuthNo`, `bReqStartTsNo`, `bReqStopTsFlg`, sets statuses, switches the contactor |
| scene | `sdk/itu/share/itu/itu_layer.c`, `itu_action.c` | the layer shown, the queue of layer actions | `ituLayerGoto` (any thread), flush of the queue (scene thread) | runs the layers' handlers |
| order sequence | `cstordersequence.c` | `chargecomp_stop`, `stime`, `EmgControl` | ends a paused charge, reacts to the emergency button | contactor, gotos |
| status task | `layer_top.c` | network-error timer | remote start, diagnostics upload, firmware update, reset, reboot after six minutes without network | `updateStep`, statuses, configuration, gotos |
| firmware update | `upgrade.c`, `tsctcommon.c` | `updateStep` | download, check, install | run by the status task |
| pilot, contactor, emergency button, fault manager | `cstcontrolpilot.c`, `cstmagneticcontactor.c`, `cstemergencybutton.c`, `tsctfaultmanage.c` | voltages, contactor, fault bits | debounce, switch, raise faults | callbacks into the layers |
| PLC modem (SECC) | `tsctsecc.c` | `SeccTxData`, `SeccRxData`, steps of initialisation and charging, answer counters | request task, read task | the layers set the status word, the modem's state stops a charge and gives the pilot level |
| meter, card reader | `cstwatthourmeter.c`, `cstcardreader.c`, `tsctcommon.c` | readings, byte queues | poll tasks, read tasks | a ring of bytes without a lock, callbacks into the layers |
| configuration | `config.c` | INI file | load, save | everything |

What is hard in this code. On the link: two threads that share one outgoing
message, one buffer and one "awaited CALL" record with sleeps in the middle of
their use; requests that are cleared before they are known to be delivered;
answers that carry no action and are matched by an id alone; reconnects, router
power cycles and reboots at any point. In the session: handlers that sleep
while their listener is installed, seven threads that may stop a charge or
leave a layer, a queue of layer actions that drops duplicates. On the serial
lines: answers that carry no request number, a status word changed by two tasks,
a ring that is published before it is filled. In the arithmetic: differences of
minutes, unsigned increases, edge detectors on a clock that is polled.
`PROJECT.json` lists the hazards line by line.

## 2. Modules

* `OcppLink` is the client thread, the receive thread and their environment
  (central system, transport, time, the session's requests, the firmware
  update).
* `MCOcppLink` gives the constants small values and further initial states that
  `Init` reaches: `Told`, a registered charger after BootNotification, two
  StatusNotifications and the unit price, idle or with a session charging, and
  `InitTried`, a charger whose connects and power cycles have all failed. Starting
  there lets a run spend its bounds on what it asks.
* `OcppLinkProofs` holds the theorems about ids, types and registration,
  `OcppCallProofs` those about what becomes of a CALL and its answer.
* `MeterClock` is the polling of the wall clock in the client's loop: the edge
  detectors `Check_Sampled_Time` and `Check_Meter_Time`, their flags, a client
  that is blocked for seconds, and a Heartbeat answer that sets the clock.
  `MeterClockProofs` holds its theorems. `inMinute`, `inPeriod`, `steady` and
  `due` only serve the properties.
* `MeterValues` is the way of a reading from the meter (`ReadMeter`) through
  `eqp_watt` (`Publish`, `Published`), the sample (`Add_MeterVal_Q`) and the
  CALL (`NetMeter`, `NetStopTs`, `NetTrigger`) to the answer that empties the
  queue (`AnswerValues`). The bytes of `eqp_watt` are two digits; a read while
  they are written may return any mix of the old and the new ones. `ToFloat` is
  the rounding of `(float)energy` above 2^24, which a charger reaches after
  some 168 MWh. `credit` and `cause` only serve the property.
  It abstracts from time (`MeterClock`) and from the transport (`OcppLink`): a
  sample may be taken at any moment of charging, an answer arrives or is lost.
  `Init` is after the meter's first answer, without which `MainStartOnPress`
  starts no session. Writes past the end of `MeterValQ` and of the strings of
  `sampledValue_Data` lose the values written there; what else they hit is not
  modelled. `MeterValuesProofs` holds its theorems.
* `ChargeSession` is one connector's session: the scene, the handlers of the six
  layers, and the threads that act on them. `ChargeSessionProofs` holds its
  theorems.
* `ReadQueue` is the byte ring, one step per load or store; `ByteFifo` is what it
  promises, and the refinement is
  `INSTANCE ByteFifo WITH items <- Items, owing <- Owing, Room <- Size - 1`. A
  place is reserved before its byte is there, and `ByteFifo` delivers only bytes
  that are there. The one loss of publish-before-store is an action of its own:
  `Misread` takes the only place that waits while it is still empty, and `Lose`
  is the store that comes after it. Nothing else may be lost, repeated or
  reordered. `ReadQueueProofs` holds the theorems.
* `ZeroCurrent` is the check that ends a session without current;
  `ZeroCurrentProofs` holds its theorems.
* `SeccLink` is the link to the PLC modem: both tasks, the layers' changes of the
  status word, and the modem as the code uses it (external). `SeccLinkProofs`
  holds its theorems.

The modules share no variables. Where one needs another it has its effect as an
environment action: `OcppLink` has the session's requests and statuses (`Ev...`),
`ChargeSession` has the client's requests and answers (`DataProcCmd_...`),
`SeccLink` has the layers that set the status word.

### State and actions of OcppLink

Variables keep the C names. `respDue`, `hbDue` and `meterDue` stand for what the
clock comparisons return; `up` and `down` are the frames of the current
connection, `alive` whether its transport works; `oper` is bits 0 and 1 of
`theConfig.chargingstatus`; `req` is the set of raised request flags; the queue
keeps the `Uid_Mv` of each entry. `srvReg`, `srvStat` and `owed` record what the
central system knows and only serve the properties.

| code | actions |
|---|---|
| `WSClientThread` | `ClientTop`, `RouterPowerCheck`, `RebootOnNoNetwork`, `ClientNoNetwork` |
| `NetRun`, `WS_Server_connect` | `WS_Server_connect`, `WS_Server_connect_fails` |
| `OCPP_CALL_Senario` with `MakeDataCmd_*` | `SenarioWaits`, `SenarioTimeout`, `SenarioBoot`, `SenarioMeter`, `SenarioStat`, `SenarioRequest`, `SenarioMemberSleeps`, `SenarioMember`, `SenarioStopTs`, `SenarioTrigger`, `SenarioIdle` |
| `Tsct_Curl_Ws_Trans`, both threads | `Make_Ocpp_Msg`, `WsSend`, `WsSendFails`, `WsRegister` |
| `Tsct_Curl_Ws_Recv`, `Parse_Header` | `RxParse`, `RxFails`, `RxAnswer`, `RxDrop`, `RxCallUnregistered` |
| `Rx_Call_DataProc` | `RxCallOther`, `DataProcCmd_TriggerMsg`, `DataProcCmd_ChangeAvail`, `DataProcCmd_UpdateFw` |
| `Rx_CallRes_DataProc` | `DataProcCmd_Auth`, `_Boot`, `_Stat`, `_StartTs`, `_StopTs`, `_HB`, `_MeterVal`, `_Rest` |
| layers | `EvStatus`, `EvRequest`, `EvStart`, `EvStop`, `EvMainOnEnter`, `EvCardWaitLeave` |
| `sTopStatusTaskFuntion`, `UpgradePackage` | `UpdateBegins` ... `UpdateReboots`, `RebootOnNetError` |

Grain of atomicity. A `MakeDataCmd_*` with the flags it clears is one step: it
runs without a blocking call. Only the member's unit price sleeps in between, for
a second, and is two steps. Encoding, sending and registering are three steps,
because the encoder sleeps, the send blocks and a log line is written before the
registration. Receiving with parsing, accepting an answer (which clears
`bWaitResFlg`), and applying it are three steps; a CALL's handler is one step
and its transmission three more. The update task's sleeps separate its steps.
Every reboot saves the configuration first; only the update's reboot separates
the two (two seconds), the others are one step.

Abstractions. `CstGetTime_Msec_test` reads a millisecond clock. Passes of the
client's loop are 50 ms apart, so readings of different passes differ
(`FreshId`: an id no message carries any more; a Heartbeat answer that sets the
clock back onto an id still held is left out). Within a pass nothing need sleep
between two readings, and they may be equal (`Readings`, `SenarioStopTs`): the
CALL of a pass may get the id of the sample queued in it. A frame
garbled by both threads encoding at once is one the central system refuses
(`SrvRefuses`). A handler of a central system's CALL that changes nothing in
this module is "Other". Whether the charger is idle enough to accept
ChangeAvailability, and whether the stop reason is still "power", depend on the
session and are left open. A statement that reads `bDevChannel + 1` is about
connector 1, the only one.

### State and actions of ChargeSession

`visible`, `queue`, `pos` and `step` are the scene: the layer shown, the action
queue, the handler that runs and how many of its sleeps are over. `cable`,
`listener` and `old` are the pilot level, the installed listener and the level it
last saw; `pc` is where each other thread is; `timer` is the one timer of the top
layer, `waiting`, `toStart` and `toConnect` the card-wait task. `h` is history
that only the properties read, and so is `missed`: a goto showed the main layer,
but the queue had dropped its `Enter` as a duplicate, or a charge layer's comes
behind it. `left` is what remains of the bounds.

| code | actions |
|---|---|
| `ituLayerGoto`, `ituExecActions`, `ituFlushActionQueue` | `ituLayerGoto`, `AfterGoto`, `ReturnWith`, `ituFlushActionQueue` |
| `MainOnEnter/Leave`, `CardWaitEnter/Leave`, `ConnectOnEnter/Leave`, `ChargeOnEnter/Leave`, `Ch2FinishOnEnter/Leave`, `DisconnectOnEnter` | the actions of these names, one per stretch between two sleeps, and `HandlerReturns` |
| the stop button and the confirm button | `ChargeStopOnPress`, `ChargeStopOnDialog1`, `ChargeStopOnDialog2`, `Ch2FinishConfirmOnPress` |
| the control pilot task and the listeners | `CPListenerOn...`, `CPUnplugged`, `CPUnplugStop`, `CPUnplugEnd`, `CPPaused`, `CPRequested`, `CPStart`, `CPStarted`, `CPResume`, `CPUnknown`, `CPIgnored`, `CPFinished` |
| the emergency button | `EmbPressed`, `EmbReleased` |
| `TSCT_ChargingStop` from every thread | `StopBegins`, `TSCT_ChargingStop`, `LocalStop`, `RemoteStopSeen`, `ResetSeen` |
| `GotoNextLayerOnCharge` | `GotoNextLayerOnCharge` (test and goto), `LayerPassed` and `HandlerParts` (the reset of the flag), `GoesOn` (what the thread does then) |
| the refused start in `sChargeMonitoringTaskFuntion`, `ChargeFaultMonitoringTaskFuntion` | `SuspendsEvse`; `FaultStops`, `FaultSeen` |
| `cstordersequence.c` | `OrderSeesPause`, `OrderDecides`, `OrderStops`, `MinutePasses` |
| timers, card-wait task, status task | `TimerFires`, `ChargeTimerFires`, `WaitAnswered`, `WaitGoes`, `RemoteStartSeen`, `RemoteStartGoes`, `Reboots` |
| the client, as far as the session sees it | `TakesStart`, `DataProcCmd_RmStart`, `_RmStopTr`, `_Reset`, `_StartTs`, `_StopTs`, `MakeDataCmd_StopTs` |

Code between two sleeps is one step, with two exceptions. A 6 V call of the charge
listener is two or three, since it plays a sound between its guards and the
contactor. `GotoNextLayerOnCharge` is two: `bLayerChargeFlg` is tested, a whole
`ituLayerGoto` runs, and only then is the flag reset (`layer_charge.c:117-119`), so
another thread may find it still set and go there too. One timing assumption limits that window (`Slept`):
the rest of an `ituLayerGoto` takes milliseconds, so a handler that has slept, a
task that comes from a sleep to change the layer, or a user who touches a screen
that has just changed finds the flag reset. `SetCpStatus` and the scene's queue are
one step each; the queue's end races in `itu_action.c` are not modelled. The card
input and the connector choice are abstracted to a remote start and to an answer of
the card-wait task.

A refused StartTransaction: `TakesStart` is the client's pass that takes the start
and clears `startTsQ.faultChargFlg`, `DataProcCmd_StartTs` the answer that sets it.
With `CfgKeyVal[14]` set the monitoring task stops the charge (`LocalStop`), without
it the charge goes on as SUSPENDEDEVSE (`SuspendsEvse`), in which the server's remote
stop is refused and a reset restarts the charger. The fault monitor's counters are
abstracted: a fault may come at any time (`FaultStops` while the charge is ready or
runs, which stops it and then reports FAULT, `FaultSeen` otherwise). The answer to a
StopTransaction makes the connector available when the stop reason is still the
PowerLoss that `ChargeOnEnter` gives beforehand (flag `power`), and FINISH otherwise.

### State and actions of SeccLink

| code | actions |
|---|---|
| `SeccRS232ReqTask`, its ten polls without an answer and the power cycle | `NoAnswerInTime`, `Round` |
| `InitSecc` | `Initialise` |
| `SeccSenario`, `SendChrgReady` in turn | `TellStatus`, `Reinitialise`, `Poll` |
| `ChrgSecc` | `LoadStatus`, `ModemStopped`, `Begin`, `Confirm`, `SendStop`, `Start`, `Handshake`, `Supervise` |
| `SeccRS232ReadTask`, `ValidSecc` | `ReadHalf`, `ReadAnswer`, `Acknowledge` |
| `ParsRxData`, `vasParsFunc` | `ParsRxData` |
| layers | `CardWaitEnter`, `ChargeOnEnter`, `ChargeOnLeave`, `MainOnEnter` |

A read-modify-write of `status_fault` in the request task is two steps
(`LoadStatus` and its use, `Reinitialise`'s among them), with a layer's change
possible in between; the layers' own changes are one, and at most one of them falls
within a change of the request task (`Unraced`). Taking an answer, which ends the
wait, and applying it (`ParsRxData`, `Acknowledge`) are two steps. The last chunk of
a VAS record has any length of `TailLens`: the modem and the car say which. The modem (external) answers what it hears, goes through
the handshake as it is told, may stop, reset or hang. Its registers are the ones
that drive the program: readiness, state, error, VAS enable.

## 3. Runs

| run | shows |
|---|---|
| `link_session` | one session, two faults anywhere: `TypeOK` with the queue's bound, `SameIdSameCall`, `RightHandler`, `WaitFlagTruthful`, `OneCallAtATime`, `StopTsKeptUncut`, `StartTsDelivered` |
| `link_manage` | from an idle or a charging connector, management CALLs, firmware update and its reboot, answers that overtake the registration: `AnswerMatchesCall` |
| `link_live` | from power-on or exhausted retries, under fairness, one fault or one CALL of the central system: `BootFirst`, `Registers`, `WaitEnds`, `Reconnects`, `StatusSettles`, `StartTsSettles` |
| `wait_flag_lost` | violated: "Waiting Response : True , Idle : False" (`tsctwsclient.h:355`) |
| `meter_clock` | the sampling clock: `FiresOnce`, `EveryMinuteSampled` |
| `meter_values` | two sessions, every interleaving of the four threads: `TypeOK`, `ReportsExact` |
| `charge_session` | one session, pilot moves, stops of every kind, a fault, a refused start, the emergency button, a goto for a layer no longer shown: `TypeOK`, `HomeIsDead`, `EmergencyHolds`, `StopSticks`, `SessionReported`, `OneStopPerSession`, `ChargingReported` |
| `charge_live` | one session with a reset at any point and every pilot level, under fairness: `SessionReported`, `UnpluggedReturnsHome`, `ResetHonoured` |
| `read_queue` | the ring implements the FIFO: `TypeOK`, `IsFifo`, `IsFairFifo` |
| `zero_current` | the zero-current check: `TypeOK`, `NeverEarly`, `EndsUnlessLateInHour` |
| `zero_late` | violated: "Charging ends when it is 0.0A for 15 minutes" (`layer_common.c:130`) |
| `secc_link` | the modem link with one trouble: `TypeOK`, `StatusIsStatus`, `ModemStopHonoured`, `ModemTold`, `Recovers` |

`ReportsExact` says what the reported increases are worth: start reading plus
answered values plus queued values is the last reading sampled, modulo 2^32,
through mixed, rounded and missing readings and repeated CALLs. It stops
claiming anything when `cause` is set, and each value of `cause` is a loss the
code allows: `shift` (a sixth sample before an answer: the oldest is dropped and
the new one written behind the array), `dropped` (the answer clears an entry its
CALL did not hold: a sample taken meanwhile, an entry behind a triggered one, a
fifth string), `twice` (the wait flag is cleared before the handler empties the
queue, so the next CALL may report the same values again), `leftover` (a StopTransaction that was never answered leaves its
entries to the next session), `lateStart` (StartTransaction repeated after a
sample reports the moved `MeterStart_Val`). The bounds make each of them
happen: `MaxQno` is 1, one string holds an entry, and the readings go through a
rounded value and the -1.

Bounds of the link. `MaxEvents`, `MaxCsCalls` and `MaxFaults` bound what the
environment does, not what the threads do; `MaxTroubles` bounds faults and CALLs
of the central system together. `ConnLimit = 0` and `ResetLimit = 0` (9 and 2 in
the code) and `MaxQno = 1` (5) make the power cycle, the reboot and the queue's
overflow happen after one step instead of many; the theorems hold for every
value. `Ids = 1..9` is never exhausted: at most eight places hold an id.

Bounds of the session. `MaxMoves`, `MaxPresses`, `MaxRemotes`, `MaxFaults`, `MaxResets`
and `MaxStrays` bound the world, `MaxActs` all of them together, where a move of the
pilot counts one and everything else two. The runs start with the plug in
(`Plugged = "9V"`): a start and 6 V make energy flow, which leaves either two more
moves (a car that pauses and asks again while a stop is on its way) or one other
act (the button, a remote stop, a refused start, a fault, a reset, a stray). A stray
is a goto issued for a layer that is no longer shown: `charge_session` has one. The
run under fairness has neither the button, whose presses its properties excuse, nor
faults, which end a session as the other stops do: it is about the pulled plug and
the reset, in a fourth of the states. The theorems of
section 4 have no bound, and it mattered: simulation with more presses and remote
stops refuted earlier forms of `HomeIsDead` and `SessionReported` that these runs
pass (a session that begins with the main layer's `Enter` dropped, or in the
card-wait layer through the charge listener that layer leaves installed), which is
what `missed` and `h.straight` now say. `StopTransactionOnEVSideDisconnect` is off in
`charge_session` and on in `charge_live`.

Bounds of the rest. `read_queue`: `Size` 4 for 64, enough for the indices to wrap
and to meet with the consumer between its two steps. `zero_current`: two ticks a
minute, answers at most two ticks apart, 100 minutes, so that the hour turns once.
`secc_link`: `MaxSilent` 2 for 10, a VAS record of two chunks whose last one has six
registers (`TailLens`), the length that can be taken for the status, one trouble of any kind (`MaxTroubles`) and one session; `Overtakes` lets the
request task run between `PlcRespWaitCnt = 0` and `ParsRxData`.

What the properties excuse. Each excuse is a race the code has and the model
shows; TLC refutes the property without it.

* `h.overtaken`: a 6 V call that has read its guards closes the contactor after a
  stop opened it (`layer_charge.c:689-709`).
* `h.straight` (claimed, not excused, by `SessionReported` and `ChargingReported`):
  the charge layer was still shown when its `Enter` ran, nothing was queued behind it
  and this flush had not entered the finish layer. It is not when the button is
  pressed between the goto to the charge layer and its `Enter`, which goes home
  instead of to the finish layer.
* SUSPENDEDEVSE and FAULT (`ChargingReported`): the statuses the code sets while the
  contactor is closed. The property allows the first when the server refused this
  session's StartTransaction, or when the monitoring task saw the refusal of the
  session before, which is cleared only when the client takes the next start
  (`h.stale`); the second while a fault is stopping the charge. Any other status is a
  violation.
* `missed` (`HomeIsDead`, `ChargingReported`): the `Enter` that opens the contactor
  does not come, or comes too early.
* `h.ended`: `StopSticks` follows a stop of the user or the server for as long as
  something holds it. The server's is held by its request, which the client
  clears when it makes a StopTransaction, or `Ch2FinishOnLeave` does: when that
  happens with the listener of the charge layer still installed (the
  StopTransaction of an earlier session, made late; a stray goto), `StopForgotten`
  ends the claim.
* `h.crossed`: an answer to StopTransaction handled after the finish layer was
  left sets FINISH in whatever session runs.
* `Orderly`: no stray so far (`SessionReported`, `OneStopPerSession`,
  `ChargingReported`): a stray can leave two layers' handlers in the queue in any
  order. `Unpressed`: no press so far; a press while
  `MainOnEnter` runs makes the scene drop a goto as a duplicate, and the card-wait
  layer can stay without its timer.
* `Timely`: no late answer of the modem so far; one can send the initialisation
  round and round. `overtaken`: a request built before the answer was parsed
  (`"read"`, which `StatusIsStatus` excuses) or before an acknowledgement was applied
  (`"write"`).
* A late last chunk of exactly six registers (`StatusIsStatus`): it is as long as the
  status, and the length is all `ValidSecc` compares.
* `revived` (`ModemTold`): a `|=` of the request task wrote back the charge bit that a
  layer had cleared in between. The modem is then not told for as long as the finish
  screen is shown, and that screen has no timer; TLC shows it.
* MeterValues (`SameIdSameCall`, `AnswerMatchesCall`): the id of a sample may be that
  of the CALL made in the same millisecond.

Refuted claims. These definitions stay in the modules, marked, and no run checks
them: `StopTsKept` ("False : Send Stop TR OK", `tsctwsclient.h:171`; refuted by
one lost connection, since the request is cleared when the CALL is made),
`StopTsKeptUncut` over two sessions (`ocpp_cmd.c:1434` clears the request of the
next one), `FinishTold` ("for Send CP finish status when disconnect cable",
`layer_ch2_finish.c:57`), `HomeFlagTruthful` ("True : Home Layer Display",
`layer_main.c:25`) and `ReadyChecked` ("Check CSM Ready", `tsctsecc.c:174`; the
readiness of before a power cycle is kept).

`PromptAnswers`. The CALL is registered after it was sent. When the answer is
parsed before that, it is dropped or taken for an answer to the previous CALL.
With `PromptAnswers = TRUE` the model lets that happen (`link_manage`, and every
theorem); with `FALSE` the central system answers after the registration. TLC
refutes `RightHandler`, `StartTsDelivered`, `StatusSettles` and `StartTsSettles`
with `TRUE`, so those runs state what holds when the network is slower than the
log line. Likewise `WaitFlagTruthful` holds without CALLs of the central system
(with them: `wait_flag_lost`) and without MeterValues, whose id is reused after
a reconnect; and `StartTsDelivered` is about one session, since a second start
promoted while the first answer is being applied is cleared with it.

Fairness. The two threads of the link loop for ever with bounded sleeps, so each
is weakly fair, and so are the response and heartbeat clocks and the central
system's reading. Faults, requests, and the central system's own CALLs are never
forced. A central system that refuses for ever is excluded by `MaxFaults`, not by
fairness. In the session the scene thread, the pilot task, the button task, the
top timer, the status task, a stop that has begun, the reset of `bLayerChargeFlg`
after a goto and the card-wait task's goto are weakly fair: each is a loop with a
sleep, or code that runs on. The car, the user and the server
need not act; `UnpluggedReturnsHome` and `ResetHonoured` have the pulled plug as
their premise. The ring's consumer is weakly fair: it polls. On the modem link
both tasks are weakly fair, the modem follows what it is told, the charge layer
leaves a session that has the stop bit (its monitoring task looks every second), and
the status read is strongly fair among the requests of a charge, since `charge_cnt`
goes round. Nothing forces a user or a car to leave the finish screen, which has no
timer.

Deadlock is checked in every run but those of `ChargeSession`, where a charger at
home with no act left has nothing to do.

## 4. Proofs

`OcppLinkProofs` proves, for all constants that satisfy `ConstAssumption` (ids
differ from `NoId`, bounds are naturals, the queue has room for one entry):

* `TypeCorrect`: `Spec => []TypeOK`. One lemma per group of actions, with
  `AddMeterValOK` for the queue's bound.
* `OneActionPerId`: `Spec => []SameIdSameCall`. `Asked` are the pairs of id and action
  in buffers, frames and the registered CALL, `Carried` those and the ids of the queue
  with MeterValues. The invariant is inductive together with the types: an action adds
  to `Carried` nothing, a pair whose id no CALL but a MeterValues has (a fresh reading,
  or that of the sample this pass has queued), or a MeterValues pair; an answer repeats the pair of its CALL. Nothing is assumed of two readings of
  the clock in one pass: `SampledFree` says that before the CALL is made nothing asked
  for has the id of the pass's sample.
* `AcceptedAnswerMatches`: `Spec => []AnswerMatchesCall`. It needs in addition
  that a charger which waits has registered a CALL (`WaitsForCall`): then the
  registered CALL and the answer are both in `Carried` with the same id.
* `OnlyBootFirst`: `Spec => []BootFirst`, for any faults: before the registration
  whatever CALL is in a buffer or on its way is a BootNotification.

`OcppCallProofs` proves what holds of a CALL under hypotheses on the environment,
which are part of each theorem. `NoMeterCalls` says that neither the meter period
nor a TriggerMessage asks for MeterValues, whose id comes from the queue and is
used again; `Quiet` that there are no MeterValues of the period and no CALLs of
the central system; `~PromptAnswers` that answers come after the registration;
`"main" \notin Events` that the session does not return home to begin another.
With a hypothesis dropped TLC finds the property violated, but for these, which it
did not refute at the bounds tried: the TriggerMessage half of `NoMeterCalls`, and
for `StopTsKeptUncut` the period and `PromptAnswers`. Faults are unbounded in all
of them.

| theorem | hypotheses | property | inductive with |
|---|---|---|---|
| `HandlerIsRight` | `NoMeterCalls`, `~PromptAnswers` | `[]RightHandler` | `HandlerInv`: what is on its way with the id of the outgoing CALL finds that CALL registered, and the action given to an answer stays that of its id |
| `StartTsReachesServer` | the same, `"main" \notin Events` | `StartTsDelivered` | `StartInv`: before the session's start is queued nothing of a StartTransaction is anywhere, and an answer to one exists only once the central system has it |
| `OneAtATime` | `Quiet` | `[]OneCallAtATime` | `QuietInv`: only the client thread transmits (`Alone`), a CALL is made with a free wire (`InTurn`), and what an old connection left is recognised (`Stale`) |
| `FlagTellsTruth` | `Quiet` | `[]WaitFlagTruthful` | `QuietInv` |
| `StopTsStays` | `Quiet`, `~PromptAnswers`, `"main" \notin Events` | `[]StopTsKeptUncut` | `StopInv`: short of a fault no connection is lost, no wait runs out, and the CALL is followed from the request to the central system |

`MeterClockProofs` proves, for every `Minute` and `Samples` of at least two:

* `DetectorsFireOnce`: `Spec => []FiresOnce`, from `Fired`: a detector that has
  fired keeps its flag until the first second is over.
* `NoMinuteSkipped`: `Spec => []EveryMinuteSampled`, from `Rearmed` (a client
  that was not blocked has cleared the flag when the last second ends, since it
  looked in that second) and `Owed` (a sample that is owed can still be taken).

`ChargeSessionProofs` proves, for every set of pilot levels and all bounds:

* `TypeCorrect`: `Spec => []TypeOK`, one lemma per thread.
* `EmergencyStops`: `Spec => []EmergencyHolds`, with the inductive `Held`: a
  listener that is about to close the contactor either finds the button unseen or
  has been marked overtaken. No bound and no `Orderly` is needed: it holds for any
  number of sessions, strays and presses.
* `StoppedStays`: `Spec => []StopSticks`, with the inductive `Stopped`: after a stop
  of the user or the server the stop button's state or the server's request stands,
  or the listener is gone, and each of the listener's guards sees one of them. Again
  for any number of sessions, strays and presses.
* `EndsOnce`: `Spec => []OneStopPerSession`, with `OnceInv`: no action stands twice in
  the queue (`Distinct`), the disconnect layer's `Enter` stands second
  (`DisconnectSecond`), the charge layer's behind the connect layer's, and `Once`,
  which says for each layer shown which of `bLayerChargeFlg` and the `Enter`s of the
  charge and finish layers can still be set or to come: never two of them. While a
  thread is between its goto and the reset of the flag (`Leaving`), others may find it
  set and go to the finish layer as well, but that layer is shown already and its
  `Enter` has not begun, so nothing is queued twice.
* `HomeStaysDead`: `Spec => []HomeIsDead`, strays and presses included, with `Home`:
  while the main layer is shown its `Enter` is still to open the contactor, after
  every charge layer's, or the charger is not `Hot` (closed, about to be, or with a
  listener that may close it) and no charge layer is to come (`Cold`).
* `SessionsReported`: `Spec => []SessionReported`, with `Reported`: a session that has
  raised nothing is in the charge layer, or the finish layer's `Enter` is to come. Its
  part `Begins` says that between the goto to the charge layer and its `Enter` no
  6 V call can begin and no listener goes home.
* `ChargingsReported`: `Spec => []ChargingReported`, with `Routes`: from the main layer
  over card-wait and connect to the charge layer the charger is `Cold`, so a session
  finds the contactor open, and no thread is `Leaving` that would reset the new
  `bLayerChargeFlg`. In the charge layer (`Charging`) only the stop button's handler
  runs (`StopOnly`), the first 6 V call sets the status (`FirstCall`), and it is
  `Known` at every point of the calls, of the refusal and of the faults (`Told`).

These four share the lemmas on the queue: what a goto adds (`GotoGrows`,
`GotoKeeps`), what a step of the scene moves (`AwaitsMoves`, `QueueMoves`), and for
each thread one lemma with a step per action. `OnceInv`, `Home`, `Reported` and
`Routes` were checked with TLC before they were proved.

`ReadQueueProofs` proves, for every `Size` above one and every set of bytes:

* `TypeCorrect`: `Spec => []TypeOK`.
* `RingIsFifo`: `Spec => IsFifo`. The invariant adds `ChecksHold`: a check that
  was true when it was made stays true until it is used, since only the consumer
  moves `front` and only the producer moves `rear`. Each step of the ring then
  maps to `Reserve`, `Fill`, `Deliver`, `Misread`, `Lose`, `Refuse` or a stutter of
  `ByteFifo`. The empty place is always the newest (`ItemsAre`), so every fetch but that
  of an only place is a `Deliver`, and a store comes to its place, or to one already
  taken (`Owing`).

`ZeroCurrentProofs` proves, for every length of minute and hour and every
`Patience`:

* `TypeCorrect`: `Spec => []TypeOK`.
* `StopsInTime`: `Spec => []NeverEarly`. A zero time the check holds is one of the
  present run of zero readings (`Honest`), and a difference of minutes of the hour
  never exceeds the minutes that passed (`MinutesPass`).
* `EndsInTime`: `Gap <= TicksPerMinute => (Spec => []EndsUnlessLateInHour)`. The
  converse, `MinutesSpare`: while the hour cannot have turned, a difference of at
  most `p` minutes means that less than `p + 1` have passed since that minute
  began. `Patient` carries that from one answer of the meter to the next, so the
  meter must answer at least once a minute; TLC refutes the property with a longer
  gap. The meter is polled every second.

`SeccLinkProofs` proves, for every number of silent polls, length of a VAS record
and bound on the troubles:

* `TypeCorrect`: `Spec => []TypeOK`. The bound on the answers under way needs
  `LineInv`: beside the late ones there is at most the answer to the request that
  waits.
* `StatusFromStatus`: `Spec => []StatusIsStatus`, with `ParseFits`: an answer that is
  about to be parsed has the length of the last read asked for. Nothing is assumed of
  the length of the last chunk: one of six registers is told from the status only
  while no answer has been late, since the read answers under way then answer the
  last read (`Punctual`).

`MeterValuesProofs` proves, for every width of the register, length of the queue,
number of strings and of sessions:

* `TypeCorrect`: `Spec => []TypeOK`. `ReadWattOK`: any mix of the bytes of two
  readings is a reading.
* `ReportsAddUp`: `Spec => []ReportsExact`, with the inductive `Shape` and `Books`:
  while no cause is recorded, what is under way is the first part of what is
  queued, nothing is queued before the first sample, and a StartTransaction under
  way carries the reading from which the queue counts, no values being answered
  while one is awaited. `TotalAppend`, that a further entry adds its value to the
  sum, is proved by induction on the length of the queue. `Induction` states the
  principle for a set of numbers; it follows from `NatLessThanWellFounded` and
  `WFMin` of the library, and with it `TotalDef` shows that the function `Total`
  is what its recursion says.

Only model-checked: liveness, which is out of the prover's reach, `IsFairFifo`
and the leads-to properties of `SeccLink` among it. Every safety invariant of a
run that is to pass is a theorem; those of `OcppCallProofs` under their hypotheses.

## 5. Not modelled, and the plan

Not modelled: JSON scanning and building at character level; the screens and
their wording; the INI file; network bring-up and the web server; the OBD tester
and the EVCC id steps of the other model; the frames of meter and card reader;
the counters of the fault monitor, whose verdict comes at any time instead, and the
fault bits, which are display only; price and free-time arithmetic; the binary client
(`tsctclient.c`, `tsctpacket.c`) that is not in the build. The vendor's platform
under `sdk/` and `openrtos/`, which is nearly all of the repository's lines, is
outside the program; of it only the scene's goto and action queue are modelled.

Next, in this order:

1. `FwUpdate`: the order of reported update steps against the update task, and the
   availability that is saved before the report restores it (`layer_top.c:495`).
2. The start request that a blocked client thread loses (`layer_main.c:209`), and
   with it the composition of `ChargeSession` with `OcppLink`.
3. An abstract request/answer channel that `OcppLink` implements under `Quiet`.
