---------------------------- MODULE ZeroCurrent ----------------------------
(***************************************************************************)
(* CheckCurrentIsZero: a session whose meter reads no current is to be     *)
(* ended.  The check compares minutes of the hour, so what it does depends *)
(* on where in its hour the charging time stood when the current stopped.  *)
(***************************************************************************)
EXTENDS Integers

CONSTANTS
  TicksPerMinute,       \* 60 in the code: sChargeTime is in seconds
  MinutesPerHour,       \* 60
  Patience,             \* 14: the stop comes when more minutes than this have passed
  Gap,                  \* bound: the ticks between two answers of the meter
  MaxTime               \* bound: the longest charging time

ASSUME ZeroAssumption ==
  /\ {TicksPerMinute, MinutesPerHour, Gap} \subseteq Nat \ {0}
  /\ {Patience, MaxTime} \subseteq Nat

None == -1

VARIABLES
  sChargeTime,          \* the charging time, set once a second by the monitoring task
  sCurrentZeroTime,     \* *tCurZeroTime: when the current stopped, 0 if it has not
  mc,                   \* CstGetMcstatus(): the contactor is closed
  order,                \* app_order: "charging" or "stop"
  \* what really happened
  read,                 \* the charging time of the last answer of the meter
  zeroAt                \* that of the first of the present run of zero readings, or None

vars == <<sChargeTime, sCurrentZeroTime, mc, order, read, zeroAt>>

Times == 0..MaxTime

\* The times stay within the session, and a run of zero readings lies in its past.
TypeOK ==
  /\ sChargeTime \in Times
  /\ sCurrentZeroTime \in 0..sChargeTime /\ read \in 0..sChargeTime
  /\ mc \in BOOLEAN /\ order \in {"charging", "stop"}
  /\ zeroAt \in {None} \cup (0..read)

-----------------------------------------------------------------------------
\* ChargeOnEnter and StartCharge
Fresh ==
  /\ sChargeTime = 0 /\ sCurrentZeroTime = 0 /\ mc = TRUE /\ order = "charging"
  /\ read = 0 /\ zeroAt = None

Init == Fresh

\* Mutant: ChargeOnEnter forgets sCh1CurrentZeroTime.
ChargeOnEnterStale ==
  /\ order = "stop"
  /\ sChargeTime' = 0 /\ mc' = TRUE /\ order' = "charging"
  /\ read' = 0 /\ zeroAt' = None
  /\ UNCHANGED sCurrentZeroTime

ChargeOnEnter ==
  /\ order = "stop"
  /\ sChargeTime' = 0 /\ sCurrentZeroTime' = 0 /\ mc' = TRUE /\ order' = "charging"
  /\ read' = 0 /\ zeroAt' = None

\* The monitoring task, once a second; the meter has answered within the last Gap ticks
Second ==
  /\ order = "charging" /\ sChargeTime < MaxTime /\ sChargeTime - read < Gap
  /\ sChargeTime' = sChargeTime + 1
  /\ UNCHANGED <<sCurrentZeroTime, mc, order, read, zeroAt>>

\* The pilot listener opens the contactor while the car pauses and closes it again
Pilot ==
  /\ order = "charging"
  /\ mc' = ~mc
  /\ UNCHANGED <<sChargeTime, sCurrentZeroTime, order, read, zeroAt>>

\* (t % 3600) / 60
MinuteOf(t) == (t % (TicksPerMinute * MinutesPerHour)) \div TicksPerMinute

\* Mutant: one minute early.
ZeroPastEarly ==
  LET past == MinuteOf(sChargeTime) - MinuteOf(sCurrentZeroTime)
  IN (IF past < 0 THEN 0 ELSE past) + 1

\* Mutant: the difference is taken the other way round.
ZeroPastSwapped ==
  LET past == MinuteOf(sCurrentZeroTime) - MinuteOf(sChargeTime)
  IN IF past < 0 THEN 0 ELSE past

\* tZeroCurrentPastTime
ZeroPast ==
  LET past == MinuteOf(sChargeTime) - MinuteOf(sCurrentZeroTime)
  IN IF past < 0 THEN 0 ELSE past

\* Current flows, or the contactor is open
CurrentFlows(zero) ==
  /\ ~(zero /\ mc)
  /\ sCurrentZeroTime' = 0 /\ zeroAt' = None
  /\ UNCHANGED <<mc, order>>

ZeroBegins ==
  /\ mc /\ sCurrentZeroTime = 0
  /\ sCurrentZeroTime' = sChargeTime
  /\ UNCHANGED <<mc, order>>

ZeroGoesOn ==
  /\ mc /\ sCurrentZeroTime # 0
  /\ IF ZeroPast > Patience
     THEN mc' = FALSE /\ order' = "stop"   \* StopCharge, APP_ORDER_CHARGING_STOP
     ELSE UNCHANGED <<mc, order>>
  /\ UNCHANGED sCurrentZeroTime

\* WHMListenerOnCharge with a current below 0.01 A, or above
MeterReads(zero) ==
  /\ order = "charging"
  /\ \/ CurrentFlows(zero)
     \/ /\ zero /\ (ZeroBegins \/ ZeroGoesOn)
        /\ zeroAt' = IF zeroAt = None THEN sChargeTime ELSE zeroAt
  /\ read' = sChargeTime
  /\ UNCHANGED sChargeTime

\* The session ends some other way
OtherStop ==
  /\ order = "charging"
  /\ order' = "stop" /\ mc' = FALSE /\ zeroAt' = None
  /\ UNCHANGED <<sChargeTime, sCurrentZeroTime, read>>

Next ==
  \/ ChargeOnEnter \/ Second \/ Pilot \/ OtherStop
  \/ \E zero \in BOOLEAN : MeterReads(zero)

Spec == Init /\ [][Next]_vars

-----------------------------------------------------------------------------
ZeroFor == sChargeTime - zeroAt

\* The check stops a session (zeroAt is kept) only after more than Patience minutes of readings
\* without current, none of them before the session: a session that draws current is never
\* ended by an old zero time or by the turn of the hour.
NeverEarly ==
  order = "stop" /\ zeroAt # None => ZeroFor > Patience * TicksPerMinute

\* It does stop one whose current ended early enough in the hour of its charging time: within
\* Patience + 1 minutes, and the answers the meter takes.
EndsUnlessLateInHour ==
  /\ order = "charging" /\ zeroAt # None /\ sCurrentZeroTime # 0
  /\ MinuteOf(sCurrentZeroTime) + Patience + 1 < MinutesPerHour
  => ZeroFor <= (Patience + 1) * TicksPerMinute + 2 * Gap

\* layer_common.c:130 "Charging ends when it is 0.0A for 15 minutes", with two minutes to spare.
EndsAfterFifteenMinutes ==
  order = "charging" /\ zeroAt # None => ZeroFor <= (Patience + 3) * TicksPerMinute
=============================================================================
