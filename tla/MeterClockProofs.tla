--------------------------- MODULE MeterClockProofs -------------------------
(***************************************************************************)
(* The edge detectors of the meter, for every length of a minute and every *)
(* number of minutes in a period.                                          *)
(***************************************************************************)
EXTENDS MeterClock, TLAPS

\* The client starts with both flags clear and nothing fired.
LEMMA IInvInit == Init => IInv
<1> SUFFICES ASSUME Init PROVE IInv
  OBVIOUS
<1>1. TypeOK
  BY DEF Init, TypeOK
<1>2. inMinute <= 1 /\ inPeriod <= 1 /\ inMinute # 1 /\ inPeriod # 1
  BY DEF Init
<1>3. ~steady /\ ~due
  BY DEF Init
<1> QED
  BY <1>1, <1>2, <1>3 DEF IInv, Fired, Rearmed, Owed

\* Every step of the clock, the client and the session keeps the types.
LEMMA TypeStep == IInv /\ [Next]_vars => TypeOK'
<1> SUFFICES ASSUME IInv, [Next]_vars PROVE TypeOK'
  OBVIOUS
<1> USE Periods DEF IInv, TypeOK, MinuteEnd, PeriodEnd, clock, flags, history
<1>1. CASE Tick
  <2>1. sec' \in 0..Minute - 1 /\ min' \in 0..Samples - 1
    BY <1>1 DEF Tick
  <2>2. inMinute' \in Nat /\ inPeriod' \in Nat
    BY <1>1 DEF Tick
  <2> QED
    BY <1>1, <2>1, <2>2 DEF Tick
<1>2. CASE ClockSet
  BY <1>2 DEF ClockSet
<1>3. CASE ChargingChanges
  BY <1>3 DEF ChargingChanges
<1>4. CASE Answered
  BY <1>4 DEF Answered
<1>5. CASE Check_Sampled_Time
  BY <1>5 DEF Check_Sampled_Time
<1>6. CASE NetWaits
  BY <1>6 DEF NetWaits
<1>7. CASE Check_Meter_Time
  <2>1. inPeriod' \in Nat
    BY <1>7 DEF Check_Meter_Time
  <2>2. bWaitResFlg' \in BOOLEAN /\ Check_Meter_flg' \in BOOLEAN
    BY <1>7 DEF Check_Meter_Time
  <2> QED
    BY <1>7, <2>1, <2>2 DEF Check_Meter_Time
<1>8. CASE NetBlocks
  BY <1>8 DEF NetBlocks
<1>9. CASE NetResumes
  BY <1>9 DEF NetResumes
<1>10. CASE UNCHANGED vars
  BY <1>10 DEF vars
<1> QED
  BY <1>1, <1>2, <1>3, <1>4, <1>5, <1>6, <1>7, <1>8, <1>9, <1>10 DEF Next

\* A detector that has fired has its flag set until the second is over.
LEMMA FiredStep == IInv /\ [Next]_vars => Fired'
<1> SUFFICES ASSUME IInv, [Next]_vars PROVE Fired'
  OBVIOUS
<1> USE Periods DEF IInv, TypeOK, Fired, MinuteNow, MinuteEnd, PeriodNow, PeriodEnd, clock,
                    flags, history
<1>1. CASE Tick
  <2>1. CASE ~MinuteEnd
    <3>1. sec' # 0 /\ inMinute' = inMinute /\ inPeriod' = inPeriod
      BY <1>1, <2>1 DEF Tick
    <3> QED
      BY <3>1
  <2>2. CASE MinuteEnd
    <3>1. /\ inMinute' = 0 /\ inPeriod' = (IF PeriodEnd THEN 0 ELSE inPeriod)
          /\ min' = IF PeriodEnd THEN 0 ELSE min + 1
      BY <1>1, <2>2 DEF Tick
    <3>2. inPeriod' <= 1 /\ (PeriodNow' => inPeriod' # 1)
      BY <2>2, <3>1
    <3> QED
      BY <3>1, <3>2
  <2> QED
    BY <2>1, <2>2
<1>2. CASE ClockSet
  <2>1. inMinute' = 0 /\ inPeriod' = 0
    BY <1>2 DEF ClockSet
  <2> QED
    BY <2>1
<1>3. CASE ChargingChanges
  BY <1>3 DEF ChargingChanges
<1>4. CASE Answered
  BY <1>4 DEF Answered
<1>5. CASE Check_Sampled_Time
  BY <1>5 DEF Check_Sampled_Time
<1>6. CASE NetWaits
  BY <1>6 DEF NetWaits
<1>7. CASE Check_Meter_Time
  <2>1. inPeriod' <= 1 /\ (inPeriod' = 1 /\ PeriodNow => Check_Meter_flg')
    BY <1>7 DEF Check_Meter_Time
  <2>2. UNCHANGED <<sec, min, inMinute, Check_Sampled_flg>>
    BY <1>7 DEF Check_Meter_Time
  <2> QED
    BY <2>1, <2>2
<1>8. CASE NetBlocks
  BY <1>8 DEF NetBlocks
<1>9. CASE NetResumes
  BY <1>9 DEF NetResumes
<1>10. CASE UNCHANGED vars
  BY <1>10 DEF vars
<1> QED
  BY <1>1, <1>2, <1>3, <1>4, <1>5, <1>6, <1>7, <1>8, <1>9, <1>10 DEF Next

\* A client that was never blocked clears the flag in the last second, and so
\* can take the sample the next minute owes.
LEMMA OwedStep == IInv /\ [Next]_vars => Rearmed' /\ Owed'
<1> SUFFICES ASSUME IInv, [Next]_vars PROVE Rearmed' /\ Owed'
  OBVIOUS
<1> USE Periods DEF IInv, TypeOK, Rearmed, Owed, MinuteNow, MinuteEnd, clock, flags, history
<1>1. CASE Tick
  <2>1. CASE ~MinuteEnd
    <3>1. ~due /\ ~polled' /\ UNCHANGED <<pc, steady, due>>
      BY <1>1, <2>1 DEF Tick
    <3> QED
      BY <3>1
  <2>2. CASE MinuteEnd
    <3>1. /\ sec' = 0 /\ ~polled' /\ UNCHANGED <<charging, pc, Check_Sampled_flg>>
          /\ steady' = (pc # "blocked") /\ due' = (steady /\ charging)
      BY <1>1, <2>2 DEF Tick
    <3>2. due' => ~Check_Sampled_flg
      BY <1>1, <2>2, <3>1 DEF Tick
    <3> QED
      BY <3>1, <3>2
  <2> QED
    BY <2>1, <2>2
<1>2. CASE ClockSet
  <2>1. ~steady' /\ ~due'
    BY <1>2 DEF ClockSet
  <2> QED
    BY <2>1
<1>3. CASE ChargingChanges
  BY <1>3 DEF ChargingChanges
<1>4. CASE Answered
  BY <1>4 DEF Answered
<1>5. CASE Check_Sampled_Time
  BY <1>5 DEF Check_Sampled_Time
<1>6. CASE NetWaits
  BY <1>6 DEF NetWaits
<1>7. CASE Check_Meter_Time
  BY <1>7 DEF Check_Meter_Time
<1>8. CASE NetBlocks
  BY <1>8 DEF NetBlocks
<1>9. CASE NetResumes
  BY <1>9 DEF NetResumes
<1>10. CASE UNCHANGED vars
  BY <1>10 DEF vars
<1> QED
  BY <1>1, <1>2, <1>3, <1>4, <1>5, <1>6, <1>7, <1>8, <1>9, <1>10 DEF Next

\* The invariant holds in every state of every behaviour.
LEMMA IInvAlways == Spec => []IInv
<1>1. IInv /\ [Next]_vars => IInv'
  BY TypeStep, FiredStep, OwedStep DEF IInv
<1> QED
  BY IInvInit, <1>1, PTL DEF Spec

\* Check_Sampled_Time fires at most once in a minute and Check_Meter_Time at
\* most once in a period.
THEOREM DetectorsFireOnce == Spec => []FiresOnce
<1>1. IInv => FiresOnce
  BY DEF IInv, Fired, FiresOnce
<1> QED
  BY <1>1, IInvAlways, PTL

\* No minute of charging goes without its sample while the client runs.
THEOREM NoMinuteSkipped == Spec => []EveryMinuteSampled
<1>1. IInv => EveryMinuteSampled
  BY DEF IInv, Owed, EveryMinuteSampled
<1> QED
  BY <1>1, IInvAlways, PTL
=============================================================================
