----------------------------- MODULE MeterClock -----------------------------
(***************************************************************************)
(* When WSClientThread samples the meter and when it sends MeterValues:    *)
(* the edge detectors Check_Sampled_Time and Check_Meter_Time.  Each looks *)
(* at the wall clock whenever the loop comes by, fires in the first second *)
(* of its period unless its flag is set, sets the flag, and clears it when *)
(* it happens to look in the period's last second.  The loop may look many *)
(* times in a second, or be blocked for seconds; Check_Meter_Time is asked *)
(* only in rounds that await no answer.                                    *)
(***************************************************************************)
EXTENDS Naturals

CONSTANTS
  Minute,    \* seconds between samples (60)
  Samples    \* minutes between MeterValues (3)

ASSUME Periods == Minute \in Nat \ {0, 1} /\ Samples \in Nat \ {0, 1}

VARIABLES
  sec, min,          \* second of the minute, minute of the MeterValues period
  polled,            \* has the client looked at the clock in this second?
  charging,          \* CP_STATUS_CODE_CHARGING and sChCharging
  pc,                \* where WSClientThread is in its loop
  bWaitResFlg,       \* an answer is awaited
  Check_Sampled_flg, Check_Meter_flg

\* What the properties need to know of the past: the samples taken in this
\* minute and the CALLs made in this period, whether the client has not been
\* blocked since the minute began, and whether a sample is owed for it.
VARIABLES inMinute, inPeriod, steady, due

clock   == <<sec, min, polled>>
flags   == <<Check_Sampled_flg, Check_Meter_flg>>
history == <<inMinute, inPeriod, steady, due>>
vars    == <<clock, charging, pc, bWaitResFlg, flags, history>>

TypeOK ==
  /\ sec \in 0..Minute - 1 /\ min \in 0..Samples - 1 /\ polled \in BOOLEAN
  /\ charging \in BOOLEAN /\ pc \in {"sample", "net", "blocked"} /\ bWaitResFlg \in BOOLEAN
  /\ Check_Sampled_flg \in BOOLEAN /\ Check_Meter_flg \in BOOLEAN
  /\ inMinute \in Nat /\ inPeriod \in Nat /\ steady \in BOOLEAN /\ due \in BOOLEAN

Init ==
  /\ sec \in 0..Minute - 1 /\ min \in 0..Samples - 1 /\ polled = FALSE
  /\ charging = FALSE /\ pc = "sample" /\ bWaitResFlg = FALSE
  /\ Check_Sampled_flg = FALSE /\ Check_Meter_flg = FALSE
  /\ inMinute = 0 /\ inPeriod = 0 /\ steady = FALSE /\ due = FALSE

MinuteNow == sec = 0                            \* secondsUntilNextCycle >= 60
MinuteEnd == sec = Minute - 1                   \* secondsUntilNextCycle == 1
PeriodNow == sec = 0 /\ min = 0
PeriodEnd == sec = Minute - 1 /\ min = Samples - 1
----------------------------------------------------------------------------
\* A second passes.  The loop comes by in each one, unless it is blocked.
Tick ==
  /\ polled \/ pc = "blocked"
  /\ polled' = FALSE
  /\ \/ /\ ~MinuteEnd /\ sec' = sec + 1
        /\ UNCHANGED <<min, history>>
     \/ /\ MinuteEnd /\ sec' = 0
        /\ min' = IF PeriodEnd THEN 0 ELSE min + 1
        /\ inMinute' = 0 /\ inPeriod' = IF PeriodEnd THEN 0 ELSE inPeriod
        /\ steady' = (pc # "blocked") /\ due' = (steady /\ charging)
  /\ UNCHANGED <<charging, pc, bWaitResFlg, flags>>

\* The answer to a Heartbeat sets the wall clock: no minute it cuts into is counted.
ClockSet ==
  /\ sec' \in 0..Minute - 1 /\ min' \in 0..Samples - 1
  /\ inMinute' = 0 /\ inPeriod' = 0 /\ steady' = FALSE /\ due' = FALSE
  /\ UNCHANGED <<polled, charging, pc, bWaitResFlg, flags>>

\* The session's threads set the connector's status.
ChargingChanges ==
  /\ charging' = ~charging
  /\ due' = FALSE
  /\ UNCHANGED <<clock, pc, bWaitResFlg, flags, inMinute, inPeriod, steady>>

\* The answer arrives.
Answered ==
  /\ bWaitResFlg /\ bWaitResFlg' = FALSE
  /\ UNCHANGED <<clock, charging, pc, flags, history>>

\* Mutants: the flag is not looked at; it is never cleared while charging.
SampleUnflagged ==
  /\ pc = "sample" /\ pc' = "net" /\ polled' = TRUE
  /\ inMinute' = IF ~charging THEN 0 ELSE IF MinuteNow THEN inMinute + 1 ELSE inMinute
  /\ due' = (due /\ ~(charging /\ MinuteNow))
  /\ Check_Sampled_flg' = (charging /\ (MinuteNow \/ Check_Sampled_flg))
  /\ UNCHANGED <<sec, min, charging, bWaitResFlg, Check_Meter_flg, inPeriod, steady>>

SampleNeverRearmed ==
  /\ pc = "sample" /\ pc' = "net" /\ polled' = TRUE
  /\ LET fires == charging /\ MinuteNow /\ ~Check_Sampled_flg
     IN /\ inMinute' = IF ~charging THEN 0 ELSE IF fires THEN inMinute + 1 ELSE inMinute
        /\ due' = (due /\ ~fires)
  /\ Check_Sampled_flg' = (charging /\ (MinuteNow \/ Check_Sampled_flg))
  /\ UNCHANGED <<sec, min, charging, bWaitResFlg, Check_Meter_flg, inPeriod, steady>>

\* Check_Sampled_Time, in every round.  A look while the connector is not
\* charging forgets the minute's sample.
Check_Sampled_Time ==
  /\ pc = "sample" /\ pc' = "net" /\ polled' = TRUE
  /\ LET fires == charging /\ MinuteNow /\ ~Check_Sampled_flg
     IN /\ inMinute' = IF ~charging THEN 0 ELSE IF fires THEN inMinute + 1 ELSE inMinute
        /\ due' = (due /\ ~fires)
  /\ Check_Sampled_flg' = (charging /\ (MinuteNow \/ (Check_Sampled_flg /\ ~MinuteEnd)))
  /\ UNCHANGED <<sec, min, charging, bWaitResFlg, Check_Meter_flg, inPeriod, steady>>

\* A round that awaits an answer does not ask Check_Meter_Time.
NetWaits ==
  /\ pc = "net" /\ bWaitResFlg /\ pc' = "sample"
  /\ UNCHANGED <<clock, charging, bWaitResFlg, flags, history>>

\* Mutant: the flag is set only by the second look.
Check_Meter_TimeLate ==
  /\ pc = "net" /\ ~bWaitResFlg /\ pc' = "sample"
  /\ LET fires == charging /\ PeriodNow /\ ~Check_Meter_flg
     IN /\ inPeriod' = IF ~charging THEN 0 ELSE IF fires THEN inPeriod + 1 ELSE inPeriod
        /\ bWaitResFlg' \in {TRUE, fires}
  /\ Check_Meter_flg' = (charging /\ ((PeriodNow /\ inPeriod > 0) \/ (Check_Meter_flg /\ ~PeriodEnd)))
  /\ UNCHANGED <<clock, charging, Check_Sampled_flg, inMinute, steady, due>>

\* Check_Meter_Time: MeterValues is sent when it fires, otherwise some other
\* CALL or none.
Check_Meter_Time ==
  /\ pc = "net" /\ ~bWaitResFlg /\ pc' = "sample"
  /\ LET fires == charging /\ PeriodNow /\ ~Check_Meter_flg
     IN /\ inPeriod' = IF ~charging THEN 0 ELSE IF fires THEN inPeriod + 1 ELSE inPeriod
        /\ bWaitResFlg' \in {TRUE, fires}
  /\ Check_Meter_flg' = (charging /\ (PeriodNow \/ (Check_Meter_flg /\ ~PeriodEnd)))
  /\ UNCHANGED <<clock, charging, Check_Sampled_flg, inMinute, steady, due>>

\* The loop is blocked: no connection (NetRun sleeps and reconnects), the
\* sleep before a StartTransaction, a slow transmission, the management menu.
NetBlocks ==
  /\ pc = "net" /\ pc' = "blocked"
  /\ steady' = FALSE /\ due' = FALSE
  /\ UNCHANGED <<clock, charging, bWaitResFlg, flags, inMinute, inPeriod>>

\* It goes on; a new connection gives up the answer that was awaited.
NetResumes ==
  /\ pc = "blocked" /\ pc' = "sample"
  /\ bWaitResFlg' \in {bWaitResFlg, FALSE}
  /\ UNCHANGED <<clock, charging, flags, history>>

Next == \/ Tick \/ ClockSet \/ ChargingChanges \/ Answered
        \/ Check_Sampled_Time \/ NetWaits \/ Check_Meter_Time \/ NetBlocks \/ NetResumes

Spec == Init /\ [][Next]_vars
----------------------------------------------------------------------------
\* Check_Sampled_Time never fires twice in a minute, and Check_Meter_Time never
\* twice in a period, however often the loop looks at the clock and wherever
\* it is blocked, while the looks find the connector charging.
FiresOnce == inMinute <= 1 /\ inPeriod <= 1

\* Nor is a minute skipped, if the connector went on charging and the loop was
\* blocked neither in the minute before nor at its start: the flag the last
\* sample set has been cleared in that minute's last second.
EveryMinuteSampled == due => sec = 0

\* The inductive strengthening: a fired detector's flag is set for the rest of
\* the first second; a steady client has cleared it when the last second ends;
\* a sample that is owed can still be taken, in this second.
Fired ==
  /\ inMinute <= 1 /\ (inMinute = 1 /\ MinuteNow => Check_Sampled_flg)
  /\ inPeriod <= 1 /\ (inPeriod = 1 /\ PeriodNow => Check_Meter_flg)
Rearmed ==
  steady => pc # "blocked" /\ (MinuteEnd /\ polled => ~Check_Sampled_flg)
Owed ==
  due => sec = 0 /\ ~polled /\ ~Check_Sampled_flg /\ pc # "blocked" /\ charging

IInv == TypeOK /\ Fired /\ Rearmed /\ Owed
=============================================================================
