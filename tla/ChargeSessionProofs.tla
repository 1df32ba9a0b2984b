------------------------ MODULE ChargeSessionProofs ------------------------
(***************************************************************************)
(* Proofs about ChargeSession, for every set of pilot levels and all      *)
(* bounds: the types, that the contactor is open while the emergency       *)
(* button is pressed and whenever the charger is at home, that a stopped   *)
(* charge stays stopped, that a session ends once and is reported, and     *)
(* that the server sees a charge as charging.                              *)
(***************************************************************************)
EXTENDS ChargeSession, TLAPS

-----------------------------------------------------------------------------
(* The scene *)

\* Queueing a handler keeps the queue a sequence of handlers that is no shorter.
LEMMA QueuedType ==
  ASSUME NEW q \in Seq(Handlers), NEW e \in Handlers
  PROVE  Queued(q, e) \in Seq(Handlers) /\ Len(Queued(q, e)) >= Len(q)
<1>1. CASE \E i \in DOMAIN q : q[i] = e BY <1>1 DEF Queued
<1>2. CASE ~\E i \in DOMAIN q : q[i] = e
  <2>1. Queued(q, e) = Append(q, e) BY <1>2 DEF Queued
  <2>2. Append(q, e) \in Seq(Handlers) /\ Len(Append(q, e)) = Len(q) + 1 OBVIOUS
  <2> QED BY <2>1, <2>2
<1> QED BY <1>1, <1>2

\* So does a goto, which queues the Leave of one layer and the Enter of another.
LEMMA AfterGotoType ==
  ASSUME NEW q \in Seq(Handlers), NEW from \in Layers, NEW to \in Layers
  PROVE  AfterGoto(q, from, to) \in Seq(Handlers) /\ Len(AfterGoto(q, from, to)) >= Len(q)
<1> DEFINE q1 == Queued(q, <<from, "Leave">>)
<1>1. <<from, "Leave">> \in Handlers /\ <<to, "Enter">> \in Handlers BY DEF Handlers
<1>2. q1 \in Seq(Handlers) /\ Len(q1) >= Len(q) BY <1>1, QueuedType
<1> HIDE DEF q1
<1>3. Queued(q1, <<to, "Enter">>) \in Seq(Handlers)
        /\ Len(Queued(q1, <<to, "Enter">>)) >= Len(q1)
  BY <1>1, <1>2, QueuedType
<1>4. AfterGoto(q, from, to) = Queued(q1, <<to, "Enter">>) BY DEF AfterGoto, q1
<1>5. Len(q) \in Nat /\ Len(q1) \in Nat /\ Len(Queued(q1, <<to, "Enter">>)) \in Nat
  BY <1>2, <1>3
<1> QED BY <1>2, <1>3, <1>4, <1>5

\* A goto of any thread keeps the scene's types.
LEMMA GotoType ==
  ASSUME SceneType, NEW l \in Layers, ituLayerGoto(l) PROVE SceneType'
<1>1. queue' \in Seq(Handlers) /\ Len(queue') >= Len(queue)
  BY AfterGotoType DEF SceneType, ituLayerGoto, Shows
<1>2. Len(queue) \in Nat /\ Len(queue') \in Nat BY <1>1 DEF SceneType
<1>3. missed' \in BOOLEAN
  <2>1. CASE l = "main"
    <3>1. missed' = ~MainToCome(queue') BY <2>1 DEF ituLayerGoto, Shows
    <3>2. (~MainToCome(queue')) \in BOOLEAN BY Zenon DEF MainToCome
    <3> QED BY <3>1, <3>2
  <2>2. CASE l # "main" BY <2>2 DEF SceneType, ituLayerGoto, Shows
  <2> QED BY <2>1, <2>2
<1>4. pos' = pos /\ step' = step /\ visible' = l BY DEF ituLayerGoto, Shows
<1> QED BY <1>1, <1>2, <1>3, <1>4 DEF SceneType

\* A thread that leaves the scene alone keeps its types.
LEMMA IdleType == ASSUME SceneType, UNCHANGED scene PROVE SceneType'
  BY DEF SceneType, scene

\* A handler that sleeps keeps them.
LEMMA SleepType == ASSUME SceneType, NEW s \in 0..3, Sleep(s) PROVE SceneType'
  BY DEF SceneType, Sleep

\* A handler that returns with a queue no shorter than before keeps them.
LEMMA ReturnWithType ==
  ASSUME SceneType, NEW q \in Seq(Handlers), Len(q) >= Len(queue), ReturnWith(q),
         visible' \in Layers, UNCHANGED missed
  PROVE  SceneType'
<1>1. pos \in Nat /\ Len(q) \in Nat /\ Len(queue) \in Nat BY DEF SceneType
<1>2. CASE pos < Len(q) BY <1>1, <1>2 DEF SceneType, ReturnWith
<1>3. CASE ~(pos < Len(q))
  <2>1. queue' = <<>> /\ pos' = 0 /\ step' = 0 BY <1>3 DEF ReturnWith
  <2>2. <<>> \in Seq(Handlers) /\ Len(<<>>) = 0 OBVIOUS
  <2> QED BY <2>1, <2>2 DEF SceneType
<1> QED BY <1>2, <1>3

\* A plain return keeps them.
LEMMA ReturnType == ASSUME SceneType, Return PROVE SceneType'
<1>1. queue \in Seq(Handlers) /\ Len(queue) >= Len(queue) BY DEF SceneType
<1>2. ReturnWith(queue) /\ visible' \in Layers /\ UNCHANGED missed BY DEF Return, SceneType
<1> QED BY <1>1, <1>2, ReturnWithType

\* So does a handler's own goto, after which it goes on.
LEMMA HandlerGotoType ==
  ASSUME SceneType, NEW s \in 0..3, Shows("finish"), pos' = pos, step' = s
  PROVE  SceneType'
<1>1. "finish" \in Layers BY DEF Layers
<1>2. queue' \in Seq(Handlers) /\ Len(queue') >= Len(queue)
  BY <1>1, AfterGotoType DEF SceneType, Shows
<1>3. Len(queue) \in Nat /\ Len(queue') \in Nat BY <1>2 DEF SceneType
<1>4. visible' = "finish" /\ missed' = missed BY DEF Shows
<1> QED BY <1>1, <1>2, <1>3, <1>4 DEF SceneType

\* An action queued alone, by a boot or a press, keeps them.
LEMMA FirstType ==
  ASSUME NEW l \in Layers, NEW e \in {"Enter", "Stop"}
  PROVE  << <<l, e>> >> \in Seq(Handlers) /\ Len(<< <<l, e>> >>) = 1
<1>1. <<l, e>> \in Handlers BY DEF Handlers
<1> QED BY <1>1

-----------------------------------------------------------------------------
(* Types *)

\* What the world spends of its bounds leaves them bounds.
LEMMA SpendType ==
  ASSUME SessionAssumption, left \in Budgets,
         \/ Spend("moves") \/ Spend("presses") \/ Spend("remotes") \/ Spend("faults")
         \/ Spend("resets") \/ Spend("strays")
  PROVE  left' \in Budgets
<1>1. CASE Spend("moves") BY <1>1, SessionAssumption DEF Spend, CanSpend, Budgets
<1>2. CASE Spend("presses") BY <1>2, SessionAssumption DEF Spend, CanSpend, Budgets
<1>3. CASE Spend("remotes") BY <1>3, SessionAssumption DEF Spend, CanSpend, Budgets
<1>4. CASE Spend("resets") BY <1>4, SessionAssumption DEF Spend, CanSpend, Budgets
<1>5. CASE Spend("strays") BY <1>5, SessionAssumption DEF Spend, CanSpend, Budgets
<1>6. CASE Spend("faults") BY <1>6, SessionAssumption DEF Spend, CanSpend, Budgets
<1> QED BY <1>1, <1>2, <1>3, <1>4, <1>5, <1>6

\* So does a goto, which may be a stray.
LEMMA GotoBudget ==
  ASSUME SessionAssumption, left \in Budgets, NEW l, NEW to, GotoFrom(l, to)
  PROVE  left' \in Budgets
<1>1. CASE UNCHANGED left BY <1>1
<1>2. CASE Spend("strays") BY <1>2, SpendType
<1> QED BY <1>1, <1>2 DEF GotoFrom

\* Where a thread goes is one of its places.
LEMMA GoesType ==
  ASSUME pc \in [Threads -> Places], NEW t \in Threads, NEW p \in Places, Goes(t, p)
  PROVE  pc' \in [Threads -> Places]
  BY DEF Goes

\* Opening the contactor keeps the history's type.
LEMMA OpenedHistory == ASSUME h \in Histories, MagneticContactorOff PROVE h' \in Histories
<1>1. (h.overtaken \/ pc["cp"] \in Closing) \in BOOLEAN OBVIOUS
<1> QED BY <1>1 DEF MagneticContactorOff, Histories

\* So does entering the charge layer.
LEMMA EnteredHistory ==
  ASSUME NEW b \in BOOLEAN, NEW s \in BOOLEAN
  PROVE  [NoHistory EXCEPT !.overtaken = b, !.straight = s] \in Histories
<1>1. NoHistory \in Histories BY DEF NoHistory, Histories
<1> DEFINE h1 == [NoHistory EXCEPT !.overtaken = b]
<1>2. h1 \in Histories BY <1>1 DEF Histories
<1> HIDE DEF h1
<1>3. [h1 EXCEPT !.straight = s] \in Histories BY <1>2 DEF Histories
<1> QED BY <1>3 DEF h1

\* So does forgetting the server's stop.
LEMMA ForgottenHistory == ASSUME h \in Histories, StopForgotten PROVE h' \in Histories
<1>1. (IF h.ended = "remote" /\ listener = "charge" THEN "other" ELSE h.ended)
        \in {"no", "button", "remote", "other"}
  BY DEF Histories
<1> QED BY <1>1 DEF StopForgotten, Histories

\* A thread that is done with the finish layer keeps the types.
LEMMA GoesOnType ==
  ASSUME TypeOK, NEW t \in Threads, GoesOn(t)
  PROVE  /\ pc' \in [Threads -> Places] /\ chargecomp_stop' \in BOOLEAN
         /\ cpStatus' \in {cpStatus, "FAULT"}
<1>1. pc' \in [Threads -> Places]
  BY GoesType DEF GoesOn, TypeOK, ThreadType, Places
<1> QED BY <1>1 DEF GoesOn, TypeOK, FlagType

\* So does GotoNextLayerOnCharge.
LEMMA NextLayerType ==
  ASSUME TypeOK, NEW t \in Threads, GotoNextLayerOnCharge(t)
  PROVE  /\ SceneType' /\ pc' \in [Threads -> Places] /\ chargecomp_stop' \in BOOLEAN
         /\ cpStatus' \in {cpStatus, "FAULT"} /\ bLayerChargeFlg' = bLayerChargeFlg
<1>1. bLayerChargeFlg' = bLayerChargeFlg BY DEF GotoNextLayerOnCharge
<1>2. CASE bLayerChargeFlg
  <2>1. ituLayerGoto("finish") /\ Parts(t) /\ UNCHANGED <<chargecomp_stop, cpStatus>>
    BY <1>2 DEF GotoNextLayerOnCharge
  <2>2. pc' \in [Threads -> Places]
    BY <2>1, GoesType DEF Parts, TypeOK, ThreadType, Places, Between
  <2> QED BY <1>1, <2>1, <2>2, GotoType DEF TypeOK, FlagType, Layers
<1>3. CASE ~bLayerChargeFlg
  BY <1>1, <1>3, GoesOnType, IdleType DEF GotoNextLayerOnCharge, TypeOK
<1> QED BY <1>2, <1>3

\* Neither of them makes the listener close the contactor.
LEMMA NoCloser ==
  ASSUME TypeOK, NEW t \in Threads, GotoNextLayerOnCharge(t) \/ GoesOn(t)
  PROVE  pc'["cp"] \in Closing => pc["cp"] \in Closing
<1>1. PICK p \in {"idle", "unplugged", "passed", "parted"} : Goes(t, p)
  BY DEF GotoNextLayerOnCharge, GoesOn, Parts
<1> QED BY <1>1 DEF Goes, Closing, TypeOK, ThreadType

\* So do the reset of bLayerChargeFlg,
LEMMA LayerPassedType == ASSUME TypeOK, NEW t \in Threads, LayerPassed(t) PROVE TypeOK'
<1>1. /\ pc' \in [Threads -> Places] /\ chargecomp_stop' \in BOOLEAN
      /\ cpStatus' \in {cpStatus, "FAULT"}
  BY GoesOnType DEF LayerPassed
<1>2. SceneType' BY IdleType DEF LayerPassed, TypeOK
<1>3. FlagType' BY <1>1 DEF LayerPassed, pilot, emg, waits, TypeOK, FlagType
<1>4. DataType' BY <1>1, SessionAssumption DEF LayerPassed, pilot, emg, waits, TypeOK, DataType
<1>5. ThreadType' BY <1>1 DEF LayerPassed, TypeOK, ThreadType
<1> QED BY <1>2, <1>3, <1>4, <1>5 DEF TypeOK

\* the last part of a stop,
LEMMA ChargingStopType == ASSUME TypeOK, NEW t \in Threads, TSCT_ChargingStop(t) PROVE TypeOK'
<1>1. /\ SceneType' /\ pc' \in [Threads -> Places] /\ chargecomp_stop' \in BOOLEAN
      /\ cpStatus' \in {cpStatus, "FAULT"} /\ bLayerChargeFlg' = bLayerChargeFlg
  BY NextLayerType DEF TSCT_ChargingStop
<1>2. FlagType' BY <1>1 DEF TSCT_ChargingStop, pilot, emg, waits, TypeOK, FlagType
<1>3. DataType' BY <1>1, SessionAssumption DEF TSCT_ChargingStop, pilot, emg, waits,
    CHARGING_STOP, FINISH, TypeOK, DataType
<1>4. ThreadType' BY <1>1 DEF TSCT_ChargingStop, TypeOK, ThreadType
<1> QED BY <1>1, <1>2, <1>3, <1>4 DEF TypeOK

\* and its first.
LEMMA StopBeginsType ==
  ASSUME TypeOK, NEW t \in Threads, StopBegins(t), left' \in Budgets
  PROVE  TypeOK'
<1>1. SceneType' BY IdleType DEF StopBegins, TypeOK
<1>2. FlagType' BY DEF StopBegins, MagneticContactorOff, pilot, charge, emg, status, waits,
    TypeOK, FlagType
<1>3. DataType' BY SessionAssumption DEF StopBegins, pilot, charge, emg, status, waits, TypeOK,
    DataType
<1>4. ThreadType' BY OpenedHistory, GoesType DEF StopBegins, TypeOK, ThreadType, Places
<1> QED BY <1>1, <1>2, <1>3, <1>4 DEF TypeOK

\* Every step keeps the types: the scene thread.
LEMMA TypeSceneThread == TypeOK /\ SceneThread => TypeOK'
<1> SUFFICES ASSUME TypeOK, SceneThread PROVE TypeOK' OBVIOUS
<1> USE DEF TypeOK
<1>1. CASE ituFlushActionQueue
  <2>1. SceneType' BY <1>1 DEF ituFlushActionQueue, SceneType, Layers
  <2>2. FlagType' BY <1>1 DEF ituFlushActionQueue, pilot, charge, emg, status, waits, FlagType
  <2>3. DataType' BY <1>1, SessionAssumption DEF ituFlushActionQueue, pilot, charge, emg, status,
      waits, DataType
  <2>4. ThreadType' BY <1>1 DEF ituFlushActionQueue, ThreadType, Threads, Places, Histories
  <2> QED BY <2>1, <2>2, <2>3, <2>4 DEF TypeOK
<1>2. CASE HandlerReturns
  <2>1. SceneType' BY <1>2, ReturnType DEF HandlerReturns, SceneType, Layers
  <2>2. FlagType' BY <1>2 DEF HandlerReturns, pilot, charge, emg, status, waits, FlagType
  <2>3. DataType' BY <1>2, SessionAssumption DEF HandlerReturns, pilot, charge, emg, status,
      waits, DataType
  <2>4. ThreadType' BY <1>2 DEF HandlerReturns, ThreadType, Threads, Places, Histories
  <2> QED BY <2>1, <2>2, <2>3, <2>4 DEF TypeOK
<1>3. CASE MainOnEnter1
  <2>1. SceneType' BY <1>3, SleepType DEF MainOnEnter1, SceneType, Layers
  <2>2. FlagType' BY <1>3 DEF MainOnEnter1, SetListener, charge, emg, status, FlagType
  <2>3. DataType' BY <1>3, SessionAssumption DEF MainOnEnter1, SetListener, charge, emg, status,
      DataType
  <2>4. ThreadType' BY <1>3 DEF MainOnEnter1, SetListener, ThreadType, Threads, Places, Histories
  <2> QED BY <2>1, <2>2, <2>3, <2>4 DEF TypeOK
<1>4. CASE MainOnEnter2
  <2>1. SceneType' BY <1>4, ReturnType DEF MainOnEnter2, SceneType, Layers
  <2>2. FlagType' BY <1>4 DEF MainOnEnter2, MagneticContactorOff, pilot, charge, emg, waits,
      FlagType
  <2>3. DataType' BY <1>4, SessionAssumption DEF MainOnEnter2, MagneticContactorOff, pilot,
      charge, emg, waits, WAIT, FINISH, DataType
  <2>4. ThreadType' BY <1>4 DEF MainOnEnter2, MagneticContactorOff, Closing, ThreadType, Threads,
      Places, Histories
  <2> QED BY <2>1, <2>2, <2>3, <2>4 DEF TypeOK
<1>5. CASE MainOnLeave
  <2>1. SceneType' BY <1>5, ReturnType DEF MainOnLeave, SceneType, Layers
  <2>2. FlagType' BY <1>5 DEF MainOnLeave, pilot, charge, emg, status, waits, FlagType
  <2>3. DataType' BY <1>5, SessionAssumption DEF MainOnLeave, pilot, charge, emg, status, waits,
      DataType
  <2>4. ThreadType' BY <1>5 DEF MainOnLeave, ThreadType, Threads, Places, Histories
  <2> QED BY <2>1, <2>2, <2>3, <2>4 DEF TypeOK
<1>6. CASE CardWaitEnter
  <2>1. SceneType' BY <1>6, ReturnType DEF CardWaitEnter, SceneType, Layers
  <2>2. FlagType' BY <1>6 DEF CardWaitEnter, pilot, charge, emg, status, FlagType
  <2>3. DataType' BY <1>6, SessionAssumption DEF CardWaitEnter, pilot, charge, emg, status,
      CUSTOMER_AUTH, FINISH, DataType
  <2>4. ThreadType' BY <1>6 DEF CardWaitEnter, ThreadType, Threads, Places, Histories
  <2> QED BY <2>1, <2>2, <2>3, <2>4 DEF TypeOK
<1>7. CASE CardWaitLeave1
  <2>1. SceneType' BY <1>7, SleepType DEF CardWaitLeave1, SceneType, Layers
  <2>2. FlagType' BY <1>7 DEF CardWaitLeave1, pilot, charge, emg, status, FlagType
  <2>3. DataType' BY <1>7, SessionAssumption DEF CardWaitLeave1, pilot, charge, emg, status,
      DataType
  <2>4. ThreadType' BY <1>7 DEF CardWaitLeave1, ThreadType, Threads, Places, Histories
  <2> QED BY <2>1, <2>2, <2>3, <2>4 DEF TypeOK
<1>8. CASE ConnectOnEnter1
  <2>1. SceneType' BY <1>8, SleepType DEF ConnectOnEnter1, SceneType, Layers
  <2>2. FlagType' BY <1>8 DEF ConnectOnEnter1, pilot, charge, emg, status, waits, FlagType
  <2>3. DataType' BY <1>8, SessionAssumption DEF ConnectOnEnter1, pilot, charge, emg, status,
      waits, CONNECTOR_SELECT, FINISH, DataType
  <2>4. ThreadType' BY <1>8 DEF ConnectOnEnter1, ThreadType, Threads, Places, Histories
  <2> QED BY <2>1, <2>2, <2>3, <2>4 DEF TypeOK
<1>9. CASE ConnectOnEnter2
  <2>1. SceneType' BY <1>9, ReturnType DEF ConnectOnEnter2, SceneType, Layers
  <2>2. FlagType' BY <1>9 DEF ConnectOnEnter2, SetListener, charge, emg, status, FlagType
  <2>3. DataType' BY <1>9, SessionAssumption DEF ConnectOnEnter2, SetListener, charge, emg,
      status, DataType
  <2>4. ThreadType' BY <1>9 DEF ConnectOnEnter2, SetListener, ThreadType, Threads, Places,
      Histories
  <2> QED BY <2>1, <2>2, <2>3, <2>4 DEF TypeOK
<1>10. CASE ConnectOnLeave1
  <2>1. SceneType' BY <1>10, SleepType DEF ConnectOnLeave1, SceneType, Layers
  <2>2. FlagType' BY <1>10 DEF ConnectOnLeave1, pilot, charge, emg, status, FlagType
  <2>3. DataType' BY <1>10, SessionAssumption DEF ConnectOnLeave1, pilot, charge, emg, status,
      DataType
  <2>4. ThreadType' BY <1>10 DEF ConnectOnLeave1, ThreadType, Threads, Places, Histories
  <2> QED BY <2>1, <2>2, <2>3, <2>4 DEF TypeOK
<1>11. CASE ChargeOnEnter
  <2>1. SceneType' BY <1>11, HandlerGotoType, ReturnType DEF ChargeOnEnter, SceneType, Layers
  <2>2. FlagType' BY <1>11 DEF ChargeOnEnter, SetListener, charge, emg, status, FlagType
  <2>3. DataType' BY <1>11, SessionAssumption DEF ChargeOnEnter, SetListener, charge, emg, status,
      CHARGE_READY, FINISH, Flags, DataType
  <2>4. ThreadType'
    <3> DEFINE b == pc["cp"] \in Closing \/ (h.overtaken /\ contactor)
    <3>1. b \in BOOLEAN OBVIOUS
    <3>2. Straight \in BOOLEAN BY DEF Straight
    <3>3. h' = [NoHistory EXCEPT !.overtaken = b, !.straight = Straight]
      BY <1>11 DEF ChargeOnEnter
    <3>4. pc' \in [Threads -> Places]
      BY <1>11, GoesType DEF ChargeOnEnter, Parts, ThreadType, Threads, Places, Between
    <3> HIDE DEF b
    <3> QED BY <3>1, <3>2, <3>3, <3>4, EnteredHistory DEF ThreadType
  <2> QED BY <2>1, <2>2, <2>3, <2>4 DEF TypeOK
<1>12. CASE ChargeOnLeave1
  <2>1. SceneType' BY <1>12, SleepType DEF ChargeOnLeave1, SceneType, Layers
  <2>2. FlagType' BY <1>12 DEF ChargeOnLeave1, pilot, charge, emg, status, waits, FlagType
  <2>3. DataType' BY <1>12, SessionAssumption DEF ChargeOnLeave1, pilot, charge, emg, status,
      waits, DataType
  <2>4. ThreadType' BY <1>12 DEF ChargeOnLeave1, Closing, ThreadType, Threads, Places, Histories
  <2> QED BY <2>1, <2>2, <2>3, <2>4 DEF TypeOK
<1>13. CASE ChargeOnLeave2
  <2>1. SceneType' BY <1>13, SleepType DEF ChargeOnLeave2, SceneType, Layers
  <2>2. FlagType' BY <1>13 DEF ChargeOnLeave2, pilot, charge, emg, status, waits, FlagType
  <2>3. DataType' BY <1>13, SessionAssumption DEF ChargeOnLeave2, pilot, charge, emg, status,
      waits, DataType
  <2>4. ThreadType' BY <1>13 DEF ChargeOnLeave2, ThreadType, Threads, Places, Histories
  <2> QED BY <2>1, <2>2, <2>3, <2>4 DEF TypeOK
<1>14. CASE ChargeStopOnDialog1
  <2>1. SceneType' BY <1>14, SleepType DEF ChargeStopOnDialog1, SceneType, Layers
  <2>2. FlagType' BY <1>14 DEF ChargeStopOnDialog1, MagneticContactorOff, pilot, charge, emg,
      status, waits, FlagType
  <2>3. DataType' BY <1>14, SessionAssumption DEF ChargeStopOnDialog1, MagneticContactorOff,
      pilot, charge, emg, status, waits, CHARGING_STOP, FINISH, DataType
  <2>4. ThreadType' BY <1>14 DEF ChargeStopOnDialog1, MagneticContactorOff, Closing, ThreadType,
      Threads, Places, Histories
  <2> QED BY <2>1, <2>2, <2>3, <2>4 DEF TypeOK
<1>15. CASE ChargeStopOnDialog2
  <2>1. SceneType' BY <1>15, HandlerGotoType, ReturnType DEF ChargeStopOnDialog2, SceneType
  <2>2. FlagType' BY <1>15 DEF ChargeStopOnDialog2, pilot, charge, emg, status, FlagType
  <2>3. DataType' BY <1>15, SessionAssumption DEF ChargeStopOnDialog2, pilot, charge, emg, status,
      DataType
  <2>4. ThreadType' BY <1>15, GoesType DEF ChargeStopOnDialog2, Parts, ThreadType, Threads, Places,
      Between
  <2> QED BY <2>1, <2>2, <2>3, <2>4 DEF TypeOK
<1>16. CASE Ch2FinishOnEnter1
  <2>1. SceneType' BY <1>16, SleepType DEF Ch2FinishOnEnter1, SceneType, Layers
  <2>2. FlagType' BY <1>16 DEF Ch2FinishOnEnter1, SetListener, charge, emg, status, waits,
      FlagType
  <2>3. DataType' BY <1>16, SessionAssumption DEF Ch2FinishOnEnter1, SetListener, charge, emg,
      status, waits, CHARGING_STOP, FINISH, Flags, DataType
  <2>4. ThreadType' BY <1>16 DEF Ch2FinishOnEnter1, SetListener, ThreadType, Threads, Places,
      Histories
  <2> QED BY <2>1, <2>2, <2>3, <2>4 DEF TypeOK
<1>17. CASE Ch2FinishOnLeave
  <2>1. SceneType' BY <1>17, ReturnType DEF Ch2FinishOnLeave, SceneType, Layers
  <2>2. FlagType' BY <1>17 DEF Ch2FinishOnLeave, pilot, charge, emg, status, waits, FlagType
  <2>3. DataType' BY <1>17, SessionAssumption DEF Ch2FinishOnLeave, pilot, charge, emg, status,
      waits, DataType
  <2>4. ThreadType' BY <1>17, ForgottenHistory DEF Ch2FinishOnLeave, ThreadType
  <2> QED BY <2>1, <2>2, <2>3, <2>4 DEF TypeOK
<1>18. CASE DisconnectOnEnter
  <2>1. SceneType' BY <1>18, ReturnType DEF DisconnectOnEnter, SceneType, Layers
  <2>2. FlagType' BY <1>18 DEF DisconnectOnEnter, SetListener, charge, emg, status, FlagType
  <2>3. DataType' BY <1>18, SessionAssumption DEF DisconnectOnEnter, SetListener, charge, emg,
      status, CONNECT_OUT, FINISH, DataType
  <2>4. ThreadType' BY <1>18 DEF DisconnectOnEnter, SetListener, ThreadType, Threads, Places,
      Histories
  <2> QED BY <2>1, <2>2, <2>3, <2>4 DEF TypeOK
<1>19. CASE HandlerParts
  <2>1. SceneType' BY <1>19, ReturnType DEF HandlerParts
  <2>2. FlagType' BY <1>19 DEF HandlerParts, pilot, emg, status, waits, FlagType
  <2>3. DataType' BY <1>19, SessionAssumption DEF HandlerParts, pilot, emg, status, waits, DataType
  <2>4. ThreadType' BY <1>19, GoesType DEF HandlerParts, ThreadType, Threads, Places
  <2> QED BY <2>1, <2>2, <2>3, <2>4 DEF TypeOK
<1> QED BY <1>1, <1>2, <1>3, <1>4, <1>5, <1>6, <1>7, <1>8, <1>9, <1>10, <1>11, <1>12, <1>13,
    <1>14, <1>15, <1>16, <1>17, <1>18, <1>19 DEF SceneThread

\* Every step keeps the types: the control pilot thread.
LEMMA TypePilotThread == TypeOK /\ PilotThread => TypeOK'
<1> SUFFICES ASSUME TypeOK, PilotThread PROVE TypeOK' OBVIOUS
<1> USE DEF TypeOK
<1>1. CASE CPListenerOnAhead
  <2>1. SceneType' BY <1>1, IdleType DEF CPListenerOnAhead, SceneType, Layers
  <2>2. FlagType' BY <1>1 DEF CPListenerOnAhead, CPChanged, charge, emg, waits, FlagType
  <2>3. DataType' BY <1>1, SessionAssumption DEF CPListenerOnAhead, CPChanged, charge, emg, waits,
      DataType
  <2>4. ThreadType' BY <1>1 DEF CPListenerOnAhead, CPChanged, ThreadType, Threads, Places,
      Histories
  <2> QED BY <2>1, <2>2, <2>3, <2>4 DEF TypeOK
<1>2. CASE CPListenerOnConnect
  <2>1. SceneType' BY <1>2, GotoType DEF CPListenerOnConnect, GotoFrom, SceneType, Layers
  <2>2. FlagType' BY <1>2 DEF CPListenerOnConnect, GotoFrom, CPChanged, charge, emg, status,
      waits, FlagType
  <2>3. DataType' BY <1>2, GotoBudget, SessionAssumption DEF CPListenerOnConnect, CPChanged,
      charge, emg, status, waits, Flags, DataType
  <2>4. ThreadType' BY <1>2 DEF CPListenerOnConnect, GotoFrom, CPChanged, ThreadType, Threads,
      Places, Histories
  <2> QED BY <2>1, <2>2, <2>3, <2>4 DEF TypeOK
<1>3. CASE CPListenerOnFinish
  <2>1. SceneType' BY <1>3, IdleType DEF CPListenerOnFinish, SceneType, Layers
  <2>2. FlagType' BY <1>3 DEF CPListenerOnFinish, Goes, CPChanged, charge, emg, status, waits,
      FlagType
  <2>3. DataType' BY <1>3, SessionAssumption DEF CPListenerOnFinish, Goes, CPChanged, charge, emg,
      status, waits, DataType
  <2>4. ThreadType' BY <1>3 DEF CPListenerOnFinish, Goes, CPChanged, ThreadType, Threads, Places,
      Histories
  <2> QED BY <2>1, <2>2, <2>3, <2>4 DEF TypeOK
<1>4. CASE CPFinished
  <2>1. SceneType' BY <1>4, GotoType DEF CPFinished, SceneType, Layers
  <2>2. FlagType' BY <1>4 DEF CPFinished, Goes, pilot, charge, emg, status, waits, FlagType
  <2>3. DataType' BY <1>4, SessionAssumption DEF CPFinished, Goes, pilot, charge, emg, status,
      waits, DataType
  <2>4. ThreadType' BY <1>4 DEF CPFinished, Goes, ThreadType, Threads, Places, Histories
  <2> QED BY <2>1, <2>2, <2>3, <2>4 DEF TypeOK
<1>5. CASE CPListenerOnDisconnect
  <2>1. SceneType' BY <1>5, GotoType DEF CPListenerOnDisconnect, SceneType, Layers
  <2>2. FlagType' BY <1>5 DEF CPListenerOnDisconnect, CPChanged, charge, emg, status, FlagType
  <2>3. DataType' BY <1>5, SessionAssumption DEF CPListenerOnDisconnect, CPChanged, charge, emg,
      status, FINISH, DataType
  <2>4. ThreadType' BY <1>5 DEF CPListenerOnDisconnect, CPChanged, ThreadType, Threads, Places,
      Histories
  <2> QED BY <2>1, <2>2, <2>3, <2>4 DEF TypeOK
<1>6. CASE CPIgnored
  <2>1. SceneType' BY <1>6, IdleType DEF CPIgnored, SceneType, Layers
  <2>2. FlagType' BY <1>6 DEF CPIgnored, CPChanged, MayClose, charge, emg, status, waits, FlagType
  <2>3. DataType' BY <1>6, SessionAssumption DEF CPIgnored, CPChanged, MayClose, charge, emg,
      status, waits, DataType
  <2>4. ThreadType' BY <1>6 DEF CPIgnored, CPChanged, MayClose, ThreadType, Threads, Places,
      Histories
  <2> QED BY <2>1, <2>2, <2>3, <2>4 DEF TypeOK
<1>7. CASE CPUnplugged
  <2>1. SceneType' BY <1>7, IdleType DEF CPUnplugged, SceneType, Layers
  <2>2. FlagType' BY <1>7 DEF CPUnplugged, MagneticContactorOff, Goes, CPChanged, charge, emg,
      waits, FlagType
  <2>3. DataType' BY <1>7, SessionAssumption DEF CPUnplugged, MagneticContactorOff, Goes,
      CPChanged, charge, emg, waits, CHARGING_STOP, FINISH, DataType
  <2>4. ThreadType' BY <1>7 DEF CPUnplugged, MagneticContactorOff, Goes, CPChanged, Closing,
      ThreadType, Threads, Places, Histories
  <2> QED BY <2>1, <2>2, <2>3, <2>4 DEF TypeOK
<1>8. CASE CPUnplugStop
  <2>1. /\ SceneType' /\ pc' \in [Threads -> Places] /\ chargecomp_stop' \in BOOLEAN
        /\ cpStatus' \in {cpStatus, "FAULT"} /\ bLayerChargeFlg' = bLayerChargeFlg
    BY <1>8, NextLayerType DEF CPUnplugStop, Threads
  <2>2. FlagType' BY <1>8, <2>1 DEF CPUnplugStop, pilot, emg, waits, FlagType
  <2>3. DataType' BY <1>8, <2>1, SessionAssumption DEF CPUnplugStop, pilot, emg, waits, DataType
  <2>4. ThreadType' BY <1>8, <2>1 DEF CPUnplugStop, ThreadType
  <2> QED BY <2>1, <2>2, <2>3, <2>4 DEF TypeOK
<1>9. CASE CPUnplugEnd
  <2> DEFINE stops == ~sCharging /\ app_order \in {CHARGE_READY, CHARGING}
  <2>1. /\ SceneType' /\ pc' \in [Threads -> Places] /\ chargecomp_stop' \in BOOLEAN
        /\ cpStatus' \in {cpStatus, "FAULT"} /\ bLayerChargeFlg' = bLayerChargeFlg
        /\ contactor' \in BOOLEAN /\ h' \in Histories
    <3>1. CASE stops
      <4>1. MagneticContactorOff /\ Goes("cp", "stop")
              /\ UNCHANGED <<scene, bLayerChargeFlg, chargecomp_stop, cpStatus>>
        BY <1>9, <3>1 DEF CPUnplugEnd
      <4>2. pc' \in [Threads -> Places] BY <4>1, GoesType DEF ThreadType, Threads, Places
      <4>3. h' \in Histories /\ contactor' \in BOOLEAN
        BY <4>1, OpenedHistory DEF ThreadType, MagneticContactorOff
      <4> QED BY <4>1, <4>2, <4>3, IdleType DEF FlagType
    <3>2. CASE ~stops
      <4>1. GotoNextLayerOnCharge("cp") /\ UNCHANGED <<contactor, h>>
        BY <1>9, <3>2 DEF CPUnplugEnd
      <4> QED BY <4>1, NextLayerType DEF FlagType, ThreadType, Threads
    <3> QED BY <3>1, <3>2
  <2>2. FlagType' BY <1>9, <2>1 DEF CPUnplugEnd, pilot, emg, waits, FlagType
  <2>3. DataType' BY <1>9, <2>1, SessionAssumption DEF CPUnplugEnd, pilot, emg, waits, DataType
  <2>4. ThreadType' BY <2>1 DEF ThreadType
  <2> QED BY <2>1, <2>2, <2>3, <2>4 DEF TypeOK
<1>10. CASE CPPaused
  <2>1. SceneType' BY <1>10, IdleType DEF CPPaused, SceneType, Layers
  <2>2. FlagType' BY <1>10 DEF CPPaused, MagneticContactorOff, CPChanged, charge, emg, status,
      waits, FlagType
  <2>3. DataType' BY <1>10, SessionAssumption DEF CPPaused, MagneticContactorOff, CPChanged,
      charge, emg, status, waits, DataType
  <2>4. ThreadType' BY <1>10 DEF CPPaused, MagneticContactorOff, CPChanged, Closing, ThreadType,
      Threads, Places, Histories
  <2> QED BY <2>1, <2>2, <2>3, <2>4 DEF TypeOK
<1>11. CASE CPUnknown
  <2>1. SceneType' BY <1>11, IdleType DEF CPUnknown, SceneType, Layers
  <2>2. FlagType' BY <1>11 DEF CPUnknown, CPChanged, charge, emg, status, waits, FlagType
  <2>3. DataType' BY <1>11, SessionAssumption DEF CPUnknown, CPChanged, charge, emg, status,
      waits, DataType
  <2>4. ThreadType' BY <1>11 DEF CPUnknown, CPChanged, ThreadType, Threads, Places, Histories
  <2> QED BY <2>1, <2>2, <2>3, <2>4 DEF TypeOK
<1>12. CASE CPRequested
  <2>1. SceneType' BY <1>12, IdleType DEF CPRequested, SceneType, Layers
  <2>2. FlagType' BY <1>12 DEF CPRequested, Goes, CPChanged, MayClose, charge, emg, status, waits,
      FlagType
  <2>3. DataType' BY <1>12, SessionAssumption DEF CPRequested, Goes, CPChanged, MayClose, charge,
      emg, status, waits, DataType
  <2>4. ThreadType'
    <3>1. Goes("cp", "resume") \/ Goes("cp", "start") BY <1>12 DEF CPRequested
    <3>2. h' = h BY <1>12 DEF CPRequested
    <3> QED BY <3>1, <3>2, GoesType DEF ThreadType, Threads, Places, Closing
  <2> QED BY <2>1, <2>2, <2>3, <2>4 DEF TypeOK
<1>13. CASE CPStart
  <2>1. SceneType' BY <1>13, IdleType DEF CPStart, SceneType, Layers
  <2>2. FlagType' BY <1>13 DEF CPStart, MagneticContactorOn, Goes, pilot, emg, waits, FlagType
  <2>3. DataType' BY <1>13, SessionAssumption DEF CPStart, MagneticContactorOn, Goes, pilot, emg,
      waits, CHARGING, FINISH, DataType
  <2>4. ThreadType' BY <1>13 DEF CPStart, MagneticContactorOn, Goes, ThreadType, Threads, Places,
      Histories
  <2> QED BY <2>1, <2>2, <2>3, <2>4 DEF TypeOK
<1>14. CASE CPStarted
  <2>1. SceneType' BY <1>14, IdleType DEF CPStarted, SceneType, Layers
  <2>2. FlagType' BY <1>14 DEF CPStarted, Goes, pilot, charge, emg, status, FlagType
  <2>3. DataType' BY <1>14, SessionAssumption DEF CPStarted, Goes, pilot, charge, emg, status,
      DataType
  <2>4. ThreadType' BY <1>14 DEF CPStarted, Goes, ThreadType, Threads, Places, Histories
  <2> QED BY <2>1, <2>2, <2>3, <2>4 DEF TypeOK
<1>15. CASE CPResume
  <2>1. SceneType' BY <1>15, IdleType DEF CPResume, SceneType, Layers
  <2>2. FlagType' BY <1>15 DEF CPResume, MagneticContactorOn, Goes, pilot, emg, status, waits,
      FlagType
  <2>3. DataType' BY <1>15, SessionAssumption DEF CPResume, MagneticContactorOn, Goes, pilot, emg,
      status, waits, DataType
  <2>4. ThreadType' BY <1>15 DEF CPResume, MagneticContactorOn, Goes, ThreadType, Threads, Places,
      Histories
  <2> QED BY <2>1, <2>2, <2>3, <2>4 DEF TypeOK
<1>16. CASE TSCT_ChargingStop("cp") BY <1>16, ChargingStopType DEF Threads
<1>17. CASE LayerPassed("cp") BY <1>17, LayerPassedType DEF Threads
<1> QED BY <1>1, <1>2, <1>3, <1>4, <1>5, <1>6, <1>7, <1>8, <1>9, <1>10, <1>11, <1>12, <1>13,
    <1>14, <1>15, <1>16, <1>17 DEF PilotThread

\* Every step keeps the types: the emergency button thread.
LEMMA TypeEmbThread == TypeOK /\ EmbThread => TypeOK'
<1> SUFFICES ASSUME TypeOK, EmbThread PROVE TypeOK' OBVIOUS
<1> USE DEF TypeOK
<1>1. CASE EmbPressed
  <2>1. SceneType' BY <1>1, GotoType, IdleType DEF EmbPressed, SceneType, Layers
  <2>2. FlagType' BY <1>1 DEF EmbPressed, pilot, charge, status, FlagType
  <2>3. DataType' BY <1>1, SessionAssumption DEF EmbPressed, pilot, charge, status, WAIT,
      CHARGE_END, FINISH, DataType
  <2>4. ThreadType' BY <1>1 DEF EmbPressed, Closing, ThreadType, Threads, Places, Histories
  <2> QED BY <2>1, <2>2, <2>3, <2>4 DEF TypeOK
<1>2. CASE EmbReleased
  <2>1. SceneType' BY <1>2, IdleType DEF EmbReleased, SceneType, Layers
  <2>2. FlagType' BY <1>2 DEF EmbReleased, pilot, charge, status, waits, FlagType
  <2>3. DataType' BY <1>2, SessionAssumption DEF EmbReleased, pilot, charge, status, waits,
      DataType
  <2>4. ThreadType' BY <1>2 DEF EmbReleased, ThreadType, Threads, Places, Histories
  <2> QED BY <2>1, <2>2, <2>3, <2>4 DEF TypeOK
<1> QED BY <1>1, <1>2 DEF EmbThread

\* Every step keeps the types: the monitoring task and the card listener.
LEMMA TypeStopperThread == TypeOK /\ StopperThread => TypeOK'
<1> SUFFICES ASSUME TypeOK, StopperThread PROVE TypeOK' OBVIOUS
<1> USE DEF TypeOK
<1>1. CASE LocalStop BY <1>1, StopBeginsType DEF LocalStop, Threads, DataType
<1>2. CASE RemoteStopSeen BY <1>2, StopBeginsType DEF RemoteStopSeen, Threads, DataType
<1>3. CASE TSCT_ChargingStop("stopper") BY <1>3, ChargingStopType DEF Threads
<1>4. CASE LayerPassed("stopper") BY <1>4, LayerPassedType DEF Threads
<1>5. CASE SuspendsEvse
  <2>1. SceneType' BY <1>5, IdleType DEF SuspendsEvse
  <2>2. FlagType' BY <1>5 DEF SuspendsEvse, pilot, charge, emg, waits, FlagType
  <2>3. DataType' BY <1>5, SessionAssumption DEF SuspendsEvse, pilot, charge, emg, waits, DataType
  <2>4. ThreadType' BY <1>5 DEF SuspendsEvse, ThreadType
  <2> QED BY <2>1, <2>2, <2>3, <2>4 DEF TypeOK
<1> QED BY <1>1, <1>2, <1>3, <1>4, <1>5 DEF StopperThread

\* Every step keeps the types: the fault monitoring task.
LEMMA TypeFaultThread == TypeOK /\ FaultThread => TypeOK'
<1> SUFFICES ASSUME TypeOK, FaultThread PROVE TypeOK' OBVIOUS
<1> USE DEF TypeOK
<1>1. CASE FaultStops
  <2>1. left' \in Budgets BY <1>1, SpendType, SessionAssumption DEF FaultStops, DataType
  <2> QED BY <1>1, <2>1, StopBeginsType DEF FaultStops, Threads
<1>2. CASE FaultSeen
  <2>1. SceneType' BY <1>2, IdleType DEF FaultSeen
  <2>2. FlagType' BY <1>2 DEF FaultSeen, pilot, charge, emg, waits, FlagType
  <2>3. DataType' BY <1>2, SpendType, SessionAssumption DEF FaultSeen, pilot, charge, emg, waits,
      DataType
  <2>4. ThreadType' BY <1>2 DEF FaultSeen, ThreadType
  <2> QED BY <2>1, <2>2, <2>3, <2>4 DEF TypeOK
<1>3. CASE TSCT_ChargingStop("fault") BY <1>3, ChargingStopType DEF Threads
<1>4. CASE LayerPassed("fault") BY <1>4, LayerPassedType DEF Threads
<1> QED BY <1>1, <1>2, <1>3, <1>4 DEF FaultThread

\* Every step keeps the types: the order sequence task.
LEMMA TypeOrderThread == TypeOK /\ OrderThread => TypeOK'
<1> SUFFICES ASSUME TypeOK, OrderThread PROVE TypeOK' OBVIOUS
<1> USE DEF TypeOK
<1>1. CASE OrderSeesPause
  <2>1. SceneType' BY <1>1, IdleType DEF OrderSeesPause, SceneType, Layers
  <2>2. FlagType' BY <1>1 DEF OrderSeesPause, Goes, pilot, charge, emg, status, waits, FlagType
  <2>3. DataType' BY <1>1, SessionAssumption DEF OrderSeesPause, Goes, pilot, charge, emg, status,
      waits, DataType
  <2>4. ThreadType' BY <1>1 DEF OrderSeesPause, Goes, ThreadType, Threads, Places, Histories
  <2> QED BY <2>1, <2>2, <2>3, <2>4 DEF TypeOK
<1>2. CASE OrderDecides
  <2>1. SceneType' BY <1>2, IdleType DEF OrderDecides, SceneType, Layers
  <2>2. FlagType' BY <1>2 DEF OrderDecides, MagneticContactorOff, Goes, pilot, charge, emg,
      status, waits, FlagType
  <2>3. DataType' BY <1>2, SessionAssumption DEF OrderDecides, MagneticContactorOff, Goes, pilot,
      charge, emg, status, waits, CHARGING_STOP, FINISH, DataType
  <2>4. ThreadType'
    <3>1. CASE stime = "fresh" BY <1>2, <3>1 DEF OrderDecides, Goes, ThreadType, Threads, Places
    <3>2. CASE stime # "fresh"
      <4>1. MagneticContactorOff /\ Goes("order", "stop") BY <1>2, <3>2 DEF OrderDecides
      <4> QED BY <4>1, OpenedHistory, GoesType DEF ThreadType, Threads, Places
    <3> QED BY <3>1, <3>2
  <2> QED BY <2>1, <2>2, <2>3, <2>4 DEF TypeOK
<1>3. CASE OrderStops
  <2>1. /\ SceneType' /\ pc' \in [Threads -> Places] /\ chargecomp_stop' \in BOOLEAN
        /\ cpStatus' \in {cpStatus, "FAULT"} /\ bLayerChargeFlg' = bLayerChargeFlg
    BY <1>3, NextLayerType DEF OrderStops, Threads
  <2>2. FlagType' BY <1>3, <2>1 DEF OrderStops, pilot, emg, waits, FlagType
  <2>3. DataType' BY <1>3, <2>1, SessionAssumption DEF OrderStops, pilot, emg, waits, DataType
  <2>4. ThreadType' BY <1>3, <2>1 DEF OrderStops, ThreadType
  <2> QED BY <2>1, <2>2, <2>3, <2>4 DEF TypeOK
<1>4. CASE LayerPassed("order") BY <1>4, LayerPassedType DEF Threads
<1> QED BY <1>1, <1>2, <1>3, <1>4 DEF OrderThread

\* Every step keeps the types: the top timer.
LEMMA TypeTopTimer == TypeOK /\ TopTimer => TypeOK'
<1> SUFFICES ASSUME TypeOK, TopTimer PROVE TypeOK' OBVIOUS
<1> USE DEF TypeOK
<1>1. CASE TimerFires
  <2>1. SceneType' BY <1>1, GotoType, IdleType DEF TimerFires, GotoFrom, SceneType, Layers
  <2>2. FlagType' BY <1>1 DEF TimerFires, GotoFrom, pilot, charge, emg, status, FlagType
  <2>3. DataType' BY <1>1, GotoBudget, SessionAssumption DEF TimerFires, pilot, charge, emg,
      status, FINISH, DataType
  <2>4. ThreadType' BY <1>1 DEF TimerFires, GotoFrom, ThreadType, Threads, Places, Histories
  <2> QED BY <2>1, <2>2, <2>3, <2>4 DEF TypeOK
<1>2. CASE ChargeTimerFires
  <2>1. /\ SceneType' /\ pc' \in [Threads -> Places] /\ chargecomp_stop' \in BOOLEAN
        /\ cpStatus' \in {cpStatus, "FAULT"} /\ bLayerChargeFlg' = bLayerChargeFlg
        /\ contactor' \in BOOLEAN /\ h' \in Histories
    <3>1. CASE app_order \in {CHARGE_READY, CHARGING}
      <4>1. MagneticContactorOff /\ Goes("top", "stop")
              /\ UNCHANGED <<scene, bLayerChargeFlg, chargecomp_stop, cpStatus>>
        BY <1>2, <3>1 DEF ChargeTimerFires
      <4>2. pc' \in [Threads -> Places] BY <4>1, GoesType DEF ThreadType, Threads, Places
      <4>3. h' \in Histories /\ contactor' \in BOOLEAN
        BY <4>1, OpenedHistory DEF ThreadType, MagneticContactorOff
      <4> QED BY <4>1, <4>2, <4>3, IdleType DEF FlagType
    <3>2. CASE app_order \notin {CHARGE_READY, CHARGING}
      <4>1. GotoNextLayerOnCharge("top") /\ UNCHANGED <<contactor, h>>
        BY <1>2, <3>2 DEF ChargeTimerFires
      <4> QED BY <4>1, NextLayerType DEF FlagType, ThreadType, Threads
    <3> QED BY <3>1, <3>2
  <2>2. FlagType' BY <1>2, <2>1 DEF ChargeTimerFires, pilot, emg, FlagType
  <2>3. DataType' BY <1>2, <2>1, SessionAssumption DEF ChargeTimerFires, pilot, emg, DataType
  <2>4. ThreadType' BY <2>1 DEF ThreadType
  <2> QED BY <2>1, <2>2, <2>3, <2>4 DEF TypeOK
<1>3. CASE TSCT_ChargingStop("top") BY <1>3, ChargingStopType DEF Threads
<1>4. CASE LayerPassed("top") BY <1>4, LayerPassedType DEF Threads
<1> QED BY <1>1, <1>2, <1>3, <1>4 DEF TopTimer

\* Every step keeps the types: the card-wait task.
LEMMA TypeWaitThread == TypeOK /\ WaitThread => TypeOK'
<1> SUFFICES ASSUME TypeOK, WaitThread PROVE TypeOK' OBVIOUS
<1> USE DEF TypeOK
<1>1. CASE WaitGoes
  <2>1. SceneType' BY <1>1, GotoType, IdleType DEF WaitGoes, GotoFrom, SceneType, Layers
  <2>2. FlagType'
    <3>1. CASE pc["wait"] = "ok"
      BY <1>1, <3>1 DEF WaitGoes, charge, emg, status, FlagType
    <3>2. CASE pc["wait"] # "ok"
      BY <1>1, <3>2 DEF WaitGoes, charge, emg, status, FlagType
    <3> QED BY <3>1, <3>2
  <2>3. DataType' BY <1>1, GotoBudget, SessionAssumption DEF WaitGoes, Goes, pilot, charge, emg,
      status, DataType
  <2>4. ThreadType' BY <1>1 DEF WaitGoes, GotoFrom, Goes, ThreadType, Threads, Places, Histories
  <2> QED BY <2>1, <2>2, <2>3, <2>4 DEF TypeOK
<1>2. CASE \E r \in {"ok", "fail"} : WaitAnswered(r)
  <2>1. SceneType' BY <1>2, IdleType DEF WaitAnswered, SceneType, Layers
  <2>2. FlagType' BY <1>2 DEF WaitAnswered, Goes, pilot, charge, emg, FlagType
  <2>3. DataType' BY <1>2, SessionAssumption DEF WaitAnswered, Goes, pilot, charge, emg, DataType
  <2>4. ThreadType' BY <1>2 DEF WaitAnswered, Goes, ThreadType, Threads, Places, Histories
  <2> QED BY <2>1, <2>2, <2>3, <2>4 DEF TypeOK
<1> QED BY <1>1, <1>2 DEF WaitThread

\* Every step keeps the types: the status task.
LEMMA TypeStatusThread == TypeOK /\ StatusThread => TypeOK'
<1> SUFFICES ASSUME TypeOK, StatusThread PROVE TypeOK' OBVIOUS
<1> USE DEF TypeOK
<1>1. CASE RemoteStartSeen
  <2>1. SceneType' BY <1>1, IdleType DEF RemoteStartSeen, SceneType, Layers
  <2>2. FlagType' BY <1>1 DEF RemoteStartSeen, Goes, pilot, charge, emg, status, waits, FlagType
  <2>3. DataType' BY <1>1, SpendType, SessionAssumption DEF RemoteStartSeen, Goes, pilot, charge,
      emg,
      status, waits, REMOTE_CHECK, FINISH, DataType
  <2>4. ThreadType' BY <1>1 DEF RemoteStartSeen, Goes, ThreadType, Threads, Places, Histories
  <2> QED BY <2>1, <2>2, <2>3, <2>4 DEF TypeOK
<1>2. CASE RemoteStartGoes
  <2>1. SceneType' BY <1>2, GotoType DEF RemoteStartGoes, GotoFrom, SceneType, Layers
  <2>2. FlagType' BY <1>2 DEF RemoteStartGoes, GotoFrom, Goes, pilot, charge, emg, status, waits,
      FlagType
  <2>3. DataType' BY <1>2, GotoBudget, SessionAssumption DEF RemoteStartGoes, Goes, pilot, charge,
      emg, status, waits, DataType
  <2>4. ThreadType' BY <1>2 DEF RemoteStartGoes, GotoFrom, Goes, ThreadType, Threads, Places,
      Histories
  <2> QED BY <2>1, <2>2, <2>3, <2>4 DEF TypeOK
<1>3. CASE ResetSeen BY <1>3, StopBeginsType DEF ResetSeen, Threads, DataType
<1>4. CASE Reboots
  <2>1. SceneType'
    <3>1. queue' \in Seq(Handlers) /\ Len(queue') = 1
      <4>1. "main" \in Layers BY DEF Layers
      <4> QED BY <1>4, <4>1, FirstType DEF Reboots
    <3>2. visible' = "main" /\ pos' = 0 /\ step' = 0 BY <1>4 DEF Reboots
    <3>3. missed' \in BOOLEAN BY <1>4 DEF Reboots
    <3> QED BY <3>1, <3>2, <3>3 DEF SceneType, Layers
  <2>2. FlagType' BY <1>4 DEF Reboots, status, emg, FlagType
  <2>3. DataType' BY <1>4, SessionAssumption DEF Reboots, status, CHARGING, emg, FINISH, DataType
  <2>4. ThreadType' BY <1>4 DEF Reboots, NoHistory, ThreadType, Threads, Places, Histories
  <2> QED BY <2>1, <2>2, <2>3, <2>4 DEF TypeOK
<1>5. CASE TSCT_ChargingStop("status") BY <1>5, ChargingStopType DEF Threads
<1>6. CASE LayerPassed("status") BY <1>6, LayerPassedType DEF Threads
<1> QED BY <1>1, <1>2, <1>3, <1>4, <1>5, <1>6 DEF StatusThread

\* Every step keeps the types: the OCPP client.
LEMMA TypeClient == TypeOK /\ Client => TypeOK'
<1> SUFFICES ASSUME TypeOK, Client PROVE TypeOK' OBVIOUS
<1> USE DEF TypeOK
<1>1. CASE DataProcCmd_RmStart
  <2>1. SceneType' BY <1>1, IdleType DEF DataProcCmd_RmStart, Asks, SceneType, Layers
  <2>2. FlagType' BY <1>1 DEF DataProcCmd_RmStart, Asks, pilot, charge, emg, status, waits,
      FlagType
  <2>3. DataType' BY <1>1, SpendType, SessionAssumption DEF DataProcCmd_RmStart, Asks, CHARGING,
      pilot, charge, emg, status, waits, FINISH, Flags, DataType
  <2>4. ThreadType' BY <1>1 DEF DataProcCmd_RmStart, Asks, ThreadType, Threads, Places, Histories
  <2> QED BY <2>1, <2>2, <2>3, <2>4 DEF TypeOK
<1>2. CASE DataProcCmd_RmStopTr
  <2>1. SceneType' BY <1>2, IdleType DEF DataProcCmd_RmStopTr, Asks, SceneType, Layers
  <2>2. FlagType' BY <1>2 DEF DataProcCmd_RmStopTr, Asks, pilot, charge, emg, status, waits,
      FlagType
  <2>3. DataType' BY <1>2, SpendType, SessionAssumption DEF DataProcCmd_RmStopTr, Asks, pilot,
      charge, emg, status,
      waits, CHARGING, FINISH, Flags, DataType
  <2>4. ThreadType' BY <1>2 DEF DataProcCmd_RmStopTr, Asks, ThreadType, Threads, Places, Histories
  <2> QED BY <2>1, <2>2, <2>3, <2>4 DEF TypeOK
<1>3. CASE DataProcCmd_Reset
  <2>1. SceneType' BY <1>3, IdleType DEF DataProcCmd_Reset, Asks, SceneType, Layers
  <2>2. FlagType' BY <1>3 DEF DataProcCmd_Reset, Asks, pilot, charge, emg, status, waits, FlagType
  <2>3. DataType' BY <1>3, SpendType, SessionAssumption DEF DataProcCmd_Reset, Asks, pilot,
      charge,
      emg, status, waits, Flags, DataType
  <2>4. ThreadType' BY <1>3 DEF DataProcCmd_Reset, Asks, ThreadType, Threads, Places, Histories
  <2> QED BY <2>1, <2>2, <2>3, <2>4 DEF TypeOK
<1>4. CASE MakeDataCmd_StopTs
  <2>1. SceneType' BY <1>4, IdleType DEF MakeDataCmd_StopTs, SceneType, Layers
  <2>2. FlagType' BY <1>4 DEF MakeDataCmd_StopTs, pilot, charge, emg, status, waits, FlagType
  <2>3. DataType' BY <1>4, SessionAssumption DEF MakeDataCmd_StopTs, pilot, charge, emg, status,
      waits, Flags, DataType
  <2>4. ThreadType' BY <1>4, ForgottenHistory DEF MakeDataCmd_StopTs, ThreadType
  <2> QED BY <2>1, <2>2, <2>3, <2>4 DEF TypeOK
<1>5. CASE DataProcCmd_StopTs
  <2>1. SceneType' BY <1>5, IdleType DEF DataProcCmd_StopTs, SceneType, Layers
  <2>2. FlagType' BY <1>5 DEF DataProcCmd_StopTs, pilot, charge, emg, waits, FlagType
  <2>3. DataType' BY <1>5, SessionAssumption DEF DataProcCmd_StopTs, pilot, charge, emg, waits,
      FINISH, DataType
  <2>4. ThreadType' BY <1>5 DEF DataProcCmd_StopTs, ThreadType, Threads, Places, Histories
  <2> QED BY <2>1, <2>2, <2>3, <2>4 DEF TypeOK
<1>6. CASE TakesStart
  <2>1. SceneType' BY <1>6, IdleType DEF TakesStart
  <2>2. FlagType' BY <1>6 DEF TakesStart, pilot, charge, emg, status, waits, FlagType
  <2>3. DataType' BY <1>6, SpendType, SessionAssumption DEF TakesStart, pilot, charge, emg, status,
      waits, Flags, DataType
  <2>4. ThreadType'
    <3>1. (h.stale \/ ("refused" \in req /\ cpStatus = "SUSPENDEDEVSE")) \in BOOLEAN
      BY DEF ThreadType, Histories
    <3> QED BY <1>6, <3>1 DEF TakesStart, ThreadType, Histories
  <2> QED BY <2>1, <2>2, <2>3, <2>4 DEF TypeOK
<1>7. CASE DataProcCmd_StartTs
  <2>1. SceneType' BY <1>7, IdleType DEF DataProcCmd_StartTs
  <2>2. FlagType' BY <1>7 DEF DataProcCmd_StartTs, pilot, charge, emg, status, waits, FlagType
  <2>3. DataType' BY <1>7, SessionAssumption DEF DataProcCmd_StartTs, pilot, charge, emg, status,
      waits, Flags, DataType
  <2>4. ThreadType' BY <1>7 DEF DataProcCmd_StartTs, ThreadType
  <2> QED BY <2>1, <2>2, <2>3, <2>4 DEF TypeOK
<1> QED BY <1>1, <1>2, <1>3, <1>4, <1>5, <1>6, <1>7 DEF Client

\* Every step keeps the types: the car, the button and the screen.
LEMMA TypeWorld == TypeOK /\ World => TypeOK'
<1> SUFFICES ASSUME TypeOK, World PROVE TypeOK' OBVIOUS
<1> USE DEF TypeOK
<1>1. CASE ButtonMoves
  <2>1. SceneType' BY <1>1, IdleType DEF ButtonMoves, SceneType, Layers
  <2>2. FlagType' BY <1>1 DEF ButtonMoves, pilot, charge, status, waits, FlagType
  <2>3. DataType' BY <1>1, SpendType, SessionAssumption DEF ButtonMoves, pilot, charge, status,
      waits, DataType
  <2>4. ThreadType' BY <1>1 DEF ButtonMoves, ThreadType, Threads, Places, Histories
  <2> QED BY <2>1, <2>2, <2>3, <2>4 DEF TypeOK
<1>2. CASE ChargeStopOnPress
  <2>1. SceneType' BY <1>2, FirstType DEF ChargeStopOnPress, SceneType, Layers
  <2>2. FlagType' BY <1>2 DEF ChargeStopOnPress, pilot, charge, emg, status, waits, FlagType
  <2>3. DataType' BY <1>2, SessionAssumption DEF ChargeStopOnPress, pilot, charge, emg, status,
      waits, DataType
  <2>4. ThreadType' BY <1>2 DEF ChargeStopOnPress, ThreadType, Threads, Places, Histories
  <2> QED BY <2>1, <2>2, <2>3, <2>4 DEF TypeOK
<1>3. CASE Ch2FinishConfirmOnPress
  <2>1. SceneType' BY <1>3, GotoType DEF Ch2FinishConfirmOnPress, SceneType, Layers
  <2>2. FlagType' BY <1>3 DEF Ch2FinishConfirmOnPress, pilot, charge, emg, status, waits, FlagType
  <2>3. DataType' BY <1>3, SessionAssumption DEF Ch2FinishConfirmOnPress, pilot, charge, emg,
      status, waits, DataType
  <2>4. ThreadType' BY <1>3 DEF Ch2FinishConfirmOnPress, ThreadType, Threads, Places, Histories
  <2> QED BY <2>1, <2>2, <2>3, <2>4 DEF TypeOK
<1>4. CASE MinutePasses
  <2>1. SceneType' BY <1>4, IdleType DEF MinutePasses, SceneType, Layers
  <2>2. FlagType' BY <1>4 DEF MinutePasses, pilot, emg, status, waits, FlagType
  <2>3. DataType' BY <1>4, SessionAssumption DEF MinutePasses, pilot, emg, status, waits, DataType
  <2>4. ThreadType' BY <1>4 DEF MinutePasses, ThreadType, Threads, Places, Histories
  <2> QED BY <2>1, <2>2, <2>3, <2>4 DEF TypeOK
<1>5. CASE \E v \in Voltages : CableMoves(v)
  <2>1. SceneType' BY <1>5, IdleType DEF CableMoves, SceneType, Layers
  <2>2. FlagType' BY <1>5 DEF CableMoves, charge, emg, status, waits, FlagType
  <2>3. DataType' BY <1>5, SpendType, SessionAssumption DEF CableMoves, charge, emg, status,
      waits,
      DataType
  <2>4. ThreadType' BY <1>5 DEF CableMoves, ThreadType, Threads, Places, Histories
  <2> QED BY <2>1, <2>2, <2>3, <2>4 DEF TypeOK
<1> QED BY <1>1, <1>2, <1>3, <1>4, <1>5 DEF World

\* Every state of every behaviour is typed.
THEOREM TypeCorrect == Spec => []TypeOK
<1>1. Init => TypeOK
  <2> SUFFICES ASSUME Init PROVE TypeOK OBVIOUS
  <2>1. SceneType
    <3>1. <<"main", "Enter">> \in Handlers BY DEF Handlers, Layers
    <3>2. queue \in Seq(Handlers) /\ Len(queue) = 1 BY <3>1 DEF Init
    <3>3. visible = "main" /\ pos = 0 /\ step = 0 BY DEF Init
    <3>4. missed \in BOOLEAN BY DEF Init
    <3> QED BY <3>2, <3>3, <3>4 DEF SceneType, Layers
  <2>2. FlagType BY DEF Init, FlagType
  <2>3. DataType BY SessionAssumption DEF Init, DataType, Budgets, FINISH
  <2>4. ThreadType BY DEF Init, ThreadType, NoHistory, Places, Histories
  <2> QED BY <2>1, <2>2, <2>3, <2>4 DEF TypeOK
<1>2. TypeOK /\ [Next]_vars => TypeOK'
  <2> SUFFICES ASSUME TypeOK, [Next]_vars PROVE TypeOK' OBVIOUS
  <2>1. CASE UNCHANGED vars
    BY <2>1 DEF TypeOK, SceneType, FlagType, DataType, ThreadType, vars, scene, pilot, charge,
        emg, status,
                waits
  <2>2. CASE Next
    BY <2>2, TypeSceneThread, TypePilotThread, TypeEmbThread, TypeStopperThread, TypeFaultThread,
       TypeOrderThread, TypeTopTimer, TypeWaitThread, TypeStatusThread, TypeClient, TypeWorld DEF
       Next
  <2> QED BY <2>1, <2>2
<1> QED BY <1>1, <1>2, PTL DEF Spec

-----------------------------------------------------------------------------
(* The emergency button *)

\* The inductive form of EmergencyHolds.  A 6 V call that has passed its guards will close the
\* contactor whatever happens, so the press must have marked it; and a mark must outlive the
\* next ChargeOnEnter while the contactor is closed.
Held == EmgControl /\ (contactor \/ pc["cp"] \in Closing) => h.overtaken

\* A stop of thread t keeps the button's hold.
LEMMA HeldStops ==
  ASSUME TypeOK, Held, NEW t \in Threads, TSCT_ChargingStop(t) \/ LayerPassed(t)
  PROVE  Held'
<1>1. pc'["cp"] \in Closing => pc["cp"] \in Closing
  BY NoCloser DEF TSCT_ChargingStop, LayerPassed
<1>2. UNCHANGED <<EmgControl, btnState, listener, req, contactor, h>>
  BY DEF TSCT_ChargingStop, LayerPassed, pilot, emg
<1> QED BY <1>1, <1>2 DEF Held

\* Every step keeps the button's hold: the scene thread.
LEMMA HeldSceneThread == TypeOK /\ Held /\ SceneThread => Held'
<1> SUFFICES ASSUME TypeOK /\ Held, SceneThread PROVE Held' OBVIOUS
<1> USE DEF TypeOK
<1>1. CASE ituFlushActionQueue BY <1>1 DEF ituFlushActionQueue, emg, Closing, Held, ThreadType,
    FlagType, Threads, Places, Histories
<1>2. CASE HandlerReturns BY <1>2 DEF HandlerReturns, emg, Closing, Held, ThreadType, FlagType,
    Threads, Places, Histories
<1>3. CASE MainOnEnter1 BY <1>3 DEF MainOnEnter1, emg, Closing, Held, ThreadType, FlagType,
    Threads, Places, Histories
<1>4. CASE MainOnEnter2 BY <1>4 DEF MainOnEnter2, MagneticContactorOff, emg, Closing, Held,
    ThreadType, FlagType, Threads, Places, Histories
<1>5. CASE MainOnLeave BY <1>5 DEF MainOnLeave, emg, Closing, Held, ThreadType, FlagType, Threads,
    Places, Histories
<1>6. CASE CardWaitEnter BY <1>6 DEF CardWaitEnter, emg, Closing, Held, ThreadType, FlagType,
    Threads, Places, Histories
<1>7. CASE CardWaitLeave1 BY <1>7 DEF CardWaitLeave1, emg, Closing, Held, ThreadType, FlagType,
    Threads, Places, Histories
<1>8. CASE ConnectOnEnter1 BY <1>8 DEF ConnectOnEnter1, emg, Closing, Held, ThreadType, FlagType,
    Threads, Places, Histories
<1>9. CASE ConnectOnEnter2 BY <1>9 DEF ConnectOnEnter2, emg, Closing, Held, ThreadType, FlagType,
    Threads, Places, Histories
<1>10. CASE ConnectOnLeave1 BY <1>10 DEF ConnectOnLeave1, emg, Closing, Held, ThreadType,
    FlagType, Threads, Places, Histories
<1>11. CASE ChargeOnEnter
  BY <1>11 DEF ChargeOnEnter, Parts, Goes, Closing, NoHistory, emg, Held, ThreadType, FlagType,
     Threads, Places, Histories
<1>12. CASE ChargeOnLeave1 BY <1>12 DEF ChargeOnLeave1, Closing, emg, Held, ThreadType, FlagType,
    Threads, Places, Histories
<1>13. CASE ChargeOnLeave2 BY <1>13 DEF ChargeOnLeave2, emg, Closing, Held, ThreadType, FlagType,
    Threads, Places, Histories
<1>14. CASE ChargeStopOnDialog1 BY <1>14 DEF ChargeStopOnDialog1, MagneticContactorOff, emg,
    Closing, Held, ThreadType, FlagType, Threads, Places, Histories
<1>15. CASE ChargeStopOnDialog2
  BY <1>15 DEF ChargeStopOnDialog2, Parts, Goes, emg, Closing, Held, ThreadType, FlagType, Threads,
     Places, Histories
<1>16. CASE Ch2FinishOnEnter1 BY <1>16 DEF Ch2FinishOnEnter1, emg, Closing, Held, ThreadType,
    FlagType, Threads, Places, Histories
<1>17. CASE Ch2FinishOnLeave BY <1>17 DEF Ch2FinishOnLeave, StopForgotten, emg, Closing, Held,
    ThreadType,
    FlagType, Threads, Places, Histories
<1>18. CASE DisconnectOnEnter BY <1>18 DEF DisconnectOnEnter, emg, Closing, Held, ThreadType,
    FlagType, Threads, Places, Histories
<1>19. CASE HandlerParts BY <1>19 DEF HandlerParts, Goes, emg, Closing, Held, ThreadType,
    FlagType, Threads, Places, Histories
<1> QED BY <1>1, <1>2, <1>3, <1>4, <1>5, <1>6, <1>7, <1>8, <1>9, <1>10, <1>11, <1>12, <1>13,
    <1>14, <1>15, <1>16, <1>17, <1>18, <1>19 DEF SceneThread

\* Every step keeps the button's hold: the control pilot thread.
LEMMA HeldPilotThread == TypeOK /\ Held /\ PilotThread => Held'
<1> SUFFICES ASSUME TypeOK /\ Held, PilotThread PROVE Held' OBVIOUS
<1> USE DEF TypeOK
<1>1. CASE CPListenerOnAhead BY <1>1 DEF CPListenerOnAhead, CPChanged, emg, Closing, Held,
    ThreadType, FlagType, Threads, Places, Histories
<1>2. CASE CPListenerOnConnect BY <1>2 DEF CPListenerOnConnect, CPChanged, emg, Closing, Held,
    ThreadType, FlagType, Threads, Places, Histories
<1>3. CASE CPListenerOnFinish BY <1>3 DEF CPListenerOnFinish, Goes, CPChanged, emg, Closing, Held,
    ThreadType, FlagType, Threads, Places, Histories
<1>4. CASE CPFinished BY <1>4 DEF CPFinished, Goes, emg, Closing, Held, ThreadType, FlagType,
    Threads, Places, Histories
<1>5. CASE CPListenerOnDisconnect BY <1>5 DEF CPListenerOnDisconnect, CPChanged, emg, Closing,
    Held, ThreadType, FlagType, Threads, Places, Histories
<1>6. CASE CPIgnored BY <1>6 DEF CPIgnored, CPChanged, MayClose, emg, Closing, Held, ThreadType,
    FlagType, Threads, Places, Histories
<1>7. CASE CPUnplugged BY <1>7 DEF CPUnplugged, MagneticContactorOff, Goes, CPChanged, emg,
    Closing, Held, ThreadType, FlagType, Threads, Places, Histories
<1>8. CASE CPUnplugStop BY <1>8, NoCloser DEF CPUnplugStop, emg, Closing, Held, ThreadType,
    FlagType, Threads, Places, Histories
<1>9. CASE CPUnplugEnd BY <1>9, NoCloser DEF CPUnplugEnd, MagneticContactorOff, Goes, emg,
    Closing, Held, ThreadType, FlagType, Threads, Places, Histories
<1>10. CASE CPPaused BY <1>10 DEF CPPaused, MagneticContactorOff, CPChanged, emg, Closing, Held,
    ThreadType, FlagType, Threads, Places, Histories
<1>11. CASE CPUnknown BY <1>11 DEF CPUnknown, CPChanged, emg, Closing, Held, ThreadType, FlagType,
    Threads, Places, Histories
<1>12. CASE CPRequested BY <1>12 DEF CPRequested, Goes, CPChanged, MayClose, emg, Closing, Held,
    ThreadType, FlagType, Threads, Places, Histories
<1>13. CASE CPStart BY <1>13 DEF CPStart, MagneticContactorOn, Goes, emg, Closing, Held,
    ThreadType, FlagType, Threads, Places, Histories
<1>14. CASE CPStarted BY <1>14 DEF CPStarted, Goes, emg, Closing, Held, ThreadType, FlagType,
    Threads, Places, Histories
<1>15. CASE CPResume BY <1>15 DEF CPResume, MagneticContactorOn, Goes, emg, Closing, Held,
    ThreadType, FlagType, Threads, Places, Histories
<1>16. CASE TSCT_ChargingStop("cp") BY <1>16, HeldStops DEF Threads
<1>17. CASE LayerPassed("cp") BY <1>17, HeldStops DEF Threads
<1> QED BY <1>1, <1>2, <1>3, <1>4, <1>5, <1>6, <1>7, <1>8, <1>9, <1>10, <1>11, <1>12, <1>13,
    <1>14, <1>15, <1>16, <1>17 DEF PilotThread

\* Every step keeps the button's hold: the emergency button thread.
LEMMA HeldEmbThread == TypeOK /\ Held /\ EmbThread => Held'
<1> SUFFICES ASSUME TypeOK /\ Held, EmbThread PROVE Held' OBVIOUS
<1> USE DEF TypeOK
<1>1. CASE EmbPressed BY <1>1 DEF EmbPressed, Closing, Held, ThreadType, FlagType, Threads,
    Places, Histories
<1>2. CASE EmbReleased BY <1>2 DEF EmbReleased, Closing, Held, ThreadType, FlagType, Threads,
    Places, Histories
<1> QED BY <1>1, <1>2 DEF EmbThread

\* Every step keeps the button's hold: the monitoring task and the card listener.
LEMMA HeldStopperThread == TypeOK /\ Held /\ StopperThread => Held'
<1> SUFFICES ASSUME TypeOK /\ Held, StopperThread PROVE Held' OBVIOUS
<1> USE DEF TypeOK
<1>1. CASE LocalStop BY <1>1 DEF LocalStop, StopBegins, MagneticContactorOff, Goes, emg, Closing,
    Held, ThreadType, FlagType, Threads, Places, Histories
<1>2. CASE RemoteStopSeen BY <1>2 DEF RemoteStopSeen, StopBegins, MagneticContactorOff, Goes, emg,
    Closing, Held, ThreadType, FlagType, Threads, Places, Histories
<1>3. CASE TSCT_ChargingStop("stopper") BY <1>3, HeldStops DEF Threads
<1>4. CASE LayerPassed("stopper") BY <1>4, HeldStops DEF Threads
<1>5. CASE SuspendsEvse BY <1>5 DEF SuspendsEvse, emg, Closing, Held, ThreadType, FlagType,
    Threads, Places, Histories
<1> QED BY <1>1, <1>2, <1>3, <1>4, <1>5 DEF StopperThread

\* Every step keeps the button's hold: the fault monitoring task.
LEMMA HeldFaultThread == TypeOK /\ Held /\ FaultThread => Held'
<1> SUFFICES ASSUME TypeOK /\ Held, FaultThread PROVE Held' OBVIOUS
<1> USE DEF TypeOK
<1>1. CASE FaultStops BY <1>1 DEF FaultStops, StopBegins, MagneticContactorOff, Goes, emg,
    Closing, Held, ThreadType, FlagType, Threads, Places, Histories
<1>2. CASE FaultSeen BY <1>2 DEF FaultSeen, emg, Closing, Held, ThreadType, FlagType, Threads,
    Places, Histories
<1>3. CASE TSCT_ChargingStop("fault") BY <1>3, HeldStops DEF Threads
<1>4. CASE LayerPassed("fault") BY <1>4, HeldStops DEF Threads
<1> QED BY <1>1, <1>2, <1>3, <1>4 DEF FaultThread

\* Every step keeps the button's hold: the order sequence task.
LEMMA HeldOrderThread == TypeOK /\ Held /\ OrderThread => Held'
<1> SUFFICES ASSUME TypeOK /\ Held, OrderThread PROVE Held' OBVIOUS
<1> USE DEF TypeOK
<1>1. CASE OrderSeesPause BY <1>1 DEF OrderSeesPause, Goes, emg, Closing, Held, ThreadType,
    FlagType, Threads, Places, Histories
<1>2. CASE OrderDecides BY <1>2 DEF OrderDecides, MagneticContactorOff, Goes, emg, Closing, Held,
    ThreadType, FlagType, Threads, Places, Histories
<1>3. CASE OrderStops BY <1>3, NoCloser DEF OrderStops, emg, Closing, Held, ThreadType, FlagType,
    Threads, Places, Histories
<1>4. CASE LayerPassed("order") BY <1>4, HeldStops DEF Threads
<1> QED BY <1>1, <1>2, <1>3, <1>4 DEF OrderThread

\* Every step keeps the button's hold: the top timer.
LEMMA HeldTopTimer == TypeOK /\ Held /\ TopTimer => Held'
<1> SUFFICES ASSUME TypeOK /\ Held, TopTimer PROVE Held' OBVIOUS
<1> USE DEF TypeOK
<1>1. CASE TimerFires BY <1>1 DEF TimerFires, emg, Closing, Held, ThreadType, FlagType, Threads,
    Places, Histories
<1>2. CASE ChargeTimerFires BY <1>2, NoCloser DEF ChargeTimerFires, MagneticContactorOff, Goes,
    emg, Closing, Held, ThreadType, FlagType, Threads, Places, Histories
<1>3. CASE TSCT_ChargingStop("top") BY <1>3, HeldStops DEF Threads
<1>4. CASE LayerPassed("top") BY <1>4, HeldStops DEF Threads
<1> QED BY <1>1, <1>2, <1>3, <1>4 DEF TopTimer

\* Every step keeps the button's hold: the card-wait task.
LEMMA HeldWaitThread == TypeOK /\ Held /\ WaitThread => Held'
<1> SUFFICES ASSUME TypeOK /\ Held, WaitThread PROVE Held' OBVIOUS
<1> USE DEF TypeOK
<1>1. CASE WaitGoes BY <1>1 DEF WaitGoes, Goes, emg, Closing, Held, ThreadType, FlagType, Threads,
    Places, Histories
<1>2. CASE \E r \in {"ok", "fail"} : WaitAnswered(r) BY <1>2 DEF WaitAnswered, Goes, emg, Closing,
    Held, ThreadType, FlagType, Threads, Places, Histories
<1> QED BY <1>1, <1>2 DEF WaitThread

\* Every step keeps the button's hold: the status task.
LEMMA HeldStatusThread == TypeOK /\ Held /\ StatusThread => Held'
<1> SUFFICES ASSUME TypeOK /\ Held, StatusThread PROVE Held' OBVIOUS
<1> USE DEF TypeOK
<1>1. CASE RemoteStartSeen BY <1>1 DEF RemoteStartSeen, Goes, emg, Closing, Held, ThreadType,
    FlagType, Threads, Places, Histories
<1>2. CASE RemoteStartGoes BY <1>2 DEF RemoteStartGoes, Goes, emg, Closing, Held, ThreadType,
    FlagType, Threads, Places, Histories
<1>3. CASE ResetSeen BY <1>3 DEF ResetSeen, StopBegins, MagneticContactorOff, Goes, emg, Closing,
    Held, ThreadType, FlagType, Threads, Places, Histories
<1>4. CASE Reboots BY <1>4 DEF Reboots, NoHistory, emg, Closing, Held, ThreadType, FlagType,
    Threads, Places, Histories
<1>5. CASE TSCT_ChargingStop("status") BY <1>5, HeldStops DEF Threads
<1>6. CASE LayerPassed("status") BY <1>6, HeldStops DEF Threads
<1> QED BY <1>1, <1>2, <1>3, <1>4, <1>5, <1>6 DEF StatusThread

\* Every step keeps the button's hold: the OCPP client.
LEMMA HeldClient == TypeOK /\ Held /\ Client => Held'
<1> SUFFICES ASSUME TypeOK /\ Held, Client PROVE Held' OBVIOUS
<1> USE DEF TypeOK
<1>1. CASE DataProcCmd_RmStart BY <1>1 DEF DataProcCmd_RmStart, Asks, emg, Closing, Held,
    ThreadType, FlagType, Threads, Places, Histories
<1>2. CASE DataProcCmd_RmStopTr BY <1>2 DEF DataProcCmd_RmStopTr, Asks, emg, Closing, Held,
    ThreadType,
    FlagType, Threads, Places, Histories
<1>3. CASE DataProcCmd_Reset BY <1>3 DEF DataProcCmd_Reset, Asks, emg, Closing, Held, ThreadType,
    FlagType, Threads, Places, Histories
<1>4. CASE MakeDataCmd_StopTs BY <1>4 DEF MakeDataCmd_StopTs, StopForgotten, emg, Closing, Held,
    ThreadType,
    FlagType, Threads, Places, Histories
<1>5. CASE DataProcCmd_StopTs BY <1>5 DEF DataProcCmd_StopTs, emg, Closing, Held, ThreadType,
    FlagType, Threads, Places, Histories
<1>6. CASE TakesStart BY <1>6 DEF TakesStart, emg, Closing, Held, ThreadType, FlagType, Threads,
    Places, Histories
<1>7. CASE DataProcCmd_StartTs BY <1>7 DEF DataProcCmd_StartTs, emg, Closing, Held, ThreadType,
    FlagType, Threads, Places, Histories
<1> QED BY <1>1, <1>2, <1>3, <1>4, <1>5, <1>6, <1>7 DEF Client

\* Every step keeps the button's hold: the car, the button and the screen.
LEMMA HeldWorld == TypeOK /\ Held /\ World => Held'
<1> SUFFICES ASSUME TypeOK /\ Held, World PROVE Held' OBVIOUS
<1> USE DEF TypeOK
<1>1. CASE ButtonMoves BY <1>1 DEF ButtonMoves, Closing, Held, ThreadType, FlagType, Threads,
    Places, Histories
<1>2. CASE ChargeStopOnPress BY <1>2 DEF ChargeStopOnPress, emg, Closing, Held, ThreadType,
    FlagType, Threads, Places, Histories
<1>3. CASE Ch2FinishConfirmOnPress BY <1>3 DEF Ch2FinishConfirmOnPress, emg, Closing, Held,
    ThreadType, FlagType, Threads, Places, Histories
<1>4. CASE MinutePasses BY <1>4 DEF MinutePasses, emg, Closing, Held, ThreadType, FlagType,
    Threads, Places, Histories
<1>5. CASE \E v \in Voltages : CableMoves(v) BY <1>5 DEF CableMoves, emg, Closing, Held,
    ThreadType, FlagType, Threads, Places, Histories
<1> QED BY <1>1, <1>2, <1>3, <1>4, <1>5 DEF World

\* While the emergency button is seen pressed the contactor is open, but for a 6 V call that had
\* read its guards before the press: for every sequence of levels, presses, requests and stops.
THEOREM EmergencyStops == Spec => []EmergencyHolds
<1>1. Init => Held BY DEF Init, Held
<1>2. TypeOK /\ Held /\ [Next]_vars => Held'
  <2> SUFFICES ASSUME TypeOK, Held, [Next]_vars PROVE Held' OBVIOUS
  <2>1. CASE UNCHANGED vars BY <2>1 DEF Held, vars, emg, Closing
  <2>2. CASE Next
    BY <2>2, HeldSceneThread, HeldPilotThread, HeldEmbThread, HeldStopperThread, HeldFaultThread,
       HeldOrderThread, HeldTopTimer, HeldWaitThread, HeldStatusThread, HeldClient, HeldWorld DEF
       Next
  <2> QED BY <2>1, <2>2
<1>3. TypeOK /\ Held => EmergencyHolds
  BY DEF Held, EmergencyHolds, TypeOK, FlagType, ThreadType, Histories
<1> QED BY <1>1, <1>2, <1>3, TypeCorrect, PTL DEF Spec

-----------------------------------------------------------------------------
(* The stopped charge *)

\* The inductive form of StopSticks.  While the listener of the charge layer is installed, what
\* stopped the charge still stands: the button until the next ChargeOnEnter, the server's
\* request until MakeDataCmd_StopTs or Ch2FinishOnLeave clears it.  A 6 V call that had already
\* passed its guards is marked by ChargeOnLeave.
Stopped ==
  /\ h.ended = "button" => btnState # 0
  /\ h.ended = "remote" /\ listener = "charge" => "rmtStop" \in req
  /\ h.ended \in {"button", "remote"} /\ (contactor \/ pc["cp"] \in Closing) => h.overtaken

\* A stop of thread t keeps what stops a stopped charge.
LEMMA StoppedStops ==
  ASSUME TypeOK, Stopped, NEW t \in Threads, TSCT_ChargingStop(t) \/ LayerPassed(t)
  PROVE  Stopped'
<1>1. pc'["cp"] \in Closing => pc["cp"] \in Closing
  BY NoCloser DEF TSCT_ChargingStop, LayerPassed
<1>2. UNCHANGED <<EmgControl, btnState, listener, req, contactor, h>>
  BY DEF TSCT_ChargingStop, LayerPassed, pilot, emg
<1> QED BY <1>1, <1>2 DEF Stopped

\* Every step keeps what stops a stopped charge: the scene thread.
LEMMA StoppedSceneThread == TypeOK /\ Stopped /\ SceneThread => Stopped'
<1> SUFFICES ASSUME TypeOK /\ Stopped, SceneThread PROVE Stopped' OBVIOUS
<1> USE DEF TypeOK
<1>1. CASE ituFlushActionQueue BY <1>1 DEF ituFlushActionQueue, Stopped, charge, pilot, Closing,
    ThreadType, FlagType, Threads, Places, Histories
<1>2. CASE HandlerReturns BY <1>2 DEF HandlerReturns, Stopped, charge, pilot, Closing, ThreadType,
    FlagType, Threads, Places, Histories
<1>3. CASE MainOnEnter1 BY <1>3 DEF MainOnEnter1, Stopped, charge, SetListener, Closing,
    ThreadType, FlagType, Threads, Places, Histories
<1>4. CASE MainOnEnter2 BY <1>4 DEF MainOnEnter2, MagneticContactorOff, Stopped, charge, pilot,
    Closing, ThreadType, FlagType, Threads, Places, Histories
<1>5. CASE MainOnLeave BY <1>5 DEF MainOnLeave, Stopped, charge, pilot, Closing, ThreadType,
    FlagType, Threads, Places, Histories
<1>6. CASE CardWaitEnter BY <1>6 DEF CardWaitEnter, Stopped, charge, pilot, Closing, ThreadType,
    FlagType, Threads, Places, Histories
<1>7. CASE CardWaitLeave1 BY <1>7 DEF CardWaitLeave1, Stopped, charge, pilot, Closing, ThreadType,
    FlagType, Threads, Places, Histories
<1>8. CASE ConnectOnEnter1 BY <1>8 DEF ConnectOnEnter1, Stopped, charge, pilot, Closing,
    ThreadType, FlagType, Threads, Places, Histories
<1>9. CASE ConnectOnEnter2 BY <1>9 DEF ConnectOnEnter2, Stopped, charge, SetListener, Closing,
    ThreadType, FlagType, Threads, Places, Histories
<1>10. CASE ConnectOnLeave1 BY <1>10 DEF ConnectOnLeave1, Stopped, charge, pilot, Closing,
    ThreadType, FlagType, Threads, Places, Histories
<1>11. CASE ChargeOnEnter
  BY <1>11 DEF ChargeOnEnter, Parts, Goes, NoHistory, Stopped, charge, SetListener, Closing,
     ThreadType, FlagType, Threads, Places, Histories
<1>12. CASE ChargeOnLeave1 BY <1>12 DEF ChargeOnLeave1, Stopped, charge, pilot, Closing,
    ThreadType, FlagType, Threads, Places, Histories
<1>13. CASE ChargeOnLeave2 BY <1>13 DEF ChargeOnLeave2, Stopped, charge, pilot, Closing,
    ThreadType, FlagType, Threads, Places, Histories
<1>14. CASE ChargeStopOnDialog1 BY <1>14 DEF ChargeStopOnDialog1, MagneticContactorOff, Stopped,
    charge, pilot, Closing, ThreadType, FlagType, Threads, Places, Histories
<1>15. CASE ChargeStopOnDialog2
  BY <1>15 DEF ChargeStopOnDialog2, Parts, Goes, Stopped, charge, pilot, Closing, ThreadType,
     FlagType, Threads, Places, Histories
<1>16. CASE Ch2FinishOnEnter1 BY <1>16 DEF Ch2FinishOnEnter1, Stopped, charge, SetListener,
    Closing, ThreadType, FlagType, Threads, Places, Histories
<1>17. CASE Ch2FinishOnLeave BY <1>17 DEF Ch2FinishOnLeave, StopForgotten, Stopped, charge, pilot,
    StopForgotten, Closing, ThreadType, FlagType, Threads, Places, Histories
<1>18. CASE DisconnectOnEnter BY <1>18 DEF DisconnectOnEnter, Stopped, charge, SetListener,
    Closing, ThreadType, FlagType, Threads, Places, Histories
<1>19. CASE HandlerParts BY <1>19 DEF HandlerParts, Goes, Stopped, charge, pilot, Closing,
    ThreadType, FlagType, Threads, Places, Histories
<1> QED BY <1>1, <1>2, <1>3, <1>4, <1>5, <1>6, <1>7, <1>8, <1>9, <1>10, <1>11, <1>12, <1>13,
    <1>14, <1>15, <1>16, <1>17, <1>18, <1>19 DEF SceneThread

\* Every step keeps what stops a stopped charge: the control pilot thread.
LEMMA StoppedPilotThread == TypeOK /\ Stopped /\ PilotThread => Stopped'
<1> SUFFICES ASSUME TypeOK /\ Stopped, PilotThread PROVE Stopped' OBVIOUS
<1> USE DEF TypeOK
<1>1. CASE CPListenerOnAhead BY <1>1 DEF CPListenerOnAhead, CPChanged, Stopped, charge, Closing,
    ThreadType, FlagType, Threads, Places, Histories
<1>2. CASE CPListenerOnConnect BY <1>2 DEF CPListenerOnConnect, CPChanged, Stopped, charge,
    Closing, ThreadType, FlagType, Threads, Places, Histories
<1>3. CASE CPListenerOnFinish BY <1>3 DEF CPListenerOnFinish, Goes, CPChanged, Stopped, charge,
    Closing, ThreadType, FlagType, Threads, Places, Histories
<1>4. CASE CPFinished BY <1>4 DEF CPFinished, Goes, Stopped, charge, pilot, Closing, ThreadType,
    FlagType, Threads, Places, Histories
<1>5. CASE CPListenerOnDisconnect BY <1>5 DEF CPListenerOnDisconnect, CPChanged, Stopped, charge,
    Closing, ThreadType, FlagType, Threads, Places, Histories
<1>6. CASE CPIgnored BY <1>6 DEF CPIgnored, CPChanged, MayClose, Stopped, charge, Closing,
    ThreadType, FlagType, Threads, Places, Histories
<1>7. CASE CPUnplugged BY <1>7 DEF CPUnplugged, MagneticContactorOff, Goes, CPChanged, Stopped,
    charge, Closing, ThreadType, FlagType, Threads, Places, Histories
<1>8. CASE CPUnplugStop BY <1>8, NoCloser DEF CPUnplugStop, Stopped, charge, pilot, Closing,
    ThreadType, FlagType, Threads, Places, Histories
<1>9. CASE CPUnplugEnd BY <1>9, NoCloser DEF CPUnplugEnd, MagneticContactorOff, Goes, Stopped,
    charge, pilot, Closing, ThreadType, FlagType, Threads, Places, Histories
<1>10. CASE CPPaused BY <1>10 DEF CPPaused, MagneticContactorOff, CPChanged, Stopped, charge,
    Closing, ThreadType, FlagType, Threads, Places, Histories
<1>11. CASE CPUnknown BY <1>11 DEF CPUnknown, CPChanged, Stopped, charge, Closing, ThreadType,
    FlagType, Threads, Places, Histories
<1>12. CASE CPRequested BY <1>12 DEF CPRequested, Goes, CPChanged, MayClose, Stopped, charge,
    Closing, ThreadType, FlagType, Threads, Places, Histories
<1>13. CASE CPStart BY <1>13 DEF CPStart, MagneticContactorOn, Goes, Stopped, pilot, Closing,
    ThreadType, FlagType, Threads, Places, Histories
<1>14. CASE CPStarted BY <1>14 DEF CPStarted, Goes, Stopped, charge, pilot, Closing, ThreadType,
    FlagType, Threads, Places, Histories
<1>15. CASE CPResume BY <1>15 DEF CPResume, MagneticContactorOn, Goes, Stopped, pilot, Closing,
    ThreadType, FlagType, Threads, Places, Histories
<1>16. CASE TSCT_ChargingStop("cp") BY <1>16, StoppedStops DEF Threads
<1>17. CASE LayerPassed("cp") BY <1>17, StoppedStops DEF Threads
<1> QED BY <1>1, <1>2, <1>3, <1>4, <1>5, <1>6, <1>7, <1>8, <1>9, <1>10, <1>11, <1>12, <1>13,
    <1>14, <1>15, <1>16, <1>17 DEF PilotThread

\* Every step keeps what stops a stopped charge: the emergency button thread.
LEMMA StoppedEmbThread == TypeOK /\ Stopped /\ EmbThread => Stopped'
<1> SUFFICES ASSUME TypeOK /\ Stopped, EmbThread PROVE Stopped' OBVIOUS
<1> USE DEF TypeOK
<1>1. CASE EmbPressed BY <1>1 DEF EmbPressed, Stopped, charge, pilot, Closing, ThreadType,
    FlagType, Threads, Places, Histories
<1>2. CASE EmbReleased BY <1>2 DEF EmbReleased, Stopped, charge, pilot, Closing, ThreadType,
    FlagType, Threads, Places, Histories
<1> QED BY <1>1, <1>2 DEF EmbThread

\* Every step keeps what stops a stopped charge: the monitoring task and the card listener.
LEMMA StoppedStopperThread == TypeOK /\ Stopped /\ StopperThread => Stopped'
<1> SUFFICES ASSUME TypeOK /\ Stopped, StopperThread PROVE Stopped' OBVIOUS
<1> USE DEF TypeOK
<1>1. CASE LocalStop BY <1>1 DEF LocalStop, StopBegins, MagneticContactorOff, Goes, Stopped,
    charge, pilot, Closing, ThreadType, FlagType, Threads, Places, Histories
<1>2. CASE RemoteStopSeen BY <1>2 DEF RemoteStopSeen, StopBegins, MagneticContactorOff, Goes,
    Stopped, charge, pilot, Closing, ThreadType, FlagType, Threads, Places, Histories
<1>3. CASE TSCT_ChargingStop("stopper") BY <1>3, StoppedStops DEF Threads
<1>4. CASE LayerPassed("stopper") BY <1>4, StoppedStops DEF Threads
<1>5. CASE SuspendsEvse BY <1>5 DEF SuspendsEvse, Stopped, charge, pilot, Closing, ThreadType,
    FlagType, Threads, Places, Histories
<1> QED BY <1>1, <1>2, <1>3, <1>4, <1>5 DEF StopperThread

\* Every step keeps what stops a stopped charge: the fault monitoring task.
LEMMA StoppedFaultThread == TypeOK /\ Stopped /\ FaultThread => Stopped'
<1> SUFFICES ASSUME TypeOK /\ Stopped, FaultThread PROVE Stopped' OBVIOUS
<1> USE DEF TypeOK
<1>1. CASE FaultStops BY <1>1 DEF FaultStops, StopBegins, MagneticContactorOff, Goes, Stopped,
    charge, pilot, Closing, ThreadType, FlagType, Threads, Places, Histories
<1>2. CASE FaultSeen BY <1>2 DEF FaultSeen, Stopped, charge, pilot, Closing, ThreadType, FlagType,
    Threads, Places, Histories
<1>3. CASE TSCT_ChargingStop("fault") BY <1>3, StoppedStops DEF Threads
<1>4. CASE LayerPassed("fault") BY <1>4, StoppedStops DEF Threads
<1> QED BY <1>1, <1>2, <1>3, <1>4 DEF FaultThread

\* Every step keeps what stops a stopped charge: the order sequence task.
LEMMA StoppedOrderThread == TypeOK /\ Stopped /\ OrderThread => Stopped'
<1> SUFFICES ASSUME TypeOK /\ Stopped, OrderThread PROVE Stopped' OBVIOUS
<1> USE DEF TypeOK
<1>1. CASE OrderSeesPause BY <1>1 DEF OrderSeesPause, Goes, Stopped, charge, pilot, Closing,
    ThreadType, FlagType, Threads, Places, Histories
<1>2. CASE OrderDecides BY <1>2 DEF OrderDecides, MagneticContactorOff, Goes, Stopped, charge,
    pilot, Closing, ThreadType, FlagType, Threads, Places, Histories
<1>3. CASE OrderStops BY <1>3, NoCloser DEF OrderStops, Stopped, charge, pilot, Closing,
    ThreadType, FlagType, Threads, Places, Histories
<1>4. CASE LayerPassed("order") BY <1>4, StoppedStops DEF Threads
<1> QED BY <1>1, <1>2, <1>3, <1>4 DEF OrderThread

\* Every step keeps what stops a stopped charge: the top timer.
LEMMA StoppedTopTimer == TypeOK /\ Stopped /\ TopTimer => Stopped'
<1> SUFFICES ASSUME TypeOK /\ Stopped, TopTimer PROVE Stopped' OBVIOUS
<1> USE DEF TypeOK
<1>1. CASE TimerFires BY <1>1 DEF TimerFires, Stopped, charge, pilot, Closing, ThreadType,
    FlagType, Threads, Places, Histories
<1>2. CASE ChargeTimerFires BY <1>2, NoCloser DEF ChargeTimerFires, MagneticContactorOff, Goes,
    Stopped, charge, pilot, Closing, ThreadType, FlagType, Threads, Places, Histories
<1>3. CASE TSCT_ChargingStop("top") BY <1>3, StoppedStops DEF Threads
<1>4. CASE LayerPassed("top") BY <1>4, StoppedStops DEF Threads
<1> QED BY <1>1, <1>2, <1>3, <1>4 DEF TopTimer

\* Every step keeps what stops a stopped charge: the card-wait task.
LEMMA StoppedWaitThread == TypeOK /\ Stopped /\ WaitThread => Stopped'
<1> SUFFICES ASSUME TypeOK /\ Stopped, WaitThread PROVE Stopped' OBVIOUS
<1> USE DEF TypeOK
<1>1. CASE WaitGoes BY <1>1 DEF WaitGoes, Goes, Stopped, charge, pilot, Closing, ThreadType,
    FlagType, Threads, Places, Histories
<1>2. CASE \E r \in {"ok", "fail"} : WaitAnswered(r) BY <1>2 DEF WaitAnswered, Goes, Stopped,
    charge, pilot, Closing, ThreadType, FlagType, Threads, Places, Histories
<1> QED BY <1>1, <1>2 DEF WaitThread

\* Every step keeps what stops a stopped charge: the status task.
LEMMA StoppedStatusThread == TypeOK /\ Stopped /\ StatusThread => Stopped'
<1> SUFFICES ASSUME TypeOK /\ Stopped, StatusThread PROVE Stopped' OBVIOUS
<1> USE DEF TypeOK
<1>1. CASE RemoteStartSeen BY <1>1 DEF RemoteStartSeen, Goes, Stopped, charge, pilot, Closing,
    ThreadType, FlagType, Threads, Places, Histories
<1>2. CASE RemoteStartGoes BY <1>2 DEF RemoteStartGoes, Goes, Stopped, charge, pilot, Closing,
    ThreadType, FlagType, Threads, Places, Histories
<1>3. CASE ResetSeen BY <1>3 DEF ResetSeen, StopBegins, MagneticContactorOff, Goes, Stopped,
    charge, pilot, Closing, ThreadType, FlagType, Threads, Places, Histories
<1>4. CASE Reboots BY <1>4 DEF Reboots, NoHistory, Stopped, Closing, ThreadType, FlagType,
    Threads, Places, Histories
<1>5. CASE TSCT_ChargingStop("status") BY <1>5, StoppedStops DEF Threads
<1>6. CASE LayerPassed("status") BY <1>6, StoppedStops DEF Threads
<1> QED BY <1>1, <1>2, <1>3, <1>4, <1>5, <1>6 DEF StatusThread

\* Every step keeps what stops a stopped charge: the OCPP client.
LEMMA StoppedClient == TypeOK /\ Stopped /\ Client => Stopped'
<1> SUFFICES ASSUME TypeOK /\ Stopped, Client PROVE Stopped' OBVIOUS
<1> USE DEF TypeOK
<1>1. CASE DataProcCmd_RmStart BY <1>1 DEF DataProcCmd_RmStart, Asks, Stopped, charge, pilot,
    Closing, ThreadType, FlagType, Threads, Places, Histories
<1>2. CASE DataProcCmd_RmStopTr BY <1>2 DEF DataProcCmd_RmStopTr, Asks, Stopped, charge, pilot,
    Closing, ThreadType, FlagType, Threads, Places, Histories
<1>3. CASE DataProcCmd_Reset BY <1>3 DEF DataProcCmd_Reset, Asks, Stopped, charge, pilot, Closing,
    ThreadType, FlagType, Threads, Places, Histories
<1>4. CASE MakeDataCmd_StopTs BY <1>4 DEF MakeDataCmd_StopTs, StopForgotten, Stopped, charge,
    pilot, StopForgotten, Closing, ThreadType, FlagType, Threads, Places, Histories
<1>5. CASE DataProcCmd_StopTs BY <1>5 DEF DataProcCmd_StopTs, Stopped, charge, pilot, Closing,
    ThreadType, FlagType, Threads, Places, Histories
<1>6. CASE TakesStart BY <1>6 DEF TakesStart, Stopped, charge, pilot, Closing, ThreadType,
    FlagType, Threads, Places, Histories
<1>7. CASE DataProcCmd_StartTs BY <1>7 DEF DataProcCmd_StartTs, Stopped, charge, pilot, Closing,
    ThreadType, FlagType, Threads, Places, Histories
<1> QED BY <1>1, <1>2, <1>3, <1>4, <1>5, <1>6, <1>7 DEF Client

\* Every step keeps what stops a stopped charge: the car, the button and the screen.
LEMMA StoppedWorld == TypeOK /\ Stopped /\ World => Stopped'
<1> SUFFICES ASSUME TypeOK /\ Stopped, World PROVE Stopped' OBVIOUS
<1> USE DEF TypeOK
<1>1. CASE ButtonMoves BY <1>1 DEF ButtonMoves, Stopped, charge, pilot, Closing, ThreadType,
    FlagType, Threads, Places, Histories
<1>2. CASE ChargeStopOnPress BY <1>2 DEF ChargeStopOnPress, Stopped, charge, pilot, Closing,
    ThreadType, FlagType, Threads, Places, Histories
<1>3. CASE Ch2FinishConfirmOnPress BY <1>3 DEF Ch2FinishConfirmOnPress, Stopped, charge, pilot,
    Closing, ThreadType, FlagType, Threads, Places, Histories
<1>4. CASE MinutePasses BY <1>4 DEF MinutePasses, Stopped, pilot, Closing, ThreadType, FlagType,
    Threads, Places, Histories
<1>5. CASE \E v \in Voltages : CableMoves(v) BY <1>5 DEF CableMoves, Stopped, charge, Closing,
    ThreadType, FlagType, Threads, Places, Histories
<1> QED BY <1>1, <1>2, <1>3, <1>4, <1>5 DEF World

\* A charge stopped by the user's button or the server stays stopped, for every number of
\* sessions, presses, requests and strays.
THEOREM StoppedStays == Spec => []StopSticks
<1>1. Init => Stopped BY DEF Init, Stopped, NoHistory
<1>2. TypeOK /\ Stopped /\ [Next]_vars => Stopped'
  <2> SUFFICES ASSUME TypeOK, Stopped, [Next]_vars PROVE Stopped' OBVIOUS
  <2>1. CASE UNCHANGED vars BY <2>1 DEF Stopped, vars, charge, pilot, Closing
  <2>2. CASE Next
    BY <2>2, StoppedSceneThread, StoppedPilotThread, StoppedEmbThread, StoppedStopperThread,
       StoppedFaultThread, StoppedOrderThread, StoppedTopTimer, StoppedWaitThread,
       StoppedStatusThread, StoppedClient, StoppedWorld DEF Next
  <2> QED BY <2>1, <2>2
<1>3. TypeOK /\ Stopped => StopSticks
  BY DEF Stopped, StopSticks, TypeOK, FlagType, ThreadType, Histories
<1> QED BY <1>1, <1>2, <1>3, TypeCorrect, PTL DEF Spec
-----------------------------------------------------------------------------
(* One stop for each session                                                 *)

\* A handler waits in the action queue at the place it has, and has that place once.
Distinct(q) == \A i, j \in DOMAIN q : q[i] = q[j] => i = j

\* The Enter of layer l has not begun.
Awaits(l) ==
  \E i \in DOMAIN queue : queue[i] = <<l, "Enter">> /\ (pos < i \/ (pos = i /\ step = 1))

\* The Enter of layer l has not returned.
Pends(l) == \E i \in DOMAIN queue : queue[i] = <<l, "Enter">> /\ pos <= i

\* The finish layer is left by the touch screen between two flushes: the disconnect layer's Enter
\* is the second action of its flush.
DisconnectSecond ==
  \A i \in DOMAIN queue :
    queue[i] = <<"disconnect", "Enter">> => i = 2 /\ queue[1] = <<"finish", "Leave">>

\* The charge layer's Enter comes after the connect layer's.
ChargeAfterConnect ==
  Awaits("charge") => \A i, j \in DOMAIN queue :
    queue[i] = <<"connect", "Enter">> /\ queue[j] = <<"charge", "Enter">> => i < j

Calm == Unpressed /\ Orderly

\* A thread has gone to the finish layer and not yet reset bLayerChargeFlg.
Leaving == \E t \in Threads : pc[t] \in Between

\* No session can still be ended, none is about to begin.
Rest == ~bLayerChargeFlg /\ ~Leaving /\ ~Awaits("finish") /\ ~Awaits("charge")

\* The inductive form of OneStopPerSession.  bLayerChargeFlg is raised by ChargeOnEnter; found set
\* by several threads it takes the charger to the finish layer several times, but as long as one
\* of them has not reset it the finish layer's Enter has not begun and is not queued twice.
\* Wherever a goto home can come from, the listener of the finish or disconnect layer included,
\* the session is already over.
Once ==
  /\ ~emgButton /\ ~EmgControl /\ pc["status"] # "astray"
  /\ visible \notin {"charge", "finish"} => Rest
  /\ visible = "finish" => (bLayerChargeFlg => Leaving) /\ ~Awaits("charge")
  /\ bLayerChargeFlg => h.stops = 0 /\ (Awaits("finish") => Leaving) /\ ~Awaits("charge")
  /\ Leaving => visible = "finish" /\ h.stops = 0
  /\ Awaits("finish") => h.stops = 0 /\ ~Awaits("charge")
  /\ listener \in {"finish", "disconnect"} \/ pc["cp"] = "finish" \/ Awaits("disconnect") => Rest
  /\ listener = "connect" => ~Awaits("disconnect")
  /\ bLayerChargeFlg \/ visible \in {"finish", "disconnect"}
       => listener # "connect" /\ ~Pends("connect")
  /\ ChargeAfterConnect
  /\ h.stops <= 1

OnceInv == Distinct(queue) /\ DisconnectSecond /\ (Calm => Once)

\* A queue r that is q and further actions, the Enter of layer l the only Enter among them.
Grows(q, r, l) ==
  /\ Distinct(r) /\ Len(q) <= Len(r)
  /\ \A i \in DOMAIN q : i \in DOMAIN r /\ r[i] = q[i]
  /\ \A i \in DOMAIN r : i > Len(q) => r[i][2] # "Enter" \/ r[i] = <<l, "Enter">>

\* A step of the scene, or of a thread that queues actions: the handler goes on, sleeps or
\* returns, and the queue r is left for what follows.
Moves(r) ==
  \/ queue' = <<>>
  \/ queue' = r /\ pos' = pos /\ (step' = step \/ step' > 1)
  \/ queue' = r /\ pos' = pos + 1

\* A queue r that is q, with action e put last if it is put at all.
Queues(q, e, r) ==
  /\ r \in Seq(Handlers) /\ Distinct(r) /\ Len(q) <= Len(r)
  /\ \A i \in DOMAIN q : i \in DOMAIN r /\ r[i] = q[i]
  /\ \A i \in DOMAIN r : i > Len(q) => r[i] = e

\* Queueing an action leaves the others in place.
LEMMA QueuedGrows ==
  ASSUME NEW q \in Seq(Handlers), Distinct(q), NEW e \in Handlers
  PROVE  Queues(q, e, Queued(q, e))
<1> DEFINE r == Queued(q, e)
<1>1. CASE \E i \in DOMAIN q : q[i] = e
  <2>1. r = q BY <1>1 DEF Queued
  <2> HIDE DEF r
  <2>2. Queues(q, e, q) BY DEF Queues
  <2> QED BY <2>1, <2>2 DEF r
<1>2. CASE ~\E i \in DOMAIN q : q[i] = e
  <2>1. r = Append(q, e) BY <1>2 DEF Queued
  <2> HIDE DEF r
  <2>2. /\ r \in Seq(Handlers) /\ Len(r) = Len(q) + 1 /\ r[Len(q) + 1] = e
        /\ \A i \in 1..Len(q) : r[i] = q[i]
    BY <2>1
  <2>3. DOMAIN q = 1..Len(q) /\ DOMAIN r = 1..Len(q) + 1 /\ Len(q) \in Nat BY <2>2
  <2>4. Distinct(r) BY <1>2, <2>2, <2>3 DEF Distinct
  <2>5. \A i \in DOMAIN r : i > Len(q) => r[i] = e BY <2>2, <2>3
  <2>6. \A i \in DOMAIN q : i \in DOMAIN r /\ r[i] = q[i] BY <2>2, <2>3
  <2>7. Queues(q, e, r) BY <2>2, <2>3, <2>4, <2>5, <2>6 DEF Queues
  <2> QED BY <2>7 DEF r
<1> QED BY <1>1, <1>2

\* A goto adds to the queue no Enter but that of the layer it goes to.
LEMMA GotoGrows ==
  ASSUME NEW q \in Seq(Handlers), Distinct(q), NEW from \in Layers, NEW to \in Layers
  PROVE  AfterGoto(q, from, to) \in Seq(Handlers) /\ Grows(q, AfterGoto(q, from, to), to)
<1> DEFINE q1 == Queued(q, <<from, "Leave">>)
           q2 == Queued(q1, <<to, "Enter">>)
<1>1. <<from, "Leave">> \in Handlers /\ <<to, "Enter">> \in Handlers BY DEF Handlers
<1>2. Queues(q, <<from, "Leave">>, q1) BY <1>1, QueuedGrows
<1> HIDE DEF q1
<1>3. q1 \in Seq(Handlers) /\ Distinct(q1) BY <1>2 DEF Queues
<1>4. Queues(q1, <<to, "Enter">>, q2) BY <1>1, <1>3, QueuedGrows
<1>5. AfterGoto(q, from, to) = q2 BY DEF AfterGoto, q1
<1> HIDE DEF q2
<1>6. q2 \in Seq(Handlers) /\ Distinct(q2) /\ Len(q) <= Len(q2)
  <2>1. Len(q) \in Nat /\ Len(q1) \in Nat /\ Len(q2) \in Nat BY <1>3, <1>4 DEF Queues
  <2> QED BY <1>2, <1>4, <2>1 DEF Queues
<1>7. \A i \in DOMAIN q : i \in DOMAIN q2 /\ q2[i] = q[i] BY <1>2, <1>4 DEF Queues
<1>8. ASSUME NEW i \in DOMAIN q2, i > Len(q)
      PROVE  q2[i][2] # "Enter" \/ q2[i] = <<to, "Enter">>
  <2>1. CASE i > Len(q1) BY <1>4, <2>1 DEF Queues
  <2>2. CASE ~(i > Len(q1))
    <3>1. i \in DOMAIN q1 BY <1>3, <1>6, <2>2
    <3>2. q2[i] = <<from, "Leave">> BY <1>2, <1>4, <1>8, <3>1 DEF Queues
    <3> QED BY <3>2
  <2> QED BY <2>1, <2>2
<1> QED BY <1>5, <1>6, <1>7, <1>8 DEF Grows

\* No goto: the queue itself.
LEMMA StaysGrown == ASSUME TypeOK, Distinct(queue), NEW l \in Layers PROVE Grows(queue, queue, l)
  BY DEF TypeOK, SceneType, Grows

\* An Enter that has not begun, or not returned, after a step had not before it, or was queued.
LEMMA AwaitsMoves ==
  ASSUME TypeOK, NEW l \in Layers, NEW r \in Seq(Handlers), Grows(queue, r, l), Moves(r),
         NEW m \in Layers, m # l
  PROVE  (Awaits(m)' => Awaits(m)) /\ (Pends(m)' => Pends(m))
<1>1. queue \in Seq(Handlers) /\ pos \in Nat /\ step \in Nat /\ pos <= Len(queue)
  BY DEF TypeOK, SceneType
<1>2. CASE queue' = <<>> BY <1>2 DEF Awaits, Pends
<1>3. ASSUME queue' = r, NEW i \in DOMAIN r, r[i] = <<m, "Enter">>
      PROVE  i \in DOMAIN queue /\ queue[i] = <<m, "Enter">> /\ i \in Nat
  BY <1>1, <1>3 DEF Grows
<1>4. CASE /\ queue' = r
            /\ \/ pos' = pos /\ (step' = step \/ step' > 1)
               \/ pos' = pos + 1
  <2>1. Awaits(m)' => Awaits(m) BY <1>1, <1>3, <1>4 DEF Awaits
  <2>2. ASSUME NEW i \in DOMAIN r, r[i] = <<m, "Enter">>, pos' <= i PROVE Pends(m)
    <3>1. i \in DOMAIN queue /\ queue[i] = <<m, "Enter">> /\ i \in Nat BY <1>3, <1>4, <2>2
    <3>2. pos <= i BY <1>1, <1>4, <2>2, <3>1
    <3> QED BY <3>1, <3>2 DEF Pends
  <2>3. Pends(m)' => Pends(m) BY <1>4, <2>2 DEF Pends
  <2> QED BY <2>1, <2>3
<1> QED BY <1>2, <1>4 DEF Moves

\* A step keeps the order of the queue.
LEMMA QueueMoves ==
  ASSUME TypeOK, NEW l \in Layers, NEW r \in Seq(Handlers), Grows(queue, r, l), Moves(r)
  PROVE  /\ Distinct(queue')
         /\ DisconnectSecond /\ l # "disconnect" => DisconnectSecond'
         /\ ChargeAfterConnect /\ (l \in {"connect", "charge"} => ~Awaits("charge"))
              => ChargeAfterConnect'
<1>1. queue \in Seq(Handlers) /\ pos \in Nat /\ step \in Nat /\ pos <= Len(queue)
  BY DEF TypeOK, SceneType
<1>2. CASE queue' = <<>> BY <1>2 DEF Distinct, DisconnectSecond, ChargeAfterConnect, Awaits
<1>3. CASE queue' = r
  <2>1. Distinct(queue') BY <1>3 DEF Grows
  <2>2. ASSUME DisconnectSecond, l # "disconnect" PROVE DisconnectSecond'
    <3> SUFFICES ASSUME NEW i \in DOMAIN r, r[i] = <<"disconnect", "Enter">>
                 PROVE  i = 2 /\ r[1] = <<"finish", "Leave">>
      BY <1>3 DEF DisconnectSecond
    <3>1. i \in DOMAIN queue /\ queue[i] = <<"disconnect", "Enter">> BY <1>1, <2>2 DEF Grows
    <3>2. i = 2 /\ queue[1] = <<"finish", "Leave">> BY <2>2, <3>1 DEF DisconnectSecond
    <3>3. 1 \in DOMAIN queue BY <1>1, <3>1, <3>2
    <3> QED BY <3>2, <3>3 DEF Grows
  <2>3. ASSUME ChargeAfterConnect, l \in {"connect", "charge"} => ~Awaits("charge")
        PROVE  ChargeAfterConnect'
    <3> SUFFICES ASSUME Awaits("charge")', NEW i \in DOMAIN r, NEW j \in DOMAIN r,
                        r[i] = <<"connect", "Enter">>, r[j] = <<"charge", "Enter">>
                 PROVE  i < j
      BY <1>3 DEF ChargeAfterConnect
    <3>1. CASE l # "charge"
      <4>1. Awaits("charge") BY <3>1, AwaitsMoves DEF Layers
      <4>2. l # "connect" BY <2>3, <4>1
      <4>3. i \in DOMAIN queue /\ queue[i] = r[i] BY <1>1, <4>2 DEF Grows
      <4>4. j \in DOMAIN queue /\ queue[j] = r[j] BY <1>1, <3>1 DEF Grows
      <4> QED BY <2>3, <4>1, <4>3, <4>4 DEF ChargeAfterConnect
    <3>2. CASE l = "charge"
      <4>1. i \in DOMAIN queue BY <1>1, <3>2 DEF Grows
      <4>2. ASSUME j \in DOMAIN queue PROVE FALSE
        <5>1. queue[j] = <<"charge", "Enter">> BY <4>2 DEF Grows
        <5>2. j \in Nat /\ (pos' < j \/ (pos' = j /\ step' = 1))
          BY <1>3, <2>1 DEF Awaits, Distinct
        <5>3. j > pos \/ (j = pos /\ step = 1) BY <1>1, <1>3, <4>2, <5>2 DEF Moves
        <5> QED BY <2>3, <3>2, <4>2, <5>1, <5>3 DEF Awaits
      <4> QED BY <1>1, <4>1, <4>2
    <3> QED BY <3>1, <3>2
  <2> QED BY <2>1, <2>2, <2>3
<1> QED BY <1>2, <1>3 DEF Moves

\* What most steps leave as it was: no layer but the main one is shown, and that one only when
\* the session is over; no thread goes to the finish layer, and one that has resets
\* bLayerChargeFlg; no listener that goes home or to the charge layer is installed.
KeepsSession ==
  /\ visible' = visible \/ (visible' = "main" /\ Rest)
  /\ bLayerChargeFlg' => bLayerChargeFlg /\ (Leaving => Leaving')
  /\ Leaving' => Leaving
  /\ listener' = listener \/ listener' \notin {"connect", "finish", "disconnect"}

\* The emergency button is not pressed, no finish layer is entered.
KeepsStops ==
  /\ Calm /\ UNCHANGED <<emgButton, EmgControl>> /\ h'.stops = h.stops
  /\ pc'["status"] # "astray" /\ (pc'["cp"] = "finish" => pc["cp"] = "finish")

\* Such a step keeps the invariant.
LEMMA OnceRuns ==
  ASSUME TypeOK, OnceInv, NEW r \in Seq(Handlers), Grows(queue, r, "main"), Moves(r),
         Calm' => KeepsSession /\ KeepsStops
  PROVE  OnceInv'
<1>1. Distinct(queue)' /\ DisconnectSecond' BY QueueMoves DEF OnceInv, Layers
<1>2. ASSUME Calm' PROVE Once'
  <2>1. Once /\ KeepsSession /\ KeepsStops BY <1>2 DEF OnceInv, KeepsStops
  <2>2. /\ Awaits("finish")' => Awaits("finish")
        /\ Awaits("charge")' => Awaits("charge")
        /\ Awaits("disconnect")' => Awaits("disconnect")
        /\ Pends("connect")' => Pends("connect")
    BY AwaitsMoves DEF Layers
  <2>3. ChargeAfterConnect' BY <2>1, QueueMoves DEF Once, Layers
  <2> QED BY <2>1, <2>2, <2>3 DEF Once, Rest, KeepsSession, Leaving, Between, KeepsStops
<1> QED BY <1>1, <1>2 DEF OnceInv

\* So does a goto to the finish layer by a thread that finds bLayerChargeFlg set.
LEMMA OnceEnds ==
  ASSUME TypeOK, OnceInv, NEW r \in Seq(Handlers), Grows(queue, r, "finish"), Moves(r),
         Calm' => /\ KeepsStops /\ UNCHANGED listener
                  /\ bLayerChargeFlg /\ Leaving' /\ visible' = "finish"
  PROVE  OnceInv'
<1>1. Distinct(queue)' /\ DisconnectSecond' BY QueueMoves DEF OnceInv, Layers
<1>2. ASSUME Calm' PROVE Once'
  <2>1. /\ Once /\ KeepsStops /\ UNCHANGED listener
        /\ bLayerChargeFlg /\ Leaving' /\ visible' = "finish"
    BY <1>2 DEF OnceInv, KeepsStops
  <2>2. /\ Awaits("charge")' => Awaits("charge")
        /\ Awaits("disconnect")' => Awaits("disconnect")
        /\ Pends("connect")' => Pends("connect")
    BY AwaitsMoves DEF Layers
  <2>3. ChargeAfterConnect' BY <2>1, QueueMoves DEF Once, Layers
  <2> QED BY <2>1, <2>2, <2>3 DEF Once, Rest, KeepsStops
<1> QED BY <1>1, <1>2 DEF OnceInv

\* The queue as it is, or with one goto, is what the lemmas above speak of.
LEMMA SceneStays ==
  ASSUME TypeOK, OnceInv, NEW l \in Layers
  PROVE  /\ queue \in Seq(Handlers) /\ Grows(queue, queue, l)
         /\ UNCHANGED scene \/ Return \/ Sleep(2) \/ Sleep(3) => Moves(queue)
<1>1. queue \in Seq(Handlers) /\ Grows(queue, queue, l)
  BY StaysGrown DEF OnceInv, TypeOK, SceneType
<1> QED BY <1>1 DEF Moves, scene, Return, ReturnWith, Sleep

LEMMA SceneGoes ==
  ASSUME TypeOK, OnceInv, NEW l \in Layers
  PROVE  /\ AfterGoto(queue, visible, l) \in Seq(Handlers)
         /\ Grows(queue, AfterGoto(queue, visible, l), l)
         /\ ituLayerGoto(l) \/ (Shows(l) /\ pos' = pos /\ step' \in {2, 3})
              => Moves(AfterGoto(queue, visible, l))
<1>1. /\ AfterGoto(queue, visible, l) \in Seq(Handlers)
      /\ Grows(queue, AfterGoto(queue, visible, l), l)
  BY GotoGrows DEF OnceInv, TypeOK, SceneType
<1> QED BY <1>1 DEF Moves, ituLayerGoto, Shows

\* A step that leaves the scene and the session alone.
LEMMA OnceStays ==
  ASSUME TypeOK, OnceInv, UNCHANGED scene \/ Return \/ Sleep(2) \/ Sleep(3),
         Calm' => KeepsSession /\ KeepsStops
  PROVE  OnceInv'
<1>1. queue \in Seq(Handlers) /\ Grows(queue, queue, "main") /\ Moves(queue)
  BY SceneStays DEF Layers
<1> QED BY <1>1, OnceRuns

\* A goto to the main layer when the session is over.
LEMMA OnceGoesHome ==
  ASSUME TypeOK, OnceInv, ituLayerGoto("main"),
         Calm' => Rest /\ KeepsSession /\ KeepsStops
  PROVE  OnceInv'
<1> DEFINE r == AfterGoto(queue, visible, "main")
<1>1. r \in Seq(Handlers) /\ Grows(queue, r, "main") /\ Moves(r) BY SceneGoes DEF Layers
<1> HIDE DEF r
<1> QED BY <1>1, OnceRuns

\* What GotoNextLayerOnCharge does with the places of the threads.
LEMMA NextPlaces ==
  ASSUME TypeOK, NEW t \in Threads, pc[t] \notin Between, GotoNextLayerOnCharge(t)
  PROVE  /\ pc'["status"] = "astray" => pc["status"] = "astray"
         /\ pc'["cp"] = "finish" => pc["cp"] = "finish"
         /\ bLayerChargeFlg => ituLayerGoto("finish") /\ Leaving'
         /\ ~bLayerChargeFlg => UNCHANGED scene /\ (Leaving' => Leaving)
<1>1. CASE bLayerChargeFlg
  <2>1. PICK p \in Between : Goes(t, p)
    BY <1>1 DEF GotoNextLayerOnCharge, Parts, Between
  <2>2. ituLayerGoto("finish") BY <1>1 DEF GotoNextLayerOnCharge
  <2> QED BY <1>1, <2>1, <2>2 DEF Goes, Leaving, Between, TypeOK, ThreadType
<1>2. CASE ~bLayerChargeFlg
  <2>1. PICK p \in {"idle", "unplugged"} : Goes(t, p)
    BY <1>2 DEF GotoNextLayerOnCharge, GoesOn
  <2>2. UNCHANGED scene BY <1>2 DEF GotoNextLayerOnCharge
  <2> QED BY <1>2, <2>1, <2>2 DEF Goes, Leaving, Between, TypeOK, ThreadType
<1> QED BY <1>1, <1>2

\* GotoNextLayerOnCharge, by any of the threads that end a charge.
LEMMA OnceNextLayer ==
  ASSUME TypeOK, OnceInv, NEW t \in Threads, pc[t] \notin Between, GotoNextLayerOnCharge(t),
         UNCHANGED <<listener, emgButton, EmgControl, left>>, h'.stops = h.stops
  PROVE  OnceInv'
<1>1. Calm' => KeepsStops
  BY NextPlaces DEF KeepsStops, OnceInv, Once, Calm, Unpressed, Orderly
<1>2. bLayerChargeFlg' = bLayerChargeFlg BY DEF GotoNextLayerOnCharge
<1>3. CASE ~bLayerChargeFlg
  <2>1. UNCHANGED scene /\ (Leaving' => Leaving) BY <1>3, NextPlaces
  <2>2. KeepsSession BY <1>2, <1>3, <2>1 DEF KeepsSession, scene
  <2> QED BY <1>1, <2>1, <2>2, OnceStays
<1>4. CASE bLayerChargeFlg
  <2> DEFINE r == AfterGoto(queue, visible, "finish")
  <2>1. ituLayerGoto("finish") /\ Leaving' BY <1>4, NextPlaces
  <2>2. r \in Seq(Handlers) /\ Grows(queue, r, "finish") /\ Moves(r)
    BY <2>1, SceneGoes DEF Layers
  <2>3. visible' = "finish" BY <2>1 DEF ituLayerGoto, Shows
  <2> HIDE DEF r
  <2> QED BY <1>1, <1>4, <2>1, <2>2, <2>3, OnceEnds
<1> QED BY <1>3, <1>4

\* The last part of a stop, and the reset of bLayerChargeFlg.
LEMMA OnceStops ==
  ASSUME TypeOK, OnceInv, NEW t \in Threads, TSCT_ChargingStop(t) \/ LayerPassed(t)
  PROVE  OnceInv'
<1>1. CASE TSCT_ChargingStop(t)
  <2>1. pc[t] \notin Between /\ GotoNextLayerOnCharge(t)
    BY <1>1 DEF TSCT_ChargingStop, Between
  <2>2. UNCHANGED <<listener, emgButton, EmgControl, left>> /\ h'.stops = h.stops
    BY <1>1 DEF TSCT_ChargingStop, pilot, emg
  <2> QED BY <2>1, <2>2, OnceNextLayer
<1>2. CASE LayerPassed(t)
  <2>1. /\ UNCHANGED <<scene, listener, emgButton, EmgControl, left, h>> /\ ~bLayerChargeFlg'
        /\ UNCHANGED visible
    BY <1>2 DEF LayerPassed, pilot, emg, scene
  <2>2. PICK p \in {"idle", "unplugged"} : Goes(t, p) BY <1>2 DEF LayerPassed, GoesOn
  <2>3. /\ Leaving' => Leaving
        /\ pc'["status"] = "astray" => pc["status"] = "astray"
        /\ pc'["cp"] = "finish" => pc["cp"] = "finish"
    BY <2>2 DEF Goes, Leaving, Between, TypeOK, ThreadType
  <2>4. Calm' => KeepsSession /\ KeepsStops
    BY <2>1, <2>3 DEF KeepsSession, KeepsStops, OnceInv, Once, Calm, Unpressed, Orderly
  <2> QED BY <2>1, <2>4, OnceStays
<1> QED BY <1>1, <1>2

\* A goto for a layer that is no longer shown is a stray.
LEMMA OrderlyGoto ==
  ASSUME TypeOK, NEW l, NEW to, GotoFrom(l, to), Calm'
  PROVE  Calm /\ visible = l /\ ituLayerGoto(to)
BY DEF GotoFrom, Spend, CanSpend, Calm, Orderly, Unpressed, TypeOK, DataType, Budgets

\* A goto to the card-wait or the connect layer when no session is open.
LEMMA OnceShows ==
  ASSUME TypeOK, OnceInv, NEW l \in {"cardwait", "connect"}, ituLayerGoto(l),
         Calm' => /\ visible \notin {"charge", "finish"} /\ KeepsStops
                  /\ UNCHANGED <<listener, bLayerChargeFlg>> /\ (Leaving' => Leaving)
  PROVE  OnceInv'
<1> DEFINE r == AfterGoto(queue, visible, l)
<1>1. r \in Seq(Handlers) /\ Grows(queue, r, l) /\ Moves(r) BY SceneGoes DEF Layers
<1> HIDE DEF r
<1>2. Distinct(queue)' /\ DisconnectSecond' BY <1>1, QueueMoves DEF OnceInv, Layers
<1>3. ASSUME Calm' PROVE Once'
  <2>1. /\ Once /\ Rest /\ KeepsStops /\ UNCHANGED <<listener, bLayerChargeFlg>>
        /\ visible' = l /\ (Leaving' => Leaving)
    BY <1>3 DEF OnceInv, Once, KeepsStops, ituLayerGoto, Shows
  <2>2. /\ Awaits("finish")' => Awaits("finish")
        /\ Awaits("charge")' => Awaits("charge")
        /\ Awaits("disconnect")' => Awaits("disconnect")
    BY <1>1, AwaitsMoves DEF Layers
  <2>3. ChargeAfterConnect' BY <1>1, <2>1, QueueMoves DEF Once, Rest, Layers
  <2> QED BY <2>1, <2>2, <2>3 DEF Once, Rest, KeepsStops
<1> QED BY <1>2, <1>3 DEF OnceInv

\* Once an Enter has taken its first step it no longer waits.
LEMMA EnterBegun ==
  ASSUME TypeOK, Distinct(queue), NEW l \in Layers, NEW s \in 1..2, At(l, "Enter", s),
         Return \/ Sleep(2)
  PROVE  ~Awaits(l)' /\ Pends(l) /\ (s = 1 => Awaits(l))
<1>1. queue \in Seq(Handlers) /\ pos \in DOMAIN queue /\ pos \in Nat /\ queue[pos] = <<l, "Enter">>
  BY DEF TypeOK, SceneType, At
<1>2. \A i \in DOMAIN queue : queue[i] = <<l, "Enter">> => i = pos BY <1>1 DEF Distinct
<1>3. ~Awaits(l)' BY <1>1, <1>2 DEF Return, ReturnWith, Sleep, Awaits
<1>4. Pends(l) BY <1>1 DEF Pends
<1>5. s = 1 => Awaits(l) BY <1>1 DEF At, Awaits
<1> QED BY <1>3, <1>4, <1>5

\* What the queue and the waiting Enters become when a handler goes on.
LEMMA OnceWaits ==
  ASSUME TypeOK, OnceInv, UNCHANGED scene \/ Return \/ Sleep(2) \/ Sleep(3)
  PROVE  /\ Distinct(queue)' /\ DisconnectSecond'
         /\ ChargeAfterConnect => ChargeAfterConnect'
         /\ Awaits("finish")' => Awaits("finish")
         /\ Awaits("charge")' => Awaits("charge")
         /\ Awaits("disconnect")' => Awaits("disconnect")
         /\ Pends("connect")' => Pends("connect")
<1>1. queue \in Seq(Handlers) /\ Grows(queue, queue, "main") /\ Moves(queue)
  BY SceneStays DEF Layers
<1> QED BY <1>1, AwaitsMoves, QueueMoves DEF OnceInv, Layers

\* The connect layer installs its listener: the disconnect layer's Enter is long past.
LEMMA OnceConnects == ASSUME TypeOK, OnceInv, ConnectOnEnter2 PROVE OnceInv'
<1>1. /\ At("connect", "Enter", 2) /\ Return /\ listener' = "connect"
      /\ UNCHANGED <<visible, bLayerChargeFlg, emgButton, EmgControl, h, pc, left>>
  BY DEF ConnectOnEnter2, SetListener, Return, charge, emg
<1>2. Pends("connect") BY <1>1, EnterBegun DEF OnceInv, Layers
<1>3. ~Awaits("disconnect")
  <2> SUFFICES ASSUME NEW i \in DOMAIN queue, queue[i] = <<"disconnect", "Enter">>, pos <= i
               PROVE  FALSE
    BY DEF Awaits, TypeOK, SceneType
  <2>1. i = 2 /\ queue[1] = <<"finish", "Leave">> BY DEF OnceInv, DisconnectSecond
  <2>2. pos \in Nat /\ pos > 0 /\ queue[pos] = <<"connect", "Enter">>
    BY <1>1 DEF At, TypeOK, SceneType
  <2>3. pos = 1 \/ pos = 2 BY <2>1, <2>2
  <2> QED BY <2>1, <2>2, <2>3
<1>4. ASSUME Calm' PROVE Once'
  <2>1. Once BY <1>1, <1>4 DEF OnceInv, Calm, Orderly, Unpressed
  <2>2. Leaving' <=> Leaving BY <1>1 DEF Leaving
  <2> QED BY <1>1, <1>2, <1>3, <2>1, <2>2, OnceWaits DEF Once, Rest
<1> QED BY <1>1, <1>4, OnceWaits DEF OnceInv

\* The charge layer opens a session: no end of another waits, nor the connect layer's Enter.
LEMMA OnceBegins == ASSUME TypeOK, OnceInv, ChargeOnEnter PROVE OnceInv'
<1> DEFINE r == AfterGoto(queue, visible, "finish")
<1>1. /\ At("charge", "Enter", 1) /\ listener' = "charge" /\ h'.stops = 0
      /\ UNCHANGED <<emgButton, EmgControl, left>>
  BY DEF ChargeOnEnter, SetListener, NoHistory, emg
<1>2. CASE EmgControl
  <2>1. Shows("finish") /\ pos' = pos /\ step' \in {2, 3} BY <1>2 DEF ChargeOnEnter
  <2>2. r \in Seq(Handlers) /\ Grows(queue, r, "finish") /\ Moves(r)
    BY <2>1, SceneGoes DEF Layers
  <2> HIDE DEF r
  <2>3. ~Calm' BY <1>1, <1>2 DEF OnceInv, Once, Calm, Orderly, Unpressed
  <2> QED BY <2>2, <2>3, OnceEnds
<1>3. CASE ~EmgControl
  <2>1. Return /\ bLayerChargeFlg' /\ visible' = visible /\ UNCHANGED pc
    BY <1>3 DEF ChargeOnEnter, Return
  <2>2. ~Awaits("charge")' /\ Awaits("charge") BY <1>1, <2>1, EnterBegun DEF OnceInv, Layers
  <2>3. ASSUME Calm' PROVE Once'
    <3>1. Once BY <1>1, <2>3 DEF OnceInv, Calm, Orderly, Unpressed
    <3>2. ~Pends("connect")'
      <4> SUFFICES ASSUME NEW i \in DOMAIN queue, queue[i] = <<"connect", "Enter">>
                   PROVE  i \in Nat /\ pos \in Nat /\ i <= pos
        BY <2>1 DEF Pends, Return, ReturnWith, TypeOK, SceneType
      <4>1. pos \in DOMAIN queue /\ queue[pos] = <<"charge", "Enter">>
        BY <1>1 DEF At, TypeOK, SceneType
      <4>2. i < pos BY <2>2, <3>1, <4>1 DEF Once, ChargeAfterConnect
      <4> QED BY <4>2 DEF TypeOK, SceneType
    <3>3. Leaving' <=> Leaving BY <2>1 DEF Leaving
    <3> QED BY <1>1, <2>1, <2>2, <3>1, <3>2, <3>3, OnceWaits DEF Once, Rest
  <2> QED BY <2>1, <2>3, OnceWaits DEF OnceInv
<1> QED BY <1>2, <1>3

\* The finish layer counts the session's one stop.
LEMMA OnceCounts == ASSUME TypeOK, OnceInv, Ch2FinishOnEnter1 PROVE OnceInv'
<1>1. /\ At("finish", "Enter", 1) /\ Sleep(2) /\ listener' = "finish"
      /\ UNCHANGED <<visible, bLayerChargeFlg, emgButton, EmgControl, pc, left>>
  BY DEF Ch2FinishOnEnter1, SetListener, Sleep, charge, emg
<1>4. ~Leaving /\ ~Leaving' BY <1>1 DEF Ch2FinishOnEnter1, Slept, Leaving
<1>2. ~Awaits("finish")' /\ Awaits("finish") BY <1>1, EnterBegun DEF OnceInv, Layers
<1>3. ASSUME Calm' PROVE Once'
  <2>1. Once BY <1>1, <1>3 DEF OnceInv, Calm, Orderly, Unpressed
  <2>2. h'.stops = 1 BY <1>2, <2>1 DEF Once, Ch2FinishOnEnter1, TypeOK, ThreadType, Histories
  <2> QED BY <1>1, <1>2, <1>4, <2>1, <2>2, OnceWaits DEF Once, Rest
<1> QED BY <1>1, <1>3, OnceWaits DEF OnceInv

\* The disconnect layer installs the listener that goes home.
LEMMA OnceDisconnects == ASSUME TypeOK, OnceInv, DisconnectOnEnter PROVE OnceInv'
<1>1. /\ At("disconnect", "Enter", 1) /\ Return /\ listener' = "disconnect"
      /\ UNCHANGED <<visible, bLayerChargeFlg, emgButton, EmgControl, h, pc, left>>
  BY DEF DisconnectOnEnter, SetListener, Return, charge, emg
<1>2. Awaits("disconnect") BY <1>1, EnterBegun DEF OnceInv, Layers
<1>3. ASSUME Calm' PROVE Once'
  <2>1. Once BY <1>1, <1>3 DEF OnceInv, Calm, Orderly, Unpressed
  <2>2. Leaving' <=> Leaving BY <1>1 DEF Leaving
  <2> QED BY <1>1, <1>2, <2>1, <2>2, OnceWaits DEF Once, Rest
<1> QED BY <1>1, <1>3, OnceWaits DEF OnceInv

\* 9 V in the connect layer shows the charge layer.
LEMMA OnceCharges == ASSUME TypeOK, OnceInv, CPListenerOnConnect PROVE OnceInv'
<1> DEFINE r == AfterGoto(queue, visible, "charge")
<1>1. /\ GotoFrom("connect", "charge") /\ pc["cp"] = "idle" /\ listener = "connect"
      /\ UNCHANGED <<listener, bLayerChargeFlg, emgButton, EmgControl, h, pc>>
  BY DEF CPListenerOnConnect, CPChanged, charge, emg
<1>2. ituLayerGoto("charge") BY <1>1 DEF GotoFrom
<1>3. r \in Seq(Handlers) /\ Grows(queue, r, "charge") /\ Moves(r) BY <1>2, SceneGoes DEF Layers
<1> HIDE DEF r
<1>4. Distinct(queue)' /\ DisconnectSecond' BY <1>3, QueueMoves DEF OnceInv, Layers
<1>5. ASSUME Calm' PROVE Once'
  <2>1. Once /\ visible = "connect" BY <1>1, <1>5, OrderlyGoto DEF OnceInv
  <2>2. visible' = "charge" /\ (Leaving' <=> Leaving)
    BY <1>1, <1>2 DEF ituLayerGoto, Shows, Leaving
  <2>3. /\ Awaits("finish")' => Awaits("finish")
        /\ Awaits("disconnect")' => Awaits("disconnect")
    BY <1>3, AwaitsMoves DEF Layers
  <2>4. ChargeAfterConnect' BY <1>3, <2>1, QueueMoves DEF Once, Rest, Layers
  <2> QED BY <1>1, <2>1, <2>2, <2>3, <2>4 DEF Once, Rest
<1> QED BY <1>4, <1>5 DEF OnceInv

\* The stop button's dialog takes the goto to the finish layer like the other stops.
LEMMA OnceDialog == ASSUME TypeOK, OnceInv, ChargeStopOnDialog2 PROVE OnceInv'
<1>1. /\ UNCHANGED <<listener, emgButton, EmgControl, left, h, bLayerChargeFlg>>
      /\ Slept /\ At("charge", "Stop", 2)
  BY DEF ChargeStopOnDialog2, pilot, emg
<1>2. CASE bLayerChargeFlg
  <2> DEFINE r == AfterGoto(queue, visible, "finish")
  <2>1. Shows("finish") /\ pos' = pos /\ step' \in {2, 3} /\ visible' = "finish"
          /\ Parts("scene")
    BY <1>2 DEF ChargeStopOnDialog2, Shows
  <2>2. r \in Seq(Handlers) /\ Grows(queue, r, "finish") /\ Moves(r)
    BY <2>1, SceneGoes DEF Layers
  <2> HIDE DEF r
  <2>3. PICK p \in Between : Goes("scene", p) BY <2>1 DEF Parts, Between
  <2>4. Leaving' /\ pc'["status"] = pc["status"] /\ pc'["cp"] = pc["cp"]
    BY <2>3 DEF Goes, Leaving, TypeOK, ThreadType, Threads
  <2>5. Calm' => KeepsStops
    BY <1>1, <2>4 DEF KeepsStops, OnceInv, Once, Calm, Unpressed, Orderly
  <2> QED BY <1>1, <1>2, <2>1, <2>2, <2>4, <2>5, OnceEnds
<1>3. CASE ~bLayerChargeFlg
  <2>1. Return /\ UNCHANGED pc BY <1>3 DEF ChargeStopOnDialog2
  <2>2. Calm' => KeepsSession /\ KeepsStops
    BY <1>1, <1>3, <2>1 DEF KeepsSession, Leaving, KeepsStops, OnceInv, Once, Calm, Unpressed,
       Orderly, Return
  <2> QED BY <2>1, <2>2, OnceStays
<1> QED BY <1>2, <1>3 DEF TypeOK, FlagType

\* 12 V with the finish layer's listener installed: the session is over.
LEMMA OnceFinished == ASSUME TypeOK, OnceInv, CPListenerOnFinish PROVE OnceInv'
<1>1. /\ UNCHANGED scene /\ listener = "finish"
      /\ UNCHANGED <<listener, bLayerChargeFlg, emgButton, EmgControl, h, left>>
      /\ pc'["status"] = pc["status"]
  BY DEF CPListenerOnFinish, CPChanged, Goes, charge, emg, TypeOK, ThreadType, Threads
<1>2. ASSUME Calm' PROVE Once'
  <2>1. Once BY <1>1, <1>2 DEF OnceInv, Calm, Orderly, Unpressed
  <2>2. UNCHANGED visible BY <1>1 DEF scene
  <2>3. Leaving' => Leaving
    BY DEF CPListenerOnFinish, CPChanged, Goes, Leaving, Between, TypeOK, ThreadType
  <2> QED BY <1>1, <2>1, <2>2, <2>3, OnceWaits DEF Once, Rest
<1> QED BY <1>1, <1>2, OnceWaits DEF OnceInv

\* The touch that leaves the finish layer, between two flushes.
LEMMA OnceConfirms == ASSUME TypeOK, OnceInv, Ch2FinishConfirmOnPress PROVE OnceInv'
<1>1. /\ queue = <<>> /\ pos = 0 /\ visible = "finish" /\ visible' = "disconnect" /\ pos' = 0
      /\ queue' = AfterGoto(<<>>, "finish", "disconnect")
      /\ UNCHANGED <<listener, bLayerChargeFlg, emgButton, EmgControl, h, pc, left>>
  BY DEF Ch2FinishConfirmOnPress, ituLayerGoto, Shows, pilot, charge, emg
<1> DEFINE q == << <<"finish", "Leave">> >>
           e == <<"disconnect", "Enter">>
<1>2. queue' = Append(q, e)
  <2>1. Queued(<<>>, <<"finish", "Leave">>) = q BY DEF Queued
  <2>2. DOMAIN q = {1} /\ q[1] # e OBVIOUS
  <2> HIDE DEF q, e
  <2>3. Queued(q, e) = Append(q, e) BY <2>2 DEF Queued
  <2> QED BY <1>1, <2>1, <2>3 DEF AfterGoto, e
<1>3. /\ DOMAIN queue' = {1, 2} /\ queue'[1] = <<"finish", "Leave">>
      /\ queue'[2] = <<"disconnect", "Enter">>
  <2>1. q \in Seq(Handlers) /\ Len(q) = 1 /\ q[1] = <<"finish", "Leave">> /\ e \in Handlers
    BY DEF Handlers, Layers
  <2> HIDE DEF q, e
  <2>2. Len(queue') = 2 /\ queue'[1] = <<"finish", "Leave">> /\ queue'[2] = e
    BY <1>2, <2>1
  <2>3. DOMAIN queue' = 1..2 BY <1>2, <2>1, <2>2
  <2> QED BY <2>2, <2>3 DEF e
<1>4. Distinct(queue)' /\ DisconnectSecond' BY <1>3 DEF Distinct, DisconnectSecond
<1>5. ~Awaits("finish")' /\ ~Awaits("charge")' /\ ~Pends("connect")' /\ ChargeAfterConnect'
  BY <1>3 DEF Awaits, Pends, ChargeAfterConnect
<1>6. ASSUME Calm' PROVE Once'
  <2>1. Once BY <1>1, <1>6 DEF OnceInv, Calm, Orderly, Unpressed
  <2>2. ~Leaving /\ ~Leaving' BY <1>1 DEF Ch2FinishConfirmOnPress, Slept, Leaving
  <2> QED BY <1>1, <1>5, <2>1, <2>2 DEF Once, Rest
<1> QED BY <1>4, <1>6 DEF OnceInv

\* Every step keeps the session's one stop: the scene thread.
LEMMA OnceSceneThread == TypeOK /\ OnceInv /\ SceneThread => OnceInv'
<1> SUFFICES ASSUME TypeOK, OnceInv, SceneThread PROVE OnceInv' OBVIOUS
<1>1. CASE ituFlushActionQueue
  <2>1. queue \in Seq(Handlers) /\ Grows(queue, queue, "main") BY SceneStays DEF Layers
  <2>2. Moves(queue) BY <1>1 DEF ituFlushActionQueue, Moves
  <2>3. Calm' => KeepsSession /\ KeepsStops
    BY <1>1 DEF ituFlushActionQueue, KeepsSession, Leaving, Between, KeepsStops, Calm, Unpressed,
       Orderly, pilot, charge, emg, Once, OnceInv
  <2> QED BY <2>1, <2>2, <2>3, OnceRuns
<1>2. CASE HandlerReturns
  <2>1. Return /\ (Calm' => KeepsSession /\ KeepsStops)
    BY <1>2 DEF HandlerReturns, Return, KeepsSession, Leaving, Between, KeepsStops, OnceInv, Once,
       Calm, Unpressed, Orderly, TypeOK, ThreadType, Threads, Places, Histories, scene, pilot,
       charge, emg
  <2> QED BY <2>1, OnceStays
<1>3. CASE MainOnEnter1
  <2>1. Sleep(2) /\ (Calm' => KeepsSession /\ KeepsStops)
    BY <1>3 DEF MainOnEnter1, SetListener, Sleep, KeepsSession, Leaving, Between, KeepsStops,
       OnceInv, Once, Calm, Unpressed, Orderly, TypeOK, ThreadType, Threads, Places, Histories,
       scene, pilot, charge, emg
  <2> QED BY <2>1, OnceStays
<1>4. CASE MainOnEnter2
  <2>1. Return /\ (Calm' => KeepsSession /\ KeepsStops)
    BY <1>4 DEF MainOnEnter2, Return, MagneticContactorOff, KeepsSession, Leaving, Between,
       KeepsStops, OnceInv, Once, Calm, Unpressed, Orderly, TypeOK, ThreadType, Threads, Places,
       Histories, scene, pilot, charge, emg
  <2> QED BY <2>1, OnceStays
<1>5. CASE MainOnLeave
  <2>1. Return /\ (Calm' => KeepsSession /\ KeepsStops)
    BY <1>5 DEF MainOnLeave, Return, KeepsSession, Leaving, Between, KeepsStops, OnceInv, Once,
       Calm, Unpressed, Orderly, TypeOK, ThreadType, Threads, Places, Histories, scene, pilot,
       charge, emg
  <2> QED BY <2>1, OnceStays
<1>6. CASE CardWaitEnter
  <2>1. Return /\ (Calm' => KeepsSession /\ KeepsStops)
    BY <1>6 DEF CardWaitEnter, Return, KeepsSession, Leaving, Between, KeepsStops, OnceInv, Once,
       Calm, Unpressed, Orderly, TypeOK, ThreadType, Threads, Places, Histories, scene, pilot,
       charge, emg
  <2> QED BY <2>1, OnceStays
<1>7. CASE CardWaitLeave1
  <2>1. Sleep(2) /\ (Calm' => KeepsSession /\ KeepsStops)
    BY <1>7 DEF CardWaitLeave1, Sleep, KeepsSession, Leaving, Between, KeepsStops, OnceInv, Once,
       Calm, Unpressed, Orderly, TypeOK, ThreadType, Threads, Places, Histories, scene, pilot,
       charge, emg
  <2> QED BY <2>1, OnceStays
<1>8. CASE ConnectOnEnter1
  <2>1. Sleep(2) /\ (Calm' => KeepsSession /\ KeepsStops)
    BY <1>8 DEF ConnectOnEnter1, Sleep, KeepsSession, Leaving, Between, KeepsStops, OnceInv, Once,
       Calm, Unpressed, Orderly, TypeOK, ThreadType, Threads, Places, Histories, scene, pilot,
       charge, emg
  <2> QED BY <2>1, OnceStays
<1>9. CASE ConnectOnLeave1
  <2>1. Sleep(2) /\ (Calm' => KeepsSession /\ KeepsStops)
    BY <1>9 DEF ConnectOnLeave1, Sleep, KeepsSession, Leaving, Between, KeepsStops, OnceInv, Once,
       Calm, Unpressed, Orderly, TypeOK, ThreadType, Threads, Places, Histories, scene, pilot,
       charge, emg
  <2> QED BY <2>1, OnceStays
<1>10. CASE ChargeOnLeave1
  <2>1. Sleep(2) /\ (Calm' => KeepsSession /\ KeepsStops)
    BY <1>10 DEF ChargeOnLeave1, Sleep, KeepsSession, Leaving, Between, KeepsStops, OnceInv, Once,
       Calm, Unpressed, Orderly, TypeOK, ThreadType, Threads, Places, Histories, scene, pilot,
       charge, emg
  <2> QED BY <2>1, OnceStays
<1>11. CASE ChargeOnLeave2
  <2>1. Sleep(3) /\ (Calm' => KeepsSession /\ KeepsStops)
    BY <1>11 DEF ChargeOnLeave2, Sleep, KeepsSession, Leaving, Between, KeepsStops, OnceInv, Once,
       Calm, Unpressed, Orderly, TypeOK, ThreadType, Threads, Places, Histories, scene, pilot,
       charge, emg
  <2> QED BY <2>1, OnceStays
<1>12. CASE Ch2FinishOnLeave
  <2>1. Return /\ (Calm' => KeepsSession /\ KeepsStops)
    BY <1>12 DEF Ch2FinishOnLeave, Return, StopForgotten, KeepsSession, Leaving, Between,
       KeepsStops, OnceInv, Once, Calm, Unpressed, Orderly, TypeOK, ThreadType, Threads, Places,
       Histories, scene, pilot, charge, emg
  <2> QED BY <2>1, OnceStays
<1>13. CASE ChargeStopOnDialog1
  <2>1. Sleep(2) /\ (Calm' => KeepsSession /\ KeepsStops)
    BY <1>13 DEF ChargeStopOnDialog1, Sleep, MagneticContactorOff, KeepsSession, Leaving, Between,
       KeepsStops, OnceInv, Once, Calm, Unpressed, Orderly, TypeOK, ThreadType, Threads, Places,
       Histories, scene, pilot, charge, emg
  <2> QED BY <2>1, OnceStays
<1>14. CASE ConnectOnEnter2 BY <1>14, OnceConnects
<1>15. CASE ChargeOnEnter BY <1>15, OnceBegins
<1>16. CASE Ch2FinishOnEnter1 BY <1>16, OnceCounts
<1>17. CASE DisconnectOnEnter BY <1>17, OnceDisconnects
<1>18. CASE ChargeStopOnDialog2 BY <1>18, OnceDialog
<1>19. CASE HandlerParts
  <2>1. Return /\ (Calm' => KeepsSession /\ KeepsStops)
    BY <1>19 DEF HandlerParts, Return, Goes, KeepsSession, Leaving, Between, KeepsStops, OnceInv,
       Once, Calm, Unpressed, Orderly, TypeOK, ThreadType, Threads, pilot, emg
  <2> QED BY <2>1, OnceStays
<1> QED BY <1>1, <1>2, <1>3, <1>4, <1>5, <1>6, <1>7, <1>8, <1>9, <1>10, <1>11, <1>12, <1>13,
    <1>14, <1>15, <1>16, <1>17, <1>18, <1>19 DEF SceneThread

\* Every step keeps the session's one stop: the control pilot thread.
LEMMA OncePilotThread == TypeOK /\ OnceInv /\ PilotThread => OnceInv'
<1> SUFFICES ASSUME TypeOK, OnceInv, PilotThread PROVE OnceInv' OBVIOUS
<1>1. CASE CPListenerOnAhead
  <2>1. UNCHANGED scene /\ (Calm' => KeepsSession /\ KeepsStops)
    BY <1>1 DEF CPListenerOnAhead, CPChanged, KeepsSession, Leaving, Between, KeepsStops, OnceInv,
       Once, Calm, Unpressed, Orderly, TypeOK, ThreadType, Threads, Places, Histories, scene, pilot,
       charge, emg
  <2> QED BY <2>1, OnceStays
<1>2. CASE CPIgnored
  <2>1. UNCHANGED scene /\ (Calm' => KeepsSession /\ KeepsStops)
    BY <1>2 DEF CPIgnored, CPChanged, KeepsSession, Leaving, Between, KeepsStops, OnceInv, Once,
       Calm, Unpressed, Orderly, TypeOK, ThreadType, Threads, Places, Histories, scene, pilot,
       charge, emg
  <2> QED BY <2>1, OnceStays
<1>3. CASE CPUnplugged
  <2>1. UNCHANGED scene /\ (Calm' => KeepsSession /\ KeepsStops)
    BY <1>3 DEF CPUnplugged, CPChanged, Goes, MagneticContactorOff, KeepsSession, Leaving, Between,
       KeepsStops, OnceInv, Once, Calm, Unpressed, Orderly, TypeOK, ThreadType, Threads, Places,
       Histories, scene, pilot, charge, emg
  <2> QED BY <2>1, OnceStays
<1>4. CASE CPPaused
  <2>1. UNCHANGED scene /\ (Calm' => KeepsSession /\ KeepsStops)
    BY <1>4 DEF CPPaused, CPChanged, MagneticContactorOff, KeepsSession, Leaving, Between,
       KeepsStops, OnceInv, Once, Calm, Unpressed, Orderly, TypeOK, ThreadType, Threads, Places,
       Histories, scene, pilot, charge, emg
  <2> QED BY <2>1, OnceStays
<1>5. CASE CPUnknown
  <2>1. UNCHANGED scene /\ (Calm' => KeepsSession /\ KeepsStops)
    BY <1>5 DEF CPUnknown, CPChanged, KeepsSession, Leaving, Between, KeepsStops, OnceInv, Once,
       Calm, Unpressed, Orderly, TypeOK, ThreadType, Threads, Places, Histories, scene, pilot,
       charge, emg
  <2> QED BY <2>1, OnceStays
<1>6. CASE CPRequested
  <2>1. UNCHANGED scene /\ (Calm' => KeepsSession /\ KeepsStops)
    BY <1>6 DEF CPRequested, CPChanged, Goes, KeepsSession, Leaving, Between, KeepsStops, OnceInv,
       Once, Calm, Unpressed, Orderly, TypeOK, ThreadType, Threads, Places, Histories, scene, pilot,
       charge, emg
  <2> QED BY <2>1, OnceStays
<1>7. CASE CPStart
  <2>1. UNCHANGED scene /\ (Calm' => KeepsSession /\ KeepsStops)
    BY <1>7 DEF CPStart, MagneticContactorOn, Goes, KeepsSession, Leaving, Between, KeepsStops,
       OnceInv, Once, Calm, Unpressed, Orderly, TypeOK, ThreadType, Threads, Places, Histories,
       scene, pilot, charge, emg
  <2> QED BY <2>1, OnceStays
<1>8. CASE CPStarted
  <2>1. UNCHANGED scene /\ (Calm' => KeepsSession /\ KeepsStops)
    BY <1>8 DEF CPStarted, Goes, KeepsSession, Leaving, Between, KeepsStops, OnceInv, Once, Calm,
       Unpressed, Orderly, TypeOK, ThreadType, Threads, Places, Histories, scene, pilot, charge, emg
  <2> QED BY <2>1, OnceStays
<1>9. CASE CPResume
  <2>1. UNCHANGED scene /\ (Calm' => KeepsSession /\ KeepsStops)
    BY <1>9 DEF CPResume, MagneticContactorOn, Goes, KeepsSession, Leaving, Between, KeepsStops,
       OnceInv, Once, Calm, Unpressed, Orderly, TypeOK, ThreadType, Threads, Places, Histories,
       scene, pilot, charge, emg
  <2> QED BY <2>1, OnceStays
<1>10. CASE CPUnplugStop
  <2>1. pc["cp"] \notin Between /\ GotoNextLayerOnCharge("cp") BY <1>10 DEF CPUnplugStop, Between
  <2>2. UNCHANGED <<listener, emgButton, EmgControl, left>> /\ h'.stops = h.stops
    BY <1>10 DEF CPUnplugStop, pilot, emg
  <2> QED BY <2>1, <2>2, OnceNextLayer DEF Threads
<1>11. CASE TSCT_ChargingStop("cp") BY <1>11, OnceStops DEF Threads
<1>12. CASE CPUnplugEnd
  <2>1. UNCHANGED <<listener, emgButton, EmgControl, left>> /\ h'.stops = h.stops
    BY <1>12 DEF CPUnplugEnd, MagneticContactorOff, pilot, emg, TypeOK, ThreadType, Histories
  <2>2. pc["cp"] \notin Between BY <1>12 DEF CPUnplugEnd, Between
  <2>3. CASE GotoNextLayerOnCharge("cp") BY <2>1, <2>2, <2>3, OnceNextLayer DEF Threads
  <2>4. CASE Goes("cp", "stop") /\ UNCHANGED <<scene, bLayerChargeFlg>>
    <3>1. Calm' => KeepsSession /\ KeepsStops
      BY <2>1, <2>2, <2>4 DEF Goes, KeepsSession, Leaving, Between, KeepsStops, OnceInv, Once,
         Calm, Unpressed, Orderly, TypeOK, ThreadType, Threads, scene
    <3> QED BY <2>4, <3>1, OnceStays
  <2> QED BY <1>12, <2>3, <2>4 DEF CPUnplugEnd
<1>13. CASE CPFinished
  <2>1. Calm' => Rest BY <1>13 DEF CPFinished, OnceInv, Once, Calm, Unpressed, Orderly
  <2>2. ituLayerGoto("main") /\ (Calm' => KeepsSession /\ KeepsStops)
    BY <1>13, <2>1 DEF CPFinished, ituLayerGoto, Shows, Goes, KeepsSession, Leaving, Between,
       KeepsStops, Calm, Unpressed, Orderly, TypeOK, ThreadType, Threads, Places, pilot, charge,
       emg, OnceInv, Once
  <2> QED BY <2>1, <2>2, OnceGoesHome
<1>14. CASE CPListenerOnDisconnect
  <2>1. Calm' => Rest
    BY <1>14 DEF CPListenerOnDisconnect, CPChanged, OnceInv, Once, Calm, Unpressed, Orderly
  <2>2. ituLayerGoto("main") /\ (Calm' => KeepsSession /\ KeepsStops)
    BY <1>14, <2>1 DEF CPListenerOnDisconnect, CPChanged, ituLayerGoto, Shows, KeepsSession,
       Leaving, Between, KeepsStops, Calm, Unpressed, Orderly, TypeOK, ThreadType, charge, emg,
       OnceInv, Once
  <2> QED BY <2>1, <2>2, OnceGoesHome
<1>15. CASE CPListenerOnConnect BY <1>15, OnceCharges
<1>16. CASE CPListenerOnFinish BY <1>16, OnceFinished
<1>17. CASE LayerPassed("cp") BY <1>17, OnceStops DEF Threads
<1> QED BY <1>1, <1>2, <1>3, <1>4, <1>5, <1>6, <1>7, <1>8, <1>9, <1>10, <1>11, <1>12, <1>13,
    <1>14, <1>15, <1>16, <1>17 DEF PilotThread

\* Every step keeps the session's one stop: the monitoring task and the card listener.
LEMMA OnceStopperThread == TypeOK /\ OnceInv /\ StopperThread => OnceInv'
<1> SUFFICES ASSUME TypeOK, OnceInv, StopperThread PROVE OnceInv' OBVIOUS
<1>1. CASE LocalStop
  <2>1. UNCHANGED scene /\ (Calm' => KeepsSession /\ KeepsStops)
    BY <1>1 DEF LocalStop, StopBegins, Goes, MagneticContactorOff, KeepsSession, Leaving, Between,
       KeepsStops, OnceInv, Once, Calm, Unpressed, Orderly, TypeOK, ThreadType, Threads, Places,
       Histories, scene, pilot, charge, emg
  <2> QED BY <2>1, OnceStays
<1>2. CASE RemoteStopSeen
  <2>1. UNCHANGED scene /\ (Calm' => KeepsSession /\ KeepsStops)
    BY <1>2 DEF RemoteStopSeen, StopBegins, Goes, MagneticContactorOff, KeepsSession, Leaving,
       Between, KeepsStops, OnceInv, Once, Calm, Unpressed, Orderly, TypeOK, ThreadType, Threads,
       Places, Histories, scene, pilot, charge, emg
  <2> QED BY <2>1, OnceStays
<1>3. CASE TSCT_ChargingStop("stopper") BY <1>3, OnceStops DEF Threads
<1>4. CASE LayerPassed("stopper") BY <1>4, OnceStops DEF Threads
<1>5. CASE SuspendsEvse
  <2>1. UNCHANGED scene /\ (Calm' => KeepsSession /\ KeepsStops)
    BY <1>5 DEF SuspendsEvse, KeepsSession, Leaving, Between, KeepsStops, OnceInv, Once,
       Calm, Unpressed, Orderly, TypeOK, ThreadType, Threads, scene, pilot, charge, emg
  <2> QED BY <2>1, OnceStays
<1> QED BY <1>1, <1>2, <1>3, <1>4, <1>5 DEF StopperThread

\* Every step keeps the session's one stop: the fault monitoring task.
LEMMA OnceFaultThread == TypeOK /\ OnceInv /\ FaultThread => OnceInv'
<1> SUFFICES ASSUME TypeOK, OnceInv, FaultThread PROVE OnceInv' OBVIOUS
<1>1. CASE FaultStops
  <2>1. UNCHANGED scene /\ (Calm' => KeepsSession /\ KeepsStops)
    BY <1>1 DEF FaultStops, StopBegins, Goes, MagneticContactorOff, Spend, CanSpend, DataType,
       Budgets, KeepsSession, Leaving, Between, KeepsStops, OnceInv, Once,
       Calm, Unpressed, Orderly, TypeOK, ThreadType, Threads, scene, pilot, charge, emg
  <2> QED BY <2>1, OnceStays
<1>2. CASE FaultSeen
  <2>1. UNCHANGED scene /\ (Calm' => KeepsSession /\ KeepsStops)
    BY <1>2 DEF FaultSeen, Spend, CanSpend, DataType, Budgets, KeepsSession, Leaving, Between,
       KeepsStops, OnceInv, Once, Calm, Unpressed, Orderly, TypeOK, ThreadType, Threads, scene,
       pilot, charge, emg
  <2> QED BY <2>1, OnceStays
<1>3. CASE TSCT_ChargingStop("fault") BY <1>3, OnceStops DEF Threads
<1>4. CASE LayerPassed("fault") BY <1>4, OnceStops DEF Threads
<1> QED BY <1>1, <1>2, <1>3, <1>4 DEF FaultThread

\* Every step keeps the session's one stop: the order sequence task.
LEMMA OnceOrderThread == TypeOK /\ OnceInv /\ OrderThread => OnceInv'
<1> SUFFICES ASSUME TypeOK, OnceInv, OrderThread PROVE OnceInv' OBVIOUS
<1>1. CASE OrderSeesPause
  <2>1. UNCHANGED scene /\ (Calm' => KeepsSession /\ KeepsStops)
    BY <1>1 DEF OrderSeesPause, Goes, KeepsSession, Leaving, Between, KeepsStops, OnceInv, Once,
       Calm, Unpressed, Orderly, TypeOK, ThreadType, Threads, Places, Histories, scene, pilot,
       charge, emg
  <2> QED BY <2>1, OnceStays
<1>2. CASE OrderDecides
  <2>1. UNCHANGED scene /\ (Calm' => KeepsSession /\ KeepsStops)
    BY <1>2 DEF OrderDecides, Goes, MagneticContactorOff, KeepsSession, Leaving, Between,
       KeepsStops, OnceInv, Once, Calm, Unpressed, Orderly, TypeOK, ThreadType, Threads, Places,
       Histories, scene, pilot, charge, emg
  <2> QED BY <2>1, OnceStays
<1>3. CASE OrderStops
  <2>1. pc["order"] \notin Between /\ GotoNextLayerOnCharge("order") BY <1>3 DEF OrderStops, Between
  <2>2. UNCHANGED <<listener, emgButton, EmgControl, left>> /\ h'.stops = h.stops
    BY <1>3 DEF OrderStops, pilot, emg
  <2> QED BY <2>1, <2>2, OnceNextLayer DEF Threads
<1>4. CASE LayerPassed("order") BY <1>4, OnceStops DEF Threads
<1> QED BY <1>1, <1>2, <1>3, <1>4 DEF OrderThread

\* Every step keeps the session's one stop: the emergency button thread.
LEMMA OnceEmbThread == TypeOK /\ OnceInv /\ EmbThread => OnceInv'
<1> SUFFICES ASSUME TypeOK, OnceInv, EmbThread PROVE OnceInv' OBVIOUS
<1>1. CASE EmbPressed
  <2>1. ~Calm' BY <1>1 DEF EmbPressed, OnceInv, Once, Calm, Unpressed, Orderly
  <2>2. CASE ituLayerGoto("main") BY <2>1, <2>2, OnceGoesHome
  <2>3. CASE UNCHANGED scene BY <2>1, <2>3, OnceStays
  <2>4. CASE ituLayerGoto("finish")
    <3> DEFINE r == AfterGoto(queue, visible, "finish")
    <3>1. r \in Seq(Handlers) /\ Grows(queue, r, "finish") /\ Moves(r)
      BY <2>4, SceneGoes DEF Layers
    <3> HIDE DEF r
    <3> QED BY <2>1, <3>1, OnceEnds
  <2>5. ituLayerGoto("main") \/ UNCHANGED scene \/ ituLayerGoto("finish") BY <1>1 DEF EmbPressed
  <2> QED BY <2>2, <2>3, <2>4, <2>5
<1>2. CASE EmbReleased
  <2>1. UNCHANGED scene /\ ~Calm'
    BY <1>2 DEF EmbReleased, OnceInv, Once, Calm, Unpressed, Orderly
  <2> QED BY <2>1, OnceStays
<1> QED BY <1>1, <1>2 DEF EmbThread

\* Every step keeps the session's one stop: the top timer.
LEMMA OnceTopTimer == TypeOK /\ OnceInv /\ TopTimer => OnceInv'
<1> SUFFICES ASSUME TypeOK, OnceInv, TopTimer PROVE OnceInv' OBVIOUS
<1>1. CASE TimerFires
  <2>1. UNCHANGED <<listener, bLayerChargeFlg, emgButton, EmgControl, h, pc>>
    BY <1>1 DEF TimerFires, pilot, charge, emg
  <2>2. CASE UNCHANGED <<scene, left>>
    <3>1. Calm' => KeepsSession /\ KeepsStops
      BY <2>1, <2>2 DEF KeepsSession, Leaving, KeepsStops, OnceInv, Once, Calm, Unpressed,
         Orderly, scene
    <3> QED BY <2>2, <3>1, OnceStays
  <2>3. CASE GotoFrom(TimerLayer(timer), "main")
    <3>1. ituLayerGoto("main") BY <2>3 DEF GotoFrom
    <3>2. TimerLayer(timer) \in {"cardwait", "connect", "disconnect"}
      BY <1>1 DEF TimerFires, TimerLayer
    <3>3. Calm' => Calm /\ visible = TimerLayer(timer) BY <2>3, OrderlyGoto
    <3>4. Calm' => Rest /\ KeepsSession /\ KeepsStops
      BY <2>1, <3>1, <3>2, <3>3 DEF KeepsSession, Leaving, Between, KeepsStops, OnceInv, Once,
         ituLayerGoto, Shows
    <3> QED BY <3>1, <3>4, OnceGoesHome
  <2> QED BY <1>1, <2>2, <2>3 DEF TimerFires
<1>2. CASE ChargeTimerFires
  <2>1. UNCHANGED <<listener, emgButton, EmgControl, left>> /\ h'.stops = h.stops
    BY <1>2 DEF ChargeTimerFires, MagneticContactorOff, pilot, emg, TypeOK, ThreadType, Histories
  <2>2. pc["top"] \notin Between BY <1>2 DEF ChargeTimerFires, Between
  <2>3. CASE GotoNextLayerOnCharge("top") BY <2>1, <2>2, <2>3, OnceNextLayer DEF Threads
  <2>4. CASE Goes("top", "stop") /\ UNCHANGED <<scene, bLayerChargeFlg>>
    <3>1. Calm' => KeepsSession /\ KeepsStops
      BY <2>1, <2>2, <2>4 DEF Goes, KeepsSession, Leaving, Between, KeepsStops, OnceInv, Once,
         Calm, Unpressed, Orderly, TypeOK, ThreadType, Threads, scene
    <3> QED BY <2>4, <3>1, OnceStays
  <2> QED BY <1>2, <2>3, <2>4 DEF ChargeTimerFires
<1>3. CASE TSCT_ChargingStop("top") BY <1>3, OnceStops DEF Threads
<1>4. CASE LayerPassed("top") BY <1>4, OnceStops DEF Threads
<1> QED BY <1>1, <1>2, <1>3, <1>4 DEF TopTimer

\* Every step keeps the session's one stop: the card-wait task.
LEMMA OnceWaitThread == TypeOK /\ OnceInv /\ WaitThread => OnceInv'
<1> SUFFICES ASSUME TypeOK, OnceInv, WaitThread PROVE OnceInv' OBVIOUS
<1>1. CASE WaitGoes
  <2>1. /\ UNCHANGED <<listener, bLayerChargeFlg, emgButton, EmgControl, h>>
        /\ pc'["cp"] = pc["cp"] /\ pc'["status"] = pc["status"] /\ (Leaving' <=> Leaving)
    BY <1>1 DEF WaitGoes, Goes, Leaving, Between, pilot, charge, emg, TypeOK, ThreadType, Threads
  <2>2. CASE UNCHANGED <<scene, left>>
    <3>1. Calm' => KeepsSession /\ KeepsStops
      BY <2>1, <2>2 DEF KeepsSession, Leaving, KeepsStops, OnceInv, Once, Calm, Unpressed,
         Orderly, scene
    <3> QED BY <2>2, <3>1, OnceStays
  <2>3. CASE GotoFrom("cardwait", "connect")
    <3>1. ituLayerGoto("connect") BY <2>3 DEF GotoFrom
    <3>2. Calm' => visible = "cardwait" /\ KeepsStops
      BY <2>1, <2>3, OrderlyGoto DEF KeepsStops, OnceInv, Once
    <3> QED BY <2>1, <3>1, <3>2, OnceShows
  <2>4. CASE GotoFrom("cardwait", "main")
    <3>1. ituLayerGoto("main") BY <2>4 DEF GotoFrom
    <3>2. Calm' => Calm /\ visible = "cardwait" BY <2>4, OrderlyGoto
    <3>3. Calm' => Rest /\ KeepsSession /\ KeepsStops
      BY <2>1, <3>1, <3>2 DEF KeepsSession, Leaving, Between, KeepsStops, OnceInv, Once,
         ituLayerGoto, Shows
    <3> QED BY <3>1, <3>3, OnceGoesHome
  <2> QED BY <1>1, <2>2, <2>3, <2>4 DEF WaitGoes
<1>2. CASE \E r \in {"ok", "fail"} : WaitAnswered(r)
  <2>1. UNCHANGED scene /\ (Calm' => KeepsSession /\ KeepsStops)
    BY <1>2 DEF WaitAnswered, Goes, KeepsSession, Leaving, Between, KeepsStops, OnceInv, Once, Calm,
       Unpressed, Orderly, TypeOK, ThreadType, Threads, Places, scene, pilot, charge, emg
  <2> QED BY <2>1, OnceStays
<1> QED BY <1>1, <1>2 DEF WaitThread

\* Every step keeps the session's one stop: the status task.
LEMMA OnceStatusThread == TypeOK /\ OnceInv /\ StatusThread => OnceInv'
<1> SUFFICES ASSUME TypeOK, OnceInv, StatusThread PROVE OnceInv' OBVIOUS
<1>1. CASE RemoteStartSeen
  <2>1. UNCHANGED scene /\ (Calm' => KeepsSession /\ KeepsStops)
    BY <1>1 DEF RemoteStartSeen, Goes, Spend, CanSpend, DataType, Budgets, KeepsSession, Leaving,
       Between, KeepsStops, OnceInv, Once, Calm, Unpressed, Orderly, TypeOK, ThreadType, Threads,
       Places, Histories, scene, pilot, charge, emg
  <2> QED BY <2>1, OnceStays
<1>2. CASE RemoteStartGoes
  <2>1. /\ UNCHANGED <<listener, bLayerChargeFlg, emgButton, EmgControl, h>>
        /\ pc'["cp"] = pc["cp"] /\ pc'["status"] = "idle" /\ ituLayerGoto("cardwait")
        /\ (Leaving' => Leaving)
    BY <1>2 DEF RemoteStartGoes, GotoFrom, Goes, Leaving, Between, pilot, charge, emg, TypeOK,
       ThreadType, Threads
  <2>2. ASSUME Calm' PROVE visible = "main" /\ KeepsStops
    <3>1. CASE pc["status"] = "remote"
      <4>1. GotoFrom("main", "cardwait") BY <1>2, <3>1 DEF RemoteStartGoes
      <4>2. Calm /\ visible = "main" BY <2>2, <4>1, OrderlyGoto
      <4> QED BY <2>1, <4>2 DEF KeepsStops
    <3>2. CASE pc["status"] # "remote"
      BY <1>2, <2>2, <3>2 DEF RemoteStartGoes, OnceInv, Once, Calm, Unpressed, Orderly
    <3> QED BY <3>1, <3>2
  <2> QED BY <2>1, <2>2, OnceShows
<1>3. CASE ResetSeen
  <2>1. UNCHANGED scene /\ (Calm' => KeepsSession /\ KeepsStops)
    BY <1>3 DEF ResetSeen, StopBegins, Goes, MagneticContactorOff, KeepsSession, Leaving, Between,
       KeepsStops, OnceInv, Once, Calm, Unpressed, Orderly, TypeOK, ThreadType, Threads, Places,
       Histories, scene, pilot, charge, emg
  <2> QED BY <2>1, OnceStays
<1>4. CASE TSCT_ChargingStop("status") BY <1>4, OnceStops DEF Threads
<1>6. CASE LayerPassed("status") BY <1>6, OnceStops DEF Threads
<1>5. CASE Reboots
  <2>1. /\ visible' = "main" /\ listener' = "none" /\ ~bLayerChargeFlg' /\ ~EmgControl'
        /\ pc'["cp"] = "idle" /\ pc'["status"] = "idle" /\ h'.stops = 0
        /\ UNCHANGED <<emgButton, left>>
    BY <1>5 DEF Reboots, NoHistory, Threads
  <2>6. ~Leaving' BY <1>5 DEF Reboots, Leaving, Between
  <2>2. queue' = << <<"main", "Enter">> >> BY <1>5 DEF Reboots
  <2>3. DOMAIN queue' = {1} /\ queue'[1] = <<"main", "Enter">> BY <2>2
  <2>4. /\ Distinct(queue)' /\ DisconnectSecond' /\ ChargeAfterConnect'
        /\ ~Awaits("finish")' /\ ~Awaits("charge")' /\ ~Awaits("disconnect")'
    BY <2>3 DEF Distinct, DisconnectSecond, ChargeAfterConnect, Awaits
  <2>5. Calm' => ~emgButton' BY <2>1 DEF OnceInv, Once, Calm, Unpressed, Orderly
  <2> QED BY <2>1, <2>4, <2>5, <2>6 DEF OnceInv, Once, Rest
<1> QED BY <1>1, <1>2, <1>3, <1>4, <1>5, <1>6 DEF StatusThread

\* Every step keeps the session's one stop: the OCPP client.
LEMMA OnceClient == TypeOK /\ OnceInv /\ Client => OnceInv'
<1> SUFFICES ASSUME TypeOK, OnceInv, Client PROVE OnceInv' OBVIOUS
<1>1. CASE DataProcCmd_RmStart
  <2>1. UNCHANGED scene /\ (Calm' => KeepsSession /\ KeepsStops)
    BY <1>1 DEF DataProcCmd_RmStart, Asks, Spend, CanSpend, DataType, Budgets, KeepsSession,
       Leaving, Between, KeepsStops, OnceInv, Once, Calm, Unpressed, Orderly, TypeOK, ThreadType,
       Threads, Places, Histories, scene, pilot, charge, emg
  <2> QED BY <2>1, OnceStays
<1>2. CASE DataProcCmd_RmStopTr
  <2>1. UNCHANGED scene /\ (Calm' => KeepsSession /\ KeepsStops)
    BY <1>2 DEF DataProcCmd_RmStopTr, Asks, Spend, CanSpend, DataType, Budgets, KeepsSession,
       Leaving, Between, KeepsStops, OnceInv, Once, Calm, Unpressed, Orderly, TypeOK, ThreadType,
       Threads, Places, Histories, scene, pilot, charge, emg
  <2> QED BY <2>1, OnceStays
<1>3. CASE DataProcCmd_Reset
  <2>1. UNCHANGED scene /\ (Calm' => KeepsSession /\ KeepsStops)
    BY <1>3 DEF DataProcCmd_Reset, Asks, Spend, CanSpend, DataType, Budgets, KeepsSession, Leaving,
       Between, KeepsStops, OnceInv, Once, Calm, Unpressed, Orderly, TypeOK, ThreadType, Threads,
       Places, Histories, scene, pilot, charge, emg
  <2> QED BY <2>1, OnceStays
<1>4. CASE MakeDataCmd_StopTs
  <2>1. UNCHANGED scene /\ (Calm' => KeepsSession /\ KeepsStops)
    BY <1>4 DEF MakeDataCmd_StopTs, StopForgotten, KeepsSession, Leaving, Between, KeepsStops,
       OnceInv, Once, Calm, Unpressed, Orderly, TypeOK, ThreadType, Threads, Places, Histories,
       scene, pilot, charge, emg
  <2> QED BY <2>1, OnceStays
<1>5. CASE DataProcCmd_StopTs
  <2>1. UNCHANGED scene /\ (Calm' => KeepsSession /\ KeepsStops)
    BY <1>5 DEF DataProcCmd_StopTs, KeepsSession, Leaving, Between, KeepsStops, OnceInv, Once, Calm,
       Unpressed, Orderly, TypeOK, ThreadType, Threads, Places, Histories, scene, pilot, charge, emg
  <2> QED BY <2>1, OnceStays
<1>6. CASE TakesStart
  <2>1. UNCHANGED scene /\ (Calm' => KeepsSession /\ KeepsStops)
    BY <1>6 DEF TakesStart, Spend, CanSpend, DataType, Budgets, Histories, KeepsSession, Leaving,
       Between, KeepsStops, OnceInv, Once, Calm, Unpressed, Orderly, TypeOK, ThreadType, Threads,
       scene, pilot, charge, emg
  <2> QED BY <2>1, OnceStays
<1>7. CASE DataProcCmd_StartTs
  <2>1. UNCHANGED scene /\ (Calm' => KeepsSession /\ KeepsStops)
    BY <1>7 DEF DataProcCmd_StartTs, KeepsSession, Leaving, Between, KeepsStops, OnceInv, Once,
       Calm, Unpressed, Orderly, TypeOK, ThreadType, Threads, scene, pilot, charge, emg
  <2> QED BY <2>1, OnceStays
<1> QED BY <1>1, <1>2, <1>3, <1>4, <1>5, <1>6, <1>7 DEF Client

\* Every step keeps the session's one stop: the car, the button and the screen.
LEMMA OnceWorld == TypeOK /\ OnceInv /\ World => OnceInv'
<1> SUFFICES ASSUME TypeOK, OnceInv, World PROVE OnceInv' OBVIOUS
<1>1. CASE ButtonMoves
  <2>1. UNCHANGED scene /\ ~Calm'
    BY <1>1 DEF ButtonMoves, Spend, CanSpend, Calm, Unpressed, TypeOK, DataType, Budgets
  <2> QED BY <2>1, OnceStays
<1>2. CASE ChargeStopOnPress
  <2> DEFINE r == << <<"charge", "Stop">> >>
  <2>1. queue = <<>> /\ queue' = r /\ UNCHANGED <<visible, pos, step>>
    BY <1>2 DEF ChargeStopOnPress
  <2>2. DOMAIN r = {1} /\ r[1] = <<"charge", "Stop">> /\ Len(r) = 1 OBVIOUS
  <2>3. r \in Seq(Handlers) BY DEF Handlers, Layers
  <2> HIDE DEF r
  <2>4. Grows(queue, r, "main") /\ Moves(r) BY <2>1, <2>2 DEF Grows, Moves, Distinct
  <2>5. Calm' => KeepsSession /\ KeepsStops
    BY <1>2, <2>1 DEF ChargeStopOnPress, KeepsSession, Leaving, Between, KeepsStops, OnceInv, Once,
       Calm, Unpressed, Orderly, pilot, charge, emg
  <2> QED BY <2>3, <2>4, <2>5, OnceRuns
<1>3. CASE Ch2FinishConfirmOnPress BY <1>3, OnceConfirms
<1>4. CASE MinutePasses
  <2>1. UNCHANGED scene /\ (Calm' => KeepsSession /\ KeepsStops)
    BY <1>4 DEF MinutePasses, KeepsSession, Leaving, Between, KeepsStops, OnceInv, Once, Calm,
       Unpressed, Orderly, TypeOK, ThreadType, Threads, Places, Histories, scene, pilot, charge, emg
  <2> QED BY <2>1, OnceStays
<1>5. CASE \E v \in Voltages : CableMoves(v)
  <2>1. UNCHANGED scene /\ (Calm' => KeepsSession /\ KeepsStops)
    BY <1>5 DEF CableMoves, Spend, CanSpend, KeepsSession, Leaving, Between, KeepsStops, OnceInv,
       Once, Calm, Unpressed, Orderly, TypeOK, DataType, Budgets, scene, charge, emg
  <2> QED BY <2>1, OnceStays
<1> QED BY <1>1, <1>2, <1>3, <1>4, <1>5 DEF World

\* The inductive invariant of a session's end holds.
LEMMA OnceHolds == Spec => []OnceInv
<1>1. Init => OnceInv
  <2> SUFFICES ASSUME Init PROVE OnceInv OBVIOUS
  <2>1. DOMAIN queue = {1} /\ queue[1] = <<"main", "Enter">> BY DEF Init
  <2>2. /\ Distinct(queue) /\ DisconnectSecond /\ ChargeAfterConnect
        /\ ~Awaits("finish") /\ ~Awaits("charge") /\ ~Awaits("disconnect")
    BY <2>1 DEF Distinct, DisconnectSecond, ChargeAfterConnect, Awaits
  <2> QED BY <2>2 DEF OnceInv, Once, Rest, Leaving, Between, Init, NoHistory, Threads
<1>2. TypeOK /\ OnceInv /\ [Next]_vars => OnceInv'
  <2> SUFFICES ASSUME TypeOK, OnceInv, [Next]_vars PROVE OnceInv' OBVIOUS
  <2>1. CASE UNCHANGED vars
    <3>1. UNCHANGED scene /\ (Calm' => KeepsSession /\ KeepsStops)
      BY <2>1 DEF vars, pilot, charge, emg, scene, KeepsSession, Leaving, Between, KeepsStops,
         OnceInv, Once, Calm, Unpressed, Orderly
    <3> QED BY <3>1, OnceStays
  <2>2. CASE Next
    BY <2>2, OnceSceneThread, OncePilotThread, OnceEmbThread, OnceStopperThread, OnceFaultThread,
       OnceOrderThread, OnceTopTimer, OnceWaitThread, OnceStatusThread, OnceClient, OnceWorld DEF
       Next
  <2> QED BY <2>1, <2>2
<1> QED BY <1>1, <1>2, TypeCorrect, PTL DEF Spec

\* The racing stops of a charge end its session once, for every number of sessions, level changes,
\* requests and resets: the finish layer is entered, and StopTransaction raised, at most once.
THEOREM EndsOnce == Spec => []OneStopPerSession
<1>1. OnceInv => OneStopPerSession BY DEF OnceInv, Once, OneStopPerSession, Calm
<1> QED BY <1>1, OnceHolds, PTL

-----------------------------------------------------------------------------
(* No power at home                                                          *)

\* A contactor that is closed, or about to be, or that a listener may still close.
Hot == listener = "charge" \/ ((contactor \/ pc["cp"] \in Closing) /\ ~h.overtaken)

\* The main layer's Enter is still to open the contactor, after every charge layer's, or it has
\* done so and nothing can close it again.
Cold == MainToCome(queue) \/ (~Hot /\ ~Awaits("charge"))

\* The main layer's Enter is still to open the contactor, or nothing can close it yet.
Cool == ~Hot \/ Pends("main")

\* The inductive form of HomeIsDead.
Home ==
  /\ At("main", "Enter", 2) => listener = "ahead"
  /\ visible = "main" /\ ~missed => Cold

\* Only a goto to the charge layer, and only its Enter, ends this.
Chills ==
  /\ Cold => Cold' \/ visible' = "charge"
  /\ Cool => Cool' \/ ChargeOnEnter

\* What most steps do to the scene: nothing, or a goto.
Steps == UNCHANGED scene \/ \E l \in Layers : ituLayerGoto(l)

\* So do these.
LEMMA SomeSteps ==
  /\ \A t \in Threads : GotoNextLayerOnCharge(t) => Steps
  /\ \A l \in Layers : ituLayerGoto(l) => Steps
<1>1. "finish" \in Layers BY DEF Layers
<1> QED BY <1>1 DEF Steps, GotoNextLayerOnCharge

\* The handler that runs is not the main layer's Enter.
Elsewhere == queue[pos] # <<"main", "Enter">>

\* A goto leaves the actions of the queue where they are, and adds only its own.
LEMMA GotoKeeps ==
  ASSUME NEW q \in Seq(Handlers), NEW from \in Layers, NEW to \in Layers
  PROVE  LET r == AfterGoto(q, from, to)
         IN  /\ r \in Seq(Handlers) /\ Len(q) <= Len(r)
             /\ \A i \in DOMAIN q : i \in DOMAIN r /\ r[i] = q[i]
             /\ \A i \in DOMAIN r : i \in DOMAIN q \/ r[i] \in {<<from, "Leave">>, <<to, "Enter">>}
<1>1. ASSUME NEW p \in Seq(Handlers), NEW e \in Handlers
      PROVE  /\ Queued(p, e) \in Seq(Handlers) /\ Len(p) <= Len(Queued(p, e))
             /\ \A i \in DOMAIN p : i \in DOMAIN Queued(p, e) /\ Queued(p, e)[i] = p[i]
             /\ \A i \in DOMAIN Queued(p, e) : i \in DOMAIN p \/ Queued(p, e)[i] = e
  <2>1. CASE Queued(p, e) = p BY <2>1
  <2>2. CASE Queued(p, e) = Append(p, e)
    <3>1. /\ Append(p, e) \in Seq(Handlers) /\ Len(Append(p, e)) = Len(p) + 1
          /\ \A i \in 1..Len(p) : Append(p, e)[i] = p[i]
          /\ Append(p, e)[Len(p) + 1] = e
      OBVIOUS
    <3> QED BY <2>2, <3>1
  <2> QED BY <2>1, <2>2 DEF Queued
<1>2. <<from, "Leave">> \in Handlers /\ <<to, "Enter">> \in Handlers BY DEF Handlers
<1> DEFINE p == Queued(q, <<from, "Leave">>)
           r == Queued(p, <<to, "Enter">>)
<1>3. /\ p \in Seq(Handlers) /\ Len(q) <= Len(p)
      /\ \A i \in DOMAIN q : i \in DOMAIN p /\ p[i] = q[i]
      /\ \A i \in DOMAIN p : i \in DOMAIN q \/ p[i] = <<from, "Leave">>
  BY <1>1, <1>2
<1>4. AfterGoto(q, from, to) = r BY DEF AfterGoto
<1> HIDE DEF p
<1>5. /\ r \in Seq(Handlers) /\ Len(p) <= Len(r)
      /\ \A i \in DOMAIN p : i \in DOMAIN r /\ r[i] = p[i]
      /\ \A i \in DOMAIN r : i \in DOMAIN p \/ r[i] = <<to, "Enter">>
  BY <1>1, <1>2, <1>3
<1> HIDE DEF r
<1>6. Len(q) <= Len(r)
  <2>1. Len(q) \in Nat /\ Len(p) \in Nat /\ Len(r) \in Nat BY <1>3, <1>5
  <2> QED BY <1>3, <1>5, <2>1
<1> QED BY <1>3, <1>4, <1>5, <1>6

\* With an action for another layer than the charge layer put last, what is to come still is.
LEMMA GotoCold ==
  ASSUME TypeOK, NEW l \in Layers, queue' = AfterGoto(queue, visible, l), pos' = pos,
         step' = 1 => step = 1
  PROVE  /\ l # "charge" /\ MainToCome(queue) => MainToCome(queue)'
         /\ l # "charge" /\ ~Awaits("charge") => ~Awaits("charge")'
         /\ Pends("main") => Pends("main")'
<1> DEFINE r == AfterGoto(queue, visible, l)
<1>1. /\ queue \in Seq(Handlers) /\ visible \in Layers /\ pos \in Nat
  BY DEF TypeOK, SceneType
<1>2. /\ r \in Seq(Handlers) /\ Len(queue) <= Len(r)
      /\ \A i \in DOMAIN queue : i \in DOMAIN r /\ r[i] = queue[i]
      /\ \A i \in DOMAIN r : i \in DOMAIN queue \/ r[i] \in {<<visible, "Leave">>, <<l, "Enter">>}
  BY <1>1, GotoKeeps
<1>3. queue' = r OBVIOUS
<1> HIDE DEF r
<1>4. ASSUME l # "charge", NEW i \in DOMAIN r, r[i] = <<"charge", "Enter">>
      PROVE  i \in DOMAIN queue /\ queue[i] = <<"charge", "Enter">>
  <2>1. r[i] # <<l, "Enter">> /\ r[i] # <<visible, "Leave">> BY <1>4
  <2> QED BY <1>2, <1>4, <2>1
<1>5. ASSUME l # "charge", MainToCome(queue) PROVE MainToCome(queue)'
  <2>1. PICK i \in DOMAIN queue :
               /\ queue[i] = <<"main", "Enter">> /\ pos <= i
               /\ \A j \in DOMAIN queue : queue[j] = <<"charge", "Enter">> => j < i
    BY <1>5 DEF MainToCome
  <2>2. i \in DOMAIN r /\ r[i] = <<"main", "Enter">> BY <1>2, <2>1
  <2>3. \A j \in DOMAIN r : r[j] = <<"charge", "Enter">> => j < i BY <1>4, <1>5, <2>1
  <2> QED BY <1>3, <2>1, <2>2, <2>3 DEF MainToCome
<1>6. l # "charge" /\ Awaits("charge")' => Awaits("charge") BY <1>3, <1>4 DEF Awaits
<1>7. Pends("main") => Pends("main")' BY <1>2, <1>3 DEF Pends
<1> QED BY <1>5, <1>6, <1>7

\* The step of another thread: a goto home brings the main layer's Enter with it, or is missed.
LEMMA HomeMoves ==
  ASSUME TypeOK, Home, Steps, UNCHANGED listener, Hot' => Hot
  PROVE  Home' /\ Chills
<1>1. CASE UNCHANGED scene
  <2>1. UNCHANGED <<visible, queue, pos, step, missed>> BY <1>1 DEF scene
  <2>2. /\ At("main", "Enter", 2)' => At("main", "Enter", 2)
        /\ Awaits("charge")' => Awaits("charge")
        /\ MainToCome(queue) => MainToCome(queue)'
        /\ Pends("main") => Pends("main")'
    BY <2>1 DEF At, Awaits, MainToCome, Pends
  <2> QED BY <2>1, <2>2 DEF Home, Cold, Cool, Chills
<1>2. CASE \E l \in Layers : ituLayerGoto(l)
  <2>1. PICK l \in Layers : ituLayerGoto(l) BY <1>2
  <2>2. UNCHANGED <<pos, step>> /\ visible' = l /\ queue' = AfterGoto(queue, visible, l)
    BY <2>1 DEF ituLayerGoto, Shows
  <2>3. At("main", "Enter", 2)' => listener' = "ahead"
    <3> SUFFICES ASSUME At("main", "Enter", 2)' PROVE At("main", "Enter", 2) BY DEF Home
    <3>1. queue \in Seq(Handlers) /\ visible \in Layers /\ pos \in 0..Len(queue)
      BY DEF TypeOK, SceneType
    <3>2. pos > 0 /\ step = 2 /\ queue'[pos] = <<"main", "Enter">> BY <2>2 DEF At
    <3>3. pos \in DOMAIN queue BY <3>1, <3>2
    <3>4. queue'[pos] = queue[pos] BY <2>2, <3>1, <3>3, GotoKeeps
    <3> QED BY <3>2, <3>4 DEF At
  <2>4. l = "main" /\ ~missed' => MainToCome(queue)'
    <3>1. MainToCome(queue') => MainToCome(queue)' BY <2>2 DEF MainToCome
    <3> QED BY <2>1, <3>1 DEF ituLayerGoto, Shows
  <2>5. Chills BY <2>2, GotoCold DEF Chills, Cold, Cool
  <2> QED BY <2>2, <2>3, <2>4, <2>5 DEF Home, Cold
<1> QED BY <1>1, <1>2 DEF Steps

\* So with the end of a stop, by any of the threads.
LEMMA HomeStops ==
  ASSUME TypeOK, Home, NEW t \in Threads, TSCT_ChargingStop(t) \/ LayerPassed(t)
  PROVE  Home' /\ Chills
<1>1. Steps
  <2>1. CASE TSCT_ChargingStop(t) BY <2>1, SomeSteps DEF TSCT_ChargingStop
  <2>2. CASE LayerPassed(t) BY <2>2 DEF LayerPassed, Steps
  <2> QED BY <2>1, <2>2
<1>2. pc'["cp"] \in Closing => pc["cp"] \in Closing
  BY NoCloser DEF TSCT_ChargingStop, LayerPassed
<1>3. UNCHANGED <<listener, contactor, h>> BY DEF TSCT_ChargingStop, LayerPassed, pilot
<1>4. Hot' => Hot BY <1>2, <1>3 DEF Hot
<1> QED BY <1>1, <1>3, <1>4, HomeMoves

\* A handler that sleeps; the main layer's installs its own listener before.
LEMMA HomeSleeps ==
  ASSUME TypeOK, Home, Sleep(2) \/ Sleep(3), Elsewhere \/ listener' = "ahead", Hot' => Hot
  PROVE  Home' /\ Chills
<1>1. UNCHANGED <<visible, queue, pos, missed>> /\ step' > 1 BY DEF Sleep
<1>2. At("main", "Enter", 2)' => listener' = "ahead" BY <1>1 DEF At, Elsewhere
<1>3. Awaits("charge")' => Awaits("charge") BY <1>1 DEF Awaits
<1>4. /\ MainToCome(queue) => MainToCome(queue)'
      /\ Pends("main") => Pends("main")'
  BY <1>1 DEF MainToCome, Pends
<1> QED BY <1>1, <1>2, <1>3, <1>4 DEF Home, Cold, Cool, Chills

\* A handler that goes to the finish layer; the charge layer's Enter may raise the heat, but the
\* main layer's is then still to come.
LEMMA HomeGoes ==
  ASSUME TypeOK, Home, pos > 0, Shows("finish"), pos' = pos, step' \in {2, 3},
         Elsewhere, Hot' => Hot \/ ChargeOnEnter
  PROVE  Home' /\ Chills
<1>1. /\ queue \in Seq(Handlers) /\ pos \in 0..Len(queue) /\ visible \in Layers
      /\ "finish" \in Layers
  BY DEF TypeOK, SceneType, Layers
<1>2. queue' = AfterGoto(queue, visible, "finish") /\ visible' = "finish" BY DEF Shows
<1>3. pos \in DOMAIN queue BY <1>1
<1>4. queue'[pos] = queue[pos] BY <1>1, <1>2, <1>3, GotoKeeps
<1>5. ~At("main", "Enter", 2)' BY <1>4 DEF At, Elsewhere
<1>6. /\ MainToCome(queue) => MainToCome(queue)'
      /\ ~Awaits("charge") => ~Awaits("charge")'
      /\ Pends("main") => Pends("main")'
  BY <1>1, <1>2, GotoCold
<1>7. ChargeOnEnter => Awaits("charge")
  BY <1>3 DEF ChargeOnEnter, At, Awaits
<1> QED BY <1>2, <1>5, <1>6, <1>7 DEF Home, Chills, Cold, Cool

\* A handler that returns; so with the charge layer's Enter.
LEMMA ColdReturns ==
  ASSUME TypeOK, Return, Elsewhere, Hot' => Hot \/ ChargeOnEnter
  PROVE  Chills
<1>1. /\ queue \in Seq(Handlers) /\ pos \in Nat /\ step \in Nat /\ pos <= Len(queue)
  BY DEF TypeOK, SceneType
<1>2. Awaits("charge")' => Awaits("charge")
  <2>1. CASE queue' = <<>> BY <2>1 DEF Awaits
  <2>2. CASE queue' = queue /\ pos' = pos + 1
    <3>1. \A i \in DOMAIN queue : i \in Nat BY <1>1
    <3> QED BY <1>1, <2>2, <3>1 DEF Awaits
  <2> QED BY <2>1, <2>2 DEF Return, ReturnWith
<1>3. ASSUME NEW i \in DOMAIN queue, queue[i] = <<"main", "Enter">>, pos <= i
      PROVE  queue' = queue /\ pos' <= i
  <2>1. i # pos BY <1>3 DEF Elsewhere
  <2>2. i \in Nat /\ Len(queue) \in Nat /\ i <= Len(queue) /\ pos < i
    BY <1>1, <1>3, <2>1
  <2>3. pos < Len(queue) BY <1>1, <2>2
  <2>4. queue' = queue /\ pos' = pos + 1 BY <2>3 DEF Return, ReturnWith
  <2> QED BY <1>1, <2>2, <2>4
<1>4. MainToCome(queue) => MainToCome(queue)' BY <1>3 DEF MainToCome
<1>5. Pends("main") => Pends("main")' BY <1>3 DEF Pends
<1>6. ChargeOnEnter => Awaits("charge")
  <2> SUFFICES ASSUME ChargeOnEnter PROVE Awaits("charge") OBVIOUS
  <2>1. pos > 0 /\ queue[pos] = <<"charge", "Enter">> /\ step = 1 BY DEF ChargeOnEnter, At
  <2>2. pos \in DOMAIN queue BY <1>1, <2>1
  <2> QED BY <2>1, <2>2 DEF Awaits
<1> QED BY <1>2, <1>4, <1>5, <1>6 DEF Chills, Cold, Cool

\* So Home is kept.
LEMMA HomeReturns ==
  ASSUME TypeOK, Home, Return, Elsewhere, Hot' => Hot \/ ChargeOnEnter
  PROVE  Home' /\ Chills
<1>1. UNCHANGED <<visible, missed>> /\ step' # 2 BY DEF Return, ReturnWith
<1>2. Chills BY ColdReturns
<1> QED BY <1>1, <1>2 DEF Home, Chills, At

\* The flush begins: no handler has run.
LEMMA FlushHome == ASSUME TypeOK, Home, ituFlushActionQueue PROVE Home' /\ Chills
<1>1. queue \in Seq(Handlers) /\ pos = 0 /\ pos' = 1 /\ step' = 1
      /\ UNCHANGED <<visible, queue, missed, listener, contactor, pc, h>>
  BY DEF TypeOK, SceneType, ituFlushActionQueue, pilot
<1>2. Awaits("charge")' => Awaits("charge") BY <1>1 DEF Awaits
<1>3. MainToCome(queue) => MainToCome(queue)' BY <1>1 DEF MainToCome
<1>4. Pends("main") => Pends("main")' BY <1>1 DEF Pends
<1>5. Hot' => Hot BY <1>1 DEF Hot
<1> QED BY <1>1, <1>2, <1>3, <1>4, <1>5 DEF Home, Cold, Cool, Chills, At

\* The main layer opens the contactor, its own listener installed: a charge layer's Enter that has
\* not run has another main layer's behind it.
LEMMA EnterHome == ASSUME TypeOK, Home, MainOnEnter2 PROVE Home' /\ Chills
<1>1. queue \in Seq(Handlers) /\ pos \in Nat /\ step \in Nat /\ pos <= Len(queue)
  BY DEF TypeOK, SceneType
<1>2. /\ At("main", "Enter", 2) /\ Return /\ listener' = "ahead" /\ step' # 2
      /\ UNCHANGED <<visible, missed>>
  BY DEF Home, MainOnEnter2, Return, ReturnWith, pilot
<1>3. ~Hot'
  BY <1>2 DEF Hot, MainOnEnter2, MagneticContactorOff, TypeOK, ThreadType, Histories
<1>4. Awaits("charge")' => Awaits("charge") BY <1>1, <1>2 DEF Awaits, Return, ReturnWith
<1>5. ASSUME MainToCome(queue) PROVE MainToCome(queue)' \/ ~Awaits("charge")'
  <2>1. PICK i \in DOMAIN queue :
               /\ queue[i] = <<"main", "Enter">> /\ pos <= i
               /\ \A j \in DOMAIN queue : queue[j] = <<"charge", "Enter">> => j < i
    BY <1>5 DEF MainToCome
  <2>2. i \in Nat /\ i <= Len(queue) BY <1>1
  <2>3. CASE pos < i
    <3>1. queue' = queue /\ pos' = pos + 1 BY <1>1, <1>2, <2>2, <2>3 DEF Return, ReturnWith
    <3>2. pos' <= i BY <1>1, <2>2, <2>3, <3>1
    <3> QED BY <2>1, <3>1, <3>2 DEF MainToCome
  <2>4. CASE pos = i
    <3>1. \A j \in DOMAIN queue : queue[j] = <<"charge", "Enter">> => j < pos BY <2>1, <2>4
    <3>2. ~Awaits("charge") BY <1>1, <3>1 DEF Awaits
    <3> QED BY <1>4, <3>2
  <2> QED BY <1>1, <2>1, <2>2, <2>3, <2>4
<1> QED BY <1>2, <1>3, <1>4, <1>5 DEF Home, Cold, Cool, Chills, At

\* The charge layer installs its listener; the button sends it on to the finish layer.
LEMMA ChargeHome == ASSUME TypeOK, Home, ChargeOnEnter PROVE Home' /\ Chills
<1>1. At("charge", "Enter", 1) /\ pos \in DOMAIN queue
  BY DEF ChargeOnEnter, At, TypeOK, SceneType
<1>2. Elsewhere BY <1>1 DEF At, Elsewhere
<1>3. CASE EmgControl
  <2>1. Shows("finish") /\ pos' = pos /\ step' \in {2, 3} BY <1>3 DEF ChargeOnEnter
  <2> QED BY <1>1, <1>2, <2>1, HomeGoes DEF At
<1>4. CASE ~EmgControl
  <2>1. Return BY <1>4 DEF ChargeOnEnter
  <2> QED BY <1>1, <1>2, <2>1, HomeReturns
<1> QED BY <1>3, <1>4

\* The confirmed stop goes to the finish layer, or lets its handler return.
LEMMA DialogHome == ASSUME TypeOK, Home, ChargeStopOnDialog2 PROVE Home' /\ Chills
<1>1. /\ Elsewhere /\ pos > 0 /\ UNCHANGED <<listener, contactor, h>>
      /\ pc'["cp"] \in Closing => pc["cp"] \in Closing
  BY DEF ChargeStopOnDialog2, Parts, Goes, Closing, At, Elsewhere, pilot, TypeOK, ThreadType,
     Threads
<1>4. Hot' => Hot BY <1>1 DEF Hot
<1>2. CASE bLayerChargeFlg
  <2>1. Shows("finish") /\ pos' = pos /\ step' \in {2, 3} BY <1>2 DEF ChargeStopOnDialog2
  <2> QED BY <1>1, <1>4, <2>1, HomeGoes
<1>3. CASE ~bLayerChargeFlg
  <2>1. Return BY <1>3 DEF ChargeStopOnDialog2
  <2> QED BY <1>1, <1>4, <2>1, HomeReturns
<1> QED BY <1>2, <1>3

\* A boot enters the main layer, a press on the screen of the charge layer leaves another shown.
LEMMA BootHome == ASSUME TypeOK, Home, Reboots \/ ChargeStopOnPress PROVE Home' /\ Chills
<1>1. CASE Reboots
  <2>1. /\ queue' = << <<"main", "Enter">> >> /\ pos' = 0 /\ step' = 0
        /\ listener' = "none" /\ ~contactor' /\ pc'["cp"] = "idle"
    BY <1>1 DEF Reboots, Threads
  <2>2. DOMAIN queue' = {1} /\ queue'[1] = <<"main", "Enter">> BY <2>1
  <2>3. MainToCome(queue)' BY <2>1, <2>2 DEF MainToCome
  <2>4. ~Hot' BY <2>1 DEF Hot, Closing
  <2> QED BY <2>1, <2>3, <2>4 DEF Home, At, Cold, Cool, Chills
<1>2. CASE ChargeStopOnPress
  <2>1. visible' = "charge" /\ queue = <<>> /\ pos' = 0 /\ (Hot' => Hot)
    BY <1>2 DEF ChargeStopOnPress, Hot, pilot
  <2>2. ~Pends("main") BY <2>1 DEF Pends
  <2> QED BY <2>1, <2>2 DEF Home, At, Cold, Cool, Chills
<1> QED BY <1>1, <1>2

\* Every step keeps the way home: the scene thread.
LEMMA HomeSceneThread == ASSUME TypeOK, Home, SceneThread PROVE Home' /\ Chills
<1>1. CASE ituFlushActionQueue BY <1>1, FlushHome
<1>2. CASE HandlerReturns
  <2>1. Return /\ Elsewhere /\ (Hot' => Hot)
    BY <1>2 DEF HandlerReturns, pilot, At, Elsewhere, Hot
  <2> QED BY <2>1, HomeReturns
<1>3. CASE MainOnEnter1
  <2>1. (Sleep(2) \/ Sleep(3)) /\ (Elsewhere \/ listener' = "ahead") /\ (Hot' => Hot)
    BY <1>3 DEF MainOnEnter1, SetListener, Hot
  <2> QED BY <2>1, HomeSleeps
<1>4. CASE MainOnEnter2 BY <1>4, EnterHome
<1>5. CASE MainOnLeave
  <2>1. Return /\ Elsewhere /\ (Hot' => Hot)
    BY <1>5 DEF MainOnLeave, pilot, At, Elsewhere, Hot
  <2> QED BY <2>1, HomeReturns
<1>6. CASE CardWaitEnter
  <2>1. Return /\ Elsewhere /\ (Hot' => Hot)
    BY <1>6 DEF CardWaitEnter, pilot, At, Elsewhere, Hot
  <2> QED BY <2>1, HomeReturns
<1>7. CASE CardWaitLeave1
  <2>1. (Sleep(2) \/ Sleep(3)) /\ (Elsewhere \/ listener' = "ahead") /\ (Hot' => Hot)
    BY <1>7 DEF CardWaitLeave1, pilot, At, Elsewhere, Hot
  <2> QED BY <2>1, HomeSleeps
<1>8. CASE ConnectOnEnter1
  <2>1. (Sleep(2) \/ Sleep(3)) /\ (Elsewhere \/ listener' = "ahead") /\ (Hot' => Hot)
    BY <1>8 DEF ConnectOnEnter1, pilot, At, Elsewhere, Hot
  <2> QED BY <2>1, HomeSleeps
<1>9. CASE ConnectOnEnter2
  <2>1. Return /\ Elsewhere /\ (Hot' => Hot)
    BY <1>9 DEF ConnectOnEnter2, SetListener, At, Elsewhere, Hot
  <2> QED BY <2>1, HomeReturns
<1>10. CASE ConnectOnLeave1
  <2>1. (Sleep(2) \/ Sleep(3)) /\ (Elsewhere \/ listener' = "ahead") /\ (Hot' => Hot)
    BY <1>10 DEF ConnectOnLeave1, pilot, At, Elsewhere, Hot
  <2> QED BY <2>1, HomeSleeps
<1>11. CASE ChargeOnEnter BY <1>11, ChargeHome
<1>12. CASE ChargeOnLeave1
  <2>1. (Sleep(2) \/ Sleep(3)) /\ (Elsewhere \/ listener' = "ahead") /\ (Hot' => Hot)
    BY <1>12 DEF ChargeOnLeave1, pilot, At, Elsewhere, Hot, TypeOK, ThreadType, Histories
  <2> QED BY <2>1, HomeSleeps
<1>13. CASE ChargeOnLeave2
  <2>1. (Sleep(2) \/ Sleep(3)) /\ (Elsewhere \/ listener' = "ahead") /\ (Hot' => Hot)
    BY <1>13 DEF ChargeOnLeave2, pilot, At, Elsewhere, Hot
  <2> QED BY <2>1, HomeSleeps
<1>14. CASE ChargeStopOnDialog1
  <2>1. (Sleep(2) \/ Sleep(3)) /\ (Elsewhere \/ listener' = "ahead") /\ (Hot' => Hot)
    BY <1>14 DEF ChargeStopOnDialog1, MagneticContactorOff, pilot, At, Elsewhere, Hot, TypeOK,
       ThreadType, Histories
  <2> QED BY <2>1, HomeSleeps
<1>15. CASE ChargeStopOnDialog2 BY <1>15, DialogHome
<1>16. CASE Ch2FinishOnEnter1
  <2>1. (Sleep(2) \/ Sleep(3)) /\ (Elsewhere \/ listener' = "ahead") /\ (Hot' => Hot)
    BY <1>16 DEF Ch2FinishOnEnter1, SetListener, At, Elsewhere, Hot
  <2> QED BY <2>1, HomeSleeps
<1>17. CASE Ch2FinishOnLeave
  <2>1. Return /\ Elsewhere /\ (Hot' => Hot)
    BY <1>17 DEF Ch2FinishOnLeave, StopForgotten, pilot, At, Elsewhere, Hot
  <2> QED BY <2>1, HomeReturns
<1>18. CASE DisconnectOnEnter
  <2>1. Return /\ Elsewhere /\ (Hot' => Hot)
    BY <1>18 DEF DisconnectOnEnter, SetListener, At, Elsewhere, Hot
  <2> QED BY <2>1, HomeReturns
<1>19. CASE HandlerParts
  <2>1. Return /\ Elsewhere /\ (Hot' => Hot)
    BY <1>19 DEF HandlerParts, Goes, pilot, At, Elsewhere, Hot, Closing, TypeOK, ThreadType,
       Threads
  <2> QED BY <2>1, HomeReturns
<1> QED BY <1>1, <1>2, <1>3, <1>4, <1>5, <1>6, <1>7, <1>8, <1>9, <1>10, <1>11, <1>12, <1>13, <1>14,
    <1>15, <1>16, <1>17, <1>18, <1>19 DEF SceneThread

\* Every step keeps the way home: the control pilot thread.
LEMMA HomePilotThread == ASSUME TypeOK, Home, PilotThread PROVE Home' /\ Chills
<1>1. CASE CPListenerOnAhead
  <2>1. Steps /\ UNCHANGED listener /\ (Hot' => Hot)
    BY <1>1 DEF CPListenerOnAhead, CPChanged, Steps, Hot
  <2> QED BY <2>1, HomeMoves
<1>2. CASE CPListenerOnConnect
  <2>1. Steps BY <1>2, SomeSteps DEF CPListenerOnConnect, GotoFrom, Layers
  <2>2. UNCHANGED listener /\ (Hot' => Hot)
    BY <1>2 DEF CPListenerOnConnect, CPChanged, Hot
  <2> QED BY <2>1, <2>2, HomeMoves
<1>3. CASE CPListenerOnFinish
  <2>1. Steps /\ UNCHANGED listener /\ (Hot' => Hot)
    BY <1>3 DEF CPListenerOnFinish, Goes, CPChanged, Steps, Hot, Closing
  <2> QED BY <2>1, HomeMoves
<1>4. CASE CPFinished
  <2>1. Steps BY <1>4, SomeSteps DEF CPFinished, Layers
  <2>2. UNCHANGED listener /\ (Hot' => Hot)
    BY <1>4 DEF CPFinished, Goes, pilot, Hot, Closing
  <2> QED BY <2>1, <2>2, HomeMoves
<1>5. CASE CPListenerOnDisconnect
  <2>1. Steps BY <1>5, SomeSteps DEF CPListenerOnDisconnect, Layers
  <2>2. UNCHANGED listener /\ (Hot' => Hot)
    BY <1>5 DEF CPListenerOnDisconnect, CPChanged, Hot
  <2> QED BY <2>1, <2>2, HomeMoves
<1>6. CASE CPIgnored
  <2>1. Steps /\ UNCHANGED listener /\ (Hot' => Hot)
    BY <1>6 DEF CPIgnored, CPChanged, Steps, Hot
  <2> QED BY <2>1, HomeMoves
<1>7. CASE CPUnplugged
  <2>1. Steps /\ UNCHANGED listener /\ (Hot' => Hot)
    BY <1>7 DEF CPUnplugged, CPChanged, Steps, Hot
  <2> QED BY <2>1, HomeMoves
<1>8. CASE CPUnplugStop
  <2>1. Steps BY <1>8, SomeSteps DEF CPUnplugStop, Threads
  <2>2. UNCHANGED listener /\ (Hot' => Hot)
    BY <1>8, NoCloser DEF CPUnplugStop, pilot, Hot, Threads
  <2> QED BY <2>1, <2>2, HomeMoves
<1>9. CASE CPUnplugEnd
  <2>1. Steps BY <1>9, SomeSteps DEF CPUnplugEnd, Steps, Threads
  <2>2. pc'["cp"] \in Closing => pc["cp"] \in Closing
    BY <1>9, NoCloser DEF CPUnplugEnd, Goes, Closing, TypeOK, ThreadType, Threads
  <2>3. UNCHANGED listener /\ (Hot' => Hot)
    BY <1>9, <2>2 DEF CPUnplugEnd, MagneticContactorOff, pilot, Hot, TypeOK, ThreadType, Histories
  <2> QED BY <2>1, <2>3, HomeMoves
<1>10. CASE CPPaused
  <2>1. Steps /\ UNCHANGED listener /\ (Hot' => Hot)
    BY <1>10 DEF CPPaused, CPChanged, Steps, Hot
  <2> QED BY <2>1, HomeMoves
<1>11. CASE CPUnknown
  <2>1. Steps /\ UNCHANGED listener /\ (Hot' => Hot)
    BY <1>11 DEF CPUnknown, CPChanged, Steps, Hot
  <2> QED BY <2>1, HomeMoves
<1>12. CASE CPRequested
  <2>1. Steps /\ UNCHANGED listener /\ (Hot' => Hot)
    BY <1>12 DEF CPRequested, CPChanged, Steps, Hot
  <2> QED BY <2>1, HomeMoves
<1>13. CASE CPStart
  <2>1. Steps /\ UNCHANGED listener /\ (Hot' => Hot)
    BY <1>13 DEF CPStart, Steps, pilot, Hot, Closing
  <2> QED BY <2>1, HomeMoves
<1>14. CASE CPStarted
  <2>1. Steps /\ UNCHANGED listener /\ (Hot' => Hot)
    BY <1>14 DEF CPStarted, Goes, Steps, pilot, Hot, Closing
  <2> QED BY <2>1, HomeMoves
<1>15. CASE CPResume
  <2>1. Steps /\ UNCHANGED listener /\ (Hot' => Hot)
    BY <1>15 DEF CPResume, Steps, pilot, Hot, Closing
  <2> QED BY <2>1, HomeMoves
<1>16. CASE TSCT_ChargingStop("cp") BY <1>16, HomeStops DEF Threads
<1>17. CASE LayerPassed("cp") BY <1>17, HomeStops DEF Threads
<1> QED BY <1>1, <1>2, <1>3, <1>4, <1>5, <1>6, <1>7, <1>8, <1>9, <1>10, <1>11, <1>12, <1>13, <1>14,
    <1>15, <1>16, <1>17 DEF PilotThread

\* Every step keeps the way home: the emergency button thread.
LEMMA HomeEmbThread == ASSUME TypeOK, Home, EmbThread PROVE Home' /\ Chills
<1>1. CASE EmbPressed
  <2>1. Steps BY <1>1, SomeSteps DEF EmbPressed, Steps, Layers
  <2>2. UNCHANGED listener /\ (Hot' => Hot)
    BY <1>1 DEF EmbPressed, pilot, Hot, TypeOK, ThreadType, Histories
  <2> QED BY <2>1, <2>2, HomeMoves
<1>2. CASE EmbReleased
  <2>1. Steps /\ UNCHANGED listener /\ (Hot' => Hot)
    BY <1>2 DEF EmbReleased, Steps, pilot, Hot
  <2> QED BY <2>1, HomeMoves
<1> QED BY <1>1, <1>2 DEF EmbThread

\* Every step keeps the way home: the monitoring task and the card listener.
LEMMA HomeStopperThread == ASSUME TypeOK, Home, StopperThread PROVE Home' /\ Chills
<1>1. CASE LocalStop
  <2>1. Steps /\ UNCHANGED listener /\ (Hot' => Hot)
    BY <1>1 DEF LocalStop, StopBegins, MagneticContactorOff, Goes, Steps, pilot, Hot, TypeOK,
       ThreadType, Histories
  <2> QED BY <2>1, HomeMoves
<1>2. CASE RemoteStopSeen
  <2>1. Steps /\ UNCHANGED listener /\ (Hot' => Hot)
    BY <1>2 DEF RemoteStopSeen, StopBegins, MagneticContactorOff, Goes, Steps, pilot, Hot, TypeOK,
       ThreadType, Histories
  <2> QED BY <2>1, HomeMoves
<1>3. CASE TSCT_ChargingStop("stopper") BY <1>3, HomeStops DEF Threads
<1>4. CASE LayerPassed("stopper") BY <1>4, HomeStops DEF Threads
<1>5. CASE SuspendsEvse
  <2>1. Steps /\ UNCHANGED listener /\ (Hot' => Hot)
    BY <1>5 DEF SuspendsEvse, Steps, pilot, Hot
  <2> QED BY <2>1, HomeMoves
<1> QED BY <1>1, <1>2, <1>3, <1>4, <1>5 DEF StopperThread

\* Every step keeps the way home: the fault monitoring task.
LEMMA HomeFaultThread == ASSUME TypeOK, Home, FaultThread PROVE Home' /\ Chills
<1>1. CASE FaultStops
  <2>1. Steps /\ UNCHANGED listener /\ (Hot' => Hot)
    BY <1>1 DEF FaultStops, StopBegins, MagneticContactorOff, Goes, Steps, pilot, Hot, TypeOK,
       ThreadType, Histories
  <2> QED BY <2>1, HomeMoves
<1>2. CASE FaultSeen
  <2>1. Steps /\ UNCHANGED listener /\ (Hot' => Hot)
    BY <1>2 DEF FaultSeen, Steps, pilot, Hot
  <2> QED BY <2>1, HomeMoves
<1>3. CASE TSCT_ChargingStop("fault") BY <1>3, HomeStops DEF Threads
<1>4. CASE LayerPassed("fault") BY <1>4, HomeStops DEF Threads
<1> QED BY <1>1, <1>2, <1>3, <1>4 DEF FaultThread

\* Every step keeps the way home: the order sequence task.
LEMMA HomeOrderThread == ASSUME TypeOK, Home, OrderThread PROVE Home' /\ Chills
<1>1. CASE OrderSeesPause
  <2>1. Steps /\ UNCHANGED listener /\ (Hot' => Hot)
    BY <1>1 DEF OrderSeesPause, Goes, Steps, pilot, Hot
  <2> QED BY <2>1, HomeMoves
<1>2. CASE OrderDecides
  <2>1. Steps /\ UNCHANGED listener /\ (Hot' => Hot)
    BY <1>2 DEF OrderDecides, MagneticContactorOff, Goes, Steps, pilot, Hot, TypeOK, ThreadType,
       Threads, Histories
  <2> QED BY <2>1, HomeMoves
<1>3. CASE OrderStops
  <2>1. Steps BY <1>3, SomeSteps DEF OrderStops, Threads
  <2>2. UNCHANGED listener /\ (Hot' => Hot)
    BY <1>3, NoCloser DEF OrderStops, pilot, Hot, Threads
  <2> QED BY <2>1, <2>2, HomeMoves
<1>4. CASE LayerPassed("order") BY <1>4, HomeStops DEF Threads
<1> QED BY <1>1, <1>2, <1>3, <1>4 DEF OrderThread

\* Every step keeps the way home: the top timer.
LEMMA HomeTopTimer == ASSUME TypeOK, Home, TopTimer PROVE Home' /\ Chills
<1>1. CASE TimerFires
  <2>1. Steps
    BY <1>1, SomeSteps DEF TimerFires, GotoFrom, TimerLayer, Steps, Layers, TypeOK, DataType
  <2>2. UNCHANGED listener /\ (Hot' => Hot)
    BY <1>1 DEF TimerFires, pilot, Hot
  <2> QED BY <2>1, <2>2, HomeMoves
<1>2. CASE ChargeTimerFires
  <2>1. Steps BY <1>2, SomeSteps DEF ChargeTimerFires, Steps, Threads
  <2>2. pc'["cp"] \in Closing => pc["cp"] \in Closing
    BY <1>2, NoCloser DEF ChargeTimerFires, Goes, Closing, TypeOK, ThreadType, Threads
  <2>3. UNCHANGED listener /\ (Hot' => Hot)
    BY <1>2, <2>2 DEF ChargeTimerFires, MagneticContactorOff, pilot, Hot, TypeOK, ThreadType,
       Histories
  <2> QED BY <2>1, <2>3, HomeMoves
<1>3. CASE TSCT_ChargingStop("top") BY <1>3, HomeStops DEF Threads
<1>4. CASE LayerPassed("top") BY <1>4, HomeStops DEF Threads
<1> QED BY <1>1, <1>2, <1>3, <1>4 DEF TopTimer

\* Every step keeps the way home: the card-wait task.
LEMMA HomeWaitThread == ASSUME TypeOK, Home, WaitThread PROVE Home' /\ Chills
<1>1. CASE WaitGoes
  <2>1. Steps BY <1>1, SomeSteps DEF WaitGoes, GotoFrom, Steps, Layers
  <2>2. UNCHANGED listener /\ (Hot' => Hot)
    BY <1>1 DEF WaitGoes, Goes, pilot, Hot
  <2> QED BY <2>1, <2>2, HomeMoves
<1>2. CASE \E r \in {"ok", "fail"} : WaitAnswered(r)
  <2>1. Steps /\ UNCHANGED listener /\ (Hot' => Hot)
    BY <1>2 DEF WaitAnswered, Goes, Steps, pilot, Hot
  <2> QED BY <2>1, HomeMoves
<1> QED BY <1>1, <1>2 DEF WaitThread

\* Every step keeps the way home: the status task.
LEMMA HomeStatusThread == ASSUME TypeOK, Home, StatusThread PROVE Home' /\ Chills
<1>1. CASE RemoteStartSeen
  <2>1. Steps /\ UNCHANGED listener /\ (Hot' => Hot)
    BY <1>1 DEF RemoteStartSeen, Goes, Steps, pilot, Hot, TypeOK, ThreadType, Threads
  <2> QED BY <2>1, HomeMoves
<1>2. CASE RemoteStartGoes
  <2>1. Steps BY <1>2, SomeSteps DEF RemoteStartGoes, GotoFrom, Layers
  <2>2. UNCHANGED listener /\ (Hot' => Hot)
    BY <1>2 DEF RemoteStartGoes, Goes, pilot, Hot
  <2> QED BY <2>1, <2>2, HomeMoves
<1>3. CASE ResetSeen
  <2>1. Steps /\ UNCHANGED listener /\ (Hot' => Hot)
    BY <1>3 DEF ResetSeen, StopBegins, MagneticContactorOff, Goes, Steps, pilot, Hot, TypeOK,
       ThreadType, Histories
  <2> QED BY <2>1, HomeMoves
<1>4. CASE Reboots BY <1>4, BootHome
<1>5. CASE TSCT_ChargingStop("status") BY <1>5, HomeStops DEF Threads
<1>6. CASE LayerPassed("status") BY <1>6, HomeStops DEF Threads
<1> QED BY <1>1, <1>2, <1>3, <1>4, <1>5, <1>6 DEF StatusThread

\* Every step keeps the way home: the OCPP client.
LEMMA HomeClient == ASSUME TypeOK, Home, Client PROVE Home' /\ Chills
<1>1. CASE DataProcCmd_RmStart
  <2>1. Steps /\ UNCHANGED listener /\ (Hot' => Hot)
    BY <1>1 DEF DataProcCmd_RmStart, Asks, Steps, pilot, Hot
  <2> QED BY <2>1, HomeMoves
<1>2. CASE DataProcCmd_RmStopTr
  <2>1. Steps /\ UNCHANGED listener /\ (Hot' => Hot)
    BY <1>2 DEF DataProcCmd_RmStopTr, Asks, Steps, pilot, Hot
  <2> QED BY <2>1, HomeMoves
<1>3. CASE DataProcCmd_Reset
  <2>1. Steps /\ UNCHANGED listener /\ (Hot' => Hot)
    BY <1>3 DEF DataProcCmd_Reset, Asks, Steps, pilot, Hot
  <2> QED BY <2>1, HomeMoves
<1>4. CASE MakeDataCmd_StopTs
  <2>1. Steps /\ UNCHANGED listener /\ (Hot' => Hot)
    BY <1>4 DEF MakeDataCmd_StopTs, StopForgotten, Steps, pilot, Hot
  <2> QED BY <2>1, HomeMoves
<1>5. CASE DataProcCmd_StopTs
  <2>1. Steps /\ UNCHANGED listener /\ (Hot' => Hot)
    BY <1>5 DEF DataProcCmd_StopTs, Steps, pilot, Hot
  <2> QED BY <2>1, HomeMoves
<1>6. CASE TakesStart
  <2>1. Steps /\ UNCHANGED listener /\ (Hot' => Hot)
    BY <1>6 DEF TakesStart, Steps, pilot, Hot, TypeOK, ThreadType, Histories
  <2> QED BY <2>1, HomeMoves
<1>7. CASE DataProcCmd_StartTs
  <2>1. Steps /\ UNCHANGED listener /\ (Hot' => Hot)
    BY <1>7 DEF DataProcCmd_StartTs, Steps, pilot, Hot
  <2> QED BY <2>1, HomeMoves
<1> QED BY <1>1, <1>2, <1>3, <1>4, <1>5, <1>6, <1>7 DEF Client

\* Every step keeps the way home: the car, the button and the screen.
LEMMA HomeWorld == ASSUME TypeOK, Home, World PROVE Home' /\ Chills
<1>1. CASE ButtonMoves
  <2>1. Steps /\ UNCHANGED listener /\ (Hot' => Hot)
    BY <1>1 DEF ButtonMoves, Steps, pilot, Hot
  <2> QED BY <2>1, HomeMoves
<1>2. CASE ChargeStopOnPress BY <1>2, BootHome
<1>3. CASE Ch2FinishConfirmOnPress
  <2>1. Steps BY <1>3, SomeSteps DEF Ch2FinishConfirmOnPress, Layers
  <2>2. UNCHANGED listener /\ (Hot' => Hot)
    BY <1>3 DEF Ch2FinishConfirmOnPress, pilot, Hot
  <2> QED BY <2>1, <2>2, HomeMoves
<1>4. CASE MinutePasses
  <2>1. Steps /\ UNCHANGED listener /\ (Hot' => Hot)
    BY <1>4 DEF MinutePasses, Steps, pilot, Hot
  <2> QED BY <2>1, HomeMoves
<1>5. CASE \E v \in Voltages : CableMoves(v)
  <2>1. Steps /\ UNCHANGED listener /\ (Hot' => Hot)
    BY <1>5 DEF CableMoves, Steps, Hot
  <2> QED BY <2>1, HomeMoves
<1> QED BY <1>1, <1>2, <1>3, <1>4, <1>5 DEF World
\* Every step keeps it.
LEMMA HomeNext == ASSUME TypeOK, Home, [Next]_vars PROVE Home' /\ Chills
<1>1. CASE UNCHANGED vars
  <2>1. Steps /\ UNCHANGED listener /\ (Hot' => Hot) BY <1>1 DEF vars, pilot, Steps, Hot
  <2> QED BY <2>1, HomeMoves
<1>2. CASE Next
  BY <1>2, HomeSceneThread, HomePilotThread, HomeEmbThread, HomeStopperThread, HomeFaultThread,
     HomeOrderThread, HomeTopTimer, HomeWaitThread, HomeStatusThread, HomeClient, HomeWorld DEF Next
<1> QED BY <1>1, <1>2

\* The way home is kept.
LEMMA HomeHolds == Spec => []Home
<1>1. Init => Home
  <2> SUFFICES ASSUME Init PROVE Home OBVIOUS
  <2>1. DOMAIN queue = {1} /\ queue[1] = <<"main", "Enter">> /\ pos = 0 BY DEF Init
  <2>2. MainToCome(queue) BY <2>1 DEF MainToCome
  <2> QED BY <2>1, <2>2 DEF Home, Cold, At
<1>2. TypeOK /\ Home /\ [Next]_vars => Home' BY HomeNext
<1> QED BY <1>1, <1>2, TypeCorrect, PTL DEF Spec

\* Whatever brought the charger home, by whichever threads and in whatever order, the contactor is
\* open there: for every set of levels and all bounds, gotos for a layer no longer shown included.
THEOREM HomeStaysDead == Spec => []HomeIsDead
<1>1. Home => HomeIsDead
  <2> SUFFICES ASSUME Home, AtHome, ~missed, ~h.overtaken PROVE ~contactor
    BY DEF HomeIsDead
  <2>1. ~MainToCome(queue) BY DEF AtHome, MainToCome
  <2>2. ~Hot BY <2>1 DEF Home, Cold, AtHome
  <2> QED BY <2>2 DEF Hot
<1> QED BY <1>1, HomeHolds, PTL

-----------------------------------------------------------------------------
(* Every session is reported                                                 *)

\* The Enter of layer l has been queued in this flush.
Listed(l) == \E i \in DOMAIN queue : queue[i] = <<l, "Enter">>

\* Every Enter of this flush has returned, none was the finish layer's.
Quiet == \A i \in DOMAIN queue : queue[i][2] = "Enter" => i < pos /\ queue[i][1] # "finish"

\* From the goto to the charge layer to its Enter no 6 V call can begin, and none that goes home.
Begins ==
  visible = "charge" /\ Awaits("charge") =>
    /\ listener # "charge" /\ pc["cp"] \in {"idle", "finish"}
    /\ Listed("finish") \/ (listener # "finish" /\ pc["cp"] # "finish")

\* The charge layer has been entered; a press of the emergency button finds it so.
InCharge ==
  /\ visible = "charge" /\ listener = "charge" /\ pc["cp"] # "finish" /\ Quiet
  /\ app_order \in CHARGE_INPUT..CHARGING_STOP

\* A session that has raised no StopTransaction.
Open == h.straight /\ h.stops = 0

\* The inductive form of SessionReported: such a session is in the charge layer, or the finish
\* layer's Enter is still to come.
Reported ==
  /\ Begins
  /\ Orderly => pc["status"] # "astray"
  /\ Orderly /\ Open => Awaits("finish") \/ InCharge

\* A step that goes on with queue r: of another thread, or of a handler other than the first step
\* of the finish layer's Enter.
Passes(r) ==
  \/ queue' = r /\ pos' = pos /\ step' = step
  \/ queue' = r /\ pos' = pos /\ ~At("finish", "Enter", 1)
  \/ ReturnWith(r) /\ ~At("finish", "Enter", 1)
  \/ queue' = r /\ pos = 0 /\ pos' = 1 /\ step' = 1

\* What most steps leave as it was, for Begins, and for an open session.
KeepsBegins ==
  /\ visible' = "charge" => visible = "charge"
  /\ listener' = "charge" => listener = "charge"
  /\ listener # "charge" /\ pc["cp"] \in {"idle", "finish"} => pc'["cp"] \in {"idle", "finish"}
  /\ listener' = "finish" \/ pc'["cp"] = "finish" => listener = "finish" \/ pc["cp"] = "finish"

KeepsOpen == Orderly' => Orderly /\ pc'["status"] # "astray" /\ (Open' => Open)

\* What they leave of the charge layer.
KeepsCharge ==
  Orderly' /\ InCharge =>
    /\ visible' = "charge" /\ listener' = "charge" /\ pc'["cp"] # "finish"
    /\ app_order' \in CHARGE_INPUT..CHARGING_STOP

\* The finish layer's Enter goes on waiting.
LEMMA FinishWaits ==
  ASSUME TypeOK, NEW r \in Seq(Handlers), NEW l \in Layers, Grows(queue, r, l), Passes(r),
         Awaits("finish")
  PROVE  Awaits("finish")'
<1>1. /\ queue \in Seq(Handlers) /\ pos \in Nat /\ step \in Nat
      /\ Len(queue) \in Nat /\ Len(r) \in Nat /\ Len(queue) <= Len(r)
  BY DEF TypeOK, SceneType, Grows
<1>2. PICK i \in DOMAIN queue :
             queue[i] = <<"finish", "Enter">> /\ (pos < i \/ (pos = i /\ step = 1))
  BY DEF Awaits
<1>3. i \in Nat /\ i <= Len(queue) /\ i > 0 BY <1>1
<1>4. i \in DOMAIN r /\ r[i] = <<"finish", "Enter">> BY <1>2 DEF Grows
<1>5. ASSUME ~At("finish", "Enter", 1) PROVE pos < i BY <1>2, <1>3, <1>5 DEF At
<1>6. CASE queue' = r /\ pos' = pos /\ step' = step BY <1>2, <1>4, <1>6 DEF Awaits
<1>7. CASE queue' = r /\ pos' = pos /\ ~At("finish", "Enter", 1)
  BY <1>4, <1>5, <1>7 DEF Awaits
<1>8. CASE ReturnWith(r) /\ ~At("finish", "Enter", 1)
  <2>1. pos < Len(r) BY <1>1, <1>3, <1>5, <1>8
  <2>2. queue' = r /\ pos' = pos + 1 /\ step' = 1 BY <1>8, <2>1 DEF ReturnWith
  <2>3. pos' < i \/ pos' = i BY <1>1, <1>3, <1>5, <1>8, <2>2
  <2> QED BY <1>4, <2>2, <2>3 DEF Awaits
<1>9. CASE queue' = r /\ pos = 0 /\ pos' = 1 /\ step' = 1
  <2>1. pos' < i \/ pos' = i BY <1>3, <1>9
  <2> QED BY <1>4, <1>9, <2>1 DEF Awaits
<1> QED BY <1>6, <1>7, <1>8, <1>9 DEF Passes

\* What passes moves, and only an empty queue forgets.
LEMMA PassesMoves ==
  ASSUME TypeOK, NEW r \in Seq(Handlers), NEW l \in Layers, Grows(queue, r, l), Passes(r),
         pos' = pos => step' = step \/ step' > 1
  PROVE  Moves(r) /\ (queue' = <<>> \/ (queue' = r /\ (Listed("finish") => Listed("finish")')))
<1>1. queue' = <<>> \/ queue' = r BY DEF Passes, ReturnWith
<1>2. queue' = r /\ Listed("finish") => Listed("finish")' BY DEF Grows, Listed
<1>3. Moves(r) BY DEF TypeOK, SceneType, Passes, ReturnWith, Moves
<1> QED BY <1>1, <1>2, <1>3

\* No Enter runs once all have returned.
LEMMA QuietRuns ==
  ASSUME TypeOK, Quiet, NEW l, NEW s PROVE ~At(l, "Enter", s)
<1> SUFFICES ASSUME At(l, "Enter", s) PROVE FALSE OBVIOUS
<1>1. pos \in DOMAIN queue /\ queue[pos] = <<l, "Enter">> /\ pos \in Nat
  BY DEF At, TypeOK, SceneType
<1> QED BY <1>1 DEF Quiet

\* A step that queues nothing.
LEMMA ReportedStays ==
  ASSUME TypeOK, Distinct(queue), Reported, Passes(queue), pos' = pos => step' = step \/ step' > 1,
         KeepsBegins, KeepsOpen, KeepsCharge
  PROVE  Reported'
<1>1. queue \in Seq(Handlers) /\ pos \in Nat BY DEF TypeOK, SceneType
<1>2. Grows(queue, queue, "main") BY StaysGrown DEF Layers
<1>3. Moves(queue) /\ (queue' = <<>> \/ (queue' = queue /\ (Listed("finish") => Listed("finish")')))
  BY <1>1, <1>2, PassesMoves DEF Layers
<1>4. Awaits("charge")' => Awaits("charge") BY <1>1, <1>2, <1>3, AwaitsMoves DEF Layers
<1>5. Begins'
  <2> SUFFICES ASSUME visible' = "charge", Awaits("charge")'
               PROVE  /\ listener' # "charge" /\ pc'["cp"] \in {"idle", "finish"}
                      /\ Listed("finish")' \/ (listener' # "finish" /\ pc'["cp"] # "finish")
    BY DEF Begins
  <2>1. visible = "charge" /\ Awaits("charge") BY <1>4 DEF KeepsBegins
  <2>2. queue' # <<>> BY DEF Awaits
  <2>3. Listed("finish") => Listed("finish")' BY <1>3, <2>2
  <2> QED BY <2>1, <2>3 DEF Reported, Begins, KeepsBegins
<1>6. Orderly' => pc'["status"] # "astray" BY DEF KeepsOpen
<1>7. ASSUME Orderly', Open' PROVE Awaits("finish")' \/ InCharge'
  <2>1. Awaits("finish") \/ InCharge BY <1>7 DEF KeepsOpen, Reported
  <2>2. CASE Awaits("finish") BY <1>1, <1>2, <2>2, FinishWaits DEF Layers
  <2>3. CASE InCharge
    <3>1. Quiet'
      <4>1. CASE queue' = <<>> BY <4>1 DEF Quiet
      <4>2. CASE queue' = queue /\ pos' >= pos
        <5>1. pos' \in Nat BY <1>1 DEF Passes, ReturnWith
        <5> QED BY <1>1, <2>3, <4>2, <5>1 DEF Quiet, InCharge
      <4>3. queue' = <<>> \/ (queue' = queue /\ pos' >= pos) BY <1>1 DEF Passes, ReturnWith
      <4> QED BY <4>1, <4>2, <4>3
    <3> QED BY <1>7, <2>3, <3>1 DEF KeepsCharge, InCharge
  <2> QED BY <2>1, <2>2, <2>3
<1> QED BY <1>5, <1>6, <1>7 DEF Reported

\* A finish layer not entered in this flush is queued last.
LEMMA FinishAppended ==
  ASSUME NEW q \in Seq(Handlers), NEW from \in Layers,
         \A i \in DOMAIN q : q[i] # <<"finish", "Enter">>
  PROVE  LET r == AfterGoto(q, from, "finish")
         IN  r \in Seq(Handlers) /\ Len(r) > Len(q) /\ r[Len(r)] = <<"finish", "Enter">>
<1> DEFINE q1 == Queued(q, <<from, "Leave">>)
           r == AfterGoto(q, from, "finish")
<1>1. <<from, "Leave">> \in Handlers /\ <<"finish", "Enter">> \in Handlers
  BY DEF Handlers, Layers
<1>2. q1 = q \/ q1 = Append(q, <<from, "Leave">>) BY DEF Queued
<1>3. r = Queued(q1, <<"finish", "Enter">>) BY DEF AfterGoto
<1> HIDE DEF q1, r
<1>4. q1 \in Seq(Handlers) /\ Len(q1) \in Nat /\ Len(q) \in Nat /\ Len(q) <= Len(q1)
  <2>1. CASE q1 = q BY <2>1
  <2>2. CASE q1 = Append(q, <<from, "Leave">>)
    <3>1. q1 \in Seq(Handlers) /\ Len(q1) = Len(q) + 1 BY <1>1, <2>2
    <3> QED BY <3>1
  <2> QED BY <1>2, <2>1, <2>2
<1>5. \A i \in DOMAIN q1 : q1[i] # <<"finish", "Enter">>
  <2>1. CASE q1 = q BY <2>1
  <2>2. CASE q1 = Append(q, <<from, "Leave">>)
    <3>1. \A i \in 1..Len(q) : q1[i] = q[i] BY <1>1, <2>2
    <3>2. q1[Len(q) + 1] = <<from, "Leave">> /\ DOMAIN q1 = 1..Len(q) + 1 BY <1>1, <2>2
    <3>3. DOMAIN q = 1..Len(q) OBVIOUS
    <3> QED BY <1>4, <3>1, <3>2, <3>3
  <2> QED BY <1>2, <2>1, <2>2
<1>6. r = Append(q1, <<"finish", "Enter">>) BY <1>3, <1>5 DEF Queued
<1>7. r \in Seq(Handlers) /\ Len(r) = Len(q1) + 1 /\ r[Len(q1) + 1] = <<"finish", "Enter">>
  BY <1>1, <1>4, <1>6
<1>8. Len(r) > Len(q) /\ r[Len(r)] = <<"finish", "Enter">> BY <1>4, <1>7
<1> QED BY <1>7, <1>8 DEF r

\* A goto to another layer than the charge layer; from within it to the finish layer only.
LEMMA ReportedGoes ==
  ASSUME TypeOK, Distinct(queue), Reported, NEW l \in Layers \ {"charge"},
         Passes(AfterGoto(queue, visible, l)), visible' = l, KeepsOpen,
         Orderly' => l = "finish" \/ ~InCharge
  PROVE  Reported'
<1> DEFINE r == AfterGoto(queue, visible, l)
<1>1. queue \in Seq(Handlers) /\ pos \in Nat /\ pos <= Len(queue) /\ visible \in Layers
  BY DEF TypeOK, SceneType
<1>2. r \in Seq(Handlers) /\ Grows(queue, r, l) BY <1>1, GotoGrows
<1>3. Begins' BY DEF Begins
<1>4. Orderly' => pc'["status"] # "astray" BY DEF KeepsOpen
<1>5. ASSUME Orderly', Open' PROVE Awaits("finish")' \/ InCharge'
  <2>1. Awaits("finish") \/ InCharge BY <1>5 DEF KeepsOpen, Reported
  <2>2. CASE Awaits("finish")
    <3> HIDE DEF r
    <3>1. Passes(r) BY DEF r
    <3> QED BY <1>2, <2>2, <3>1, FinishWaits
  <2>3. CASE InCharge
    <3>1. l = "finish" BY <1>5, <2>3
    <3>2. \A i \in DOMAIN queue : queue[i] # <<"finish", "Enter">> BY <2>3 DEF InCharge, Quiet
    <3>3. Len(r) > Len(queue) /\ r[Len(r)] = <<"finish", "Enter">>
      BY <1>1, <3>1, <3>2, FinishAppended
    <3> HIDE DEF r
    <3>4. /\ Len(queue) \in Nat /\ Len(r) \in Nat /\ Len(r) \in DOMAIN r /\ pos < Len(r)
      BY <1>1, <1>2, <3>3
    <3>5. queue' = r /\ (pos' = pos \/ (pos' = pos + 1 /\ step' = 1))
      BY <1>1, <3>4 DEF r, Passes, ReturnWith
    <3>6. pos' < Len(r) \/ (pos' = Len(r) /\ step' = 1) BY <1>1, <3>4, <3>5
    <3> QED BY <3>3, <3>4, <3>5, <3>6 DEF Awaits
  <2> QED BY <2>1, <2>2, <2>3
<1> QED BY <1>3, <1>4, <1>5 DEF Reported

\* Another thread that leaves the scene alone.
LEMMA ReportedRests ==
  ASSUME TypeOK, Distinct(queue), Reported, UNCHANGED scene, KeepsBegins, KeepsOpen, KeepsCharge
  PROVE  Reported'
<1>1. queue' = queue /\ pos' = pos /\ step' = step BY DEF scene
<1> QED BY <1>1, ReportedStays DEF Passes

\* A handler that sleeps or returns.
LEMMA ReportedHandles ==
  ASSUME TypeOK, Distinct(queue), Reported, Sleep(2) \/ Sleep(3) \/ Return,
         pos > 0, ~At("finish", "Enter", 1), KeepsBegins, KeepsOpen, KeepsCharge
  PROVE  Reported'
<1>1. pos \in Nat /\ Len(queue) \in Nat /\ pos <= Len(queue)
  BY DEF TypeOK, SceneType
<1>2. CASE Sleep(2) \/ Sleep(3)
  <2>1. queue' = queue /\ pos' = pos /\ step' > 1 BY <1>2 DEF Sleep
  <2>2. Passes(queue) BY <2>1 DEF Passes
  <2> QED BY <2>1, <2>2, ReportedStays
<1>3. CASE Return
  <2>1. Passes(queue) BY <1>3 DEF Return, Passes
  <2>2. pos' # pos
    BY <1>1, <1>3 DEF Return, ReturnWith
  <2> QED BY <2>1, <2>2, ReportedStays
<1> QED BY <1>2, <1>3

\* Another thread that goes away from the layer shown.
LEMMA ReportedLeaves ==
  ASSUME TypeOK, Distinct(queue), Reported, NEW l \in Layers \ {"charge"}, ituLayerGoto(l),
         KeepsOpen, Orderly' => l = "finish" \/ ~InCharge
  PROVE  Reported'
<1>1. Passes(AfterGoto(queue, visible, l)) /\ visible' = l BY DEF ituLayerGoto, Shows, Passes
<1> QED BY <1>1, ReportedGoes

\* What the end of a stop does with the places of the threads.
LEMMA StopPlaces ==
  ASSUME TypeOK, NEW t \in Threads, GotoNextLayerOnCharge(t) \/ GoesOn(t),
         t # "cp" \/ pc["cp"] \notin {"idle", "finish"}
  PROVE  /\ pc'["status"] = "astray" => pc["status"] = "astray"
         /\ pc'["cp"] = "finish" => pc["cp"] = "finish"
         /\ pc["cp"] \in {"idle", "finish"} => pc'["cp"] = pc["cp"]
<1>1. PICK p \in {"idle", "unplugged", "passed", "parted"} : Goes(t, p)
  BY DEF GotoNextLayerOnCharge, GoesOn, Parts
<1> QED BY <1>1 DEF Goes, TypeOK, ThreadType

\* GotoNextLayerOnCharge, by any of the threads that end a charge.
LEMMA ReportedNext ==
  ASSUME TypeOK, Distinct(queue), Reported, NEW t \in Threads, GotoNextLayerOnCharge(t),
         t # "cp" \/ pc["cp"] \notin {"idle", "finish"},
         UNCHANGED <<listener, left, h>>, app_order' \in {app_order, CHARGING_STOP}
  PROVE  Reported'
<1>1. KeepsOpen BY StopPlaces DEF KeepsOpen, Open, Orderly, Reported
<1>2. CASE UNCHANGED scene
  <2>1. KeepsBegins /\ KeepsCharge
    BY <1>2, StopPlaces DEF KeepsBegins, KeepsCharge, InCharge, CHARGE_INPUT, CHARGING_STOP, scene
  <2> QED BY <1>1, <1>2, <2>1, ReportedRests
<1>3. CASE ituLayerGoto("finish") BY <1>1, <1>3, ReportedLeaves DEF Layers
<1> QED BY <1>2, <1>3 DEF GotoNextLayerOnCharge

\* So with the last part of a stop, and the reset of bLayerChargeFlg.
LEMMA ReportedStops ==
  ASSUME TypeOK, Distinct(queue), Reported, NEW t \in Threads,
         TSCT_ChargingStop(t) \/ LayerPassed(t)
  PROVE  Reported'
<1>1. CASE TSCT_ChargingStop(t)
  <2>1. /\ GotoNextLayerOnCharge(t) /\ pc[t] \notin {"idle", "finish"}
        /\ UNCHANGED <<listener, left, h>> /\ app_order' \in {app_order, CHARGING_STOP}
    BY <1>1 DEF TSCT_ChargingStop, pilot
  <2> QED BY <2>1, ReportedNext
<1>2. CASE LayerPassed(t)
  <2>1. /\ GoesOn(t) /\ pc[t] \notin {"idle", "finish"}
        /\ UNCHANGED <<scene, listener, left, h, app_order>>
    BY <1>2 DEF LayerPassed, Between, pilot
  <2>2. KeepsBegins /\ KeepsOpen /\ KeepsCharge
    BY <2>1, StopPlaces DEF KeepsBegins, KeepsOpen, KeepsCharge, InCharge, Open, Orderly,
       Reported, scene
  <2> QED BY <2>1, <2>2, ReportedRests
<1> QED BY <1>1, <1>2

\* The handler that stops a charge goes to the finish layer, or returns.
LEMMA ReportedDialog ==
  ASSUME TypeOK, Distinct(queue), Reported, ChargeStopOnDialog2 PROVE Reported'
<1>1. KeepsOpen /\ ~At("finish", "Enter", 1)
  BY DEF ChargeStopOnDialog2, Parts, Goes, At, KeepsOpen, Open, Orderly, Reported, TypeOK,
     ThreadType, Threads
<1>2. CASE bLayerChargeFlg
  <2>1. queue' = AfterGoto(queue, visible, "finish") /\ pos' = pos /\ visible' = "finish"
    BY <1>2 DEF ChargeStopOnDialog2, Shows
  <2>2. Passes(AfterGoto(queue, visible, "finish")) BY <1>1, <2>1 DEF Passes
  <2> QED BY <1>1, <2>1, <2>2, ReportedGoes DEF Layers
<1>3. CASE ~bLayerChargeFlg
  <2>1. Return /\ pos > 0 /\ KeepsBegins /\ KeepsCharge
    BY <1>3 DEF ChargeStopOnDialog2, At, Return, KeepsBegins, KeepsCharge, InCharge, pilot
  <2> QED BY <1>1, <2>1, ReportedHandles
<1> QED BY <1>2, <1>3

\* The session begins, its stop not yet raised: in the charge layer, or on the way to the finish
\* layer when the button is pressed.
LEMMA ReportedBegins ==
  ASSUME TypeOK, Distinct(queue), Reported, ChargeOnEnter PROVE Reported'
<1>1. /\ queue \in Seq(Handlers) /\ pos \in Nat /\ pos \in DOMAIN queue /\ visible \in Layers
      /\ At("charge", "Enter", 1) /\ queue[pos] = <<"charge", "Enter">> /\ Awaits("charge")
  <2>1. queue \in Seq(Handlers) /\ pos \in 0..Len(queue) /\ visible \in Layers
    BY DEF TypeOK, SceneType
  <2>2. At("charge", "Enter", 1) BY DEF ChargeOnEnter
  <2>3. pos > 0 /\ queue[pos] = <<"charge", "Enter">> /\ step = 1 BY <2>2 DEF At
  <2>4. pos \in Nat /\ pos \in DOMAIN queue BY <2>1, <2>3
  <2> QED BY <2>1, <2>2, <2>3, <2>4 DEF Awaits
<1>2. /\ Orderly' => Orderly /\ pc'["status"] # "astray"
      /\ pc'["cp"] = pc["cp"]
  BY DEF ChargeOnEnter, Parts, Goes, Orderly, Reported, TypeOK, ThreadType, Threads
<1>3. Open' => Straight BY DEF ChargeOnEnter, Open, NoHistory
<1>4. ASSUME Straight
      PROVE  visible = "charge" /\ listener' = "charge" /\ pc'["cp"] # "finish"
  <2>1. ~Listed("finish") BY <1>4 DEF Straight, Listed
  <2> QED BY <1>1, <1>2, <1>4, <2>1 DEF Straight, Reported, Begins, ChargeOnEnter, SetListener
<1>5. CASE EmgControl
  <2> DEFINE r == AfterGoto(queue, visible, "finish")
  <2>1. queue' = r /\ pos' = pos /\ visible' = "finish" BY <1>5 DEF ChargeOnEnter, Shows
  <2>2. Begins' BY <2>1 DEF Begins
  <2>3. ASSUME Straight PROVE Awaits("finish")'
    <3>1. \A i \in DOMAIN queue : queue[i] # <<"finish", "Enter">>
      BY <2>3 DEF Straight
    <3>2. r \in Seq(Handlers) /\ Len(r) > Len(queue) /\ r[Len(r)] = <<"finish", "Enter">>
      BY <1>1, <3>1, FinishAppended
    <3> HIDE DEF r
    <3>3. pos < Len(r) /\ Len(r) \in Nat /\ Len(r) \in DOMAIN r BY <1>1, <3>2
    <3>4. queue' = r /\ pos' < Len(r) BY <2>1, <3>3 DEF r
    <3> QED BY <3>2, <3>3, <3>4 DEF Awaits
  <2> QED BY <1>2, <1>3, <2>2, <2>3 DEF Reported
<1>6. CASE ~EmgControl
  <2>1. Return /\ visible' = visible BY <1>6 DEF ChargeOnEnter, Return
  <2>2. ~Awaits("charge")' BY <1>1, <2>1, EnterBegun DEF Layers
  <2>3. Begins' BY <2>2 DEF Begins
  <2>4. ASSUME Straight PROVE InCharge'
    <3>1. Quiet'
      <4>1. queue' = <<>> BY <1>1, <2>1, <2>4 DEF Straight, Return, ReturnWith
      <4> QED BY <4>1 DEF Quiet
    <3>2. app_order' \in CHARGE_INPUT..CHARGING_STOP
      BY DEF ChargeOnEnter, CHARGE_READY, CHARGE_INPUT, CHARGING_STOP
    <3> QED BY <1>2, <1>4, <2>1, <2>4, <3>1, <3>2 DEF InCharge
  <2> QED BY <1>2, <1>3, <2>3, <2>4 DEF Reported
<1> QED BY <1>5, <1>6

\* The finish layer raises StopTransaction.
LEMMA ReportedCounts ==
  ASSUME TypeOK, Distinct(queue), Reported, Ch2FinishOnEnter1 PROVE Reported'
<1>1. /\ At("finish", "Enter", 1) /\ Sleep(2) /\ listener' = "finish"
      /\ pc' = pc /\ visible' = visible /\ queue' = queue /\ pos' = pos /\ step' = 2
  BY DEF Ch2FinishOnEnter1, SetListener, Sleep
<1>2. Listed("finish")'
  <2>1. pos \in DOMAIN queue /\ queue[pos] = <<"finish", "Enter">>
    BY <1>1 DEF At, TypeOK, SceneType
  <2> QED BY <1>1, <2>1 DEF Listed
<1>3. Awaits("charge")' => Awaits("charge") BY <1>1 DEF Awaits
<1>4. Begins' BY <1>1, <1>2, <1>3 DEF Begins, Reported
<1>5. ~Open' BY DEF Ch2FinishOnEnter1, Open, TypeOK, ThreadType, Histories
<1>6. Orderly' => pc'["status"] # "astray" BY <1>1 DEF Ch2FinishOnEnter1, Orderly, Reported
<1> QED BY <1>4, <1>5, <1>6 DEF Reported

\* 9 V in the connect layer: the listener is its own, no 6 V call is under way.
LEMMA ReportedCharges ==
  ASSUME TypeOK, Distinct(queue), Reported, CPListenerOnConnect PROVE Reported'
<1> DEFINE r == AfterGoto(queue, visible, "charge")
<1>1. /\ ituLayerGoto("charge") /\ listener = "connect" /\ listener' = "connect"
      /\ pc["cp"] = "idle" /\ pc' = pc /\ h' = h
  BY DEF CPListenerOnConnect, GotoFrom, CPChanged
<1>2. Begins' BY <1>1 DEF Begins
<1>3. Orderly' => Orderly
  BY DEF CPListenerOnConnect, GotoFrom, Spend, CanSpend, Orderly, TypeOK, DataType, Budgets
<1>4. ASSUME Awaits("finish") PROVE Awaits("finish")'
  <2>1. r \in Seq(Handlers) /\ Grows(queue, r, "charge")
    BY GotoGrows DEF TypeOK, SceneType, Layers
  <2>2. Passes(r) BY <1>1 DEF ituLayerGoto, Shows, Passes
  <2> HIDE DEF r
  <2> QED BY <1>4, <2>1, <2>2, FinishWaits DEF Layers
<1>5. ~InCharge BY <1>1 DEF InCharge
<1> QED BY <1>1, <1>2, <1>3, <1>4, <1>5 DEF Reported, Open

\* A flush begins, a boot, a press on the screen of the charge layer.
LEMMA ReportedScreen ==
  ASSUME TypeOK, Distinct(queue), Reported,
         ituFlushActionQueue \/ Reboots \/ ChargeStopOnPress
  PROVE  Reported'
<1>1. CASE ituFlushActionQueue
  <2>1. /\ queue' = queue /\ pos = 0 /\ pos' = 1 /\ step' = 1
        /\ UNCHANGED <<visible, listener, pc, h, left, app_order>>
    BY <1>1 DEF ituFlushActionQueue, pilot
  <2>2. KeepsBegins /\ KeepsOpen /\ KeepsCharge
    BY <2>1 DEF KeepsBegins, KeepsOpen, KeepsCharge, InCharge, Open, Orderly, Reported
  <2>3. Passes(queue) BY <2>1 DEF Passes
  <2> QED BY <2>1, <2>2, <2>3, ReportedStays
<1>2. CASE Reboots
  <2>1. visible' = "main" /\ ~h'.straight /\ pc'["status"] = "idle"
    BY <1>2 DEF Reboots, NoHistory, Threads
  <2> QED BY <2>1 DEF Reported, Begins, Open
<1>3. CASE ChargeStopOnPress
  <2>1. /\ queue = <<>> /\ queue' = << <<"charge", "Stop">> >>
        /\ UNCHANGED <<visible, pos, step, listener, pc, h, left, app_order>>
    BY <1>3 DEF ChargeStopOnPress, pilot
  <2>2. DOMAIN queue' = {1} /\ queue'[1] = <<"charge", "Stop">> BY <2>1
  <2>3. ~Awaits("charge")' /\ Quiet' BY <2>2 DEF Awaits, Quiet
  <2>4. ~Awaits("finish") BY <2>1 DEF Awaits
  <2> QED BY <2>1, <2>3, <2>4 DEF Reported, Begins, Open, InCharge, Orderly
<1> QED BY <1>1, <1>2, <1>3

\* A goto issued for the layer shown: no stray.
LEMMA GotoOfShown ==
  ASSUME TypeOK, NEW l, NEW to, GotoFrom(l, to), Orderly' PROVE Orderly /\ visible = l
BY DEF TypeOK, DataType, Budgets, GotoFrom, Spend, CanSpend, Orderly

\* The timers of the other layers.
LEMMA ReportedTimer == ASSUME TypeOK, Distinct(queue), Reported, TimerFires PROVE Reported'
<1>1. /\ pc' = pc /\ h' = h /\ listener' = listener
      /\ timer = "disconnect" \/ app_order' = app_order
      /\ TimerLayer(timer) \in {"cardwait", "connect", "disconnect"}
  BY DEF TimerFires, pilot, TimerLayer
<1>2. CASE timer = "card" /\ ~toStart
  <2>1. UNCHANGED <<scene, left>> BY <1>2 DEF TimerFires
  <2>2. KeepsBegins /\ KeepsOpen /\ KeepsCharge
    BY <1>1, <1>2, <2>1
    DEF KeepsBegins, KeepsOpen, KeepsCharge, InCharge, Open, Orderly, Reported, scene
  <2> QED BY <2>1, <2>2, ReportedRests
<1>3. CASE ~(timer = "card" /\ ~toStart)
  <2>1. GotoFrom(TimerLayer(timer), "main") BY <1>3 DEF TimerFires
  <2>2. Orderly' => Orderly /\ visible = TimerLayer(timer) BY <2>1, GotoOfShown
  <2>3. KeepsOpen /\ (Orderly' => ~InCharge)
    BY <1>1, <2>2 DEF KeepsOpen, Open, Reported, InCharge
  <2> QED BY <2>1, <2>3, ReportedLeaves DEF GotoFrom, Layers
<1> QED BY <1>2, <1>3

\* The card-wait task goes on, or home.
LEMMA ReportedWait == ASSUME TypeOK, Distinct(queue), Reported, WaitGoes PROVE Reported'
<1>1. /\ pc'["cp"] = pc["cp"] /\ pc'["status"] = pc["status"]
      /\ UNCHANGED <<h, listener, app_order>>
  BY DEF WaitGoes, Goes, pilot, TypeOK, ThreadType, Threads
<1>2. CASE UNCHANGED <<scene, left>>
  <2>1. KeepsBegins /\ KeepsOpen /\ KeepsCharge
    BY <1>1, <1>2
    DEF KeepsBegins, KeepsOpen, KeepsCharge, InCharge, Open, Orderly, Reported, scene
  <2> QED BY <1>2, <2>1, ReportedRests
<1>3. ASSUME NEW l \in {"connect", "main"}, GotoFrom("cardwait", l) PROVE Reported'
  <2>1. Orderly' => Orderly /\ visible = "cardwait" BY <1>3, GotoOfShown
  <2>2. KeepsOpen /\ (Orderly' => ~InCharge)
    BY <1>1, <2>1 DEF KeepsOpen, Open, Reported, InCharge
  <2> QED BY <1>3, <2>2, ReportedLeaves DEF GotoFrom, Layers
<1> QED BY <1>2, <1>3 DEF WaitGoes

\* The status task starts a session for the server.
LEMMA ReportedRemote == ASSUME TypeOK, Distinct(queue), Reported, RemoteStartGoes PROVE Reported'
<1>1. /\ pc'["cp"] = pc["cp"] /\ pc'["status"] = "idle" /\ h' = h
      /\ ituLayerGoto("cardwait")
  BY DEF RemoteStartGoes, GotoFrom, Goes, TypeOK, ThreadType, Threads
<1>2. Orderly' => Orderly /\ visible = "main"
  <2>1. CASE pc["status"] = "remote"
    <3>1. GotoFrom("main", "cardwait") BY <2>1 DEF RemoteStartGoes
    <3> QED BY <3>1, GotoOfShown
  <2>2. CASE pc["status"] # "remote" BY <2>2 DEF RemoteStartGoes, Reported, Orderly
  <2> QED BY <2>1, <2>2
<1>3. KeepsOpen /\ (Orderly' => ~InCharge)
  BY <1>1, <1>2 DEF KeepsOpen, Open, Reported, InCharge
<1> QED BY <1>1, <1>3, ReportedLeaves DEF Layers

\* The button is pressed: a charge layer is left for the finish layer, any other for the main.
LEMMA ReportedPress == ASSUME TypeOK, Distinct(queue), Reported, EmbPressed PROVE Reported'
<1>1. /\ UNCHANGED <<pc, left, listener>> /\ h'.straight = h.straight /\ h'.stops = h.stops
  BY DEF EmbPressed, pilot, TypeOK, ThreadType, Histories
<1>2. KeepsOpen BY <1>1 DEF KeepsOpen, Open, Reported, Orderly
<1>3. CASE ituLayerGoto("finish") BY <1>2, <1>3, ReportedLeaves DEF Layers
<1>4. CASE ituLayerGoto("main") /\ app_order \notin CHARGE_INPUT..CHARGING_STOP
  BY <1>2, <1>4, ReportedLeaves DEF InCharge, Layers
<1>5. CASE UNCHANGED <<app_order, scene>>
  <2>1. KeepsBegins /\ KeepsCharge
    BY <1>1, <1>5 DEF KeepsBegins, KeepsCharge, InCharge, scene
  <2> QED BY <1>2, <1>5, <2>1, ReportedRests
<1>6. \/ ituLayerGoto("finish")
      \/ ituLayerGoto("main") /\ app_order \notin CHARGE_INPUT..CHARGING_STOP
      \/ UNCHANGED <<app_order, scene>>
  BY DEF EmbPressed, WAIT, PAYMENT_METHOD, FINISH, CHARGE_INPUT, CHARGING_STOP, TypeOK, DataType
<1> QED BY <1>3, <1>4, <1>5, <1>6

\* Every step keeps the way to the report: the scene thread.
LEMMA ReportedSceneThread ==
  ASSUME TypeOK, Distinct(queue), Reported, SceneThread PROVE Reported'
<1>1. CASE ituFlushActionQueue BY <1>1, ReportedScreen
<1>2. CASE HandlerReturns
  <2>1. /\ Return
        /\ pos > 0 /\ ~At("finish", "Enter", 1) /\ visible' = visible
    BY <1>2 DEF HandlerReturns, Return, At
  <2>2. KeepsBegins /\ KeepsOpen /\ KeepsCharge
    BY <1>2, <2>1 DEF HandlerReturns, pilot, Reported, KeepsBegins, KeepsOpen, KeepsCharge,
       InCharge, Open, Orderly
  <2> QED BY <2>1, <2>2, ReportedHandles
<1>3. CASE MainOnEnter1
  <2>1. ~InCharge BY <1>3, QuietRuns DEF MainOnEnter1, InCharge
  <2>2. /\ Sleep(2) \/ Sleep(3)
        /\ pos > 0 /\ ~At("finish", "Enter", 1) /\ visible' = visible
    BY <1>3 DEF MainOnEnter1, Sleep, At
  <2>3. KeepsBegins /\ KeepsOpen /\ KeepsCharge
    BY <1>3, <2>1, <2>2 DEF MainOnEnter1, Reported, KeepsBegins, KeepsOpen, KeepsCharge, Open,
       Orderly, SetListener
  <2> QED BY <2>2, <2>3, ReportedHandles
<1>4. CASE MainOnEnter2
  <2>1. ~InCharge BY <1>4, QuietRuns DEF MainOnEnter2, InCharge
  <2>2. /\ Return
        /\ pos > 0 /\ ~At("finish", "Enter", 1) /\ visible' = visible
    BY <1>4 DEF MainOnEnter2, Return, At
  <2>3. KeepsBegins /\ KeepsOpen /\ KeepsCharge
    BY <1>4, <2>1, <2>2 DEF MainOnEnter2, MagneticContactorOff, pilot, Reported, KeepsBegins,
       KeepsOpen, KeepsCharge, Open, Orderly
  <2> QED BY <2>2, <2>3, ReportedHandles
<1>5. CASE MainOnLeave
  <2>1. /\ Return
        /\ pos > 0 /\ ~At("finish", "Enter", 1) /\ visible' = visible
    BY <1>5 DEF MainOnLeave, Return, At
  <2>2. KeepsBegins /\ KeepsOpen /\ KeepsCharge
    BY <1>5, <2>1 DEF MainOnLeave, pilot, Reported, KeepsBegins, KeepsOpen, KeepsCharge, InCharge,
       Open, Orderly
  <2> QED BY <2>1, <2>2, ReportedHandles
<1>6. CASE CardWaitEnter
  <2>1. ~InCharge BY <1>6, QuietRuns DEF CardWaitEnter, InCharge
  <2>2. /\ Return
        /\ pos > 0 /\ ~At("finish", "Enter", 1) /\ visible' = visible
    BY <1>6 DEF CardWaitEnter, Return, At
  <2>3. KeepsBegins /\ KeepsOpen /\ KeepsCharge
    BY <1>6, <2>1, <2>2 DEF CardWaitEnter, pilot, Reported, KeepsBegins, KeepsOpen, KeepsCharge,
       Open, Orderly
  <2> QED BY <2>2, <2>3, ReportedHandles
<1>7. CASE CardWaitLeave1
  <2>1. /\ Sleep(2) \/ Sleep(3)
        /\ pos > 0 /\ ~At("finish", "Enter", 1) /\ visible' = visible
    BY <1>7 DEF CardWaitLeave1, Sleep, At
  <2>2. KeepsBegins /\ KeepsOpen /\ KeepsCharge
    BY <1>7, <2>1 DEF CardWaitLeave1, pilot, Reported, KeepsBegins, KeepsOpen, KeepsCharge,
       InCharge, Open, Orderly
  <2> QED BY <2>1, <2>2, ReportedHandles
<1>8. CASE ConnectOnEnter1
  <2>1. ~InCharge BY <1>8, QuietRuns DEF ConnectOnEnter1, InCharge
  <2>2. /\ Sleep(2) \/ Sleep(3)
        /\ pos > 0 /\ ~At("finish", "Enter", 1) /\ visible' = visible
    BY <1>8 DEF ConnectOnEnter1, Sleep, At
  <2>3. KeepsBegins /\ KeepsOpen /\ KeepsCharge
    BY <1>8, <2>1, <2>2 DEF ConnectOnEnter1, pilot, Reported, KeepsBegins, KeepsOpen, KeepsCharge,
       Open, Orderly
  <2> QED BY <2>2, <2>3, ReportedHandles
<1>9. CASE ConnectOnEnter2
  <2>1. ~InCharge BY <1>9, QuietRuns DEF ConnectOnEnter2, InCharge
  <2>2. /\ Return
        /\ pos > 0 /\ ~At("finish", "Enter", 1) /\ visible' = visible
    BY <1>9 DEF ConnectOnEnter2, Return, At
  <2>3. KeepsBegins /\ KeepsOpen /\ KeepsCharge
    BY <1>9, <2>1, <2>2 DEF ConnectOnEnter2, Reported, KeepsBegins, KeepsOpen, KeepsCharge, Open,
       Orderly, SetListener
  <2> QED BY <2>2, <2>3, ReportedHandles
<1>10. CASE ConnectOnLeave1
  <2>1. /\ Sleep(2) \/ Sleep(3)
        /\ pos > 0 /\ ~At("finish", "Enter", 1) /\ visible' = visible
    BY <1>10 DEF ConnectOnLeave1, Sleep, At
  <2>2. KeepsBegins /\ KeepsOpen /\ KeepsCharge
    BY <1>10, <2>1 DEF ConnectOnLeave1, pilot, Reported, KeepsBegins, KeepsOpen, KeepsCharge,
       InCharge, Open, Orderly
  <2> QED BY <2>1, <2>2, ReportedHandles
<1>11. CASE ChargeOnEnter BY <1>11, ReportedBegins
<1>12. CASE ChargeOnLeave1
  <2>1. /\ Sleep(2) \/ Sleep(3)
        /\ pos > 0 /\ ~At("finish", "Enter", 1) /\ visible' = visible
    BY <1>12 DEF ChargeOnLeave1, Sleep, At
  <2>2. KeepsBegins /\ KeepsOpen /\ KeepsCharge
    BY <1>12, <2>1 DEF ChargeOnLeave1, pilot, Reported, KeepsBegins, KeepsOpen, KeepsCharge,
       InCharge, Open, Orderly
  <2> QED BY <2>1, <2>2, ReportedHandles
<1>13. CASE ChargeOnLeave2
  <2>1. /\ Sleep(2) \/ Sleep(3)
        /\ pos > 0 /\ ~At("finish", "Enter", 1) /\ visible' = visible
    BY <1>13 DEF ChargeOnLeave2, Sleep, At
  <2>2. KeepsBegins /\ KeepsOpen /\ KeepsCharge
    BY <1>13, <2>1 DEF ChargeOnLeave2, pilot, Reported, KeepsBegins, KeepsOpen, KeepsCharge,
       InCharge, Open, Orderly
  <2> QED BY <2>1, <2>2, ReportedHandles
<1>14. CASE ChargeStopOnDialog1
  <2>1. /\ Sleep(2) \/ Sleep(3)
        /\ pos > 0 /\ ~At("finish", "Enter", 1) /\ visible' = visible
    BY <1>14 DEF ChargeStopOnDialog1, Sleep, At
  <2>2. KeepsBegins /\ KeepsOpen /\ KeepsCharge
    BY <1>14, <2>1 DEF ChargeStopOnDialog1, MagneticContactorOff, pilot, Reported, KeepsBegins,
       KeepsOpen, KeepsCharge, InCharge, Open, Orderly, TypeOK, ThreadType, Histories,
       CHARGE_INPUT, CHARGING_STOP
  <2> QED BY <2>1, <2>2, ReportedHandles
<1>15. CASE ChargeStopOnDialog2 BY <1>15, ReportedDialog
<1>16. CASE Ch2FinishOnEnter1 BY <1>16, ReportedCounts
<1>17. CASE Ch2FinishOnLeave
  <2>1. /\ Return
        /\ pos > 0 /\ ~At("finish", "Enter", 1) /\ visible' = visible
    BY <1>17 DEF Ch2FinishOnLeave, StopForgotten, Return, At
  <2>2. KeepsBegins /\ KeepsOpen /\ KeepsCharge
    BY <1>17, <2>1 DEF Ch2FinishOnLeave, StopForgotten, pilot, Reported, KeepsBegins, KeepsOpen,
       KeepsCharge, InCharge, Open, Orderly
  <2> QED BY <2>1, <2>2, ReportedHandles
<1>18. CASE DisconnectOnEnter
  <2>1. ~InCharge BY <1>18, QuietRuns DEF DisconnectOnEnter, InCharge
  <2>2. /\ Return
        /\ pos > 0 /\ ~At("finish", "Enter", 1) /\ visible' = visible
    BY <1>18 DEF DisconnectOnEnter, Return, At
  <2>3. KeepsBegins /\ KeepsOpen /\ KeepsCharge
    BY <1>18, <2>1, <2>2 DEF DisconnectOnEnter, Reported, KeepsBegins, KeepsOpen, KeepsCharge,
       Open, Orderly, SetListener
  <2> QED BY <2>2, <2>3, ReportedHandles
<1>19. CASE HandlerParts
  <2>1. /\ Return
        /\ pos > 0 /\ ~At("finish", "Enter", 1) /\ visible' = visible
    BY <1>19 DEF HandlerParts, Return, At
  <2>2. KeepsBegins /\ KeepsOpen /\ KeepsCharge
    BY <1>19, <2>1 DEF HandlerParts, Goes, pilot, Reported, KeepsBegins, KeepsOpen, KeepsCharge,
       InCharge, Open, Orderly, TypeOK, ThreadType, Threads
  <2> QED BY <2>1, <2>2, ReportedHandles
<1> QED BY <1>1, <1>2, <1>3, <1>4, <1>5, <1>6, <1>7, <1>8, <1>9, <1>10, <1>11, <1>12, <1>13, <1>14,
    <1>15, <1>16, <1>17, <1>18, <1>19 DEF SceneThread

\* Every step keeps the way to the report: the control pilot thread.
LEMMA ReportedPilotThread ==
  ASSUME TypeOK, Distinct(queue), Reported, PilotThread PROVE Reported'
<1>1. CASE CPListenerOnAhead
  <2>1. UNCHANGED scene /\ KeepsBegins /\ KeepsOpen /\ KeepsCharge
    BY <1>1 DEF CPListenerOnAhead, CPChanged, Reported, KeepsBegins, KeepsOpen, KeepsCharge,
       InCharge, Open, Orderly, scene
  <2> QED BY <2>1, ReportedRests
<1>2. CASE CPListenerOnConnect BY <1>2, ReportedCharges
<1>3. CASE CPListenerOnFinish
  <2>1. UNCHANGED scene /\ KeepsBegins /\ KeepsOpen /\ KeepsCharge
    BY <1>3 DEF CPListenerOnFinish, Goes, CPChanged, Reported, KeepsBegins, KeepsOpen, KeepsCharge,
       InCharge, Open, Orderly, scene
  <2> QED BY <2>1, ReportedRests
<1>4. CASE CPFinished
  <2>1. KeepsOpen /\ ituLayerGoto("main") /\ ~InCharge
    BY <1>4 DEF CPFinished, Goes, Reported, KeepsBegins, KeepsOpen, KeepsCharge, InCharge, Open,
       Orderly
  <2> QED BY <2>1, ReportedLeaves DEF Layers
<1>5. CASE CPListenerOnDisconnect
  <2>1. KeepsOpen /\ ituLayerGoto("main") /\ ~InCharge
    BY <1>5 DEF CPListenerOnDisconnect, CPChanged, Reported, KeepsBegins, KeepsOpen, KeepsCharge,
       InCharge, Open, Orderly
  <2> QED BY <2>1, ReportedLeaves DEF Layers
<1>6. CASE CPIgnored
  <2>1. UNCHANGED scene /\ KeepsBegins /\ KeepsOpen /\ KeepsCharge
    BY <1>6 DEF CPIgnored, CPChanged, Reported, KeepsBegins, KeepsOpen, KeepsCharge, InCharge,
       Open, Orderly, scene
  <2> QED BY <2>1, ReportedRests
<1>7. CASE CPUnplugged
  <2>1. UNCHANGED scene /\ KeepsBegins /\ KeepsOpen /\ KeepsCharge
    BY <1>7 DEF CPUnplugged, MagneticContactorOff, Goes, CPChanged, Reported, KeepsBegins,
       KeepsOpen, KeepsCharge, InCharge, Open, Orderly, TypeOK, ThreadType, Threads, Histories,
       CHARGE_INPUT, CHARGING_STOP, scene
  <2> QED BY <2>1, ReportedRests
<1>8. CASE CPUnplugStop
  <2>1. /\ GotoNextLayerOnCharge("cp") /\ pc["cp"] \notin {"idle", "finish"}
        /\ UNCHANGED <<listener, left, h>> /\ app_order' \in {app_order, CHARGING_STOP}
    BY <1>8 DEF CPUnplugStop, pilot
  <2> QED BY <2>1, ReportedNext DEF Threads
<1>9. CASE CPUnplugEnd
  <2>1. CASE GotoNextLayerOnCharge("cp") /\ UNCHANGED h
    <3>1. pc["cp"] \notin {"idle", "finish"} /\ UNCHANGED <<listener, left>> /\ app_order' \in {app_order, CHARGING_STOP}
      BY <1>9 DEF CPUnplugEnd, pilot
    <3> QED BY <2>1, <3>1, ReportedNext DEF Threads
  <2>2. CASE MagneticContactorOff /\ Goes("cp", "stop") /\ UNCHANGED scene
    <3>1. KeepsBegins /\ KeepsOpen /\ KeepsCharge
      BY <1>9, <2>2 DEF CPUnplugEnd, MagneticContactorOff, Goes, pilot, Reported, KeepsBegins,
         KeepsOpen, KeepsCharge, InCharge, Open, Orderly, TypeOK, ThreadType, Threads, Histories,
         scene
    <3> QED BY <2>2, <3>1, ReportedRests
  <2> QED BY <1>9, <2>1, <2>2 DEF CPUnplugEnd
<1>10. CASE CPPaused
  <2>1. UNCHANGED scene /\ KeepsBegins /\ KeepsOpen /\ KeepsCharge
    BY <1>10 DEF CPPaused, MagneticContactorOff, CPChanged, Reported, KeepsBegins, KeepsOpen,
       KeepsCharge, InCharge, Open, Orderly, scene
  <2> QED BY <2>1, ReportedRests
<1>11. CASE CPUnknown
  <2>1. UNCHANGED scene /\ KeepsBegins /\ KeepsOpen /\ KeepsCharge
    BY <1>11 DEF CPUnknown, CPChanged, Reported, KeepsBegins, KeepsOpen, KeepsCharge, InCharge,
       Open, Orderly, scene
  <2> QED BY <2>1, ReportedRests
<1>12. CASE CPRequested
  <2>1. UNCHANGED scene /\ KeepsBegins /\ KeepsOpen /\ KeepsCharge
    BY <1>12 DEF CPRequested, Goes, CPChanged, Reported, KeepsBegins, KeepsOpen, KeepsCharge,
       InCharge, Open, Orderly, scene
  <2> QED BY <2>1, ReportedRests
<1>13. CASE CPStart
  <2>1. UNCHANGED scene /\ KeepsBegins /\ KeepsOpen /\ KeepsCharge
    BY <1>13 DEF CPStart, Goes, pilot, Reported, KeepsBegins, KeepsOpen, KeepsCharge, InCharge,
       Open, Orderly, CHARGE_INPUT, CHARGING, CHARGING_STOP, scene
  <2> QED BY <2>1, ReportedRests
<1>14. CASE CPStarted
  <2>1. UNCHANGED scene /\ KeepsBegins /\ KeepsOpen /\ KeepsCharge
    BY <1>14 DEF CPStarted, Goes, pilot, Reported, KeepsBegins, KeepsOpen, KeepsCharge, InCharge,
       Open, Orderly, scene
  <2> QED BY <2>1, ReportedRests
<1>15. CASE CPResume
  <2>1. UNCHANGED scene /\ KeepsBegins /\ KeepsOpen /\ KeepsCharge
    BY <1>15 DEF CPResume, Goes, pilot, Reported, KeepsBegins, KeepsOpen, KeepsCharge, InCharge,
       Open, Orderly, scene
  <2> QED BY <2>1, ReportedRests
<1>16. CASE TSCT_ChargingStop("cp") BY <1>16, ReportedStops DEF Threads
<1>17. CASE LayerPassed("cp") BY <1>17, ReportedStops DEF Threads
<1> QED BY <1>1, <1>2, <1>3, <1>4, <1>5, <1>6, <1>7, <1>8, <1>9, <1>10, <1>11, <1>12, <1>13, <1>14,
    <1>15, <1>16, <1>17 DEF PilotThread

\* Every step keeps the way to the report: the emergency button thread.
LEMMA ReportedEmbThread ==
  ASSUME TypeOK, Distinct(queue), Reported, EmbThread PROVE Reported'
<1>1. CASE EmbPressed BY <1>1, ReportedPress
<1>2. CASE EmbReleased
  <2>1. UNCHANGED scene /\ KeepsBegins /\ KeepsOpen /\ KeepsCharge
    BY <1>2 DEF EmbReleased, pilot, Reported, KeepsBegins, KeepsOpen, KeepsCharge, InCharge, Open,
       Orderly, scene
  <2> QED BY <2>1, ReportedRests
<1> QED BY <1>1, <1>2 DEF EmbThread

\* Every step keeps the way to the report: the monitoring task and the card listener.
LEMMA ReportedStopperThread ==
  ASSUME TypeOK, Distinct(queue), Reported, StopperThread PROVE Reported'
<1>1. CASE LocalStop
  <2>1. UNCHANGED scene /\ KeepsBegins /\ KeepsOpen /\ KeepsCharge
    BY <1>1 DEF LocalStop, StopBegins, MagneticContactorOff, Goes, pilot, Reported, KeepsBegins,
       KeepsOpen, KeepsCharge, InCharge, Open, Orderly, scene
  <2> QED BY <2>1, ReportedRests
<1>2. CASE RemoteStopSeen
  <2>1. UNCHANGED scene /\ KeepsBegins /\ KeepsOpen /\ KeepsCharge
    BY <1>2 DEF RemoteStopSeen, StopBegins, MagneticContactorOff, Goes, pilot, Reported,
       KeepsBegins, KeepsOpen, KeepsCharge, InCharge, Open, Orderly, scene
  <2> QED BY <2>1, ReportedRests
<1>3. CASE TSCT_ChargingStop("stopper") BY <1>3, ReportedStops DEF Threads
<1>4. CASE LayerPassed("stopper") BY <1>4, ReportedStops DEF Threads
<1>5. CASE SuspendsEvse
  <2>1. UNCHANGED scene /\ KeepsBegins /\ KeepsOpen /\ KeepsCharge
    BY <1>5 DEF SuspendsEvse, pilot, Reported, KeepsBegins, KeepsOpen, KeepsCharge, InCharge, Open,
       Orderly, scene
  <2> QED BY <2>1, ReportedRests
<1> QED BY <1>1, <1>2, <1>3, <1>4, <1>5 DEF StopperThread

\* Every step keeps the way to the report: the fault monitoring task.
LEMMA ReportedFaultThread ==
  ASSUME TypeOK, Distinct(queue), Reported, FaultThread PROVE Reported'
<1>1. CASE FaultStops
  <2>1. UNCHANGED scene /\ KeepsBegins /\ KeepsOpen /\ KeepsCharge
    BY <1>1 DEF FaultStops, StopBegins, MagneticContactorOff, Goes, Spend, CanSpend, Budgets,
       pilot, Reported, KeepsBegins, KeepsOpen, KeepsCharge, InCharge, Open, Orderly, scene
  <2> QED BY <2>1, ReportedRests
<1>2. CASE FaultSeen
  <2>1. UNCHANGED scene /\ KeepsBegins /\ KeepsOpen /\ KeepsCharge
    BY <1>2 DEF FaultSeen, Spend, CanSpend, Budgets, pilot, Reported, KeepsBegins, KeepsOpen,
       KeepsCharge, InCharge, Open, Orderly, scene
  <2> QED BY <2>1, ReportedRests
<1>3. CASE TSCT_ChargingStop("fault") BY <1>3, ReportedStops DEF Threads
<1>4. CASE LayerPassed("fault") BY <1>4, ReportedStops DEF Threads
<1> QED BY <1>1, <1>2, <1>3, <1>4 DEF FaultThread

\* Every step keeps the way to the report: the order sequence task.
LEMMA ReportedOrderThread ==
  ASSUME TypeOK, Distinct(queue), Reported, OrderThread PROVE Reported'
<1>1. CASE OrderSeesPause
  <2>1. UNCHANGED scene /\ KeepsBegins /\ KeepsOpen /\ KeepsCharge
    BY <1>1 DEF OrderSeesPause, Goes, pilot, Reported, KeepsBegins, KeepsOpen, KeepsCharge,
       InCharge, Open, Orderly, scene
  <2> QED BY <2>1, ReportedRests
<1>2. CASE OrderDecides
  <2>1. UNCHANGED scene /\ KeepsBegins /\ KeepsOpen /\ KeepsCharge
    BY <1>2 DEF OrderDecides, MagneticContactorOff, Goes, pilot, Reported, KeepsBegins, KeepsOpen,
       KeepsCharge, InCharge, Open, Orderly, TypeOK, ThreadType, Threads, Histories, CHARGE_INPUT,
       CHARGING_STOP, scene
  <2> QED BY <2>1, ReportedRests
<1>3. CASE OrderStops
  <2>1. /\ GotoNextLayerOnCharge("order") /\ pc["order"] \notin {"idle", "finish"}
        /\ UNCHANGED <<listener, left, h>> /\ app_order' \in {app_order, CHARGING_STOP}
    BY <1>3 DEF OrderStops, pilot
  <2> QED BY <2>1, ReportedNext DEF Threads
<1>4. CASE LayerPassed("order") BY <1>4, ReportedStops DEF Threads
<1> QED BY <1>1, <1>2, <1>3, <1>4 DEF OrderThread

\* Every step keeps the way to the report: the top timer.
LEMMA ReportedTopTimer ==
  ASSUME TypeOK, Distinct(queue), Reported, TopTimer PROVE Reported'
<1>1. CASE TimerFires BY <1>1, ReportedTimer
<1>2. CASE ChargeTimerFires
  <2>1. CASE GotoNextLayerOnCharge("top") /\ UNCHANGED h
    <3>1. UNCHANGED <<listener, left>> /\ app_order' \in {app_order, CHARGING_STOP}
      BY <1>2 DEF ChargeTimerFires, pilot
    <3> QED BY <2>1, <3>1, ReportedNext DEF Threads
  <2>2. CASE MagneticContactorOff /\ Goes("top", "stop") /\ UNCHANGED scene
    <3>1. KeepsBegins /\ KeepsOpen /\ KeepsCharge
      BY <1>2, <2>2 DEF ChargeTimerFires, MagneticContactorOff, Goes, pilot, Reported, KeepsBegins,
         KeepsOpen, KeepsCharge, InCharge, Open, Orderly, TypeOK, ThreadType, Threads, Histories,
         scene
    <3> QED BY <2>2, <3>1, ReportedRests
  <2> QED BY <1>2, <2>1, <2>2 DEF ChargeTimerFires
<1>3. CASE TSCT_ChargingStop("top") BY <1>3, ReportedStops DEF Threads
<1>4. CASE LayerPassed("top") BY <1>4, ReportedStops DEF Threads
<1> QED BY <1>1, <1>2, <1>3, <1>4 DEF TopTimer

\* Every step keeps the way to the report: the card-wait task.
LEMMA ReportedWaitThread ==
  ASSUME TypeOK, Distinct(queue), Reported, WaitThread PROVE Reported'
<1>1. CASE WaitGoes BY <1>1, ReportedWait
<1>2. CASE \E r \in {"ok", "fail"} : WaitAnswered(r)
  <2>1. UNCHANGED scene /\ KeepsBegins /\ KeepsOpen /\ KeepsCharge
    BY <1>2 DEF WaitAnswered, Goes, pilot, Reported, KeepsBegins, KeepsOpen, KeepsCharge, InCharge,
       Open, Orderly, scene
  <2> QED BY <2>1, ReportedRests
<1> QED BY <1>1, <1>2 DEF WaitThread

\* Every step keeps the way to the report: the status task.
LEMMA ReportedStatusThread ==
  ASSUME TypeOK, Distinct(queue), Reported, StatusThread PROVE Reported'
<1>1. CASE RemoteStartSeen
  <2>1. UNCHANGED scene /\ KeepsBegins /\ KeepsOpen /\ KeepsCharge
    BY <1>1 DEF RemoteStartSeen, Goes, pilot, KeepsBegins, KeepsOpen, KeepsCharge, InCharge, Open,
       Orderly, TypeOK, ThreadType, DataType, Threads, Spend, CanSpend, Budgets, scene
  <2> QED BY <2>1, ReportedRests
<1>2. CASE RemoteStartGoes BY <1>2, ReportedRemote
<1>3. CASE ResetSeen
  <2>1. UNCHANGED scene /\ KeepsBegins /\ KeepsOpen /\ KeepsCharge
    BY <1>3 DEF ResetSeen, StopBegins, MagneticContactorOff, Goes, pilot, KeepsBegins, KeepsOpen,
       KeepsCharge, InCharge, Open, Orderly, scene
  <2> QED BY <2>1, ReportedRests
<1>4. CASE Reboots BY <1>4, ReportedScreen
<1>5. CASE TSCT_ChargingStop("status") BY <1>5, ReportedStops DEF Threads
<1>6. CASE LayerPassed("status") BY <1>6, ReportedStops DEF Threads
<1> QED BY <1>1, <1>2, <1>3, <1>4, <1>5, <1>6 DEF StatusThread

\* Every step keeps the way to the report: the OCPP client.
LEMMA ReportedClient ==
  ASSUME TypeOK, Distinct(queue), Reported, Client PROVE Reported'
<1>1. CASE DataProcCmd_RmStart
  <2>1. UNCHANGED scene /\ KeepsBegins /\ KeepsOpen /\ KeepsCharge
    BY <1>1 DEF DataProcCmd_RmStart, Asks, pilot, Reported, KeepsBegins, KeepsOpen, KeepsCharge,
       InCharge, Open, Orderly, Spend, CanSpend, Budgets, scene
  <2> QED BY <2>1, ReportedRests
<1>2. CASE DataProcCmd_RmStopTr
  <2>1. UNCHANGED scene /\ KeepsBegins /\ KeepsOpen /\ KeepsCharge
    BY <1>2 DEF DataProcCmd_RmStopTr, Asks, pilot, Reported, KeepsBegins, KeepsOpen, KeepsCharge,
       InCharge, Open, Orderly, Spend, CanSpend, Budgets, scene
  <2> QED BY <2>1, ReportedRests
<1>3. CASE DataProcCmd_Reset
  <2>1. UNCHANGED scene /\ KeepsBegins /\ KeepsOpen /\ KeepsCharge
    BY <1>3 DEF DataProcCmd_Reset, Asks, pilot, Reported, KeepsBegins, KeepsOpen, KeepsCharge,
       InCharge, Open, Orderly, Spend, CanSpend, Budgets, scene
  <2> QED BY <2>1, ReportedRests
<1>4. CASE MakeDataCmd_StopTs
  <2>1. UNCHANGED scene /\ KeepsBegins /\ KeepsOpen /\ KeepsCharge
    BY <1>4 DEF MakeDataCmd_StopTs, StopForgotten, pilot, Reported, KeepsBegins, KeepsOpen,
       KeepsCharge, InCharge, Open, Orderly, scene
  <2> QED BY <2>1, ReportedRests
<1>5. CASE DataProcCmd_StopTs
  <2>1. UNCHANGED scene /\ KeepsBegins /\ KeepsOpen /\ KeepsCharge
    BY <1>5 DEF DataProcCmd_StopTs, pilot, Reported, KeepsBegins, KeepsOpen, KeepsCharge, InCharge,
       Open, Orderly, scene
  <2> QED BY <2>1, ReportedRests
<1>6. CASE TakesStart
  <2>1. UNCHANGED scene /\ KeepsBegins /\ KeepsOpen /\ KeepsCharge
    <3>1. /\ UNCHANGED <<scene, listener, pc, app_order>> /\ left'.strays = left.strays
          /\ h'.straight = h.straight /\ h'.stops = h.stops
      BY <1>6 DEF TakesStart, Spend, CanSpend, Budgets, pilot, TypeOK, DataType, ThreadType,
         Histories
    <3> QED BY <3>1 DEF Reported, KeepsBegins, KeepsOpen, KeepsCharge, InCharge, Open, Orderly,
         scene
  <2> QED BY <2>1, ReportedRests
<1>7. CASE DataProcCmd_StartTs
  <2>1. UNCHANGED scene /\ KeepsBegins /\ KeepsOpen /\ KeepsCharge
    BY <1>7 DEF DataProcCmd_StartTs, pilot, Reported, KeepsBegins, KeepsOpen, KeepsCharge, InCharge,
       Open, Orderly, scene
  <2> QED BY <2>1, ReportedRests
<1> QED BY <1>1, <1>2, <1>3, <1>4, <1>5, <1>6, <1>7 DEF Client

\* Every step keeps the way to the report: the car, the button and the screen.
LEMMA ReportedWorld ==
  ASSUME TypeOK, Distinct(queue), Reported, World PROVE Reported'
<1>1. CASE ButtonMoves
  <2>1. UNCHANGED scene /\ KeepsBegins /\ KeepsOpen /\ KeepsCharge
    BY <1>1 DEF ButtonMoves, pilot, Reported, KeepsBegins, KeepsOpen, KeepsCharge, InCharge, Open,
       Orderly, Spend, CanSpend, Budgets, scene
  <2> QED BY <2>1, ReportedRests
<1>2. CASE ChargeStopOnPress BY <1>2, ReportedScreen
<1>3. CASE Ch2FinishConfirmOnPress
  <2>1. KeepsOpen /\ ituLayerGoto("disconnect") /\ ~InCharge
    BY <1>3 DEF Ch2FinishConfirmOnPress, Reported, KeepsBegins, KeepsOpen, KeepsCharge, InCharge,
       Open, Orderly
  <2> QED BY <2>1, ReportedLeaves DEF Layers
<1>4. CASE MinutePasses
  <2>1. UNCHANGED scene /\ KeepsBegins /\ KeepsOpen /\ KeepsCharge
    BY <1>4 DEF MinutePasses, pilot, Reported, KeepsBegins, KeepsOpen, KeepsCharge, InCharge, Open,
       Orderly, scene
  <2> QED BY <2>1, ReportedRests
<1>5. CASE \E v \in Voltages : CableMoves(v)
  <2>1. UNCHANGED scene /\ KeepsBegins /\ KeepsOpen /\ KeepsCharge
    BY <1>5 DEF CableMoves, Reported, KeepsBegins, KeepsOpen, KeepsCharge, InCharge, Open, Orderly,
       Spend, CanSpend, Budgets, scene
  <2> QED BY <2>1, ReportedRests
<1> QED BY <1>1, <1>2, <1>3, <1>4, <1>5 DEF World

\* The way to the report is kept.
LEMMA ReportedHolds == Spec => []Reported
<1>1. Init => Reported
  <2> SUFFICES ASSUME Init PROVE Reported OBVIOUS
  <2>1. visible = "main" /\ ~h.straight /\ pc["status"] = "idle" BY DEF Init, NoHistory, Threads
  <2> QED BY <2>1 DEF Reported, Begins, Open
<1>2. TypeOK /\ OnceInv /\ Reported /\ [Next]_vars => Reported'
  <2> SUFFICES ASSUME TypeOK, OnceInv, Reported, [Next]_vars PROVE Reported' OBVIOUS
  <2>1. Distinct(queue) BY DEF OnceInv
  <2>2. CASE UNCHANGED vars
    <3>1. UNCHANGED scene /\ KeepsBegins /\ KeepsOpen /\ KeepsCharge
      BY <2>2 DEF vars, pilot, scene, KeepsBegins, KeepsOpen, KeepsCharge, InCharge, Open,
         Orderly, Reported
    <3> QED BY <2>1, <3>1, ReportedRests
  <2>3. CASE Next
    BY <2>1, <2>3, ReportedSceneThread, ReportedPilotThread, ReportedEmbThread,
       ReportedStopperThread, ReportedFaultThread, ReportedOrderThread, ReportedTopTimer,
       ReportedWaitThread, ReportedStatusThread, ReportedClient, ReportedWorld DEF Next
  <2> QED BY <2>2, <2>3
<1> QED BY <1>1, <1>2, TypeCorrect, OnceHolds, PTL DEF Spec

\* A session that went straight into its charge layer has raised StopTransaction when the charger
\* is home again, whichever thread ended it: for every set of levels and all bounds.
THEOREM SessionsReported == Spec => []SessionReported
<1>1. TypeOK /\ Reported => SessionReported
  <2> SUFFICES ASSUME TypeOK, Reported, AtHome, h.straight, Orderly, ~(h.stops > 0) PROVE FALSE
    BY DEF SessionReported
  <2>1. Open BY DEF Open, TypeOK, ThreadType, Histories
  <2>2. ~Awaits("finish") /\ ~InCharge BY DEF AtHome, Awaits, InCharge
  <2> QED BY <2>1, <2>2 DEF Reported
<1> QED BY <1>1, TypeCorrect, ReportedHolds, PTL

-----------------------------------------------------------------------------
(* The status of a charge                                                    *)

\* What the status says of a charge: that it charges; that the server refused it, or refused the
\* session before; that a fault is stopping it; that the plug was pulled, the contactor then open and
\* the listener's call not over; or nothing yet, before its first 6 V call.
Known ==
  \/ cpStatus = "CHARGING"
  \/ cpStatus = "SUSPENDEDEVSE" /\ ("refused" \in req \/ h.stale)
  \/ cpStatus = "FAULT" /\ app_order = CHARGING_STOP
  \/ cpStatus = "SUSPENDEDEV" /\ pc["cp"] \in {"unplugged", "stop"} /\ ~contactor
  \/ /\ StartTimeCheck /\ ~sCharging /\ pc["cp"] \notin {"started", "resume"}
     /\ contactor => h.overtaken

\* The first 6 V call of the session finds StartTimeCheck set.
FirstCall ==
  /\ pc["cp"] = "start" => StartTimeCheck
  /\ ~sCharging => StartTimeCheck \/ pc["cp"] = "started"

Orders == {CHARGE_READY, CHARGING, CHARGING_STOP}

\* The status is known, but for an answer to an earlier StopTransaction.
Told == bLayerChargeFlg /\ app_order \in Orders /\ FirstCall /\ (h.crossed \/ Known)

\* In the charge layer entered in its turn nothing but the stop button's handler runs.
StopOnly == \A i \in DOMAIN queue : queue[i][2] = "Stop"

Charging == StopOnly /\ Told

\* The inductive form of ChargingReported: from the main layer to the charge layer the contactor
\* is open or about to be opened, so that the session finds it open when it begins.  No thread that
\* is to reset bLayerChargeFlg is still on its way then.
Routes ==
  Orderly =>
    /\ Leaving => visible \notin {"connect", "charge"}
    /\ ~missed =>
         /\ visible \in {"main", "cardwait", "connect"} => Cold
         /\ visible = "charge" /\ Awaits("charge") => Cool
         /\ visible = "charge" /\ listener = "charge" /\ h.straight => Charging

\* What a step that shows no other layer leaves.
KeepsCharging ==
  Orderly' =>
    /\ Orderly
    /\ listener' = "charge" /\ h'.straight =>
         /\ listener = "charge" /\ h.straight
         /\ visible = "charge" /\ Charging => Told'

\* Who goes to the finish layer shows it.
PartsShown == Leaving' => Leaving \/ visible' = "finish"

\* What all of the lemmas below assume of the state and the step.
Travels == TypeOK /\ Distinct(queue) /\ Reported /\ Routes /\ Home' /\ Chills /\ PartsShown

\* One thread goes to place p, or to the finish layer.
LEMMA PlaceShown ==
  ASSUME TypeOK, NEW t \in Threads, NEW p, Goes(t, p), p \notin Between \/ visible' = "finish"
  PROVE  PartsShown
BY DEF PartsShown, Leaving, Goes, TypeOK, ThreadType

\* The end of a stop.
LEMMA NextShown ==
  ASSUME TypeOK, NEW t \in Threads, GotoNextLayerOnCharge(t) \/ GoesOn(t) PROVE PartsShown
<1>1. CASE GoesOn(t)
  <2>1. PICK p \in {"idle", "unplugged"} : Goes(t, p) BY <1>1 DEF GoesOn
  <2> QED BY <2>1, PlaceShown DEF Between
<1>2. CASE ~GoesOn(t)
  <2>1. PICK p : Goes(t, p) BY <1>2 DEF GotoNextLayerOnCharge, Parts
  <2>2. visible' = "finish" BY <1>2 DEF GotoNextLayerOnCharge, ituLayerGoto, Shows
  <2> QED BY <2>1, <2>2, PlaceShown
<1> QED BY <1>1, <1>2

LEMMA StopShown ==
  ASSUME TypeOK, NEW t \in Threads, TSCT_ChargingStop(t) \/ LayerPassed(t) PROVE PartsShown
BY NextShown DEF TSCT_ChargingStop, LayerPassed

LEMMA AllShown == ASSUME TypeOK, [Next]_vars PROVE PartsShown
<1>1. CASE pc' = pc BY <1>1 DEF PartsShown, Leaving
<1>2. CASE SceneThread
  <2>1. \/ pc' = pc \/ Goes("scene", "idle")
        \/ \E p \in Between : Goes("scene", p) /\ visible' = "finish"
    BY <1>2 DEF SceneThread, ituFlushActionQueue, HandlerReturns, MainOnEnter1, MainOnEnter2,
       MainOnLeave, CardWaitEnter, CardWaitLeave1, ConnectOnEnter1, ConnectOnEnter2,
       ConnectOnLeave1, ChargeOnEnter, ChargeOnLeave1, ChargeOnLeave2, ChargeStopOnDialog1,
       ChargeStopOnDialog2, HandlerParts, Ch2FinishOnEnter1, Ch2FinishOnLeave, DisconnectOnEnter,
       Parts, Shows, Between
  <2> QED BY <1>1, <2>1, PlaceShown DEF Threads, Between
<1>3. CASE PilotThread
  <2>1. CASE CPUnplugStop \/ GotoNextLayerOnCharge("cp")
    BY <2>1, NextShown DEF CPUnplugStop, Threads
  <2>2. CASE TSCT_ChargingStop("cp") \/ LayerPassed("cp") BY <2>2, StopShown DEF Threads
  <2>3. CASE \/ CPListenerOnAhead \/ CPListenerOnConnect \/ CPListenerOnDisconnect \/ CPIgnored
             \/ CPPaused \/ CPUnknown
    BY <1>1, <2>3 DEF CPListenerOnAhead, CPListenerOnConnect, CPListenerOnDisconnect, CPIgnored,
       CPPaused, CPUnknown
  <2>4. \A p \in Places \ Between : Goes("cp", p) => PartsShown BY PlaceShown DEF Threads
  <2>5. CASE \/ CPListenerOnFinish \/ CPFinished \/ CPUnplugged \/ CPRequested \/ CPStart
             \/ CPStarted \/ CPResume
    <3>1. PICK p \in Places \ Between : Goes("cp", p)
      BY <2>5 DEF CPListenerOnFinish, CPFinished, CPUnplugged, CPRequested, CPStart, CPStarted,
         CPResume, Places, Between, Closing
    <3> QED BY <2>4, <3>1
  <2>6. CASE CPUnplugEnd
    <3>1. Goes("cp", "stop") \/ GotoNextLayerOnCharge("cp") BY <2>6 DEF CPUnplugEnd
    <3> QED BY <2>1, <2>4, <3>1 DEF Places, Between
  <2> QED BY <1>3, <2>1, <2>2, <2>3, <2>5, <2>6 DEF PilotThread
<1>4. CASE EmbThread \/ Client \/ World
  BY <1>1, <1>4 DEF EmbThread, EmbPressed, EmbReleased, Client, DataProcCmd_RmStart,
     DataProcCmd_RmStopTr, DataProcCmd_Reset, Asks, TakesStart, DataProcCmd_StartTs,
     MakeDataCmd_StopTs, DataProcCmd_StopTs, World, ButtonMoves, ChargeStopOnPress,
     Ch2FinishConfirmOnPress, MinutePasses, CableMoves
<1>5. CASE StopperThread
  <2>1. pc' = pc \/ Goes("stopper", "stop") \/ TSCT_ChargingStop("stopper") \/ LayerPassed("stopper")
    BY <1>5 DEF StopperThread, LocalStop, RemoteStopSeen, SuspendsEvse, StopBegins
  <2> QED BY <1>1, <2>1, PlaceShown, StopShown DEF Threads, Between
<1>6. CASE FaultThread
  <2>1. pc' = pc \/ Goes("fault", "stop") \/ TSCT_ChargingStop("fault") \/ LayerPassed("fault")
    BY <1>6 DEF FaultThread, FaultStops, FaultSeen, StopBegins
  <2> QED BY <1>1, <2>1, PlaceShown, StopShown DEF Threads, Between
<1>7. CASE OrderThread
  <2>1. \/ \E p \in {"seen", "idle", "stop"} : Goes("order", p)
        \/ GotoNextLayerOnCharge("order") \/ LayerPassed("order")
    BY <1>7 DEF OrderThread, OrderSeesPause, OrderDecides, OrderStops
  <2> QED BY <2>1, PlaceShown, NextShown, StopShown DEF Threads, Between
<1>8. CASE TopTimer
  <2>1. \/ pc' = pc \/ Goes("top", "stop") \/ GotoNextLayerOnCharge("top")
        \/ TSCT_ChargingStop("top") \/ LayerPassed("top")
    BY <1>8 DEF TopTimer, TimerFires, ChargeTimerFires
  <2> QED BY <1>1, <2>1, PlaceShown, NextShown, StopShown DEF Threads, Between
<1>9. CASE WaitThread
  <2>1. \E p \in {"idle", "ok", "fail"} : Goes("wait", p)
    BY <1>9 DEF WaitThread, WaitGoes, WaitAnswered
  <2> QED BY <2>1, PlaceShown DEF Threads, Between
<1>10. CASE StatusThread
  <2>1. CASE Reboots BY <2>1 DEF Reboots, PartsShown, Leaving, Between
  <2>2. CASE ~Reboots
    <3>1. \/ \E p \in {"remote", "astray", "idle", "stop"} : Goes("status", p)
          \/ TSCT_ChargingStop("status") \/ LayerPassed("status")
      BY <1>10, <2>2 DEF StatusThread, RemoteStartSeen, RemoteStartGoes, ResetSeen, StopBegins
    <3> QED BY <3>1, PlaceShown, StopShown DEF Threads, Between
  <2> QED BY <2>1, <2>2
<1>11. CASE UNCHANGED vars BY <1>1, <1>11 DEF vars
<1> QED BY <1>2, <1>3, <1>4, <1>5, <1>6, <1>7, <1>8, <1>9, <1>10, <1>11 DEF Next

\* A step that shows no other layer, and queues no Enter.
LEMMA RoutesStays ==
  ASSUME Travels, ~ChargeOnEnter, UNCHANGED <<visible, missed>>, KeepsCharging,
         Awaits("charge")' => Awaits("charge"), StopOnly => StopOnly'
  PROVE  Routes'
<1> SUFFICES ASSUME Orderly'
             PROVE  /\ Leaving' => visible' \notin {"connect", "charge"}
                    /\ ~missed' =>
                         /\ visible' \in {"main", "cardwait", "connect"} => Cold'
                         /\ visible' = "charge" /\ Awaits("charge")' => Cool'
                         /\ visible' = "charge" /\ listener' = "charge" /\ h'.straight => Charging'
  BY DEF Routes
<1>1. Orderly BY DEF KeepsCharging
<1>2. Leaving' => visible' \notin {"connect", "charge"} BY <1>1 DEF Travels, PartsShown, Routes
<1>3. ~missed' /\ visible' \in {"main", "cardwait", "connect"} => Cold'
  BY <1>1 DEF Travels, Routes, Chills
<1>4. ~missed' /\ visible' = "charge" /\ Awaits("charge")' => Cool'
  BY <1>1 DEF Travels, Routes, Chills
<1>5. ~missed' /\ visible' = "charge" /\ listener' = "charge" /\ h'.straight => Charging'
  BY <1>1 DEF Travels, Routes, KeepsCharging, Charging
<1> QED BY <1>2, <1>3, <1>4, <1>5

\* The charge layer's Enter goes on to the next handler, or to its second step, or ends the flush.
LEMMA EnterLeaves == TypeOK /\ ChargeOnEnter => pos' # pos \/ step' # step
<1> SUFFICES ASSUME TypeOK, ChargeOnEnter PROVE pos' # pos \/ step' # step OBVIOUS
<1>1. pos \in Nat /\ pos > 0 /\ step = 1 BY DEF TypeOK, SceneType, ChargeOnEnter, At
<1> QED BY <1>1 DEF ChargeOnEnter, Return, ReturnWith

\* Another thread that leaves the scene alone.
LEMMA RoutesRests == ASSUME Travels, UNCHANGED scene, KeepsCharging PROVE Routes'
<1>1. UNCHANGED <<visible, missed, queue, pos, step>> BY DEF scene
<1>2. ~ChargeOnEnter BY <1>1, EnterLeaves DEF Travels
<1>3. (Awaits("charge")' => Awaits("charge")) /\ (StopOnly => StopOnly')
  BY <1>1 DEF Awaits, StopOnly
<1> QED BY <1>1, <1>2, <1>3, RoutesStays

\* A handler that sleeps or returns.
LEMMA RoutesHandles ==
  ASSUME Travels, Sleep(2) \/ Sleep(3) \/ Return, ~At("charge", "Enter", 1), KeepsCharging
  PROVE  Routes'
<1>1. queue \in Seq(Handlers) /\ pos \in Nat BY DEF Travels, TypeOK, SceneType
<1>2. UNCHANGED <<visible, missed>>
      /\ (queue' = <<>> \/ (queue' = queue /\ (pos' = pos + 1 \/ (pos' = pos /\ step' > 1))))
  BY DEF Sleep, Return, ReturnWith
<1>3. ~ChargeOnEnter BY DEF ChargeOnEnter
<1>4. CASE queue' = <<>>
  <2>1. ~Awaits("charge")' /\ StopOnly' BY <1>4 DEF Awaits, StopOnly
  <2> QED BY <1>2, <1>3, <2>1, RoutesStays
<1>5. CASE queue' = queue /\ (pos' = pos + 1 \/ (pos' = pos /\ step' > 1))
  <2>1. \A i \in DOMAIN queue : i \in Nat BY <1>1
  <2>2. Awaits("charge")' => Awaits("charge") BY <1>1, <1>5, <2>1 DEF Awaits
  <2>3. StopOnly => StopOnly' BY <1>5 DEF StopOnly
  <2> QED BY <1>2, <1>3, <2>2, <2>3, RoutesStays
<1> QED BY <1>2, <1>4, <1>5

\* One that enters or leaves a layer: the charge has not begun, or is over.
LEMMA RoutesEnters ==
  ASSUME Travels, NEW l, NEW s, At(l, "Enter", s) \/ At(l, "Leave", s), ~At("charge", "Enter", 1),
         Sleep(2) \/ Sleep(3) \/ Return, UNCHANGED left,
         listener' = "charge" => listener = "charge", h'.straight => h.straight
  PROVE  Routes'
<1>1. pos \in DOMAIN queue /\ queue[pos][2] # "Stop" BY DEF At, Travels, TypeOK, SceneType
<1>2. KeepsCharging BY <1>1 DEF KeepsCharging, Charging, StopOnly, Orderly
<1> QED BY <1>2, RoutesHandles

\* A goto to another layer than the charge layer: to the main layer, or on along the route.
LEMMA RoutesLeaves ==
  ASSUME Travels, NEW l \in Layers \ {"charge"}, ituLayerGoto(l), l = "connect" => Slept,
         Orderly' => Orderly /\ (l \in {"cardwait", "connect"} => visible \in {"main", "cardwait"})
  PROVE  Routes'
<1>1. visible' = l /\ (l # "main" => missed' = missed) BY DEF ituLayerGoto, Shows
<1>2. ASSUME Orderly', ~missed', l \in {"main", "cardwait", "connect"} PROVE Cold'
  <2>1. CASE l = "main" BY <1>1, <1>2, <2>1 DEF Travels, Home
  <2>2. CASE l # "main"
    <3>1. Cold BY <1>1, <1>2, <2>2 DEF Travels, Routes
    <3> QED BY <1>1, <3>1 DEF Travels, Chills
  <2> QED BY <2>1, <2>2
<1>3. Leaving' => visible' \notin {"connect", "charge"}
  BY <1>1 DEF Travels, PartsShown, Leaving, Slept
<1> QED BY <1>1, <1>2, <1>3 DEF Routes

\* GotoNextLayerOnCharge, by any of the threads that end a charge.
LEMMA RoutesNext ==
  ASSUME Travels, NEW t \in Threads, GotoNextLayerOnCharge(t), UNCHANGED <<left, listener, h>>
  PROVE  Routes'
<1>1. Orderly' => Orderly BY DEF Orderly
<1>2. CASE bLayerChargeFlg
  <2>1. ituLayerGoto("finish") BY <1>2 DEF GotoNextLayerOnCharge
  <2> QED BY <1>1, <2>1, RoutesLeaves DEF Layers
<1>3. CASE ~bLayerChargeFlg
  <2>1. UNCHANGED scene BY <1>3 DEF GotoNextLayerOnCharge
  <2>2. KeepsCharging BY <1>1, <1>3 DEF KeepsCharging, Charging, Told
  <2> QED BY <2>1, <2>2, RoutesRests
<1> QED BY <1>2, <1>3

\* So with the last part of a stop, and the reset of bLayerChargeFlg: no charge layer is shown then.
LEMMA RoutesStops ==
  ASSUME Travels, NEW t \in Threads, TSCT_ChargingStop(t) \/ LayerPassed(t) PROVE Routes'
<1>1. CASE TSCT_ChargingStop(t)
  <2>1. GotoNextLayerOnCharge(t) /\ UNCHANGED <<left, listener, h>>
    BY <1>1 DEF TSCT_ChargingStop, pilot
  <2> QED BY <2>1, RoutesNext
<1>2. CASE LayerPassed(t)
  <2>1. Leaving /\ UNCHANGED <<scene, left, listener, h>> BY <1>2 DEF LayerPassed, Leaving, pilot
  <2>2. KeepsCharging BY <2>1 DEF KeepsCharging, Orderly, Travels, Routes
  <2> QED BY <2>1, <2>2, RoutesRests
<1> QED BY <1>1, <1>2

\* A handler that has gone to the finish layer.
LEMMA RoutesParts == ASSUME Travels, HandlerParts PROVE Routes'
<1>1. /\ Leaving /\ Return /\ ~At("charge", "Enter", 1) /\ UNCHANGED <<left, listener, h>>
  BY DEF HandlerParts, At, Leaving, Threads, pilot
<1>2. KeepsCharging BY <1>1 DEF KeepsCharging, Orderly, Travels, Routes
<1> QED BY <1>1, <1>2, RoutesHandles

\* The handler that stops a charge.
LEMMA RoutesDialog == ASSUME Travels, ChargeStopOnDialog2 PROVE Routes'
<1>1. CASE bLayerChargeFlg
  <2>1. visible' = "finish" BY <1>1 DEF ChargeStopOnDialog2, Shows
  <2> QED BY <2>1 DEF Routes
<1>2. CASE ~bLayerChargeFlg
  <2>1. Return /\ ~At("charge", "Enter", 1) /\ KeepsCharging
    BY <1>2 DEF ChargeStopOnDialog2, At, KeepsCharging, Charging, Told, Orderly, pilot
  <2> QED BY <2>1, RoutesHandles
<1> QED BY <1>1, <1>2

\* A session that goes straight into its charge layer finds the contactor open, but for a 6 V call
\* of the session before that was overtaken: nothing is known of it yet.
LEMMA RoutesBegins == ASSUME Travels, ChargeOnEnter PROVE Routes'
<1>1. /\ queue \in Seq(Handlers) /\ pos \in Nat /\ pos \in DOMAIN queue
      /\ queue[pos] = <<"charge", "Enter">> /\ Awaits("charge")
      /\ At("charge", "Enter", 1) /\ TypeOK
  <2>1. queue \in Seq(Handlers) /\ pos \in 0..Len(queue) /\ TypeOK
    BY DEF Travels, TypeOK, SceneType
  <2>2. At("charge", "Enter", 1) BY DEF ChargeOnEnter
  <2>3. pos > 0 /\ queue[pos] = <<"charge", "Enter">> /\ step = 1 BY <2>2 DEF At
  <2>4. pos \in Nat /\ pos \in DOMAIN queue BY <2>1, <2>3
  <2> QED BY <2>1, <2>2, <2>3, <2>4 DEF Awaits
<1>2. CASE EmgControl
  <2>1. visible' = "finish" BY <1>2 DEF ChargeOnEnter, Shows
  <2> QED BY <2>1 DEF Routes
<1>3. CASE ~EmgControl
  <2>1. Return /\ UNCHANGED <<visible, missed, pc>> /\ bLayerChargeFlg'
    BY <1>3 DEF ChargeOnEnter, Return
  <2>2. ~Awaits("charge")' BY <1>1, <2>1, EnterBegun DEF Travels, Layers
  <2>3. Orderly' => Orderly BY DEF ChargeOnEnter, Orderly
  <2>4. ASSUME Orderly', ~missed', visible' = "charge", h'.straight PROVE Charging'
    <3>1. Straight BY <2>4 DEF ChargeOnEnter, NoHistory
    <3>2. Cool BY <1>1, <2>1, <2>3, <2>4 DEF Travels, Routes
    <3>3. ~Pends("main")
      <4>1. \A i \in DOMAIN queue : i \in Nat /\ i <= Len(queue) /\ Len(queue) \in Nat BY <1>1
      <4>2. \A i \in DOMAIN queue : pos <= i => i = pos BY <1>1, <3>1, <4>1 DEF Straight
      <4> QED BY <1>1, <4>2 DEF Pends
    <3>4. contactor => h.overtaken BY <3>2, <3>3 DEF Cool, Hot
    <3>5. pc["cp"] \in {"idle", "finish"} BY <1>1, <2>1, <2>4 DEF Travels, Reported, Begins
    <3>6. Known' /\ FirstCall'
      BY <2>1, <3>4, <3>5 DEF ChargeOnEnter, Known, FirstCall, NoHistory
    <3>7. StopOnly'
      <4>1. queue' = <<>> BY <1>1, <2>1, <3>1 DEF Return, ReturnWith, Straight
      <4> QED BY <4>1 DEF StopOnly
    <3>8. app_order' \in Orders BY DEF ChargeOnEnter, Orders
    <3> QED BY <2>1, <3>6, <3>7, <3>8 DEF Charging, Told
  <2>5. ASSUME Orderly', ~missed', visible' \in {"main", "cardwait", "connect"} PROVE Cold'
    BY <2>1, <2>3, <2>5 DEF Travels, Routes, Chills
  <2>6. Orderly' /\ Leaving' => visible' \notin {"connect", "charge"}
    BY <2>1, <2>3 DEF Travels, PartsShown, Routes
  <2> QED BY <2>2, <2>4, <2>5, <2>6 DEF Routes
<1> QED BY <1>2, <1>3

\* 9 V in the connect layer: the contactor is open, or the main layer's Enter is to open it.
LEMMA RoutesCharges == ASSUME Travels, CPListenerOnConnect PROVE Routes'
<1>1. /\ GotoFrom("connect", "charge") /\ ituLayerGoto("charge") /\ listener' = "connect"
  BY DEF CPListenerOnConnect, GotoFrom, CPChanged
<1>2. visible' = "charge" /\ missed' = missed /\ pos' = pos /\ step' = step
  BY <1>1 DEF ituLayerGoto, Shows
<1>3. ASSUME Orderly' PROVE Orderly /\ visible = "connect"
  BY <1>1, <1>3, GotoOfShown DEF Travels
<1>4. ASSUME Orderly', ~missed' PROVE Cool'
  <2>1. Cold BY <1>2, <1>3, <1>4 DEF Travels, Routes
  <2>2. Cool BY <2>1 DEF Cold, Cool, MainToCome, Pends
  <2>3. ~ChargeOnEnter BY <1>2, EnterLeaves DEF Travels
  <2> QED BY <2>2, <2>3 DEF Travels, Chills
<1>5. ASSUME Orderly' PROVE ~Leaving'
  BY <1>2, <1>3, <1>5 DEF Travels, PartsShown, Routes
<1> QED BY <1>1, <1>2, <1>4, <1>5 DEF Routes

\* A flush begins, a boot, a press on the screen of the charge layer.
LEMMA RoutesScreen ==
  ASSUME Travels, ituFlushActionQueue \/ Reboots \/ ChargeStopOnPress PROVE Routes'
<1>1. CASE ituFlushActionQueue
  <2>1. /\ queue' = queue /\ pos = 0 /\ pos' = 1 /\ step' = 1
        /\ UNCHANGED <<visible, missed>> /\ queue \in Seq(Handlers)
    BY <1>1 DEF ituFlushActionQueue, Travels, TypeOK, SceneType
  <2>2. ~ChargeOnEnter BY <2>1 DEF ChargeOnEnter, At
  <2>3. (Awaits("charge")' => Awaits("charge")) /\ (StopOnly => StopOnly')
    BY <2>1 DEF Awaits, StopOnly
  <2>4. KeepsCharging
    BY <1>1 DEF ituFlushActionQueue, KeepsCharging, Charging, Told, FirstCall, Known, Orderly,
       pilot, charge, status
  <2> QED BY <2>1, <2>2, <2>3, <2>4, RoutesStays
<1>2. CASE Reboots
  <2>1. visible' = "main" BY <1>2 DEF Reboots
  <2> QED BY <2>1 DEF Travels, Home, Routes
<1>3. CASE ChargeStopOnPress
  <2>1. /\ pos = 0 /\ queue' = << <<"charge", "Stop">> >> /\ UNCHANGED <<visible, missed>>
    BY <1>3 DEF ChargeStopOnPress
  <2>2. ~ChargeOnEnter BY <2>1 DEF ChargeOnEnter, At
  <2>3. DOMAIN queue' = {1} /\ queue'[1] = <<"charge", "Stop">> BY <2>1
  <2>4. ~Awaits("charge")' /\ StopOnly' BY <2>3 DEF Awaits, StopOnly
  <2>5. KeepsCharging
    BY <1>3 DEF ChargeStopOnPress, KeepsCharging, Charging, Told, FirstCall, Known, Orderly, pilot,
       charge, status
  <2> QED BY <2>1, <2>2, <2>4, <2>5, RoutesStays
<1> QED BY <1>1, <1>2, <1>3

\* The timers of the other layers.
LEMMA RoutesTimer == ASSUME Travels, TimerFires PROVE Routes'
<1>1. CASE timer = "card" /\ ~toStart
  <2>1. UNCHANGED scene /\ KeepsCharging
    BY <1>1 DEF TimerFires, KeepsCharging, Charging, Told, FirstCall, Known, Orderly, pilot, charge,
       status
  <2> QED BY <2>1, RoutesRests
<1>2. CASE ~(timer = "card" /\ ~toStart)
  <2>1. GotoFrom(TimerLayer(timer), "main") BY <1>2 DEF TimerFires
  <2>2. Orderly' => Orderly BY <2>1, GotoOfShown DEF Travels
  <2> QED BY <2>1, <2>2, RoutesLeaves DEF GotoFrom, Layers
<1> QED BY <1>1, <1>2

\* The card-wait task goes on, or home.
LEMMA RoutesWait == ASSUME Travels, WaitGoes PROVE Routes'
<1>1. CASE UNCHANGED <<scene, left>>
  <2>1. KeepsCharging
    BY <1>1 DEF WaitGoes, Goes, KeepsCharging, Charging, Told, FirstCall, Known, Orderly, pilot,
       charge, status, Travels, TypeOK, ThreadType, Threads
  <2> QED BY <1>1, <2>1, RoutesRests
<1>2. ASSUME NEW l \in {"connect", "main"}, GotoFrom("cardwait", l) PROVE Routes'
  <2>1. Slept /\ (Orderly' => Orderly /\ visible = "cardwait")
    BY <1>2, GotoOfShown DEF Travels, WaitGoes
  <2> QED BY <1>2, <2>1, RoutesLeaves DEF GotoFrom, Layers
<1> QED BY <1>1, <1>2 DEF WaitGoes

\* The status task starts a session for the server.
LEMMA RoutesRemote == ASSUME Travels, RemoteStartGoes PROVE Routes'
<1>1. ituLayerGoto("cardwait") BY DEF RemoteStartGoes, GotoFrom
<1>2. Orderly' => Orderly /\ visible = "main"
  <2>1. CASE pc["status"] = "remote"
    <3>1. GotoFrom("main", "cardwait") BY <2>1 DEF RemoteStartGoes
    <3> QED BY <3>1, GotoOfShown DEF Travels
  <2>2. CASE pc["status"] # "remote" BY <2>2 DEF RemoteStartGoes, Travels, Reported, Orderly
  <2> QED BY <2>1, <2>2
<1> QED BY <1>1, <1>2, RoutesLeaves DEF Layers

\* The button is pressed.
LEMMA RoutesPress == ASSUME Travels, EmbPressed PROVE Routes'
<1>1. Orderly' => Orderly BY DEF EmbPressed, Orderly
<1>2. CASE ituLayerGoto("finish") \/ ituLayerGoto("main")
  BY <1>1, <1>2, RoutesLeaves DEF Layers
<1>3. CASE UNCHANGED scene
  <2>1. UNCHANGED listener /\ h'.straight = h.straight
    BY DEF EmbPressed, pilot, Travels, TypeOK, ThreadType, Histories
  <2>2. app_order \in Orders => ituLayerGoto("finish")
    BY DEF EmbPressed, Orders, WAIT, PAYMENT_METHOD, CHARGE_INPUT, CHARGE_READY, CHARGING,
       CHARGING_STOP, FINISH
  <2>3. app_order \in Orders => visible # "charge"
    BY <1>3, <2>2 DEF ituLayerGoto, Shows, scene
  <2>4. KeepsCharging BY <1>1, <2>1, <2>3 DEF KeepsCharging, Charging, Told
  <2> QED BY <1>3, <2>4, RoutesRests
<1> QED BY <1>2, <1>3 DEF EmbPressed

\* Every step keeps the route: the scene thread.
LEMMA RoutesSceneThread == ASSUME Travels, SceneThread PROVE Routes'
<1>1. CASE ituFlushActionQueue BY <1>1, RoutesScreen
<1>2. CASE HandlerReturns
  <2>1. Return /\ ~At("charge", "Enter", 1)
    BY <1>2 DEF HandlerReturns, At
  <2>2. KeepsCharging
    BY <1>2 DEF HandlerReturns, KeepsCharging, Charging, Told, FirstCall, Known, Orderly, pilot,
       charge, status
  <2> QED BY <2>1, <2>2, RoutesHandles
<1>3. CASE MainOnEnter1
  <2>1. /\ At("main", "Enter", 1) /\ (Sleep(2) \/ Sleep(3) \/ Return) /\ UNCHANGED left
        /\ listener' = "charge" => listener = "charge"
        /\ h'.straight => h.straight
    BY <1>3 DEF MainOnEnter1, SetListener
  <2> QED BY <2>1, RoutesEnters DEF At
<1>4. CASE MainOnEnter2
  <2>1. /\ At("main", "Enter", 2) /\ (Sleep(2) \/ Sleep(3) \/ Return) /\ UNCHANGED left
        /\ listener' = "charge" => listener = "charge"
        /\ h'.straight => h.straight
    BY <1>4 DEF MainOnEnter2, pilot, MagneticContactorOff, Travels, TypeOK, ThreadType, Histories
  <2> QED BY <2>1, RoutesEnters DEF At
<1>5. CASE MainOnLeave
  <2>1. /\ At("main", "Leave", 1) /\ (Sleep(2) \/ Sleep(3) \/ Return) /\ UNCHANGED left
        /\ listener' = "charge" => listener = "charge"
        /\ h'.straight => h.straight
    BY <1>5 DEF MainOnLeave, pilot
  <2> QED BY <2>1, RoutesEnters DEF At
<1>6. CASE CardWaitEnter
  <2>1. /\ At("cardwait", "Enter", 1) /\ (Sleep(2) \/ Sleep(3) \/ Return) /\ UNCHANGED left
        /\ listener' = "charge" => listener = "charge"
        /\ h'.straight => h.straight
    BY <1>6 DEF CardWaitEnter, pilot
  <2> QED BY <2>1, RoutesEnters DEF At
<1>7. CASE CardWaitLeave1
  <2>1. /\ At("cardwait", "Leave", 1) /\ (Sleep(2) \/ Sleep(3) \/ Return) /\ UNCHANGED left
        /\ listener' = "charge" => listener = "charge"
        /\ h'.straight => h.straight
    BY <1>7 DEF CardWaitLeave1, pilot
  <2> QED BY <2>1, RoutesEnters DEF At
<1>8. CASE ConnectOnEnter1
  <2>1. /\ At("connect", "Enter", 1) /\ (Sleep(2) \/ Sleep(3) \/ Return) /\ UNCHANGED left
        /\ listener' = "charge" => listener = "charge"
        /\ h'.straight => h.straight
    BY <1>8 DEF ConnectOnEnter1, pilot
  <2> QED BY <2>1, RoutesEnters DEF At
<1>9. CASE ConnectOnEnter2
  <2>1. /\ At("connect", "Enter", 2) /\ (Sleep(2) \/ Sleep(3) \/ Return) /\ UNCHANGED left
        /\ listener' = "charge" => listener = "charge"
        /\ h'.straight => h.straight
    BY <1>9 DEF ConnectOnEnter2, SetListener
  <2> QED BY <2>1, RoutesEnters DEF At
<1>10. CASE ConnectOnLeave1
  <2>1. /\ At("connect", "Leave", 1) /\ (Sleep(2) \/ Sleep(3) \/ Return) /\ UNCHANGED left
        /\ listener' = "charge" => listener = "charge"
        /\ h'.straight => h.straight
    BY <1>10 DEF ConnectOnLeave1, pilot
  <2> QED BY <2>1, RoutesEnters DEF At
<1>11. CASE ChargeOnEnter BY <1>11, RoutesBegins
<1>12. CASE ChargeOnLeave1
  <2>1. /\ At("charge", "Leave", 1) /\ (Sleep(2) \/ Sleep(3) \/ Return) /\ UNCHANGED left
        /\ listener' = "charge" => listener = "charge"
        /\ h'.straight => h.straight
    BY <1>12 DEF ChargeOnLeave1, pilot, Travels, TypeOK, ThreadType, Histories
  <2> QED BY <2>1, RoutesEnters DEF At
<1>13. CASE ChargeOnLeave2
  <2>1. /\ At("charge", "Leave", 2) /\ (Sleep(2) \/ Sleep(3) \/ Return) /\ UNCHANGED left
        /\ listener' = "charge" => listener = "charge"
        /\ h'.straight => h.straight
    BY <1>13 DEF ChargeOnLeave2, pilot
  <2> QED BY <2>1, RoutesEnters DEF At
<1>14. CASE ChargeStopOnDialog1
  <2>1. (Sleep(2) \/ Sleep(3)) /\ ~At("charge", "Enter", 1)
    BY <1>14 DEF ChargeStopOnDialog1, At
  <2>2. KeepsCharging
    BY <1>14 DEF ChargeStopOnDialog1, MagneticContactorOff, KeepsCharging, Charging, Told, Orders,
       FirstCall, Known, Orderly, pilot, status, Travels, TypeOK, ThreadType, Histories
  <2> QED BY <2>1, <2>2, RoutesHandles
<1>15. CASE ChargeStopOnDialog2 BY <1>15, RoutesDialog
<1>16. CASE Ch2FinishOnEnter1
  <2>1. /\ At("finish", "Enter", 1) /\ (Sleep(2) \/ Sleep(3) \/ Return) /\ UNCHANGED left
        /\ listener' = "charge" => listener = "charge"
        /\ h'.straight => h.straight
    BY <1>16 DEF Ch2FinishOnEnter1, SetListener, Travels, TypeOK, ThreadType, Histories
  <2> QED BY <2>1, RoutesEnters DEF At
<1>17. CASE Ch2FinishOnLeave
  <2>1. /\ At("finish", "Leave", 1) /\ (Sleep(2) \/ Sleep(3) \/ Return) /\ UNCHANGED left
        /\ listener' = "charge" => listener = "charge"
        /\ h'.straight => h.straight
    BY <1>17 DEF Ch2FinishOnLeave, pilot, StopForgotten, Travels, TypeOK, ThreadType, Histories
  <2> QED BY <2>1, RoutesEnters DEF At
<1>18. CASE DisconnectOnEnter
  <2>1. /\ At("disconnect", "Enter", 1) /\ (Sleep(2) \/ Sleep(3) \/ Return) /\ UNCHANGED left
        /\ listener' = "charge" => listener = "charge"
        /\ h'.straight => h.straight
    BY <1>18 DEF DisconnectOnEnter, SetListener
  <2> QED BY <2>1, RoutesEnters DEF At
<1>19. CASE HandlerParts BY <1>19, RoutesParts
<1> QED BY <1>1, <1>2, <1>3, <1>4, <1>5, <1>6, <1>7, <1>8, <1>9, <1>10, <1>11, <1>12, <1>13, <1>14,
    <1>15, <1>16, <1>17, <1>18, <1>19 DEF SceneThread

\* Every step keeps the route: the control pilot thread.
LEMMA RoutesPilotThread == ASSUME Travels, PilotThread PROVE Routes'
<1>1. CASE CPListenerOnAhead
  <2>1. UNCHANGED scene /\ KeepsCharging
    BY <1>1 DEF CPListenerOnAhead, CPChanged, KeepsCharging, Orderly
  <2> QED BY <2>1, RoutesRests
<1>2. CASE CPListenerOnConnect BY <1>2, RoutesCharges
<1>3. CASE CPListenerOnFinish
  <2>1. UNCHANGED scene /\ KeepsCharging
    BY <1>3 DEF CPListenerOnFinish, CPChanged, KeepsCharging, Orderly
  <2> QED BY <2>1, RoutesRests
<1>4. CASE CPFinished
  <2>1. ituLayerGoto("main") /\ (Orderly' => Orderly)
    BY <1>4 DEF CPFinished, Orderly
  <2> QED BY <2>1, RoutesLeaves DEF Layers
<1>5. CASE CPListenerOnDisconnect
  <2>1. ituLayerGoto("main") /\ (Orderly' => Orderly)
    BY <1>5 DEF CPListenerOnDisconnect, Orderly
  <2> QED BY <2>1, RoutesLeaves DEF Layers
<1>6. CASE CPIgnored
  <2>1. UNCHANGED scene /\ KeepsCharging
    BY <1>6 DEF CPIgnored, CPChanged, KeepsCharging, Charging, Told, FirstCall, Known, Orderly,
       charge, status
  <2> QED BY <2>1, RoutesRests
<1>7. CASE CPUnplugged
  <2>1. UNCHANGED scene /\ KeepsCharging
    BY <1>7 DEF CPUnplugged, MagneticContactorOff, Goes, CPChanged, KeepsCharging, Charging, Told,
       Orders, FirstCall, Known, Orderly, Travels, TypeOK, ThreadType, Threads, Histories
  <2> QED BY <2>1, RoutesRests
<1>8. CASE CPUnplugStop
  <2>1. GotoNextLayerOnCharge("cp") /\ UNCHANGED <<left, listener, h>>
    BY <1>8 DEF CPUnplugStop, pilot
  <2> QED BY <2>1, RoutesNext DEF Threads
<1>9. CASE CPUnplugEnd
  <2>1. CASE GotoNextLayerOnCharge("cp") /\ UNCHANGED h
    <3>1. UNCHANGED <<left, listener>> BY <1>9 DEF CPUnplugEnd, pilot
    <3> QED BY <2>1, <3>1, RoutesNext DEF Threads
  <2>2. CASE /\ MagneticContactorOff /\ Goes("cp", "stop")
             /\ UNCHANGED <<scene, bLayerChargeFlg, chargecomp_stop, cpStatus>>
    <3>1. KeepsCharging
      BY <1>9, <2>2 DEF CPUnplugEnd, MagneticContactorOff, Goes, KeepsCharging, Charging, Told,
         FirstCall, Known, Orderly, pilot, Travels, TypeOK, ThreadType, Threads, Histories
    <3> QED BY <2>2, <3>1, RoutesRests
  <2> QED BY <1>9, <2>1, <2>2 DEF CPUnplugEnd
<1>10. CASE CPPaused
  <2>1. UNCHANGED scene /\ KeepsCharging
    BY <1>10 DEF CPPaused, MagneticContactorOff, CPChanged, KeepsCharging, Charging, Told,
       FirstCall, Known, Orderly, status
  <2> QED BY <2>1, RoutesRests
<1>11. CASE CPUnknown
  <2>1. UNCHANGED scene /\ KeepsCharging
    BY <1>11 DEF CPUnknown, CPChanged, KeepsCharging, Charging, Told, FirstCall, Known, Orderly,
       status
  <2> QED BY <2>1, RoutesRests
<1>12. CASE CPRequested
  <2>1. UNCHANGED scene /\ KeepsCharging
    BY <1>12 DEF CPRequested, Goes, CPChanged, KeepsCharging, Charging, Told, FirstCall, Known,
       Orderly, charge, status
  <2> QED BY <2>1, RoutesRests
<1>13. CASE CPStart
  <2>1. UNCHANGED scene /\ KeepsCharging
    BY <1>13 DEF CPStart, MagneticContactorOn, Goes, KeepsCharging, Charging, Told, Orders,
       FirstCall, Known, Orderly, pilot, Travels, TypeOK, ThreadType, Threads
  <2> QED BY <2>1, RoutesRests
<1>14. CASE CPStarted
  <2>1. UNCHANGED scene /\ KeepsCharging
    BY <1>14 DEF CPStarted, Goes, KeepsCharging, Charging, Told, FirstCall, Known, Orderly, pilot,
       charge, status, Travels, TypeOK, ThreadType, Threads
  <2> QED BY <2>1, RoutesRests
<1>15. CASE CPResume
  <2>1. UNCHANGED scene /\ KeepsCharging
    BY <1>15 DEF CPResume, MagneticContactorOn, Goes, KeepsCharging, Charging, Told, FirstCall,
       Known, Orderly, pilot, status, Travels, TypeOK, ThreadType, Threads
  <2> QED BY <2>1, RoutesRests
<1>16. CASE TSCT_ChargingStop("cp") BY <1>16, RoutesStops DEF Threads
<1>17. CASE LayerPassed("cp") BY <1>17, RoutesStops DEF Threads
<1> QED BY <1>1, <1>2, <1>3, <1>4, <1>5, <1>6, <1>7, <1>8, <1>9, <1>10, <1>11, <1>12, <1>13, <1>14,
    <1>15, <1>16, <1>17 DEF PilotThread

\* Every step keeps the route: the emergency button thread.
LEMMA RoutesEmbThread == ASSUME Travels, EmbThread PROVE Routes'
<1>1. CASE EmbPressed BY <1>1, RoutesPress
<1>2. CASE EmbReleased
  <2>1. UNCHANGED scene /\ KeepsCharging
    BY <1>2 DEF EmbReleased, KeepsCharging, Charging, Told, FirstCall, Known, Orderly, pilot,
       charge, status
  <2> QED BY <2>1, RoutesRests
<1> QED BY <1>1, <1>2 DEF EmbThread

\* Every step keeps the route: the monitoring task and the card listener.
LEMMA RoutesStopperThread == ASSUME Travels, StopperThread PROVE Routes'
<1>1. CASE LocalStop
  <2>1. UNCHANGED scene /\ KeepsCharging
    BY <1>1 DEF LocalStop, StopBegins, MagneticContactorOff, Goes, KeepsCharging, Charging, Told,
       FirstCall, Known, Orderly, pilot, charge, status
  <2> QED BY <2>1, RoutesRests
<1>2. CASE RemoteStopSeen
  <2>1. UNCHANGED scene /\ KeepsCharging
    BY <1>2 DEF RemoteStopSeen, StopBegins, MagneticContactorOff, Goes, KeepsCharging, Charging,
       Told, FirstCall, Known, Orderly, pilot, charge, status
  <2> QED BY <2>1, RoutesRests
<1>3. CASE TSCT_ChargingStop("stopper") BY <1>3, RoutesStops DEF Threads
<1>4. CASE LayerPassed("stopper") BY <1>4, RoutesStops DEF Threads
<1>5. CASE SuspendsEvse
  <2>1. UNCHANGED scene /\ KeepsCharging
    BY <1>5 DEF SuspendsEvse, KeepsCharging, Charging, Told, FirstCall, Known, Orderly, pilot,
       charge
  <2> QED BY <2>1, RoutesRests
<1> QED BY <1>1, <1>2, <1>3, <1>4, <1>5 DEF StopperThread

\* Every step keeps the route: the fault monitoring task.
LEMMA RoutesFaultThread == ASSUME Travels, FaultThread PROVE Routes'
<1>1. CASE FaultStops
  <2>1. UNCHANGED scene /\ KeepsCharging
    BY <1>1 DEF FaultStops, StopBegins, MagneticContactorOff, Goes, Spend, CanSpend, Budgets,
       DataType, Travels, TypeOK, ThreadType, Threads, Histories, status, KeepsCharging, Charging,
       Told, FirstCall, Known, Orderly, pilot, charge
  <2> QED BY <2>1, RoutesRests
<1>2. CASE FaultSeen
  <2>1. UNCHANGED scene /\ KeepsCharging
    BY <1>2 DEF FaultSeen, Spend, CanSpend, Budgets, DataType, Travels, TypeOK, Orders,
       KeepsCharging, Charging, Told, FirstCall, Known, Orderly, pilot, charge
  <2> QED BY <2>1, RoutesRests
<1>3. CASE TSCT_ChargingStop("fault") BY <1>3, RoutesStops DEF Threads
<1>4. CASE LayerPassed("fault") BY <1>4, RoutesStops DEF Threads
<1> QED BY <1>1, <1>2, <1>3, <1>4 DEF FaultThread

\* Every step keeps the route: the order sequence task.
LEMMA RoutesOrderThread == ASSUME Travels, OrderThread PROVE Routes'
<1>1. CASE OrderSeesPause
  <2>1. UNCHANGED scene /\ KeepsCharging
    BY <1>1 DEF OrderSeesPause, Goes, KeepsCharging, Charging, Told, FirstCall, Known, Orderly,
       pilot, charge, status
  <2> QED BY <2>1, RoutesRests
<1>2. CASE OrderDecides
  <2>1. UNCHANGED scene /\ KeepsCharging
    BY <1>2 DEF OrderDecides, MagneticContactorOff, Goes, KeepsCharging, Charging, Told, Orders,
       FirstCall,
       Known, Orderly, pilot, charge, status, Travels, TypeOK, ThreadType, Threads, Histories
  <2> QED BY <2>1, RoutesRests
<1>3. CASE OrderStops
  <2>1. GotoNextLayerOnCharge("order") /\ UNCHANGED <<left, listener, h>>
    BY <1>3 DEF OrderStops, pilot
  <2> QED BY <2>1, RoutesNext DEF Threads
<1>4. CASE LayerPassed("order") BY <1>4, RoutesStops DEF Threads
<1> QED BY <1>1, <1>2, <1>3, <1>4 DEF OrderThread

\* Every step keeps the route: the top timer.
LEMMA RoutesTopTimer == ASSUME Travels, TopTimer PROVE Routes'
<1>1. CASE TimerFires BY <1>1, RoutesTimer
<1>2. CASE ChargeTimerFires
  <2>1. CASE GotoNextLayerOnCharge("top") /\ UNCHANGED h
    <3>1. UNCHANGED <<left, listener>> BY <1>2 DEF ChargeTimerFires, pilot
    <3> QED BY <2>1, <3>1, RoutesNext DEF Threads
  <2>2. CASE /\ MagneticContactorOff /\ Goes("top", "stop")
             /\ UNCHANGED <<scene, bLayerChargeFlg, chargecomp_stop, cpStatus>>
    <3>1. KeepsCharging
      BY <1>2, <2>2 DEF ChargeTimerFires, MagneticContactorOff, Goes, KeepsCharging, Charging, Told,
         FirstCall, Known, Orderly, pilot, Travels, TypeOK, ThreadType, Threads, Histories
    <3> QED BY <2>2, <3>1, RoutesRests
  <2> QED BY <1>2, <2>1, <2>2 DEF ChargeTimerFires
<1>3. CASE TSCT_ChargingStop("top") BY <1>3, RoutesStops DEF Threads
<1>4. CASE LayerPassed("top") BY <1>4, RoutesStops DEF Threads
<1> QED BY <1>1, <1>2, <1>3, <1>4 DEF TopTimer

\* Every step keeps the route: the card-wait task.
LEMMA RoutesWaitThread == ASSUME Travels, WaitThread PROVE Routes'
<1>1. CASE WaitGoes BY <1>1, RoutesWait
<1>2. CASE \E r \in {"ok", "fail"} : WaitAnswered(r)
  <2>1. UNCHANGED scene /\ KeepsCharging
    BY <1>2 DEF WaitAnswered, Goes, KeepsCharging, Charging, Told, FirstCall, Known, Orderly, pilot,
       charge
  <2> QED BY <2>1, RoutesRests
<1> QED BY <1>1, <1>2 DEF WaitThread

\* Every step keeps the route: the status task.
LEMMA RoutesStatusThread == ASSUME Travels, StatusThread PROVE Routes'
<1>1. CASE RemoteStartSeen
  <2>1. UNCHANGED scene /\ KeepsCharging
    BY <1>1 DEF RemoteStartSeen, KeepsCharging, Orderly, pilot, Travels, TypeOK, Spend, CanSpend,
       DataType, Budgets
  <2> QED BY <2>1, RoutesRests
<1>2. CASE RemoteStartGoes BY <1>2, RoutesRemote
<1>3. CASE ResetSeen
  <2>1. UNCHANGED scene /\ KeepsCharging
    BY <1>3 DEF ResetSeen, StopBegins, MagneticContactorOff, Goes, KeepsCharging, Charging, Told,
       FirstCall, Known, Orderly, pilot, charge, status
  <2> QED BY <2>1, RoutesRests
<1>4. CASE Reboots BY <1>4, RoutesScreen
<1>5. CASE TSCT_ChargingStop("status") BY <1>5, RoutesStops DEF Threads
<1>6. CASE LayerPassed("status") BY <1>6, RoutesStops DEF Threads
<1> QED BY <1>1, <1>2, <1>3, <1>4, <1>5, <1>6 DEF StatusThread

\* Every step keeps the route: the OCPP client.
LEMMA RoutesClient == ASSUME Travels, Client PROVE Routes'
<1>1. CASE DataProcCmd_RmStart
  <2>1. UNCHANGED scene /\ KeepsCharging
    BY <1>1 DEF DataProcCmd_RmStart, Asks, KeepsCharging, Charging, Told, FirstCall, Known, Orderly,
       pilot, charge, status, Spend, CanSpend
  <2> QED BY <2>1, RoutesRests
<1>2. CASE DataProcCmd_RmStopTr
  <2>1. UNCHANGED scene /\ KeepsCharging
    BY <1>2 DEF DataProcCmd_RmStopTr, Asks, KeepsCharging, Charging, Told, FirstCall, Known,
       Orderly, pilot, charge, status, Spend, CanSpend
  <2> QED BY <2>1, RoutesRests
<1>3. CASE DataProcCmd_Reset
  <2>1. UNCHANGED scene /\ KeepsCharging
    BY <1>3 DEF DataProcCmd_Reset, Asks, KeepsCharging, Charging, Told, FirstCall, Known, Orderly,
       pilot, charge, status, Spend, CanSpend
  <2> QED BY <2>1, RoutesRests
<1>4. CASE MakeDataCmd_StopTs
  <2>1. UNCHANGED scene /\ KeepsCharging
    BY <1>4 DEF MakeDataCmd_StopTs, StopForgotten, KeepsCharging, Charging, Told, FirstCall, Known,
       Orderly, pilot, charge, status
  <2> QED BY <2>1, RoutesRests
<1>5. CASE DataProcCmd_StopTs
  <2>1. UNCHANGED scene /\ KeepsCharging
    BY <1>5 DEF DataProcCmd_StopTs, KeepsCharging, Charging, Told, FirstCall, Known, Orderly, pilot,
       charge, Travels, TypeOK, ThreadType, Histories
  <2> QED BY <2>1, RoutesRests
<1>6. CASE TakesStart
  <2>1. UNCHANGED scene /\ KeepsCharging
    BY <1>6 DEF TakesStart, Spend, CanSpend, Budgets, DataType, Travels, TypeOK, ThreadType,
       Histories, status, KeepsCharging, Charging, Told, FirstCall, Known, Orderly, pilot, charge
  <2> QED BY <2>1, RoutesRests
<1>7. CASE DataProcCmd_StartTs
  <2>1. UNCHANGED scene /\ KeepsCharging
    BY <1>7 DEF DataProcCmd_StartTs, status, KeepsCharging, Charging, Told, FirstCall, Known,
       Orderly, pilot, charge
  <2> QED BY <2>1, RoutesRests
<1> QED BY <1>1, <1>2, <1>3, <1>4, <1>5, <1>6, <1>7 DEF Client

\* Every step keeps the route: the car, the button and the screen.
LEMMA RoutesWorld == ASSUME Travels, World PROVE Routes'
<1>1. CASE ButtonMoves
  <2>1. UNCHANGED scene /\ KeepsCharging
    BY <1>1 DEF ButtonMoves, KeepsCharging, Charging, Told, FirstCall, Known, Orderly, pilot,
       charge, status, Spend, CanSpend
  <2> QED BY <2>1, RoutesRests
<1>2. CASE ChargeStopOnPress BY <1>2, RoutesScreen
<1>3. CASE Ch2FinishConfirmOnPress
  <2>1. ituLayerGoto("disconnect") /\ (Orderly' => Orderly)
    BY <1>3 DEF Ch2FinishConfirmOnPress, Orderly
  <2> QED BY <2>1, RoutesLeaves DEF Layers
<1>4. CASE MinutePasses
  <2>1. UNCHANGED scene /\ KeepsCharging
    BY <1>4 DEF MinutePasses, KeepsCharging, Charging, Told, FirstCall, Known, Orderly, pilot,
       status
  <2> QED BY <2>1, RoutesRests
<1>5. CASE \E v \in Voltages : CableMoves(v)
  <2>1. UNCHANGED scene /\ KeepsCharging
    BY <1>5 DEF CableMoves, KeepsCharging, Charging, Told, FirstCall, Known, Orderly, charge,
       status, Spend, CanSpend
  <2> QED BY <2>1, RoutesRests
<1> QED BY <1>1, <1>2, <1>3, <1>4, <1>5 DEF World

\* While energy flows in the charge layer the server sees the connector as charging: for every set
\* of levels and all bounds, whatever sessions, stops and requests came before.
THEOREM ChargingsReported == Spec => []ChargingReported
<1>1. Init => Routes
  <2> SUFFICES ASSUME Init PROVE Routes OBVIOUS
  <2>1. DOMAIN queue = {1} /\ queue[1] = <<"main", "Enter">> /\ pos = 0 /\ visible = "main"
    BY DEF Init
  <2>2. MainToCome(queue) BY <2>1 DEF MainToCome
  <2>3. ~Leaving BY DEF Init, Leaving, Between
  <2> QED BY <2>1, <2>2, <2>3 DEF Routes, Cold
<1>2. TypeOK /\ OnceInv /\ Home /\ Reported /\ Routes /\ [Next]_vars => Routes'
  <2> SUFFICES ASSUME TypeOK, OnceInv, Home, Reported, Routes, [Next]_vars PROVE Routes' OBVIOUS
  <2>1. Travels BY HomeNext, AllShown DEF Travels, OnceInv
  <2>2. CASE UNCHANGED vars
    <3>1. UNCHANGED scene /\ KeepsCharging
      BY <2>2 DEF vars, pilot, charge, status, KeepsCharging, Charging, Told, FirstCall, Known,
         Orderly
    <3> QED BY <2>1, <3>1, RoutesRests
  <2>3. CASE Next
    BY <2>1, <2>3, RoutesSceneThread, RoutesPilotThread, RoutesEmbThread, RoutesStopperThread,
       RoutesFaultThread, RoutesOrderThread, RoutesTopTimer, RoutesWaitThread, RoutesStatusThread,
       RoutesClient, RoutesWorld DEF Next
  <2> QED BY <2>2, <2>3
<1>3. TypeOK /\ Routes => ChargingReported
  BY DEF Routes, Charging, Told, Known, ChargingReported, TypeOK, FlagType, ThreadType, Histories
<1> QED BY <1>1, <1>2, <1>3, TypeCorrect, OnceHolds, HomeHolds, ReportedHolds, PTL DEF Spec
=============================================================================
