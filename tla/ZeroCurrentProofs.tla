------------------------- MODULE ZeroCurrentProofs -------------------------
(***************************************************************************)
(* For every length of a minute and of an hour and every patience: no      *)
(* session is ended by CheckCurrentIsZero before its time, and one whose   *)
(* current stopped early enough in its hour is ended.                      *)
(***************************************************************************)
EXTENDS ZeroCurrent, TLAPS

-----------------------------------------------------------------------------
(* Arithmetic *)

\* A product grows with its factor.
LEMMA Products == \A d \in Nat, x, y \in Int : x >= y => d * x >= d * y
OBVIOUS

\* What \div and % are.
LEMMA Division ==
  ASSUME NEW n \in Nat, NEW d \in Nat \ {0}
  PROVE  /\ n \div d \in Nat /\ n % d \in 0..(d - 1)
         /\ n = d * (n \div d) + (n % d)
OBVIOUS

\* ... and no other quotient and remainder do.
LEMMA QuotientIs ==
  ASSUME NEW n \in Nat, NEW d \in Nat \ {0}, NEW q \in Nat, NEW r \in 0..(d - 1), n = d * q + r
  PROVE  n \div d = q /\ n % d = r
<1> DEFINE k == n \div d
           s == n % d
<1>1. k \in Nat /\ s \in 0..(d - 1) /\ n = d * k + s BY Division
<1> HIDE DEF k, s
<1>2. d * q \in Nat /\ d * k \in Nat /\ d * (k + 1) = d * k + d /\ d * (q + 1) = d * q + d
  BY <1>1
<1>3. ~(q >= k + 1)
  <2>1. q >= k + 1 => d * q >= d * (k + 1) BY <1>1, Products
  <2> QED BY <2>1, <1>1, <1>2
<1>4. ~(k >= q + 1)
  <2>1. k >= q + 1 => d * k >= d * (q + 1) BY <1>1, Products
  <2> QED BY <2>1, <1>1, <1>2
<1>5. k = q BY <1>1, <1>3, <1>4
<1>6. s = r BY <1>1, <1>2, <1>5
<1> QED BY <1>5, <1>6 DEF k, s

\* The minutes of the hour overstate the time that passed by less than one minute.
LEMMA MinutesPass ==
  ASSUME NEW a \in Nat, NEW b \in Nat, a <= b, NEW p \in Nat, MinuteOf(b) - MinuteOf(a) > p
  PROVE  b - a > p * TicksPerMinute
<1> DEFINE T == TicksPerMinute
           H == TicksPerMinute * MinutesPerHour
<1>1. T \in Nat \ {0} /\ H \in Nat \ {0} BY ZeroAssumption
<1> HIDE DEF H, T
<1>2. PICK qa \in Nat, ra \in 0..(H - 1) : a = H * qa + ra /\ ra = a % H BY <1>1, Division
<1>3. PICK qb \in Nat, rb \in 0..(H - 1) : b = H * qb + rb /\ rb = b % H BY <1>1, Division
<1>4. H * qb >= H * qa
  <2>1. CASE qb >= qa BY <2>1, <1>1, Products
  <2>2. CASE qa >= qb + 1
    <3>1. H * qa >= H * (qb + 1) BY <2>2, <1>1, Products
    <3>2. H * (qb + 1) = H * qb + H BY <1>1
    <3> QED BY <3>1, <3>2, <1>1, <1>2, <1>3
  <2> QED BY <2>1, <2>2
<1>5. b - a >= rb - ra
  <2>1. H * qa \in Nat /\ H * qb \in Nat BY <1>1
  <2> QED BY <2>1, <1>1, <1>2, <1>3, <1>4
<1> ra \in Nat /\ rb \in Nat BY <1>1
<1>6. PICK ma \in Nat, sa \in 0..(T - 1) : ra = T * ma + sa /\ ma = ra \div T BY <1>1, Division
<1>7. PICK mb \in Nat, sb \in 0..(T - 1) : rb = T * mb + sb /\ mb = rb \div T BY <1>1, Division
<1>8. mb >= ma + p + 1
  <2>1. MinuteOf(a) = ma /\ MinuteOf(b) = mb BY <1>2, <1>3, <1>6, <1>7 DEF MinuteOf, T, H
  <2> QED BY <2>1
<1>9. T * mb >= T * ma + T * p + T
  <2>1. T * mb >= T * (ma + p + 1) BY <1>1, <1>8, Products
  <2>2. T * (ma + p + 1) = T * ma + T * p + T BY <1>1
  <2> QED BY <2>1, <2>2
<1>10. T * mb \in Nat /\ T * ma \in Nat /\ T * p \in Nat /\ T * p = p * T BY <1>1
<1>11. b - a > p * T BY <1>1, <1>5, <1>6, <1>7, <1>9, <1>10
<1> QED BY <1>11 DEF T

\* A minute that leaves p minutes and one to spare in its hour: as long as the hour cannot have
\* turned, a difference of at most p minutes says that less than p + 1 minutes have passed
\* since that minute began.
LEMMA MinutesSpare ==
  ASSUME NEW z \in Nat, NEW t \in Nat, z <= t, NEW p \in Nat,
         MinuteOf(z) + p + 1 < MinutesPerHour, MinuteOf(t) - MinuteOf(z) <= p,
         t - z + (z % TicksPerMinute) < (p + 2) * TicksPerMinute
  PROVE  t - z + (z % TicksPerMinute) < (p + 1) * TicksPerMinute
<1> DEFINE T == TicksPerMinute
           M == MinutesPerHour
           H == TicksPerMinute * MinutesPerHour
<1>1. T \in Nat \ {0} /\ M \in Nat \ {0} /\ H \in Nat \ {0} /\ H = T * M BY ZeroAssumption
<1> HIDE DEF H, T, M
<1>2. PICK q \in Nat, r \in 0..(H - 1) : z = H * q + r /\ r = z % H BY <1>1, Division
<1> r \in Nat BY <1>1
<1>3. PICK m \in Nat, s \in 0..(T - 1) : r = T * m + s /\ m = r \div T BY <1>1, Division
<1>4. MinuteOf(z) = m BY <1>2, <1>3 DEF MinuteOf, T, H
<1>5. z % T = s
  <2>1. H * q = T * (M * q) BY <1>1
  <2>2. T * (M * q + m) = T * (M * q) + T * m /\ M * q + m \in Nat BY <1>1
  <2>3. z = T * (M * q + m) + s
    <3>1. T * (M * q) \in Nat /\ T * m \in Nat /\ s \in Nat BY <1>1
    <3>2. z = T * (M * q) + (T * m + s) BY <1>2, <1>3, <2>1
    <3> QED BY <3>1, <3>2, <2>2
  <2> QED BY <1>1, <2>2, <2>3, QuotientIs
<1> DEFINE u == t - z + s
<1>6. u \in Nat /\ t = H * q + (T * m + u)
  <2>1. H * q \in Nat /\ T * m \in Nat /\ s \in Nat BY <1>1
  <2>2. z = H * q + (T * m + s) BY <1>2, <1>3
  <2> HIDE DEF u
  <2>3. u = t - z + s BY DEF u
  <2> QED BY <2>1, <2>2, <2>3
<1>7. u < (p + 2) * T BY <1>5 DEF T
<1> HIDE DEF u
<1>8. T * m + u \in 0..(H - 1)
  <2>1. T * M >= T * (m + p + 2) BY <1>1, <1>4, Products DEF M
  <2>2. T * (m + p + 2) = T * m + (p + 2) * T BY <1>1
  <2>3. T * m \in Nat /\ (p + 2) * T \in Nat BY <1>1
  <2> QED BY <1>1, <1>6, <1>7, <2>1, <2>2, <2>3
<1>9. t % H = T * m + u BY <1>1, <1>6, <1>8, QuotientIs
<1>10. PICK k \in Nat, v \in 0..(T - 1) : u = T * k + v /\ k = u \div T
  <2>1. u \in Nat BY <1>6
  <2> QED BY <1>1, <2>1, Division
<1>11. (T * m + u) \div T = m + k
  <2>1. T * m + u = T * (m + k) + v /\ T * m + u \in Nat BY <1>1, <1>6, <1>10
  <2> QED BY <1>1, <2>1, QuotientIs
<1>12. MinuteOf(t) = m + k BY <1>9, <1>11 DEF MinuteOf, T, H
<1>13. T * p >= T * k BY <1>1, <1>4, <1>12, Products
<1>14. u < (p + 1) * T
  <2>1. (p + 1) * T = T * p + T /\ T * p \in Nat /\ T * k \in Nat BY <1>1
  <2> QED BY <2>1, <1>1, <1>10, <1>13
<1> QED BY <1>5, <1>14 DEF u, T

\* MinuteOf is a number.
LEMMA MinuteOfInt == \A t \in Nat : MinuteOf(t) \in Nat
<1> SUFFICES ASSUME NEW t \in Nat PROVE MinuteOf(t) \in Nat OBVIOUS
<1>1. TicksPerMinute * MinutesPerHour \in Nat \ {0} BY ZeroAssumption
<1>2. t % (TicksPerMinute * MinutesPerHour) \in Nat BY <1>1, Division
<1> QED BY <1>2, ZeroAssumption, Division DEF MinuteOf

-----------------------------------------------------------------------------
(* The invariant *)

\* The zero time the check compares with is never older than the run of readings it stands for.
Honest ==
  /\ sCurrentZeroTime # 0 /\ order = "charging" => zeroAt # None
  /\ sCurrentZeroTime # 0 /\ zeroAt # None => sCurrentZeroTime >= zeroAt

\* TypeOK, Honest and NeverEarly together are inductive.
IInv == TypeOK /\ Honest /\ NeverEarly

\* The first reading without current, or one at time 0
LEMMA BeginsStep ==
  ASSUME IInv, ZeroBegins, order = "charging", read' = sChargeTime, UNCHANGED sChargeTime,
         zeroAt' = IF zeroAt = None THEN sChargeTime ELSE zeroAt
  PROVE  IInv'
BY DEF IInv, TypeOK, Times, Honest, NeverEarly, ZeroBegins, None

\* A further reading without current: the stop
LEMMA GoesOnStep ==
  ASSUME IInv, ZeroGoesOn, order = "charging", read' = sChargeTime, UNCHANGED sChargeTime,
         zeroAt' = IF zeroAt = None THEN sChargeTime ELSE zeroAt
  PROVE  IInv'
<1>1. zeroAt' = zeroAt /\ zeroAt \in Nat /\ sCurrentZeroTime \in Nat /\ sChargeTime \in Nat
      /\ zeroAt <= sCurrentZeroTime /\ sCurrentZeroTime <= sChargeTime
      /\ UNCHANGED <<sChargeTime, sCurrentZeroTime>>
  BY ZeroAssumption DEF IInv, TypeOK, Times, Honest, ZeroGoesOn, None
<1>2. TypeOK' /\ Honest'
  <2>1. (mc' = mc /\ order' = order) \/ (mc' = FALSE /\ order' = "stop") BY DEF ZeroGoesOn
  <2>2. /\ sChargeTime' \in Times /\ sCurrentZeroTime' \in 0..sChargeTime'
        /\ zeroAt' \in {None} \cup (0..read')
    BY <1>1, ZeroAssumption DEF IInv, TypeOK, Times
  <2>3. mc' \in BOOLEAN /\ order' \in {"charging", "stop"} BY <2>1 DEF IInv, TypeOK
  <2>4. read' \in 0..sChargeTime' BY <1>1
  <2>5. TypeOK' BY <2>2, <2>3, <2>4 DEF TypeOK
  <2>6. Honest' BY <1>1 DEF Honest, None
  <2> QED BY <2>5, <2>6
<1>3. CASE ZeroPast > Patience
  <2>1. MinuteOf(sChargeTime) - MinuteOf(sCurrentZeroTime) > Patience
    BY <1>1, <1>3, ZeroAssumption, MinuteOfInt DEF ZeroPast
  <2>2. sChargeTime - sCurrentZeroTime > Patience * TicksPerMinute
    BY <1>1, <2>1, MinutesPass, ZeroAssumption
  <2>3. sChargeTime - zeroAt > Patience * TicksPerMinute
    BY <1>1, <2>2, ZeroAssumption
  <2> QED BY <1>1, <1>2, <2>3 DEF IInv, NeverEarly, ZeroFor
<1>4. CASE ~(ZeroPast > Patience)
  BY <1>2, <1>4 DEF IInv, NeverEarly, ZeroGoesOn
<1> QED BY <1>3, <1>4

\* The invariant holds at first,
LEMMA Start == Init => IInv
BY ZeroAssumption DEF Init, Fresh, IInv, TypeOK, Times, Honest, NeverEarly, None

\* ... and every step keeps it.
LEMMA Step == IInv /\ [Next]_vars => IInv'
<1> SUFFICES ASSUME IInv, [Next]_vars PROVE IInv' OBVIOUS
<1> USE DEF IInv, TypeOK, Times, Honest, NeverEarly, ZeroFor, None
<1>1. CASE ChargeOnEnter BY <1>1, ZeroAssumption DEF ChargeOnEnter
<1>2. CASE Second BY <1>2, ZeroAssumption DEF Second
<1>3. CASE Pilot BY <1>3 DEF Pilot
<1>4. CASE OtherStop BY <1>4 DEF OtherStop
<1>5. ASSUME NEW zero \in BOOLEAN, MeterReads(zero) PROVE IInv'
  <2>1. CASE CurrentFlows(zero) BY <1>5, <2>1 DEF MeterReads, CurrentFlows
  <2>2. CASE ~CurrentFlows(zero) BY <1>5, <2>2, BeginsStep, GoesOnStep DEF MeterReads
  <2> QED BY <2>1, <2>2
<1>6. CASE UNCHANGED vars BY <1>6 DEF vars
<1> QED BY <1>1, <1>2, <1>3, <1>4, <1>5, <1>6 DEF Next

\* IInv is an invariant of the check.
THEOREM Invariance == Spec => []IInv
BY Start, Step, PTL DEF Spec

\* Every variable keeps to its type: the last answer and the zero time lie in the session, and a
\* run of readings without current begins no later than the last answer.
THEOREM TypeCorrect == Spec => []TypeOK
<1>1. IInv => TypeOK BY DEF IInv
<1> QED BY <1>1, Invariance, PTL

\* Whatever the lengths of a minute and an hour: the check never stops a session before the
\* meter has read no current for Patience minutes.
THEOREM StopsInTime == Spec => []NeverEarly
<1>1. IInv => NeverEarly BY DEF IInv
<1> QED BY <1>1, Invariance, PTL

-----------------------------------------------------------------------------
(* The session ends *)

\* The current stopped early enough in its hour.
SpareHour == MinuteOf(sCurrentZeroTime) + Patience + 1 < MinutesPerHour

\* The time from the minute in which the current stopped to t.
Since(t) == t - sCurrentZeroTime + (sCurrentZeroTime % TicksPerMinute)

\* The meter has answered within Gap ticks.
Answered == sChargeTime - read <= Gap

\* The zero time is taken with the first reading without current after tick 0, so at most Gap
\* ticks late.
Taken ==
  /\ order = "charging" /\ zeroAt # None /\ sCurrentZeroTime = 0 => zeroAt = 0 /\ read = 0
  /\ order = "charging" /\ sCurrentZeroTime # 0
     => sCurrentZeroTime <= read /\ sCurrentZeroTime - zeroAt <= Gap

\* A session that goes on was within its patience at the last answer.
Patient ==
  order = "charging" /\ sCurrentZeroTime # 0 /\ SpareHour
  => Since(read) < (Patience + 1) * TicksPerMinute

EndInv == IInv /\ Answered /\ Taken /\ Patient

\* A remainder is less than its divisor, and a product at least a factor.
LEMMA Remainder ==
  \A t \in Nat : /\ t % TicksPerMinute \in Nat
                 /\ t % TicksPerMinute < (Patience + 1) * TicksPerMinute
<1> SUFFICES ASSUME NEW t \in Nat
             PROVE  /\ t % TicksPerMinute \in Nat
                    /\ t % TicksPerMinute < (Patience + 1) * TicksPerMinute
  OBVIOUS
<1>1. TicksPerMinute \in Nat \ {0} /\ Patience \in Nat BY ZeroAssumption
<1>2. TicksPerMinute * (Patience + 1) >= TicksPerMinute * 1 BY <1>1, Products
<1>3. TicksPerMinute * (Patience + 1) = (Patience + 1) * TicksPerMinute
      /\ TicksPerMinute * 1 = TicksPerMinute
  BY <1>1
<1>4. t % TicksPerMinute \in 0..(TicksPerMinute - 1) BY <1>1, Division
<1> QED BY <1>1, <1>2, <1>3, <1>4

\* The first reading without current takes the zero time, and is within its minute.
LEMMA TakenStep ==
  ASSUME EndInv, ZeroBegins, order = "charging", read' = sChargeTime, UNCHANGED sChargeTime,
         zeroAt' = IF zeroAt = None THEN sChargeTime ELSE zeroAt
  PROVE  (Answered /\ Taken /\ Patient)'
<1>1. sChargeTime \in Nat /\ read \in Nat /\ Gap \in Nat /\ sChargeTime - read <= Gap
  BY ZeroAssumption DEF EndInv, IInv, TypeOK, Times, Answered
<1>2. sCurrentZeroTime' = sChargeTime /\ sCurrentZeroTime = 0 /\ order' = "charging"
  BY DEF ZeroBegins
<1>3. zeroAt' = sChargeTime \/ (zeroAt' = 0 /\ read = 0)
  <2>1. zeroAt # None => zeroAt = 0 /\ read = 0 BY <1>2 DEF EndInv, Taken
  <2> QED BY <2>1
<1>4. Answered' BY <1>1 DEF Answered
<1>5. Taken' BY <1>1, <1>2, <1>3 DEF Taken, None
<1>6. Since(read)' = sChargeTime % TicksPerMinute
  <2>1. sChargeTime % TicksPerMinute \in Nat BY <1>1, Remainder
  <2>2. Since(read)' = sChargeTime - sChargeTime + (sChargeTime % TicksPerMinute)
    BY <1>2 DEF Since
  <2> QED BY <1>1, <2>1, <2>2
<1>7. Patient' BY <1>1, <1>6, Remainder DEF Patient
<1> QED BY <1>4, <1>5, <1>7

\* A further reading without current that does not stop the session was within its patience.
LEMMA PatientStep ==
  ASSUME Gap <= TicksPerMinute,
         EndInv, ZeroGoesOn, order = "charging", read' = sChargeTime, UNCHANGED sChargeTime,
         zeroAt' = IF zeroAt = None THEN sChargeTime ELSE zeroAt
  PROVE  (Answered /\ Taken /\ Patient)'
<1> DEFINE T == TicksPerMinute
           z == sCurrentZeroTime
<1>1. /\ z \in Nat /\ sChargeTime \in Nat /\ read \in Nat /\ zeroAt \in Nat /\ zeroAt' = zeroAt
      /\ z <= sChargeTime /\ z # 0 /\ z' = z /\ sChargeTime - read <= Gap
      /\ z <= read /\ read <= sChargeTime /\ z - zeroAt <= Gap
  BY DEF EndInv, IInv, TypeOK, Times, Honest, None, ZeroGoesOn, Answered, Taken
<1>2. Gap \in Nat /\ T \in Nat \ {0} /\ Patience \in Nat BY ZeroAssumption
<1>3. Answered' BY <1>1, <1>2 DEF Answered
<1>4. Taken' BY <1>1, <1>2 DEF Taken, None
<1>5. Patient'
  <2> SUFFICES ASSUME order' = "charging", SpareHour'
               PROVE  Since(read)' < (Patience + 1) * T
    BY DEF Patient
  <2>1. SpareHour BY <1>1 DEF SpareHour
  <2>2. z % T \in Nat BY <1>1, Remainder
  <2>3. read - z + (z % T) < (Patience + 1) * T BY <1>1, <2>1 DEF EndInv, Patient, Since
  <2>4. (Patience + 2) * T = (Patience + 1) * T + T /\ (Patience + 1) * T \in Nat BY <1>2
  <2>5. sChargeTime - z + (z % T) < (Patience + 2) * T
    <3> HIDE DEF T
    <3>1. Gap <= T BY DEF T
    <3> QED BY <1>1, <1>2, <2>2, <2>3, <2>4, <3>1
  <2>6. ~(ZeroPast > Patience) BY DEF ZeroGoesOn
  <2>7. MinuteOf(sChargeTime) - MinuteOf(z) <= Patience
    BY <1>1, <1>2, <2>6, MinuteOfInt DEF ZeroPast
  <2>8. sChargeTime - z + (z % T) < (Patience + 1) * T
    BY <1>1, <1>2, <2>1, <2>5, <2>7, MinutesSpare DEF SpareHour
  <2> QED BY <1>1, <2>8 DEF Since
<1> QED BY <1>3, <1>4, <1>5

\* Every step keeps the three.
LEMMA EndStep ==
  ASSUME Gap <= TicksPerMinute, EndInv, [Next]_vars
  PROVE  EndInv'
<1>1. IInv' BY Step DEF EndInv
<1>2. TypeOK /\ Gap \in Nat BY ZeroAssumption DEF EndInv, IInv
<1>3. (Answered /\ Taken /\ Patient)'
  <2>1. CASE ChargeOnEnter
    BY <1>2, <2>1 DEF ChargeOnEnter, Answered, Taken, Patient, None
  <2>2. CASE Second
    <3>1. Answered' BY <1>2, <2>2 DEF Second, Answered, TypeOK, Times
    <3>2. Taken' /\ Patient'
      BY <2>2 DEF Second, EndInv, Taken, Patient, SpareHour, Since
    <3> QED BY <3>1, <3>2
  <2>3. CASE Pilot
    BY <2>3 DEF Pilot, EndInv, Answered, Taken, Patient, SpareHour, Since
  <2>4. CASE OtherStop BY <2>4 DEF OtherStop, EndInv, Answered, Taken, Patient
  <2>5. ASSUME NEW zero \in BOOLEAN, MeterReads(zero)
        PROVE  (Answered /\ Taken /\ Patient)'
    <3>1. CASE CurrentFlows(zero)
      BY <1>2, <2>5, <3>1
      DEF MeterReads, CurrentFlows, TypeOK, Times, Answered, Taken, Patient
    <3>2. CASE ~CurrentFlows(zero)
      BY <2>5, <3>2, TakenStep, PatientStep DEF MeterReads
    <3> QED BY <3>1, <3>2
  <2>6. CASE UNCHANGED vars
    BY <2>6 DEF vars, EndInv, Answered, Taken, Patient, SpareHour, Since
  <2> QED BY <2>1, <2>2, <2>3, <2>4, <2>5, <2>6 DEF Next
<1> QED BY <1>1, <1>3 DEF EndInv

\* A meter that answers at least once a minute: a session whose current stopped early enough in
\* the hour of its charging time ends within Patience + 1 minutes and the answers it takes.
THEOREM EndsInTime == Gap <= TicksPerMinute => (Spec => []EndsUnlessLateInHour)
<1> SUFFICES ASSUME Gap <= TicksPerMinute PROVE Spec => []EndsUnlessLateInHour OBVIOUS
<1>1. Init => EndInv
  <2>1. Init => Answered /\ Taken /\ Patient
    BY ZeroAssumption DEF Init, Fresh, Answered, Taken, Patient, None
  <2> QED BY <2>1, Start DEF EndInv
<1>2. EndInv /\ [Next]_vars => EndInv' BY EndStep
<1>3. EndInv => EndsUnlessLateInHour
  <2> SUFFICES ASSUME EndInv, order = "charging", zeroAt # None, sCurrentZeroTime # 0, SpareHour
               PROVE  ZeroFor <= (Patience + 1) * TicksPerMinute + 2 * Gap
    BY DEF EndsUnlessLateInHour, SpareHour
  <2> DEFINE most == (Patience + 1) * TicksPerMinute
  <2>1. /\ sCurrentZeroTime \in Nat /\ sChargeTime \in Nat /\ read \in Nat /\ zeroAt \in Nat
        /\ sChargeTime - read <= Gap /\ sCurrentZeroTime - zeroAt <= Gap
    BY DEF EndInv, IInv, TypeOK, Times, None, Answered, Taken
  <2>2. Gap \in Nat /\ most \in Nat BY ZeroAssumption
  <2>3. read - sCurrentZeroTime + (sCurrentZeroTime % TicksPerMinute) < most
    BY DEF EndInv, Patient, Since
  <2>4. sCurrentZeroTime % TicksPerMinute \in Nat BY <2>1, Remainder
  <2> HIDE DEF most
  <2>5. sChargeTime - zeroAt <= most + 2 * Gap BY <2>1, <2>2, <2>3, <2>4
  <2> QED BY <2>5 DEF ZeroFor, most
<1> QED BY <1>1, <1>2, <1>3, PTL DEF Spec
=============================================================================
