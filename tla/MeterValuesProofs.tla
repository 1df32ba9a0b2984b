------------------------- MODULE MeterValuesProofs -------------------------
(***************************************************************************)
(* Whatever the four threads saw of a reading, and however long the queue  *)
(* and the session: the increases that are reported add up to the last     *)
(* reading sampled, unless a value went missing for one of the recorded    *)
(* reasons.                                                                *)
(***************************************************************************)
EXTENDS MeterValues, Integers, SequenceTheorems, WellFoundedInduction, TLAPS

-----------------------------------------------------------------------------
(* Induction, as a statement about sets of numbers *)

LessThan == {p \in Nat \X Nat : p[1] < p[2]}

\* A set of numbers with 0, and with every successor, holds them all.
LEMMA Induction ==
  ASSUME NEW S \in SUBSET Nat, 0 \in S, \A n \in S : n + 1 \in S
  PROVE  \A n \in Nat : n \in S
<1> SUFFICES ASSUME Nat \ S # {} PROVE FALSE OBVIOUS
<1>1. IsWellFoundedOn(LessThan, Nat)
  BY NatLessThanWellFounded, Zenon DEF OpToRel, LessThan
<1>2. PICK n \in Nat \ S : \A m \in Nat \ S : ~ (<<m, n>> \in LessThan) BY <1>1, WFMin
<1>3. n # 0 /\ n - 1 \in Nat /\ (n - 1) + 1 = n /\ n - 1 < n BY <1>2
<1>4. n - 1 \in S
  <2>1. ~ (<<n - 1, n>> \in LessThan) => n - 1 \in S
    <3>1. <<n - 1, n>> \in LessThan
      <4>1. <<n - 1, n>> \in Nat \X Nat BY <1>3
      <4>2. <<n - 1, n>>[1] < <<n - 1, n>>[2] BY <1>3
      <4> QED BY <4>1, <4>2 DEF LessThan
    <3> QED BY <3>1
  <2> QED BY <1>2, <1>3, <2>1 DEF LessThan
<1> QED BY <1>2, <1>3, <1>4

-----------------------------------------------------------------------------
(* The arithmetic of the register *)

\* The modulus holds more than one value, and every energy and the energy after it.
LEMMA ModulusOK ==
  /\ Digit \in Nat \ {0, 1} /\ Modulus \in Nat \ {0} /\ Modulus > 1
  /\ MaxEnergy \in Nat /\ MaxEnergy + 1 < Modulus
<1>1. Digit \in Nat \ {0, 1} /\ MaxEnergy \in Nat /\ MaxEnergy + 1 < Digit * Digit BY Bounds
<1> QED BY <1>1 DEF Modulus

\* Addition modulo the modulus stays in range, is associative and undone by Minus.
LEMMA PlusOK ==
  /\ \A a, b \in UInt : Plus(a, b) \in UInt /\ Minus(a, b) \in UInt
  /\ \A a, b, c \in UInt : Plus(Plus(a, b), c) = Plus(a, Plus(b, c))
  /\ \A a, b \in UInt : Plus(b, Minus(a, b)) = a
  /\ \A a \in UInt : Plus(a, 0) = a /\ Plus(0, a) = a
  /\ 0 \in UInt
BY ModulusOK DEF UInt, Plus, Minus

-----------------------------------------------------------------------------
(* The sum of a queue *)

\* One step of the recursion of Total, and a function that takes it for the queues up to n.
SumStep(f, q) == IF q = <<>> THEN 0 ELSE Plus(Head(q).val, f[Tail(q)])
SumsUpTo(n, f) ==
  f \in [Seq(Entry) -> UInt] /\ \A q \in Seq(Entry) : Len(q) <= n => f[q] = SumStep(f, q)

\* The tail of a queue is a shorter queue.
LEMMA TailOK ==
  ASSUME NEW q \in Seq(Entry), q # <<>>
  PROVE  /\ Head(q) \in Entry /\ Tail(q) \in Seq(Entry)
         /\ Len(q) \in Nat /\ Len(q) # 0 /\ Len(Tail(q)) = Len(q) - 1
BY HeadTailProperties, EmptySeq, LenProperties

\* The step stays in range.
LEMMA SumStepOK ==
  ASSUME NEW f \in [Seq(Entry) -> UInt], NEW q \in Seq(Entry)
  PROVE  SumStep(f, q) \in UInt
<1>1. CASE q = <<>> BY <1>1, PlusOK DEF SumStep
<1>2. CASE q # <<>>
  <2>1. Head(q) \in Entry /\ Tail(q) \in Seq(Entry) BY <1>2, TailOK
  <2>2. Head(q).val \in UInt /\ f[Tail(q)] \in UInt BY <2>1 DEF Entry
  <2>3. Plus(Head(q).val, f[Tail(q)]) \in UInt BY <2>2, PlusOK
  <2> QED BY <1>2, <2>3 DEF SumStep
<1> QED BY <1>1, <1>2

\* Functions that take the step agree,
LEMMA SumsAgree ==
  ASSUME NEW m \in Nat, NEW f, NEW g, SumsUpTo(m, f), SumsUpTo(m, g)
  PROVE  \A q \in Seq(Entry) : Len(q) <= m => f[q] = g[q]
<1> DEFINE S == {n \in Nat : \A q \in Seq(Entry) : Len(q) <= n /\ Len(q) <= m => f[q] = g[q]}
<1>1. 0 \in S
  <2> SUFFICES ASSUME NEW q \in Seq(Entry), Len(q) <= 0 PROVE f[q] = g[q] OBVIOUS
  <2>1. q = <<>> /\ Len(q) <= m BY TailOK, EmptySeq
  <2>2. f[q] = SumStep(f, q) /\ g[q] = SumStep(g, q) BY <2>1 DEF SumsUpTo
  <2> QED BY <2>1, <2>2 DEF SumStep
<1>2. ASSUME NEW n \in S PROVE n + 1 \in S
  <2> SUFFICES ASSUME NEW q \in Seq(Entry), Len(q) <= n + 1, Len(q) <= m PROVE f[q] = g[q]
    OBVIOUS
  <2>1. f[q] = SumStep(f, q) /\ g[q] = SumStep(g, q) BY DEF SumsUpTo
  <2>2. CASE q = <<>> BY <2>1, <2>2 DEF SumStep
  <2>3. CASE q # <<>>
    <3>1. Tail(q) \in Seq(Entry) /\ Len(Tail(q)) <= n /\ Len(Tail(q)) <= m
      BY <2>3, TailOK
    <3>2. f[Tail(q)] = g[Tail(q)] BY <3>1
    <3> QED BY <2>1, <2>3, <3>2 DEF SumStep
  <2> QED BY <2>2, <2>3
<1>3. m \in S
  <2> HIDE DEF S
  <2>1. S \in SUBSET Nat BY DEF S
  <2> QED BY <1>1, <1>2, <2>1, Induction
<1> QED BY <1>3, LenProperties

\* ... and for every length there is one.
LEMMA SumsExist == \A n \in Nat : \E f : SumsUpTo(n, f)
<1> DEFINE S == {n \in Nat : \E f : SumsUpTo(n, f)}
<1>1. 0 \in S
  <2> DEFINE f == [q \in Seq(Entry) |-> 0]
  <2>1. f \in [Seq(Entry) -> UInt] BY PlusOK
  <2>2. \A q \in Seq(Entry) : Len(q) <= 0 => f[q] = SumStep(f, q)
    BY TailOK DEF SumStep
  <2>3. SumsUpTo(0, f) BY <2>1, <2>2 DEF SumsUpTo
  <2> QED BY <2>3
<1>2. ASSUME NEW n \in S PROVE n + 1 \in S
  <2>1. PICK f : SumsUpTo(n, f) OBVIOUS
  <2>2. f \in [Seq(Entry) -> UInt] BY <2>1 DEF SumsUpTo
  <2> DEFINE g == [q \in Seq(Entry) |-> SumStep(f, q)]
  <2>3. g \in [Seq(Entry) -> UInt] BY <2>2, SumStepOK
  <2>4. ASSUME NEW q \in Seq(Entry), Len(q) <= n + 1 PROVE g[q] = SumStep(g, q)
    <3>1. CASE q = <<>> BY <3>1 DEF SumStep
    <3>2. CASE q # <<>>
      <4>1. Tail(q) \in Seq(Entry) /\ Len(Tail(q)) <= n BY <2>4, <3>2, TailOK
      <4>2. f[Tail(q)] = SumStep(f, Tail(q)) BY <2>1, <4>1 DEF SumsUpTo
      <4>3. g[Tail(q)] = f[Tail(q)] BY <4>1, <4>2
      <4>4. g[q] = SumStep(f, q) OBVIOUS
      <4> HIDE DEF g
      <4> QED BY <3>2, <4>3, <4>4 DEF SumStep
    <3> QED BY <3>1, <3>2
  <2>5. SumsUpTo(n + 1, g)
    <3> HIDE DEF g
    <3> QED BY <2>3, <2>4 DEF SumsUpTo
  <2> QED BY <2>5
<1> HIDE DEF S
<1>3. S \in SUBSET Nat BY DEF S
<1>4. \A n \in Nat : n \in S BY <1>1, <1>2, <1>3, Induction
<1> QED BY <1>4 DEF S

\* Total is what its recursion says.
LEMMA TotalDef == \A q \in Seq(Entry) : Total[q] = SumStep(Total, q)
<1> DEFINE nth(n) == CHOOSE f : SumsUpTo(n, f)
           all == [q \in Seq(Entry) |-> nth(Len(q))[q]]
<1>1. \A n \in Nat : SumsUpTo(n, nth(n)) BY SumsExist
<1> HIDE DEF nth
<1>meet. ASSUME NEW f, NEW g, NEW t \in Seq(Entry), Len(t) \in Nat,
                 SumsUpTo(Len(t), f), SumsUpTo(Len(t), g)
          PROVE  f[t] = g[t]
  <2>1. \A q \in Seq(Entry) : Len(q) <= Len(t) => f[q] = g[q] BY <1>meet, SumsAgree
  <2> QED BY <1>meet, <2>1
<1>2. all \in [Seq(Entry) -> UInt] BY <1>1, LenProperties DEF SumsUpTo
<1>3. ASSUME NEW q \in Seq(Entry) PROVE all[q] = SumStep(all, q)
  <2>1. Len(q) \in Nat BY LenProperties
  <2>2. all[q] = SumStep(nth(Len(q)), q) BY <1>1, <2>1 DEF SumsUpTo
  <2>3. CASE q = <<>> BY <2>2, <2>3 DEF SumStep
  <2>4. CASE q # <<>>
    <3>1. Tail(q) \in Seq(Entry) /\ Len(Tail(q)) \in Nat /\ Len(Tail(q)) <= Len(q)
      BY <2>1, <2>4, TailOK, LenProperties
    <3>2. SumsUpTo(Len(Tail(q)), nth(Len(q)))
      <4>1. SumsUpTo(Len(q), nth(Len(q))) BY <1>1, <2>1
      <4> QED BY <3>1, <4>1, <2>1, LenProperties DEF SumsUpTo
    <3>3. all[Tail(q)] = nth(Len(q))[Tail(q)]
      <4>1. SumsUpTo(Len(Tail(q)), nth(Len(Tail(q)))) BY <1>1, <3>1
      <4>2. nth(Len(Tail(q)))[Tail(q)] = nth(Len(q))[Tail(q)]
        BY <3>1, <3>2, <4>1, <1>meet
      <4>3. all[Tail(q)] = nth(Len(Tail(q)))[Tail(q)] BY <3>1
      <4> QED BY <4>2, <4>3
    <3> HIDE DEF all
    <3> QED BY <2>2, <2>4, <3>3 DEF SumStep
  <2> QED BY <2>3, <2>4
<1>4. all = [q \in Seq(Entry) |-> SumStep(all, q)]
  <2>1. all = [q \in Seq(Entry) |-> all[q]] BY <1>2
  <2> HIDE DEF all
  <2> QED BY <2>1, <1>3
<1>5. Total = CHOOSE f : f = [q \in Seq(Entry) |-> SumStep(f, q)] BY DEF Total, SumStep
<1> HIDE DEF all
<1>6. Total = [q \in Seq(Entry) |-> SumStep(Total, q)]
  <2> DEFINE P(f) == f = [q \in Seq(Entry) |-> SumStep(f, q)]
  <2>1. P(all) BY <1>4
  <2>2. Total = CHOOSE f : P(f) BY <1>5
  <2> HIDE DEF P
  <2>3. P(Total) BY <2>1, <2>2, Zenon
  <2> QED BY <2>3 DEF P
<1> QED BY <1>6

\* A sum is a value of the register.
LEMMA TotalOK == \A q \in Seq(Entry) : Total[q] \in UInt
<1> DEFINE S == {n \in Nat : \A q \in Seq(Entry) : Len(q) <= n => Total[q] \in UInt}
<1>1. 0 \in S
  <2> SUFFICES ASSUME NEW q \in Seq(Entry), Len(q) <= 0 PROVE Total[q] \in UInt OBVIOUS
  <2>1. q = <<>> BY TailOK
  <2>2. Total[q] = SumStep(Total, q) BY TotalDef
  <2> QED BY <2>1, <2>2, PlusOK DEF SumStep
<1>2. ASSUME NEW n \in S PROVE n + 1 \in S
  <2> SUFFICES ASSUME NEW q \in Seq(Entry), Len(q) <= n + 1 PROVE Total[q] \in UInt OBVIOUS
  <2>1. Total[q] = SumStep(Total, q) BY TotalDef
  <2>2. CASE q = <<>> BY <2>1, <2>2, PlusOK DEF SumStep
  <2>3. CASE q # <<>>
    <3>1. Head(q) \in Entry /\ Tail(q) \in Seq(Entry) /\ Len(Tail(q)) <= n BY <2>3, TailOK
    <3>2. Head(q).val \in UInt /\ Total[Tail(q)] \in UInt BY <3>1 DEF Entry
    <3>3. Plus(Head(q).val, Total[Tail(q)]) \in UInt BY <3>2, PlusOK
    <3> QED BY <2>1, <2>3, <3>3 DEF SumStep
  <2> QED BY <2>2, <2>3
<1> HIDE DEF S
<1>3. \A n \in Nat : n \in S
  <2>1. S \in SUBSET Nat BY DEF S
  <2> QED BY <1>1, <1>2, <2>1, Induction
<1> QED BY <1>3, LenProperties DEF S

\* The empty queue sums to nothing,
LEMMA TotalEmpty == Total[<<>>] = 0
BY TotalDef, EmptySeq DEF SumStep

\* ... and a further entry adds its value.
LEMMA TotalAppend ==
  ASSUME NEW e \in Entry
  PROVE  \A q \in Seq(Entry) : Total[Append(q, e)] = Plus(Total[q], e.val)
<1> DEFINE S == {n \in Nat : \A q \in Seq(Entry) :
                               Len(q) <= n => Total[Append(q, e)] = Plus(Total[q], e.val)}
<1>1. ASSUME NEW q \in Seq(Entry)
      PROVE  /\ Append(q, e) \in Seq(Entry)
             /\ Total[Append(q, e)]
                = Plus(Head(Append(q, e)).val, Total[Tail(Append(q, e))])
  <2>1. Append(q, e) \in Seq(Entry) /\ Append(q, e) # <<>> BY AppendProperties
  <2>2. Total[Append(q, e)] = SumStep(Total, Append(q, e)) BY <2>1, TotalDef
  <2> QED BY <2>1, <2>2 DEF SumStep
<1>2. ASSUME NEW q \in Seq(Entry), q = <<>>
      PROVE  Total[Append(q, e)] = Plus(Total[q], e.val)
  <2>1. Head(Append(q, e)) = e /\ Tail(Append(q, e)) = <<>> BY <1>2, HeadTailAppend
  <2>2. e.val \in UInt BY DEF Entry
  <2>3. Plus(e.val, 0) = e.val /\ Plus(0, e.val) = e.val BY <2>2, PlusOK
  <2> QED BY <1>1, <1>2, <2>1, <2>3, TotalEmpty
<1>3. 0 \in S
  <2> SUFFICES ASSUME NEW q \in Seq(Entry), Len(q) <= 0
               PROVE  Total[Append(q, e)] = Plus(Total[q], e.val)
    OBVIOUS
  <2>1. q = <<>> BY TailOK
  <2> QED BY <1>2, <2>1
<1>4. ASSUME NEW n \in S PROVE n + 1 \in S
  <2> SUFFICES ASSUME NEW q \in Seq(Entry), Len(q) <= n + 1, q # <<>>
               PROVE  Total[Append(q, e)] = Plus(Total[q], e.val)
    BY <1>2
  <2>1. Head(q) \in Entry /\ Tail(q) \in Seq(Entry) /\ Len(Tail(q)) <= n BY TailOK
  <2>2. Head(Append(q, e)) = Head(q) /\ Tail(Append(q, e)) = Append(Tail(q), e)
    BY HeadTailAppend
  <2>3. Total[Append(Tail(q), e)] = Plus(Total[Tail(q)], e.val) BY <2>1
  <2>4. Total[q] = Plus(Head(q).val, Total[Tail(q)]) BY TotalDef DEF SumStep
  <2>5. Head(q).val \in UInt /\ e.val \in UInt /\ Total[Tail(q)] \in UInt
    BY <2>1, TotalOK DEF Entry
  <2>6. Total[Append(q, e)] = Plus(Head(q).val, Plus(Total[Tail(q)], e.val))
    BY <1>1, <2>2, <2>3
  <2>7. Plus(Head(q).val, Plus(Total[Tail(q)], e.val))
        = Plus(Plus(Head(q).val, Total[Tail(q)]), e.val)
    BY <2>5, PlusOK
  <2> QED BY <2>4, <2>6, <2>7
<1> HIDE DEF S
<1>5. \A n \in Nat : n \in S
  <2>1. S \in SUBSET Nat BY DEF S
  <2> QED BY <1>3, <1>4, <2>1, Induction
<1> QED BY <1>5, LenProperties DEF S

-----------------------------------------------------------------------------
(* Types *)

CallType == [kind : Kind, sent : Seq(Entry), start : UInt]

\* Whatever bytes a reader finds, they are a value of the register.
LEMMA ReadWattOK == TypeOK => ReadWatt \subseteq UInt
<1> SUFFICES ASSUME TypeOK, NEW h \in {eqp_old \div Digit, eqp_watt \div Digit},
                    NEW l \in {eqp_old % Digit, eqp_watt % Digit}
             PROVE  h * Digit + l \in UInt
  BY DEF ReadWatt
<1>1. \A w \in UInt : /\ w \div Digit \in Nat /\ w \div Digit <= Digit - 1
                      /\ w % Digit \in 0..(Digit - 1)
  <2> SUFFICES ASSUME NEW w \in UInt
               PROVE  /\ w \div Digit \in Nat /\ w \div Digit <= Digit - 1
                      /\ w % Digit \in 0..(Digit - 1)
    OBVIOUS
  <2> DEFINE k == w \div Digit
             r == w % Digit
  <2>1. w \in Nat /\ w < Digit * Digit BY ModulusOK DEF UInt, Modulus
  <2>2. k \in Nat /\ r \in 0..(Digit - 1) /\ w = Digit * k + r BY <2>1, ModulusOK
  <2> HIDE DEF k, r
  <2>3. ~(k >= Digit)
    <3>1. k >= Digit => Digit * k >= Digit * Digit BY <2>2, ModulusOK
    <3> QED BY <3>1, <2>1, <2>2, ModulusOK
  <2> QED BY <2>2, <2>3, ModulusOK DEF k, r
<1>2. h \in Nat /\ h <= Digit - 1 /\ l \in 0..(Digit - 1) BY <1>1 DEF TypeOK
<1>3. h * Digit \in Nat /\ h * Digit <= (Digit - 1) * Digit BY <1>2, ModulusOK
<1>4. (Digit - 1) * Digit = Digit * Digit - Digit /\ Digit * Digit \in Nat BY ModulusOK
<1>5. h * Digit + l \in Nat /\ h * Digit + l <= Digit * Digit - 1
  BY <1>2, <1>3, <1>4, ModulusOK
<1> QED BY <1>5, <1>4 DEF UInt, Modulus

\* A rounded energy is at most the energy after it.
LEMMA ToFloatOK == \A e \in 0..MaxEnergy : ToFloat(e) \in UInt /\ e \in UInt
<1> SUFFICES ASSUME NEW e \in 0..MaxEnergy PROVE ToFloat(e) \in UInt /\ e \in UInt OBVIOUS
<1>1. e \in Nat /\ e + 1 < Modulus BY ModulusOK
<1>2. ToFloat(e) \in {e, e + 1} \/ (ToFloat(e) = e - 1 /\ e > 0)
  <2>1. e = 0 => e % 2 = 0 BY <1>1
  <2> QED BY <1>1, <2>1 DEF ToFloat
<1> QED BY <1>1, <1>2, ModulusOK DEF UInt

\* What is put into a CALL is a part of the queue, from its first entry on.
LEMMA PartOK ==
  ASSUME NEW q \in Seq(Entry), NEW kind \in Kind, MakeDataCmd_Values(kind, q)
  PROVE  /\ call' \in CallType /\ call'.kind = kind
         /\ Len(call'.sent) <= Len(q) /\ \A i \in 1..Len(call'.sent) : call'.sent[i] = q[i]
<1>1. PICK n \in Reportable(q) : call' = [kind |-> kind, sent |-> SubSeq(q, 1, n), start |-> 0]
  BY DEF MakeDataCmd_Values
<1>2. Len(q) \in Nat /\ n \in 0..Len(q) BY <1>1, LenProperties DEF Reportable, Known
<1>3. \A i \in 1..n : q[i] \in Entry BY <1>2, ElementOfSeq
<1>4. /\ SubSeq(q, 1, n) \in Seq(Entry) /\ Len(SubSeq(q, 1, n)) = n
      /\ \A i \in 1..n : SubSeq(q, 1, n)[i] = q[i]
  <2>1. /\ SubSeq(q, 1, n) \in Seq(Entry)
        /\ Len(SubSeq(q, 1, n)) = IF 1 <= n THEN n - 1 + 1 ELSE 0
        /\ \A i \in 1..(n - 1 + 1) : SubSeq(q, 1, n)[i] = q[1 + i - 1]
    BY <1>2, <1>3, SubSeqProperties
  <2>2. n - 1 + 1 = n /\ (~(1 <= n) => n = 0) /\ \A i \in 1..n : 1 + i - 1 = i BY <1>2
  <2> QED BY <2>1, <2>2
<1> QED BY <1>1, <1>2, <1>4, PlusOK DEF CallType

\* A sample makes a queue of its type.
LEMMA AddOK ==
  ASSUME TypeOK, NEW flg \in Flg, Add_MeterVal_Q(flg)
  PROVE  /\ MeterStart_Val' \in UInt /\ MeterValQ' \in Seq(Entry) /\ Len(MeterValQ') <= MaxQno
         /\ unsampled' \in BOOLEAN /\ cause' \in Cause /\ credit' \in UInt \cup {None}
         /\ unsampled' = FALSE
<1>1. PICK t \in ReadWatt :
        /\ MeterValQ' = IF Len(MeterValQ) < MaxQno
                        THEN Append(MeterValQ, [flg |-> flg, val |-> Minus(t, MeterStart_Val)])
                        ELSE Append(Tail(MeterValQ), [flg |-> flg, val |-> 0])
        /\ MeterStart_Val' = t
  BY DEF Add_MeterVal_Q
<1>2. t \in UInt BY ReadWattOK
<1>3. /\ [flg |-> flg, val |-> Minus(t, MeterStart_Val)] \in Entry
      /\ [flg |-> flg, val |-> 0] \in Entry
  BY <1>2, PlusOK DEF Entry, TypeOK
<1>4. /\ MeterValQ \in Seq(Entry) /\ Len(MeterValQ) \in Nat /\ Len(MeterValQ) <= MaxQno
      /\ MaxQno \in Nat \ {0}
  BY Bounds, LenProperties DEF TypeOK
<1>5. MeterValQ' \in Seq(Entry) /\ Len(MeterValQ') <= MaxQno
  <2>1. CASE Len(MeterValQ) < MaxQno BY <1>1, <1>3, <1>4, <2>1, AppendProperties
  <2>2. CASE ~(Len(MeterValQ) < MaxQno)
    <3>1. MeterValQ # <<>> BY <1>4, <2>2, EmptySeq
    <3>2. Tail(MeterValQ) \in Seq(Entry) /\ Len(Tail(MeterValQ)) = Len(MeterValQ) - 1
      BY <1>4, <3>1, TailOK
    <3> QED BY <1>1, <1>3, <1>4, <2>2, <3>2, AppendProperties
  <2> QED BY <2>1, <2>2
<1>6. unsampled' = FALSE /\ Blame(IF Len(MeterValQ) < MaxQno THEN "none" ELSE "shift")
  BY DEF Add_MeterVal_Q
<1>7. cause' \in Cause /\ credit' \in UInt \cup {None}
  BY <1>6 DEF Blame, TypeOK, Cause
<1> QED BY <1>1, <1>2, <1>5, <1>6, <1>7

\* The meter and the layers keep the types.
LEMMA SessionTypes == TypeOK /\ Session => TypeOK'
<1> SUFFICES ASSUME TypeOK, Session PROVE TypeOK' OBVIOUS
<1> USE DEF TypeOK, Layer, queue, account, flags, reading
<1>1. CASE Draw BY <1>1, ModulusOK DEF Draw
<1>2. CASE ReadMeter BY <1>2, ToFloatOK DEF ReadMeter
<1>3. CASE Publish BY <1>3 DEF Publish
<1>4. CASE Published BY <1>4 DEF Published
<1>5. CASE ChargeOnEnter
  <2>1. Modulus - 1 \in UInt BY ModulusOK DEF UInt
  <2>2. session + 1 \in 0..MaxSessions BY <1>5, Bounds DEF ChargeOnEnter
  <2> QED BY <1>5, <2>1, <2>2 DEF ChargeOnEnter
<1>6. CASE StartCharge BY <1>6 DEF StartCharge
<1>7. CASE Suspend BY <1>7 DEF Suspend
<1>8. CASE ChargeOnLeave BY <1>8 DEF ChargeOnLeave
<1>9. CASE MainOnEnter BY <1>9, PlusOK DEF MainOnEnter
<1> QED BY <1>1, <1>2, <1>3, <1>4, <1>5, <1>6, <1>7, <1>8, <1>9 DEF Session

\* No CALL is a CALL of the type.
LEMMA NoCallOK == NoCall \in CallType /\ NoCall.sent = <<>> /\ NoCall.kind = "none"
BY PlusOK, EmptySeq DEF NoCall, CallType, Kind

\* The client keeps the types,
LEMMA ClientTypes == TypeOK /\ Client => TypeOK'
<1> SUFFICES ASSUME TypeOK, Client PROVE TypeOK' OBVIOUS
<1>c. call \in CallType /\ rx \in CallType BY DEF TypeOK, CallType
<1>d. SUFFICES /\ MeterStart_Val' \in UInt /\ MeterValQ' \in Seq(Entry)
               /\ Len(MeterValQ') <= MaxQno /\ asleep' \in BOOLEAN /\ call' \in CallType
               /\ bReqStartTsNo' \in BOOLEAN /\ reqStartTsFlg' \in BOOLEAN
               /\ bReqStopTsFlg' \in BOOLEAN /\ unsampled' \in BOOLEAN
               /\ credit' \in UInt \cup {None} /\ cause' \in Cause
  <2>1. UNCHANGED <<reading, layer, session, rx>>
    BY DEF Client, Promote, Sample, CallLost, NetMeter, NetStartTs, StartTsSent, NetStopTs,
           NetTrigger, account
  <2> QED BY <1>c, <2>1, <1>d DEF TypeOK, reading, CallType
<1> USE DEF queue, account, flags
<1>1. CASE Promote BY <1>1, <1>c, ReadWattOK DEF Promote, TypeOK, Cause
<1>2. CASE Sample BY <1>2, <1>c, AddOK DEF Sample, TypeOK, Flg
<1>3. CASE CallLost BY <1>3, NoCallOK DEF CallLost, TypeOK
<1>4. CASE NetMeter
  <2>1. MeterValQ \in Seq(Entry) /\ "MeterVal" \in Kind BY DEF TypeOK, Kind
  <2>2. call' \in CallType BY <1>4, <2>1, PartOK DEF NetMeter
  <2> QED BY <1>4, <2>2 DEF NetMeter, TypeOK
<1>5. CASE NetStartTs BY <1>5, <1>c DEF NetStartTs, TypeOK
<1>6. CASE StartTsSent
  <2>1. call' \in CallType BY <1>6, EmptySeq DEF StartTsSent, TypeOK, CallType, Kind
  <2>2. cause' \in Cause /\ credit' \in UInt \cup {None}
    BY <1>6 DEF StartTsSent, Blame, TypeOK, Cause
  <2> QED BY <1>6, <2>1, <2>2 DEF StartTsSent, TypeOK
<1>7. CASE NetStopTs
  <2>1. Add_MeterVal_Q("TRANS") /\ MakeDataCmd_Values("StopTs", MeterValQ')
    BY <1>7 DEF NetStopTs
  <2>2. "TRANS" \in Flg /\ "StopTs" \in Kind BY DEF Flg, Kind
  <2>3. call' \in CallType BY <2>1, <2>2, AddOK, PartOK
  <2> QED BY <1>7, <2>1, <2>2, <2>3, AddOK DEF NetStopTs, TypeOK
<1>8. CASE NetTrigger
  <2>1. Add_MeterVal_Q("TRIG") /\ MakeDataCmd_Values("MeterVal", MeterValQ')
    BY <1>8 DEF NetTrigger
  <2>2. "TRIG" \in Flg /\ "MeterVal" \in Kind BY DEF Flg, Kind
  <2>3. call' \in CallType BY <2>1, <2>2, AddOK, PartOK
  <2> QED BY <1>8, <2>1, <2>2, <2>3, AddOK DEF NetTrigger, TypeOK
<1> QED BY <1>1, <1>2, <1>3, <1>4, <1>5, <1>6, <1>7, <1>8 DEF Client

\* ... and so does the receive thread.
LEMMA ReceiverTypes == TypeOK /\ Receiver => TypeOK'
<1> SUFFICES ASSUME TypeOK, Receiver PROVE TypeOK' OBVIOUS
<1>c. call \in CallType /\ rx \in CallType BY DEF TypeOK, CallType
<1> USE DEF queue, account, flags, reading
<1>1. CASE RxAnswer BY <1>1, <1>c, NoCallOK DEF RxAnswer, TypeOK, CallType
<1>2. CASE AnswerValues
  <2>1. rx' \in CallType /\ call' \in CallType BY <1>2, <1>c, NoCallOK DEF AnswerValues
  <2>2. MeterValQ' \in Seq(Entry) /\ Len(MeterValQ') <= MaxQno
    BY <1>2, EmptySeq, Bounds DEF AnswerValues
  <2>3. cause' \in Cause /\ credit' \in UInt \cup {None}
    <3>1. Total[rx.sent] \in UInt BY <1>c, TotalOK DEF CallType
    <3>2. credit # None => Plus(credit, Total[rx.sent]) \in UInt BY <3>1, PlusOK DEF TypeOK
    <3> QED BY <1>2, <3>2 DEF AnswerValues, Blame, TypeOK, Cause
  <2>4. bReqStopTsFlg' \in BOOLEAN BY <1>2 DEF AnswerValues, TypeOK
  <2> QED BY <1>2, <2>1, <2>2, <2>3, <2>4 DEF AnswerValues, TypeOK, CallType
<1>3. CASE DataProcCmd_StartTs
  <2>1. rx' \in CallType /\ call' \in CallType BY <1>3, <1>c, NoCallOK DEF DataProcCmd_StartTs
  <2>2. credit' \in UInt \cup {None} BY <1>3, <1>c DEF DataProcCmd_StartTs, CallType
  <2> QED BY <1>3, <2>1, <2>2 DEF DataProcCmd_StartTs, TypeOK, CallType
<1> QED BY <1>1, <1>2, <1>3 DEF Receiver

\* The charger boots in its type, and every step keeps it.
LEMMA TypeStart == Init => TypeOK
<1> SUFFICES ASSUME Init PROVE TypeOK OBVIOUS
<1>1. energy \in 0..MaxEnergy /\ energy \in UInt /\ 0 \in 0..MaxSessions
  BY Bounds, ToFloatOK DEF Init
<1>2. MeterValQ \in Seq(Entry) /\ Len(MeterValQ) <= MaxQno BY Bounds, EmptySeq DEF Init
<1>3. {call, rx} \subseteq CallType BY NoCallOK DEF Init
<1> QED BY <1>1, <1>2, <1>3, PlusOK DEF Init, TypeOK, Layer, Cause, CallType

LEMMA TypeStep == TypeOK /\ [Next]_vars => TypeOK'
<1>1. TypeOK /\ UNCHANGED vars => TypeOK'
  BY DEF TypeOK, vars, reading, flags, queue, account
<1> QED BY <1>1, SessionTypes, ClientTypes, ReceiverTypes DEF Next

\* Every variable keeps to its type: the readings stay within the register whatever bytes are
\* mixed, and the queue within its slots.
THEOREM TypeCorrect == Spec => []TypeOK
BY TypeStart, TypeStep, PTL DEF Spec

-----------------------------------------------------------------------------
(* The books *)

\* A CALL holds the entries of the queue from its first on; a reading and the queue add up to the
\* last sample.
Prefix(s, q)     == Len(s) <= Len(q) /\ \A i \in 1..Len(s) : s[i] = q[i]
Adds(c, q, base) == Plus(c, Total[q]) = base

\* No CALL holds no value, and the credit is given up with the first cause.
Shape ==
  /\ call.kind = "none" => call.sent = <<>>
  /\ rx.kind = "none" => rx.sent = <<>>
  /\ credit # None => cause = "none"

\* As long as no value went missing: what is under way is what is queued; before the first sample
\* nothing is queued; a StartTransaction under way carries the reading the queue starts from, and
\* no values are being answered while one is awaited; and the credit is exact.
Books ==
  cause = "none" =>
    /\ Prefix(call.sent, MeterValQ) /\ Prefix(rx.sent, MeterValQ)
    /\ unsampled => MeterValQ = <<>>
    /\ call.kind = "StartTs" =>
         rx.sent = <<>> /\ Adds(call.start, MeterValQ, MeterStart_Val)
    /\ rx.kind = "StartTs" => Adds(rx.start, MeterValQ, MeterStart_Val)
    /\ credit # None => Adds(credit, MeterValQ, MeterStart_Val)

\* The types, Shape and Books together are inductive.
IInv == TypeOK /\ Shape /\ Books

\* What the invariant speaks of.
books == <<MeterStart_Val, MeterValQ, call, rx, unsampled, credit, cause>>

\* Every variable of it is of its type.
LEMMA BooksTypes ==
  TypeOK => /\ MeterValQ \in Seq(Entry) /\ Len(MeterValQ) \in Nat /\ MeterStart_Val \in UInt
            /\ call.sent \in Seq(Entry) /\ rx.sent \in Seq(Entry)
            /\ Len(call.sent) \in Nat /\ Len(rx.sent) \in Nat
            /\ call.start \in UInt /\ rx.start \in UInt /\ credit \in UInt \cup {None}
            /\ Total[MeterValQ] \in UInt
BY LenProperties, TotalOK DEF TypeOK

\* Steps that do not touch the books keep them.
LEMMA Untouched == IInv /\ UNCHANGED books => (Shape /\ Books)'
BY DEF IInv, Shape, Books, books, Prefix, Adds

\* A queue is a prefix of itself, the empty one of every other.
LEMMA PrefixOK ==
  /\ \A q \in Seq(Entry) : Prefix(q, q) /\ Prefix(<<>>, q)
  /\ \A s \in Seq(Entry), q \in Seq(Entry) : Prefix(s, q) /\ Len(s) >= Len(q) => s = q
<1>1. \A q \in Seq(Entry) : Prefix(q, q) /\ Prefix(<<>>, q)
  BY LenProperties, EmptySeq DEF Prefix
<1>2. ASSUME NEW s \in Seq(Entry), NEW q \in Seq(Entry), Prefix(s, q), Len(s) >= Len(q)
      PROVE  s = q
  <2>1. Len(s) = Len(q) /\ \A i \in 1..Len(s) : s[i] = q[i]
    BY <1>2, LenProperties DEF Prefix
  <2> QED BY <2>1, SeqEqual
<1> QED BY <1>1, <1>2

\* A sample that loses nothing adds to the queue what it adds to the base.
LEMMA AddBooks ==
  ASSUME TypeOK, NEW flg \in Flg, Add_MeterVal_Q(flg), cause' = "none"
  PROVE  /\ cause = "none" /\ credit' = credit /\ unsampled' = FALSE
         /\ \A s \in Seq(Entry) : Prefix(s, MeterValQ) => Prefix(s, MeterValQ')
         /\ \A c \in UInt : Adds(c, MeterValQ, MeterStart_Val)
                            => Adds(c, MeterValQ', MeterStart_Val')
<1>1. /\ cause = "none" /\ credit' = credit /\ unsampled' = FALSE
      /\ Len(MeterValQ) < MaxQno
  BY DEF Add_MeterVal_Q, Blame
<1>2. PICK t \in ReadWatt :
        /\ MeterValQ' = Append(MeterValQ, [flg |-> flg, val |-> Minus(t, MeterStart_Val)])
        /\ MeterStart_Val' = t
  BY <1>1 DEF Add_MeterVal_Q
<1> DEFINE e == [flg |-> flg, val |-> Minus(t, MeterStart_Val)]
<1>3. /\ t \in UInt /\ MeterStart_Val \in UInt /\ MeterValQ \in Seq(Entry)
      /\ Total[MeterValQ] \in UInt
  BY ReadWattOK, BooksTypes
<1>4. e.val \in UInt /\ e \in Entry /\ e.val = Minus(t, MeterStart_Val)
  BY <1>3, PlusOK DEF Entry
<1>5. MeterValQ' = Append(MeterValQ, e) BY <1>2
<1> HIDE DEF e
<1>6. \A s \in Seq(Entry) : Prefix(s, MeterValQ) => Prefix(s, MeterValQ')
  <2> SUFFICES ASSUME NEW s \in Seq(Entry), Prefix(s, MeterValQ)
               PROVE  Prefix(s, MeterValQ')
    OBVIOUS
  <2>1. Len(s) \in Nat /\ Len(MeterValQ) \in Nat BY <1>3, LenProperties
  <2>2. /\ Len(MeterValQ') = Len(MeterValQ) + 1
        /\ \A i \in 1..Len(MeterValQ) : MeterValQ'[i] = MeterValQ[i]
    BY <1>3, <1>4, <1>5, AppendProperties
  <2> QED BY <2>1, <2>2 DEF Prefix
<1>7. \A c \in UInt : Adds(c, MeterValQ, MeterStart_Val) => Adds(c, MeterValQ', MeterStart_Val')
  <2> SUFFICES ASSUME NEW c \in UInt, Plus(c, Total[MeterValQ]) = MeterStart_Val
               PROVE  Plus(c, Total[MeterValQ']) = t
    BY <1>2 DEF Adds
  <2>1. Total[MeterValQ'] = Plus(Total[MeterValQ], e.val) BY <1>3, <1>4, <1>5, TotalAppend
  <2>2. Plus(c, Plus(Total[MeterValQ], e.val)) = Plus(Plus(c, Total[MeterValQ]), e.val)
    <3>1. \A a, b, d \in UInt : Plus(Plus(a, b), d) = Plus(a, Plus(b, d)) BY PlusOK
    <3> QED BY <1>3, <1>4, <3>1
  <2>3. Plus(MeterStart_Val, Minus(t, MeterStart_Val)) = t BY <1>3, PlusOK
  <2> QED BY <1>4, <2>1, <2>2, <2>3
<1> QED BY <1>1, <1>6, <1>7

\* The client keeps the books,
LEMMA ClientBooks == IInv /\ Client => (Shape /\ Books)'
<1> SUFFICES ASSUME IInv, Client PROVE (Shape /\ Books)' OBVIOUS
<1>t. TypeOK BY DEF IInv
<1>u. TypeOK' BY <1>t, ClientTypes
<1> USE DEF queue, account
<1>1. CASE Promote
  <2>1. Shape' BY <1>1 DEF IInv, Promote, Shape
  <2>2. ASSUME cause' = "none" PROVE MeterValQ' = <<>> /\ call'.sent = <<>> /\ rx'.sent = <<>>
                                     /\ call'.kind = "none" /\ rx'.kind = "none"
                                     /\ credit' = None
    BY <1>1, <2>2 DEF IInv, Promote, Shape
  <2>3. Prefix(<<>>, <<>>) BY PrefixOK, EmptySeq
  <2>4. Books' BY <2>2, <2>3 DEF Books
  <2> QED BY <2>1, <2>4
<1>2. CASE Sample
  <2>1. Add_MeterVal_Q("CLOCK") /\ UNCHANGED <<call, rx>> /\ "CLOCK" \in Flg
    BY <1>2 DEF Sample, Flg
  <2>2. Shape' BY <2>1 DEF IInv, Shape, Add_MeterVal_Q, Blame
  <2>3. Books'
    <3> SUFFICES ASSUME cause' = "none" PROVE Books' BY DEF Books
    <3>1. /\ cause = "none" /\ credit' = credit /\ unsampled' = FALSE
          /\ \A s \in Seq(Entry) : Prefix(s, MeterValQ) => Prefix(s, MeterValQ')
          /\ \A c \in UInt : Adds(c, MeterValQ, MeterStart_Val)
                               => Adds(c, MeterValQ', MeterStart_Val')
      BY <1>t, <2>1, AddBooks
    <3>2. Prefix(call'.sent, MeterValQ') /\ Prefix(rx'.sent, MeterValQ')
      BY <1>t, <2>1, <3>1, BooksTypes DEF IInv, Books
    <3>3. credit' # None => Adds(credit', MeterValQ', MeterStart_Val')
      BY <1>t, <3>1, BooksTypes DEF IInv, Books
    <3> QED BY <1>t, <2>1, <3>1, <3>2, <3>3, BooksTypes DEF IInv, Books
  <2> QED BY <2>2, <2>3
<1>3. CASE CallLost
  <2>1. call' = NoCall /\ UNCHANGED <<MeterStart_Val, MeterValQ, rx, unsampled, credit, cause>>
    BY <1>3 DEF CallLost
  <2>2. Prefix(<<>>, MeterValQ) BY <1>t, BooksTypes, PrefixOK
  <2> QED BY <2>1, <2>2, NoCallOK DEF IInv, Shape, Books
<1>4. CASE NetMeter
  <2>1. /\ MakeDataCmd_Values("MeterVal", MeterValQ)
        /\ UNCHANGED <<MeterStart_Val, MeterValQ, rx, unsampled, credit, cause>>
    BY <1>4 DEF NetMeter
  <2>2. call'.kind = "MeterVal" /\ Prefix(call'.sent, MeterValQ)
    BY <1>t, <2>1, BooksTypes, PartOK DEF Kind, Prefix
  <2> QED BY <2>1, <2>2 DEF IInv, Shape, Books
<1>5. CASE NetStartTs BY <1>5, Untouched DEF NetStartTs, books
<1>6. CASE StartTsSent
  <2>1. /\ call' = [kind |-> "StartTs", sent |-> <<>>, start |-> MeterStart_Val]
        /\ Blame(IF unsampled THEN "none" ELSE "lateStart")
        /\ UNCHANGED <<MeterStart_Val, MeterValQ, unsampled, rx>>
    BY <1>6 DEF StartTsSent
  <2>2. Shape' BY <2>1 DEF IInv, Shape, Blame
  <2>3. ASSUME cause' = "none" PROVE Books'
    <3>1. cause = "none" /\ unsampled /\ credit' = credit BY <2>1, <2>3 DEF Blame
    <3>2. MeterValQ = <<>> /\ Prefix(rx.sent, <<>>) BY <3>1 DEF IInv, Books
    <3>3. rx.sent = <<>>
      <4>1. rx.sent \in Seq(Entry) /\ Len(rx.sent) >= Len(<<>>)
        BY <1>t, BooksTypes, EmptySeq
      <4> QED BY <3>2, <4>1, EmptySeq, PrefixOK
    <3>4. Adds(MeterStart_Val, MeterValQ, MeterStart_Val)
      BY <1>t, <3>2, BooksTypes, TotalEmpty, PlusOK DEF Adds
    <3>5. Prefix(<<>>, MeterValQ) BY <1>t, BooksTypes, PrefixOK
    <3> QED BY <2>1, <3>1, <3>2, <3>3, <3>4, <3>5 DEF IInv, Books
  <2>4. cause' # "none" => Books' BY DEF Books
  <2> QED BY <2>2, <2>3, <2>4
<1>7. CASE NetStopTs
  <2>1. /\ Add_MeterVal_Q("TRANS") /\ MakeDataCmd_Values("StopTs", MeterValQ')
        /\ UNCHANGED rx /\ "TRANS" \in Flg /\ "StopTs" \in Kind
    BY <1>7 DEF NetStopTs, Flg, Kind
  <2>2. MeterValQ' \in Seq(Entry) BY <1>t, <2>1, AddOK
  <2>3. call'.kind = "StopTs" /\ Prefix(call'.sent, MeterValQ')
    BY <2>1, <2>2, PartOK DEF Prefix
  <2>4. Shape' BY <2>1, <2>3 DEF IInv, Shape, Add_MeterVal_Q, Blame
  <2>5. Books'
    <3> SUFFICES ASSUME cause' = "none" PROVE Books' BY DEF Books
    <3> QED BY <1>t, <2>1, <2>3, AddBooks, BooksTypes DEF IInv, Books
  <2> QED BY <2>4, <2>5
<1>8. CASE NetTrigger
  <2>1. /\ Add_MeterVal_Q("TRIG") /\ MakeDataCmd_Values("MeterVal", MeterValQ')
        /\ UNCHANGED rx /\ "TRIG" \in Flg /\ "MeterVal" \in Kind
    BY <1>8 DEF NetTrigger, Flg, Kind
  <2>2. MeterValQ' \in Seq(Entry) BY <1>t, <2>1, AddOK
  <2>3. call'.kind = "MeterVal" /\ Prefix(call'.sent, MeterValQ')
    BY <2>1, <2>2, PartOK DEF Prefix
  <2>4. Shape' BY <2>1, <2>3 DEF IInv, Shape, Add_MeterVal_Q, Blame
  <2>5. Books'
    <3> SUFFICES ASSUME cause' = "none" PROVE Books' BY DEF Books
    <3> QED BY <1>t, <2>1, <2>3, AddBooks, BooksTypes DEF IInv, Books
  <2> QED BY <2>4, <2>5
<1> QED BY <1>1, <1>2, <1>3, <1>4, <1>5, <1>6, <1>7, <1>8 DEF Client

\* ... and so does the receive thread.
LEMMA ReceiverBooks == IInv /\ Receiver => (Shape /\ Books)'
<1> SUFFICES ASSUME IInv, Receiver PROVE (Shape /\ Books)' OBVIOUS
<1>t. TypeOK BY DEF IInv
<1>e. Prefix(<<>>, MeterValQ) BY <1>t, BooksTypes, PrefixOK
<1> USE DEF queue, account
<1>1. CASE RxAnswer
  <2>1. /\ rx' = call /\ call' = NoCall
        /\ UNCHANGED <<MeterStart_Val, MeterValQ, unsampled, credit, cause>>
    BY <1>1 DEF RxAnswer
  <2> QED BY <1>e, <2>1, NoCallOK DEF IInv, Shape, Books
<1>2. CASE AnswerValues
  <2>1. /\ rx.kind # "StartTs" /\ rx' = NoCall /\ MeterValQ' = <<>>
        /\ UNCHANGED <<MeterStart_Val, call, unsampled>>
    BY <1>2 DEF AnswerValues
  <2>2. CASE call.sent # <<>> \/ Len(rx.sent) < Len(MeterValQ)
    <3>1. cause' # "none" /\ credit' = None BY <1>2, <2>2 DEF AnswerValues, Blame
    <3>2. Shape' BY <2>1, <3>1, NoCallOK DEF IInv, Shape
    <3> QED BY <3>1, <3>2 DEF Books
  <2>3. CASE ~(call.sent # <<>> \/ Len(rx.sent) < Len(MeterValQ))
    <3>1. /\ credit' = IF credit = None THEN None ELSE Plus(credit, Total[rx.sent])
          /\ UNCHANGED cause /\ call.sent = <<>> /\ Len(rx.sent) >= Len(MeterValQ)
      BY <1>2, <1>t, <2>3, BooksTypes DEF AnswerValues
    <3>2. Shape' BY <2>1, <3>1, NoCallOK DEF IInv, Shape
    <3>3. ASSUME cause = "none" PROVE Books'
      <4>1. rx.sent = MeterValQ BY <1>t, <3>1, <3>3, BooksTypes, PrefixOK DEF IInv, Books
      <4>2. Prefix(<<>>, <<>>) BY PrefixOK, EmptySeq
      <4>3. \A c \in UInt : Adds(c, MeterValQ, MeterStart_Val)
                            => Adds(Plus(c, Total[rx.sent]), <<>>, MeterStart_Val)
        BY <1>t, <4>1, BooksTypes, TotalEmpty, PlusOK DEF Adds
      <4>4. call.kind = "StartTs" => Adds(call.start, <<>>, MeterStart_Val)
        <5> SUFFICES ASSUME call.kind = "StartTs"
                     PROVE  Adds(call.start, <<>>, MeterStart_Val)
          OBVIOUS
        <5>1. rx.sent = <<>> /\ Adds(call.start, MeterValQ, MeterStart_Val)
          BY <3>3 DEF IInv, Books
        <5> QED BY <4>1, <5>1
      <4>5. credit' # None => Adds(credit', <<>>, MeterStart_Val)
        BY <1>t, <3>1, <3>3, <4>3, BooksTypes DEF IInv, Books
      <4> QED BY <2>1, <3>1, <4>2, <4>4, <4>5, NoCallOK DEF Books
    <3> QED BY <3>1, <3>2, <3>3 DEF Books
  <2> QED BY <2>2, <2>3
<1>3. CASE DataProcCmd_StartTs
  <2>1. /\ rx.kind = "StartTs" /\ rx' = NoCall
        /\ credit' = IF cause = "none" THEN rx.start ELSE None
        /\ UNCHANGED <<MeterStart_Val, MeterValQ, call, unsampled, cause>>
    BY <1>3 DEF DataProcCmd_StartTs
  <2> QED BY <1>e, <2>1, NoCallOK DEF IInv, Shape, Books
<1> QED BY <1>1, <1>2, <1>3 DEF Receiver

\* The invariant holds at first, and every step keeps it.
LEMMA Start == Init => IInv
<1> SUFFICES ASSUME Init PROVE IInv OBVIOUS
<1>1. Prefix(<<>>, <<>>) BY PrefixOK, EmptySeq
<1>2. Shape /\ Books BY <1>1, NoCallOK DEF Init, Shape, Books
<1> QED BY <1>2, TypeStart DEF IInv

LEMMA Step == IInv /\ [Next]_vars => IInv'
<1> SUFFICES ASSUME IInv, [Next]_vars PROVE IInv' OBVIOUS
<1>1. TypeOK' BY TypeStep DEF IInv
<1>2. (Shape /\ Books)'
  <2>1. CASE Session
    <3>1. UNCHANGED books
      BY <2>1 DEF Session, Draw, ReadMeter, Publish, Published, ChargeOnEnter, StartCharge,
                  Suspend, ChargeOnLeave, MainOnEnter, books, queue, account
    <3> QED BY <3>1, Untouched
  <2>2. CASE UNCHANGED vars BY <2>2, Untouched DEF vars, books, queue, account
  <2> QED BY <2>1, <2>2, ClientBooks, ReceiverBooks DEF Next
<1> QED BY <1>1, <1>2 DEF IInv

\* What the central system can add up, with what is still queued, is the reading of the last
\* sample: for every length of the queue, number of strings, width of the register and number of
\* sessions, and in every interleaving of the four threads, as long as no cause is recorded.
THEOREM ReportsAddUp == Spec => []ReportsExact
<1>1. IInv => ReportsExact BY DEF IInv, Shape, Books, Adds, ReportsExact
<1> QED BY <1>1, Start, Step, PTL DEF Spec
=============================================================================
