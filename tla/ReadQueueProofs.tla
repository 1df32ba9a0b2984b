-------------------------- MODULE ReadQueueProofs --------------------------
(***************************************************************************)
(* For every size of the ring and every set of bytes: the types, and that  *)
(* ReadQueue implements ByteFifo.                                          *)
(***************************************************************************)
EXTENDS ReadQueue, TLAPS

-----------------------------------------------------------------------------
(* Arithmetic of the ring *)

\* Up to twice round the ring, % Size subtracts Size once.
LEMMA Wraps ==
  \A y \in Nat : y < 2 * Size => y % Size = IF y < Size THEN y ELSE y - Size
<1> SUFFICES ASSUME NEW y \in Nat, y < 2 * Size
             PROVE  y % Size = IF y < Size THEN y ELSE y - Size
  OBVIOUS
<1> USE QueueAssumption
<1>1. CASE y < Size BY <1>1
<1>2. CASE y >= Size
  <2>1. y - Size \in 0..(Size - 1) BY <1>2
  <2>2. y = 1 * Size + (y - Size) BY <1>2
  <2> QED BY <1>2, <2>1, <2>2
<1> QED BY <1>1, <1>2

\* The slot after s, without %.
LEMMA FollowingIs ==
  ASSUME NEW s \in Slots
  PROVE  Following(s) = (IF s = Size - 1 THEN 0 ELSE s + 1) /\ Following(s) \in Slots
<1> DEFINE y == s + 1
<1>1. y \in Nat /\ y < 2 * Size BY QueueAssumption DEF Slots
<1> HIDE DEF y
<1>2. y % Size = IF y < Size THEN y ELSE y - Size BY <1>1, Wraps
<1> QED BY <1>2, QueueAssumption DEF Following, Slots, y

-----------------------------------------------------------------------------
(* Types *)

\* Every state of every behaviour is typed: the indices stay in the ring.
THEOREM TypeCorrect == Spec => []TypeOK
<1>1. Init => TypeOK BY QueueAssumption DEF Init, TypeOK, Slots
<1>2. TypeOK /\ [Next]_vars => TypeOK'
  <2> SUFFICES ASSUME TypeOK, [Next]_vars PROVE TypeOK' OBVIOUS
  <2> USE DEF TypeOK
  <2>1. ASSUME NEW c \in Bytes, EnqueueCheck(c) PROVE TypeOK' BY <2>1 DEF EnqueueCheck
  <2>2. CASE EnqueuePublish BY <2>2, FollowingIs DEF EnqueuePublish
  <2>3. CASE EnqueueStore BY <2>3 DEF EnqueueStore
  <2>4. CASE DequeueCheck BY <2>4 DEF DequeueCheck
  <2>5. CASE DequeueAdvance BY <2>5, FollowingIs DEF DequeueAdvance
  <2>6. CASE DequeueFetch BY <2>6 DEF DequeueFetch
  <2>7. CASE UNCHANGED vars BY <2>7 DEF vars
  <2> QED BY <2>1, <2>2, <2>3, <2>4, <2>5, <2>6, <2>7 DEF Next, Producer, Consumer
<1> QED BY <1>1, <1>2, PTL DEF Spec

-----------------------------------------------------------------------------
(* The checks that were true when they were made stay true until they are   *)
(* used: only the consumer moves front and only the producer moves rear.    *)

\* A producer past its check still has room, a consumer past its check still has a byte.
ChecksHold ==
  /\ wr.at = "publish" => ~ReadQueueIsFull
  /\ rd = "advance" => ~ReadQueueIsEmpty

\* ChecksHold is kept by every step of either task.
LEMMA ChecksStep == TypeOK /\ ChecksHold /\ [Next]_vars => ChecksHold'
<1> SUFFICES ASSUME TypeOK, ChecksHold, [Next]_vars PROVE ChecksHold' OBVIOUS
<1> USE DEF TypeOK, ChecksHold, ReadQueueIsFull, ReadQueueIsEmpty
<1>1. ASSUME NEW c \in Bytes, EnqueueCheck(c) PROVE ChecksHold' BY <1>1 DEF EnqueueCheck, Following
<1>2. CASE EnqueuePublish BY <1>2 DEF EnqueuePublish
<1>3. CASE EnqueueStore BY <1>3 DEF EnqueueStore
<1>4. CASE DequeueCheck BY <1>4 DEF DequeueCheck, Following
<1>5. CASE DequeueAdvance
  <2>1. front' = Following(front) /\ rear' = rear /\ wr' = wr /\ rd' = "fetch" /\ front # rear
    BY <1>5 DEF DequeueAdvance
  <2>2. Following(rear) # Following(front) BY <2>1, FollowingIs, QueueAssumption DEF Slots
  <2> QED BY <2>1, <2>2 DEF Following
<1>6. CASE DequeueFetch BY <1>6 DEF DequeueFetch, Following
<1>7. CASE UNCHANGED vars BY <1>7 DEF vars, Following
<1> QED BY <1>1, <1>2, <1>3, <1>4, <1>5, <1>6, <1>7 DEF Next, Producer, Consumer

-----------------------------------------------------------------------------
(* Refinement *)

\* The places that wait: how many, which slots, and what each holds.
ItemsOK ==
  /\ GetQueueDataNum \in 0..(Size - 1)
  /\ Waiting \in 0..Size
  /\ Items \in Seq(Bytes \cup {Hole}) /\ Len(Items) = Waiting
  /\ \A i \in 1..Waiting :
       /\ SlotOf(i) \in Slots
       /\ SlotOf(i) = IF front + i - InHand < Size THEN front + i - InHand
                      ELSE front + i - InHand - Size
       /\ Items[i] = Content(SlotOf(i))
       /\ SlotOf(i) = rear <=> i = Waiting

\* Every typed state has its items there.
LEMMA ItemsAre == TypeOK => ItemsOK
<1> SUFFICES ASSUME TypeOK PROVE ItemsOK OBVIOUS
<1> USE DEF TypeOK
<1>1. GetQueueDataNum \in 0..(Size - 1) BY QueueAssumption DEF GetQueueDataNum, Slots
<1>2. InHand \in 0..1 BY DEF InHand
<1>3. Waiting \in 0..Size BY <1>1, <1>2, QueueAssumption DEF Waiting
<1>4. ASSUME NEW i \in 1..Waiting
      PROVE  /\ SlotOf(i) \in Slots
             /\ SlotOf(i) = IF front + i - InHand < Size THEN front + i - InHand
                            ELSE front + i - InHand - Size
             /\ SlotOf(i) = rear <=> i = Waiting
  <2>1. PICK y \in Nat : y = front + i - InHand /\ y < 2 * Size
    <3>1. front + i - InHand \in Nat /\ front + i - InHand < 2 * Size
      BY <1>1, <1>2, <1>3, QueueAssumption DEF Slots, Waiting
    <3> QED BY <3>1
  <2>2. y % Size = IF y < Size THEN y ELSE y - Size BY <2>1, Wraps
  <2>3. SlotOf(i) = y % Size BY <2>1 DEF SlotOf
  <2>4. SlotOf(i) = IF front + i - InHand < Size THEN front + i - InHand
                    ELSE front + i - InHand - Size
    BY <1>2, <1>3, <2>1, <2>2, <2>3, QueueAssumption DEF Slots
  <2>5. SlotOf(i) = rear <=> i = Waiting
    BY <1>2, <2>4, QueueAssumption DEF Waiting, GetQueueDataNum, Slots
  <2> QED BY <1>2, <2>1, <2>4, <2>5, QueueAssumption DEF Slots
<1>5. \A s \in Slots : Content(s) \in Bytes \cup {Hole} BY DEF Content
<1>6. Items \in [1..Waiting -> Bytes \cup {Hole}] BY <1>4, <1>5 DEF Items
<1>7. Items \in Seq(Bytes \cup {Hole}) /\ Len(Items) = Waiting BY <1>3, <1>6
<1>8. \A i \in 1..Waiting : Items[i] = Content(SlotOf(i)) BY DEF Items
<1> QED BY <1>1, <1>3, <1>4, <1>7, <1>8 DEF ItemsOK

\* And so has the next one.
LEMMA ItemsAreNext == TypeOK' => ItemsOK'
BY ItemsAre, PTL

\* Between two calls of Enqueue, and until rear is published, no place waits for its byte.
LEMMA NotFilling == ASSUME TypeOK, wr.at # "store" PROVE ~Owing /\ ~Fifo!Filling
<1>1. \A s \in Slots : Content(s) \in Bytes BY DEF Content, TypeOK
<1>2. \A i \in DOMAIN Items : Items[i] # Hole
  <2>1. DOMAIN Items = 1..Waiting BY DEF Items
  <2> QED BY <1>1, <2>1, ItemsAre, QueueAssumption DEF ItemsOK, Hole
<1> QED BY <1>2 DEF Owing, Fifo!Filling

\* Publishing rear appends a hole.
LEMMA PublishReserves == ASSUME TypeOK, TypeOK', ChecksHold, EnqueuePublish PROVE Fifo!Reserve
<1>1. /\ wr.at = "publish" /\ wr'.at = "store" /\ rear' = Following(rear) /\ last' = "taken"
      /\ UNCHANGED <<front, queue, rd, got>>
  BY DEF EnqueuePublish, TypeOK
<1>2. Following(rear) # front BY <1>1 DEF ChecksHold, ReadQueueIsFull
<1>3. InHand' = InHand /\ InHand \in 0..1 BY <1>1 DEF InHand
<1>4. GetQueueDataNum' = GetQueueDataNum + 1 /\ GetQueueDataNum < Size - 1
  <2>1. front \in Slots /\ rear \in Slots BY DEF TypeOK
  <2>2. rear' = (IF rear = Size - 1 THEN 0 ELSE rear + 1) /\ rear' # front
    BY <1>1, <1>2, <2>1, FollowingIs
  <2> QED BY <1>1, <2>1, <2>2, QueueAssumption DEF GetQueueDataNum, Slots
<1>5. Waiting' = Waiting + 1 /\ Waiting \in 0..(Size - 1)
  BY <1>3, <1>4, ItemsAre, QueueAssumption DEF ItemsOK, Waiting
<1>6. /\ Items \in Seq(Bytes \cup {Hole}) /\ Len(Items) = Waiting
      /\ Items' \in Seq(Bytes \cup {Hole}) /\ Len(Items') = Waiting + 1
  BY <1>5, ItemsAre, ItemsAreNext DEF ItemsOK
<1>7. ASSUME NEW i \in 1..Waiting PROVE Items'[i] = Items[i]
  <2>1. i \in 1..Waiting' /\ i # Waiting' BY <1>5
  <2>2. SlotOf(i)' = SlotOf(i) BY <1>1, <1>3 DEF SlotOf
  <2>3. SlotOf(i)' # rear' BY <2>1, ItemsAreNext DEF ItemsOK
  <2>4. Items'[i] = Content(SlotOf(i))' BY <2>1, ItemsAreNext DEF ItemsOK
  <2>5. Content(SlotOf(i))' = queue[SlotOf(i)] BY <1>1, <2>2, <2>3 DEF Content
  <2>6. Content(SlotOf(i)) = queue[SlotOf(i)] BY <1>1 DEF Content
  <2> QED BY <2>4, <2>5, <2>6, ItemsAre DEF ItemsOK
<1>8. ASSUME NEW k \in Nat, k = Waiting + 1 PROVE Items'[k] = Hole
  <2>1. k \in 1..Waiting' /\ k = Waiting' BY <1>5, <1>8
  <2>2. Items'[k] = Content(SlotOf(k))' /\ SlotOf(k)' = rear'
    BY <2>1, ItemsAreNext DEF ItemsOK
  <2> QED BY <1>1, <2>2 DEF Content
<1>9. Items' = Append(Items, Hole) BY <1>5, <1>6, <1>7, <1>8
<1>10. ~Owing /\ ~Fifo!Filling BY <1>1, NotFilling
<1>11. Owing' = Owing BY <1>5, <1>10 DEF Owing
<1> QED BY <1>1, <1>5, <1>6, <1>9, <1>10, <1>11 DEF Fifo!Reserve

\* Storing the byte fills the hole; if the hole has been taken already, the byte is lost.
LEMMA StoreFills ==
  ASSUME TypeOK, TypeOK', EnqueueStore
  PROVE  Fifo!Fill(wr.c) \/ Fifo!Lose
<1>1. /\ wr.at = "store" /\ wr'.at = "idle" /\ queue' = [queue EXCEPT ![rear] = wr.c]
      /\ UNCHANGED <<front, rear, rd, got, last>> /\ wr.c \in Bytes
  BY DEF EnqueueStore, TypeOK
<1>2. Waiting' = Waiting /\ Waiting \in 0..Size
  BY <1>1, ItemsAre DEF ItemsOK, Waiting, GetQueueDataNum, InHand
<1>3. /\ Items \in Seq(Bytes \cup {Hole}) /\ Len(Items) = Waiting
      /\ Items' \in Seq(Bytes \cup {Hole}) /\ Len(Items') = Waiting
  BY <1>2, ItemsAre, ItemsAreNext DEF ItemsOK
<1>4. ASSUME NEW i \in 1..Waiting
      PROVE  Items'[i] = (IF i = Waiting THEN wr.c ELSE Items[i]) /\ (i = Waiting => Items[i] = Hole)
  <2>1. SlotOf(i)' = SlotOf(i) /\ SlotOf(i) \in Slots /\ (SlotOf(i) = rear <=> i = Waiting)
    BY <1>1, ItemsAre DEF ItemsOK, SlotOf, InHand
  <2>2. Items'[i] = Content(SlotOf(i))' /\ Items[i] = Content(SlotOf(i))
    BY <1>2, ItemsAre, ItemsAreNext DEF ItemsOK
  <2>3. Content(SlotOf(i))' = IF SlotOf(i) = rear THEN wr.c ELSE queue[SlotOf(i)]
    BY <1>1, <2>1 DEF Content, TypeOK
  <2>4. Content(SlotOf(i)) = IF SlotOf(i) = rear THEN Hole ELSE queue[SlotOf(i)]
    BY <1>1 DEF Content
  <2> QED BY <2>1, <2>2, <2>3, <2>4
<1>5. CASE Waiting = 0
  <2>1. Items' = Items BY <1>3, <1>5
  <2>2. Owing /\ ~Owing' BY <1>1, <1>5 DEF Owing
  <2> QED BY <1>1, <2>1, <2>2 DEF Fifo!Lose
<1>6. CASE Waiting # 0
  <2>1. Waiting \in 1..Waiting BY <1>2, <1>6
  <2>2. Items[Waiting] = Hole /\ Items # <<>> BY <1>3, <1>4, <2>1
  <2>3. Items' = [Items EXCEPT ![Waiting] = wr.c] BY <1>3, <1>4, <2>1
  <2>4. Owing' = Owing BY <1>1, <1>6 DEF Owing
  <2> QED BY <1>1, <1>3, <2>2, <2>3, <2>4 DEF Fifo!Fill
<1> QED BY <1>5, <1>6

\* Moving front only takes the oldest byte in hand.
LEMMA AdvanceStutters == ASSUME TypeOK, TypeOK', ChecksHold, DequeueAdvance PROVE UNCHANGED <<Items, Owing>>
<1>1. /\ rd = "advance" /\ rd' = "fetch" /\ front' = Following(front) /\ front # rear
      /\ UNCHANGED <<rear, queue, wr>>
  BY DEF DequeueAdvance, ChecksHold, ReadQueueIsEmpty
<1>2. InHand = 0 /\ InHand' = 1 BY <1>1 DEF InHand
<1>3. GetQueueDataNum' = GetQueueDataNum - 1
  <2>1. front \in Slots /\ rear \in Slots BY DEF TypeOK
  <2>2. front' = (IF front = Size - 1 THEN 0 ELSE front + 1) /\ front # rear
    BY <1>1, <2>1, FollowingIs
  <2> QED BY <1>1, <2>1, <2>2, QueueAssumption DEF GetQueueDataNum, Slots
<1>4. Waiting' = Waiting /\ Waiting \in 0..Size BY <1>2, <1>3, ItemsAre DEF ItemsOK, Waiting
<1>5. ASSUME NEW i \in 1..Waiting PROVE Items'[i] = Items[i]
  <2>1. front \in Slots /\ front' = (IF front = Size - 1 THEN 0 ELSE front + 1)
    BY <1>1, FollowingIs DEF TypeOK
  <2>2. i \in Nat /\ i >= 1 /\ i <= Size /\ i \in 1..Waiting' BY <1>4, QueueAssumption
  <2>3. SlotOf(i) = IF front + i < Size THEN front + i ELSE front + i - Size
    BY <1>2, <2>1, <2>2, ItemsAre, QueueAssumption DEF ItemsOK, Slots
  <2>4. SlotOf(i)' = IF front' + i - 1 < Size THEN front' + i - 1 ELSE front' + i - 1 - Size
    BY <1>2, <2>2, ItemsAreNext DEF ItemsOK
  <2>5. SlotOf(i)' = SlotOf(i)
    BY <2>1, <2>2, <2>3, <2>4, QueueAssumption DEF Slots
  <2> QED BY <1>1, <1>4, <2>5, ItemsAre, ItemsAreNext DEF ItemsOK, Content
<1>6. Owing' = Owing BY <1>1, <1>4 DEF Owing
<1> QED BY <1>4, <1>5, <1>6, ItemsAre, ItemsAreNext DEF ItemsOK

\* Reading the slot delivers the oldest byte, or takes the only place before its byte is stored.
LEMMA FetchDelivers ==
  ASSUME TypeOK, TypeOK', DequeueFetch PROVE Fifo!Deliver \/ Fifo!Misread
<1>1. /\ rd = "fetch" /\ rd' = "idle" /\ got' = queue[front]
      /\ UNCHANGED <<front, rear, queue, wr, last>> /\ got' \in Bytes /\ front \in Slots
  BY DEF DequeueFetch, TypeOK
<1>2. InHand = 1 /\ InHand' = 0 BY <1>1 DEF InHand
<1>3. Waiting' = Waiting - 1 /\ Waiting \in 1..Size
  <2>1. GetQueueDataNum' = GetQueueDataNum BY <1>1 DEF GetQueueDataNum
  <2> QED BY <2>1, <1>2, ItemsAre DEF ItemsOK, Waiting
<1>4. /\ Items \in Seq(Bytes \cup {Hole}) /\ Len(Items) = Waiting
      /\ Items' \in Seq(Bytes \cup {Hole}) /\ Len(Items') = Waiting - 1
  BY <1>3, ItemsAre, ItemsAreNext DEF ItemsOK
<1>5. ASSUME NEW i \in 1..(Waiting - 1) PROVE Items'[i] = Items[i + 1]
  <2>1. i + 1 \in 1..Waiting /\ i \in 1..Waiting' BY <1>3
  <2>2. SlotOf(i)' = SlotOf(i + 1)
    BY <1>1, <1>2, <2>1, ItemsAre, ItemsAreNext DEF ItemsOK
  <2> QED BY <1>1, <2>1, <2>2, ItemsAre, ItemsAreNext DEF ItemsOK, Content
<1>6. Items' = Tail(Items) BY <1>3, <1>4, <1>5
<1>7. Items[1] = Content(front)
  <2>1. 1 \in 1..Waiting BY <1>3
  <2>2. SlotOf(1) = front BY <1>1, <1>2, <2>1, ItemsAre, QueueAssumption DEF ItemsOK, Slots
  <2> QED BY <2>1, <2>2, ItemsAre DEF ItemsOK
<1>8. CASE wr.at = "store" /\ front = rear
  <2>1. Waiting = 1
    <3>1. GetQueueDataNum = 0 BY <1>1, <1>8, QueueAssumption DEF GetQueueDataNum, Slots
    <3> QED BY <1>2, <3>1 DEF Waiting
  <2>2. Items = <<Hole>> /\ Items' = <<>> BY <1>4, <1>6, <1>7, <1>8, <2>1 DEF Content
  <2>3. Owing' BY <1>1, <1>3, <1>8, <2>1 DEF Owing
  <2> QED BY <1>1, <2>2, <2>3 DEF Fifo!Misread
<1>9. CASE ~(wr.at = "store" /\ front = rear)
  <2>1. Items[1] = queue[front] BY <1>7, <1>9 DEF Content
  <2>2. Items[1] # Hole BY <1>1, <2>1, QueueAssumption DEF Hole
  <2>3. ~Owing BY <1>3 DEF Owing
  <2>4. ~Owing'
    <3>1. CASE wr.at = "store"
      <4>1. GetQueueDataNum # 0 BY <1>1, <1>9, <3>1, QueueAssumption
           DEF GetQueueDataNum, Slots, TypeOK
      <4>2. Waiting # 1 BY <1>2, <4>1, ItemsAre DEF Waiting, ItemsOK
      <4> QED BY <1>3, <4>2 DEF Owing
    <3> QED BY <1>1, <3>1 DEF Owing
  <2>5. Owing' = Owing BY <2>3, <2>4 DEF Owing
  <2> QED BY <1>1, <1>3, <1>4, <1>6, <2>1, <2>2, <2>5 DEF Fifo!Deliver
<1> QED BY <1>8, <1>9

\* A refused byte finds Size - 1 bytes waiting; an accepted one has changed nothing yet.
LEMMA CheckRefuses ==
  ASSUME TypeOK, NEW c \in Bytes, EnqueueCheck(c)
  PROVE  Fifo!Refuse \/ UNCHANGED <<Items, Owing, got, last>>
<1>1. /\ wr.at = "idle" /\ wr'.at # "store" /\ UNCHANGED <<front, rear, queue, rd, got>>
      /\ (last' = "refused" /\ Following(rear) = front) \/ UNCHANGED last
  BY DEF EnqueueCheck, TypeOK, ReadQueueIsFull
<1>2. UNCHANGED <<Items, Owing>> /\ ~Fifo!Filling
  <2>1. UNCHANGED Items BY <1>1 DEF Items, Waiting, GetQueueDataNum, InHand, SlotOf, Content
  <2> QED BY <1>1, <2>1, NotFilling DEF Owing
<1>3. ASSUME Following(rear) = front PROVE Len(Items) >= Size - 1
  <2>1. GetQueueDataNum = Size - 1
    BY <1>3, FollowingIs, QueueAssumption DEF GetQueueDataNum, Slots, TypeOK
  <2> QED BY <2>1, ItemsAre, QueueAssumption DEF ItemsOK, Waiting, InHand
<1> QED BY <1>1, <1>2, <1>3 DEF Fifo!Refuse

\* For every size and every set of bytes the ring implements ByteFifo: whatever the two tasks'
\* steps interleave, bytes come out in order and none twice, and none is lost but the one whose
\* slot a consumer that has drained the queue reads between EnqueuePublish and EnqueueStore.
THEOREM RingIsFifo == Spec => IsFifo
<1>1. Init => Fifo!Init
  <2> SUFFICES ASSUME Init PROVE Fifo!Init OBVIOUS
  <2>1. Waiting = 0 BY DEF Init, Waiting, GetQueueDataNum, InHand
  <2>2. Items = <<>> BY <2>1 DEF Items
  <2>3. ~Owing BY DEF Init, Owing
  <2> QED BY <2>2, <2>3, QueueAssumption DEF Init, Fifo!Init
<1>2. Init => ChecksHold BY DEF Init, ChecksHold
<1>3. TypeOK /\ TypeOK' /\ ChecksHold /\ [Next]_vars => [Fifo!Next]_(Fifo!vars)
  <2> SUFFICES ASSUME TypeOK, TypeOK', ChecksHold, [Next]_vars
               PROVE  Fifo!Next \/ UNCHANGED <<Items, Owing, got, last>>
    BY DEF Fifo!vars
  <2>1. ASSUME NEW c \in Bytes, EnqueueCheck(c) PROVE Fifo!Next \/ UNCHANGED <<Items, Owing, got, last>>
    BY <2>1, CheckRefuses DEF Fifo!Next
  <2>2. CASE EnqueuePublish BY <2>2, PublishReserves DEF Fifo!Next
  <2>3. CASE EnqueueStore
    <3>1. wr.c \in Bytes BY DEF TypeOK
    <3> QED BY <2>3, <3>1, StoreFills DEF Fifo!Next
  <2>4. CASE DequeueCheck
    BY <2>4 DEF DequeueCheck, Items, Owing, Waiting, GetQueueDataNum, InHand, SlotOf, Content
  <2>5. CASE DequeueAdvance
    BY <2>5, AdvanceStutters DEF DequeueAdvance
  <2>6. CASE DequeueFetch BY <2>6, FetchDelivers DEF Fifo!Next
  <2>7. CASE UNCHANGED vars
    BY <2>7 DEF vars, Items, Owing, Waiting, GetQueueDataNum, InHand, SlotOf, Content
  <2> QED BY <2>1, <2>2, <2>3, <2>4, <2>5, <2>6, <2>7 DEF Next, Producer, Consumer
<1>4. Spec => [](TypeOK /\ ChecksHold)
  BY <1>2, TypeCorrect, ChecksStep, PTL DEF Spec
<1> QED BY <1>1, <1>3, <1>4, PTL DEF Spec, IsFifo, Fifo!Spec
=============================================================================
