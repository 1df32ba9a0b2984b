----------------------------- MODULE ReadQueue -----------------------------
(***************************************************************************)
(* The ring of bytes between a serial read task (RS485ReadTask of the      *)
(* meter, RS232ReadTask of the card reader) and the task that drains it.   *)
(* There is no lock: each load or store of an index or a slot is a step,   *)
(* and Enqueue publishes rear before it stores the byte.                   *)
(***************************************************************************)
EXTENDS Integers, Sequences

CONSTANTS
  Size,                 \* READ_QUEUE_SIZE
  Bytes                 \* the values of a byte, 0 among them

ASSUME QueueAssumption == Size \in Nat /\ Size > 1 /\ 0 \in Bytes /\ Bytes \subseteq Nat

VARIABLES
  front, rear, queue,   \* the ReadQueue
  wr,                   \* the producer: where it is, the byte it carries
  rd,                   \* the consumer: where it is
  got,                  \* what the last Dequeue returned
  last                  \* whether the last Enqueue found room

vars == <<front, rear, queue, wr, rd, got, last>>

Slots == 0..(Size - 1)

\* The indices stay in the ring and the slots hold bytes, whatever the two tasks' steps
\* interleave: neither task reads or writes outside queue[].
TypeOK ==
  /\ front \in Slots /\ rear \in Slots
  /\ queue \in [Slots -> Bytes]
  /\ wr \in [at : {"idle", "publish", "store"}, c : Bytes]
  /\ rd \in {"idle", "advance", "fetch"}
  /\ got \in Bytes /\ last \in {"taken", "refused"}

\* ReadQueueInit, on memory that is zero
Init ==
  /\ front = 0 /\ rear = 0 /\ queue = [s \in Slots |-> 0]
  /\ wr = [at |-> "idle", c |-> 0] /\ rd = "idle"
  /\ got = 0 /\ last = "taken"

-----------------------------------------------------------------------------
\* Mutant: the index is not wrapped.
FollowingUnwrapped(s) == s + 1

Following(s) == (s + 1) % Size

\* Mutant: the last byte is taken for none.
ReadQueueIsEmptyEarly == Following(front) = rear \/ front = rear

ReadQueueIsEmpty == front = rear

\* Mutant: the queue is full one byte early.
ReadQueueIsFullEarly == Following(Following(rear)) = front \/ Following(rear) = front

ReadQueueIsFull == Following(rear) = front

GetQueueDataNum == IF rear - front < 0 THEN rear - front + Size ELSE rear - front

\* ReadQueueEnqueue
EnqueueCheck(c) ==
  /\ wr.at = "idle"
  /\ IF ReadQueueIsFull
     THEN last' = "refused" /\ UNCHANGED wr
     ELSE wr' = [at |-> "publish", c |-> c] /\ UNCHANGED last
  /\ UNCHANGED <<front, rear, queue, rd, got>>

EnqueuePublish ==
  /\ wr.at = "publish"
  /\ rear' = Following(rear) /\ last' = "taken"
  /\ wr' = [wr EXCEPT !.at = "store"]
  /\ UNCHANGED <<front, queue, rd, got>>

EnqueueStore ==
  /\ wr.at = "store"
  /\ queue' = [queue EXCEPT ![rear] = wr.c]
  /\ wr' = [wr EXCEPT !.at = "idle"]
  /\ UNCHANGED <<front, rear, rd, got, last>>

\* ReadQueueDequeue, called while the queue is not empty
DequeueCheck ==
  /\ rd = "idle" /\ ~ReadQueueIsEmpty
  /\ rd' = "advance"
  /\ UNCHANGED <<front, rear, queue, wr, got, last>>

DequeueAdvance ==
  /\ rd = "advance"
  /\ front' = Following(front) /\ rd' = "fetch"
  /\ UNCHANGED <<rear, queue, wr, got, last>>

DequeueFetch ==
  /\ rd = "fetch"
  /\ got' = queue[front] /\ rd' = "idle"
  /\ UNCHANGED <<front, rear, queue, wr, last>>

Producer == EnqueuePublish \/ EnqueueStore \/ \E c \in Bytes : EnqueueCheck(c)

Consumer == DequeueCheck \/ DequeueAdvance \/ DequeueFetch

Next == Producer \/ Consumer

Spec == Init /\ [][Next]_vars

\* The drain loop runs at every poll of its task
FairSpec == Spec /\ WF_vars(Consumer)

-----------------------------------------------------------------------------
(* The queue as its users see it.  The byte the consumer has in hand, whose *)
(* slot it has still to read, counts as waiting.                            *)

Hole == -1

InHand == IF rd = "fetch" THEN 1 ELSE 0

Waiting == GetQueueDataNum + InHand

\* The i-th waiting place and what it holds
SlotOf(i) == (front + i - InHand) % Size

Content(s) == IF wr.at = "store" /\ s = rear THEN Hole ELSE queue[s]

Items == [i \in 1..Waiting |-> Content(SlotOf(i))]

\* rear is published, the slot has been read, and the byte is stored only now
Owing == wr.at = "store" /\ Waiting = 0

Fifo == INSTANCE ByteFifo WITH items <- Items, owing <- Owing, Room <- Size - 1

\* The ring implements ByteFifo at every interleaving of the two tasks.  Bytes come out in
\* order and a byte is refused only when Size - 1 wait; the unused slot keeps the producer off
\* the slot the consumer has advanced to and not yet read.  Publishing rear before the store
\* costs a byte in one case only: the consumer has drained the queue and reads the new slot
\* before the store.  It then gets the slot's old byte instead of the new one, which is lost;
\* every other byte comes out as it went in, once, and the number of bytes is right.
IsFifo == Fifo!Spec

\* And as long as the consumer polls, every place that waits is taken: a byte that is stored
\* before its slot is read is delivered.
IsFairFifo == Fifo!FairSpec
=============================================================================
