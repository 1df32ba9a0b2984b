------------------------------ MODULE ByteFifo ------------------------------
(***************************************************************************)
(* What a serial read queue promises its two tasks.  A place is reserved   *)
(* for a byte (Hole) before the byte is there.  Bytes come out in the      *)
(* order they went in and a byte is refused only when Room bytes wait.     *)
(* One way of losing a byte is left: when no stored byte waits and the     *)
(* newest place is still a Hole, that place may be taken.  What comes out  *)
(* of it is any byte, and the byte that was to go there is lost; the       *)
(* places before and after it are not touched.                             *)
(***************************************************************************)
EXTENDS Naturals, Sequences

CONSTANTS Bytes, Hole, Room

VARIABLES items, owing, got, last

vars == <<items, owing, got, last>>

Init == items = <<>> /\ owing = FALSE /\ got \in Bytes /\ last = "taken"

\* One byte at a time is on its way in: to its place, or to a place already taken.
Filling == owing \/ \E i \in DOMAIN items : items[i] = Hole

\* One place more than Room: the byte the consumer has in hand still counts
Reserve ==
  /\ ~Filling /\ Len(items) <= Room
  /\ items' = Append(items, Hole) /\ last' = "taken"
  /\ UNCHANGED <<owing, got>>

Refuse ==
  /\ ~Filling /\ Len(items) >= Room
  /\ last' = "refused"
  /\ UNCHANGED <<items, owing, got>>

Fill(c) ==
  /\ items # <<>> /\ items[Len(items)] = Hole
  /\ items' = [items EXCEPT ![Len(items)] = c]
  /\ UNCHANGED <<owing, got, last>>

\* The oldest byte that waits is delivered, never a place without its byte.
Deliver ==
  /\ items # <<>> /\ Head(items) # Hole
  /\ items' = Tail(items) /\ got' = Head(items)
  /\ UNCHANGED <<owing, last>>

\* The only place is taken before its byte is there: a byte nobody sent comes out ...
Misread ==
  /\ items = <<Hole>> /\ items' = <<>> /\ owing' = TRUE
  /\ got' \in Bytes
  /\ UNCHANGED last

\* ... and the byte itself, when it is stored, is lost.
Lose == owing /\ owing' = FALSE /\ UNCHANGED <<items, got, last>>

Next == Reserve \/ Refuse \/ Deliver \/ Misread \/ Lose \/ \E c \in Bytes : Fill(c)

Spec == Init /\ [][Next]_vars

\* The consumer polls: every place that waits is taken.
FairSpec == Spec /\ WF_vars(Deliver \/ Misread)
=============================================================================
