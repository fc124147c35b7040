------------------------------ MODULE ByteFifo ------------------------------
(***************************************************************************)
(* What the ring buffer gives its users: a queue of fewer than Size bytes. *)
(* A byte is known by its number in the stream since the last reset,       *)
(* modulo Stamps.  A queue that never drops takes a write whole if that    *)
(* leaves it below Size, or else as much of it as leaves Free bytes; it    *)
(* loses nothing that it took.  A queue that drops accepts everything, and *)
(* a write that reaches Size leaves the newest bytes, at most Slack - 1    *)
(* short of Size.                                                          *)
(***************************************************************************)
EXTENDS Integers, Sequences

CONSTANTS Size, Free, Slack, Drops, Stamps, Lens

VARIABLES q, next
fifoVars == <<q, next>>

Smaller(a, b) == IF a < b THEN a ELSE b
Bytes(k) == [j \in 1..k |-> (next + j - 1) % Stamps]
Newest(s, k) == SubSeq(s, Len(s) - k + 1, Len(s))

Init == q = <<>> /\ next = 0

PutIfRoom(len) ==
  LET k == IF Len(q) + len < Size THEN len ELSE Size - Free - Len(q)
  IN /\ ~Drops /\ k >= 0
     /\ q' = q \o Bytes(k)
     /\ next' = (next + k) % Stamps

PutAndDrop(len) ==
  LET all == q \o Bytes(len)
  IN /\ Drops
     /\ IF Len(all) < Size
        THEN q' = all
        ELSE \E k \in (Size - Slack + 1)..(Size - 1) : q' = Newest(all, k)
     /\ next' = (next + len) % Stamps

Take(len) ==
  /\ q' = Newest(q, Len(q) - Smaller(len, Len(q)))
  /\ UNCHANGED next

(* A reader that took bytes puts them back: older bytes reappear in front. *)
PutBack(len) ==
  /\ Len(q) + len < Size
  /\ q' = [j \in 1..len |-> (next + 2 * Stamps - Len(q) - len + j - 1) % Stamps] \o q
  /\ UNCHANGED next

Reset == q' = <<>> /\ next' = 0

Next ==
  \/ Reset
  \/ \E len \in Lens : PutIfRoom(len) \/ PutAndDrop(len) \/ Take(len)
  \/ \E len \in 1..(Size - 1) : PutBack(len)
Spec == Init /\ [][Next]_fifoVars
=============================================================================
