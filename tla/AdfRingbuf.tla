----------------------------- MODULE AdfRingbuf -----------------------------
(***************************************************************************)
(* The ring buffer of the ADF DSP framework (ringbuf.c), which carries the *)
(* DSP's log and its command line.  base is 0 and limit is Size; each      *)
(* operation runs under the lock of the log or of the command line, so it  *)
(* is one action.  A byte is represented by its number in the stream of    *)
(* bytes written since the last reset, modulo Stamps.                      *)
(***************************************************************************)
EXTENDS Integers, Sequences

CONSTANTS
  Size,       \* limit - base
  Unit,       \* dropunit; 0 means that old bytes are never dropped
  Lens,       \* the lengths that callers pass
  Calls,      \* what callers do: subset of {"write", "add", "apply", "reserve"}
  Stamps

(* adfRingbuf_apply takes any pointer of the buffer, so any length below   *)
(* Size.                                                                   *)
AllLens == IF "apply" \in Calls THEN Lens \cup 1..(Size - 1) ELSE Lens

(* A length that misses the free space by m is rounded up to whole units.  *)
Rounded(m) == (m + Unit - 1) - ((m + Unit - 1) % Unit)

(* The code checks neither length of the last two conjuncts: a longer      *)
(* write would copy past limit, a longer drop would take rp past it.       *)
ASSUME RingAssumption ==
  /\ Size \in Nat \ {0} /\ Size % 4 = 0       \* checked by adfRingbuf_init
  /\ Unit \in Nat
  /\ Lens \subseteq Nat \ {0}
  /\ Calls \subseteq {"write", "add", "apply", "reserve"}
  /\ Stamps \in Nat /\ Stamps > Size
  /\ Unit > 0 => \A len \in AllLens :
       len < Size /\ \A m \in 0..(len - 1) : Rounded(m) <= Size

Offset == 0..(Size - 1)
WORD == 4     \* sizeof(int32_t)

VARIABLES
  rp, wp,         \* the fields of adfRingbuf_t
  data,           \* the bytes of the buffer
  n,              \* history: the number of the next byte of the stream
  taken,          \* history: bytes flushed that a reader may still take back
  caught,         \* history: a write since the last reset took wp up to rp
  astray,         \* history: since the last reset more was reserved than flushed
  fault           \* a length has become negative
vars == <<rp, wp, data, n, taken, caught, astray, fault>>

MOVE_PTR_AtLimit(p, off) == IF Size - p >= off THEN p + off ELSE p + off - Size
MOVE_PTR(p, off) == IF Size - p > off THEN p + off ELSE p + off - Size
IN_RANGE(p) == p >= 0 /\ p < Size
CALC_RW_SIZE(s, e) == IF s <= e THEN e - s ELSE (Size - s) + e
CALC_WR_SIZE(s, e) == IF s < e THEN e - s ELSE (Size - s) + e

getUsedSize == CALC_RW_SIZE(rp, wp)
getFreeSize == CALC_WR_SIZE(wp, rp)

(* The bytes a reader gets: up to the end of the buffer, then from base.   *)
Read(len) ==
  [j \in 1..len |-> IF j <= Size - rp THEN data[rp + j - 1]
                    ELSE data[j - 1 - (Size - rp)]]

(* memcpy of the next len bytes of the stream to wp, in one or two pieces. *)
CopyInAgain(len) ==
  [o \in Offset |->
     IF o >= wp /\ o < wp + len THEN (n + o - wp) % Stamps
     ELSE IF o < len - (Size - wp) THEN (n + o) % Stamps
     ELSE data[o]]
CopyIn(len) ==
  [o \in Offset |->
     IF o >= wp /\ o < wp + len THEN (n + o - wp) % Stamps
     ELSE IF o < len - (Size - wp) THEN (n + (Size - wp) + o) % Stamps
     ELSE data[o]]

Init ==
  /\ rp = 0 /\ wp = 0
  /\ data = [o \in Offset |-> 0]
  /\ n = 0 /\ taken = 0
  /\ caught = FALSE /\ astray = FALSE /\ fault = FALSE

(***************************************************************************)
(* _adfRingbuf_checkDrop: the length to write and the bytes to drop.  The  *)
(* field that counts the dropped bytes is left out: nothing reads it.      *)
(***************************************************************************)
DropLen(len) ==
  IF Unit > 0 /\ len >= getFreeSize THEN Rounded(len - getFreeSize) ELSE 0
ValidLenGt(len) ==
  IF Unit = 0 /\ len > getFreeSize THEN getFreeSize - WORD ELSE len
ValidLen(len) ==
  IF Unit = 0 /\ len >= getFreeSize THEN getFreeSize - WORD ELSE len

(* The common part of adfRingbuf_write, _add and _apply.                   *)
Produce(len) ==
  /\ ~fault
  /\ LET k == ValidLen(len) IN
       \/ /\ k >= 0
          /\ rp' = MOVE_PTR(rp, DropLen(len))
          /\ data' = CopyIn(k)
          /\ wp' = MOVE_PTR(wp, k)
          /\ n' = (n + k) % Stamps
          /\ taken' = 0
          /\ caught' = (caught \/ (k > 0 /\ wp' = rp'))
          /\ UNCHANGED <<astray, fault>>
       \/ /\ k < 0    \* memcpy takes it for an enormous length; wp moves back
          /\ fault' = TRUE
          /\ UNCHANGED <<rp, wp, data, n, taken, caught, astray>>

adfRingbuf_write(len) == "write" \in Calls /\ Produce(len)

(* The hardware has put len bytes at wp; only the pointers are handled.    *)
adfRingbuf_add(len) == "add" \in Calls /\ Produce(len)

(* The same, given the new write pointer.                                  *)
adfRingbuf_apply(ptr) ==
  /\ "apply" \in Calls
  /\ ptr # wp /\ IN_RANGE(ptr)
  /\ Produce(CALC_RW_SIZE(wp, ptr))

adfRingbuf_flush(len) ==
  LET k == IF len > getUsedSize THEN getUsedSize ELSE len
  IN /\ ~fault
     /\ rp' = MOVE_PTR(rp, k)
     /\ taken' = taken + k
     /\ UNCHANGED <<wp, data, n, caught, astray, fault>>

(***************************************************************************)
(* The opposite of flush: a reader takes back bytes that it has flushed.   *)
(* Nothing checks that it has.  The remainder of a division by dropunit 0  *)
(* is the dividend on arm64, so that nothing is reserved then.             *)
(***************************************************************************)
WholeUnits(len) == IF Unit > 0 THEN len - (len % Unit) ELSE 0
adfRingbuf_reserve(len) ==
  LET k == IF len >= getFreeSize THEN WholeUnits(getFreeSize) ELSE len
  IN /\ "reserve" \in Calls
     /\ ~fault
     /\ rp' = MOVE_PTR(rp, Size - k)
     /\ taken' = IF k > taken THEN 0 ELSE taken - k
     /\ astray' = (astray \/ k > taken)
     /\ UNCHANGED <<wp, data, n, caught, fault>>

adfRingbuf_reset ==
  /\ ~fault
  /\ rp' = 0 /\ wp' = 0
  /\ n' = 0 /\ taken' = 0
  /\ caught' = FALSE /\ astray' = FALSE
  /\ UNCHANGED <<data, fault>>

Next ==
  \/ \E len \in Lens : \/ adfRingbuf_write(len)
                       \/ adfRingbuf_add(len)
                       \/ adfRingbuf_flush(len)
                       \/ adfRingbuf_reserve(len)
  \/ \E ptr \in Offset : adfRingbuf_apply(ptr)
  \/ adfRingbuf_reset

Spec == Init /\ [][Next]_vars

-----------------------------------------------------------------------------
TypeOK ==
  /\ rp \in Offset /\ wp \in Offset
  /\ data \in [Offset -> 0..(Stamps - 1)]
  /\ n \in 0..(Stamps - 1)
  /\ taken \in Nat
  /\ caught \in BOOLEAN /\ astray \in BOOLEAN /\ fault \in BOOLEAN

(***************************************************************************)
(* What a reader can read is a queue of the bytes written, in order and    *)
(* without holes, across the wrap of both pointers and across drops.  With *)
(* dropunit 0 nothing that was accepted is ever lost; otherwise a write    *)
(* that does not fit leaves the newest bytes.  Two things end this until   *)
(* the next reset, and nothing else does: a write that takes wp up to rp,  *)
(* and a reserve of more than was flushed.                                 *)
(***************************************************************************)
Fifo == INSTANCE ByteFifo WITH
  q <- Read(getUsedSize), next <- n, Drops <- Unit > 0, Slack <- Unit,
  Free <- WORD, Lens <- AllLens
Disturbed == caught \/ astray
ImplementsFifo ==
  Fifo!Init /\ [][Disturbed \/ Disturbed' \/ Fifo!Next]_<<Read(getUsedSize), n>>

(* wp never catches up with rp, so that a full buffer is never taken for   *)
(* an empty one.                                                           *)
NoCatchUp == ~caught

(* checkDrop never computes a negative length and keeps the free word it   *)
(* reserves.                                                               *)
FreeWord == ~fault /\ getFreeSize >= WORD

=============================================================================
