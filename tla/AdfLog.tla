------------------------------- MODULE AdfLog -------------------------------
(***************************************************************************)
(* What the application processor shows of the DSP's log (log.c and its    *)
(* callers in adf_debug.c).  The DSP writes bytes into a ring and never    *)
(* waits.  The AP copies the ring over the bus in chunks, the write        *)
(* pointer first, and the DSP may write between two chunks; a chunk that   *)
(* fails is reported as a success (dbmdx_debug_read).  The AP then works   *)
(* out from the copy where the text begins.  Offsets count from base, but  *)
(* the mark of a clear is stored as the code stores it: as a distance from *)
(* the header of the ring, in the low half of a word.                      *)
(***************************************************************************)
EXTENDS Integers, Sequences, FiniteSetsExt

CONSTANTS
  Base,      \* the length of the ring's header
  Size,      \* limit - base
  Split,     \* offsets below Split come with the write pointer
  Bytes,     \* what the DSP writes: never a NUL
  Leftovers, \* what the ring may hold when a firmware starts: nothing in
             \* ringbuf.c clears it, and log.c takes it to be zero
  MaxBytes   \* bound: bytes logged since the firmware was loaded

ASSUME AdfLogAssumption ==
  /\ Base \in Nat \ {0} /\ Size \in Nat /\ Size >= 4 /\ Split \in 0..Size
  /\ Bytes \subseteq Nat \ {0} /\ MaxBytes \in Nat
  /\ Leftovers \subseteq [0..(Size - 1) -> Bytes \cup {0}]

Offset == 0..(Size - 1)
NUL == 0
Zero == [x \in Offset |-> NUL]
NoMark == 0
Ops == {"dump", "query", "clear"}

VARIABLES
  left,         \* what the ring held when the firmware started
  log,          \* every byte logged, in order
  op,           \* the operation that holds adfDspLock, or "idle"
  wp,           \* the write pointer of the copy in logInfo->data
  low,          \* the first chunk of the copy
  mark, magic,  \* the two halves of logInfo->reserved[0]
  n,            \* history: bytes logged when wp was copied
  cleared,      \* history: bytes logged at the last clear
  spoilt,       \* history: a chunk of the last clear's copy failed
  shown         \* what the last operation showed, and how it came about
vars == <<left, log, op, wp, low, mark, magic, n, cleared, spoilt, shown>>

Nothing == [op |-> "none", text |-> <<>>, meanwhile |-> 0, failed |-> FALSE, alike |-> FALSE]

Init ==
  /\ left \in Leftovers /\ log = <<>> /\ op = "idle" /\ wp = 0 /\ low = <<>>
  /\ mark = NoMark /\ magic = <<NUL, NUL>>
  /\ n = 0 /\ cleared = 0 /\ spoilt = FALSE
  /\ shown = Nothing

-----------------------------------------------------------------------------
(* The DSP: its log, written over what was in the ring.                    *)
Ring ==
  [o \in Offset |->
     LET at == {k \in DOMAIN log : (k - 1) % Size = o}
     IN IF at = {} THEN left[o] ELSE log[Max(at)]]

DspLogs(b) ==
  /\ Len(log) < MaxBytes
  /\ log' = Append(log, b)
  /\ UNCHANGED <<left, op, wp, low, mark, magic, n, cleared, spoilt, shown>>

(* adfLoad_init: a new section table, a zeroed copy and a new log.         *)
Reload ==
  /\ op = "idle"
  /\ left' \in Leftovers /\ log' = <<>> /\ wp' = 0
  /\ mark' = NoMark /\ magic' = <<NUL, NUL>>
  /\ n' = 0 /\ cleared' = 0 /\ spoilt' = FALSE /\ shown' = Nothing
  /\ UNCHANGED <<op, low>>

-----------------------------------------------------------------------------
(* adf_dbg_mem_read, its first chunk, for an operation.                    *)
ReadFirst(o) ==
  /\ op = "idle" /\ op' = o
  /\ wp' = Len(log) % Size /\ n' = Len(log)
  /\ low' = [x \in 0..(Split - 1) |-> Ring[x]]
  /\ shown' = Nothing
  /\ UNCHANGED <<left, log, mark, magic, cleared, spoilt>>

(* The read fails, or its first chunk: the header in the buffer is zero,   *)
(* or converted a second time, and _adfDebug_logBufCheck refuses it.       *)
ReadFails ==
  /\ op = "idle" /\ shown' = Nothing
  /\ UNCHANGED <<left, log, op, wp, low, mark, magic, n, cleared, spoilt>>

(* What is in the buffer for a chunk that failed: zero where the caller    *)
(* cleared the buffer, else what is left of an earlier copy.               *)
Cleared == {Zero}
Stale == [Split..(Size - 1) -> Bytes \cup {NUL}]

Copy(rest) == [x \in Offset |-> IF x < Split THEN low[x] ELSE rest[x]]

-----------------------------------------------------------------------------
(* log.c, on a copy c of the ring.                                         *)
CALC_RW_SIZE(s, e) == IF s <= e THEN e - s ELSE (Size - s) + e
MagicAtNext(c, r) == <<c[(r + Size - 1) % Size], c[r]>>
MagicAt(c, r) == <<c[(r + Size - 2) % Size], c[(r + Size - 1) % Size]>>

(* adfLog_reCalcHeader: the byte after wp tells if the ring was filled     *)
(* once; the mark counts while the two bytes before it are the magic.      *)
OldestNext(c, w) == IF c[(w + 1) % Size] = NUL THEN 0 ELSE w + 2
Oldest(c, w) == IF c[(w + 1) % Size] = NUL THEN 0 ELSE w + 1
InRange == Base <= mark /\ mark < Base + Size
Found(c) == InRange /\ MagicAt(c, mark - Base) = magic
reCalcHeaderUnchecked(c, w) == IF InRange THEN mark - Base ELSE Oldest(c, w)
reCalcHeader(c, w) == IF Found(c) THEN mark - Base ELSE Oldest(c, w)

(* adfLog_allocAndReadRbuf; printf and strsep end a text at its first NUL. *)
TextFromWhole(c, rp, w) == [k \in 1..CALC_RW_SIZE(rp, w) |-> c[(rp + k - 1) % Size]]
TextFrom(c, rp, w) ==
  LET used == CALC_RW_SIZE(rp, w)
      buf == [k \in 1..used |-> c[(rp + k - 1) % Size]]
      nuls == {k \in 1..used : buf[k] = NUL}
  IN SubSeq(buf, 1, IF nuls = {} THEN used ELSE Min(nuls) - 1)

-----------------------------------------------------------------------------
EndOp == op' = "idle" /\ low' = <<>> /\ UNCHANGED <<left, log, wp, n>>

(* adfLog_dump; the bytes before the mark may be new and look like magic.  *)
Dump(failed) ==
  /\ op = "dump" /\ EndOp
  /\ \E rest \in IF failed THEN Cleared ELSE {Ring} :
       LET c == Copy(rest) IN
       shown' = [op |-> "dump", text |-> TextFrom(c, reCalcHeader(c, wp), wp),
                 meanwhile |-> Len(log) - n, failed |-> failed,
                 alike |-> n - cleared >= Size /\ Found(c)]
  /\ UNCHANGED <<mark, magic, cleared, spoilt>>

(* adfLog_query: the lines handed to the filter.                           *)
Query(failed) ==
  /\ op = "query" /\ EndOp
  /\ \E rest \in IF failed THEN Cleared ELSE {Ring} :
       LET c == Copy(rest) IN
       shown' = [op |-> "query", text |-> TextFrom(c, Oldest(c, wp), wp),
                 meanwhile |-> Len(log) - n, failed |-> failed, alike |-> FALSE]
  /\ UNCHANGED <<mark, magic, cleared, spoilt>>

(* adfLog_clearHistory: the magic takes the place of the high half.        *)
LowHalf(x) == x % 65536
ClearPast(failed) ==
  /\ op = "clear" /\ EndOp
  /\ \E rest \in IF failed THEN Stale ELSE {Ring} : magic' = MagicAt(Copy(rest), wp)
  /\ mark' = LowHalf(Base + wp + 1) /\ cleared' = n /\ spoilt' = failed
  /\ UNCHANGED shown
Clear(failed) ==
  /\ op = "clear" /\ EndOp
  /\ \E rest \in IF failed THEN Stale ELSE {Ring} : magic' = MagicAt(Copy(rest), wp)
  /\ mark' = LowHalf(Base + wp) /\ cleared' = n /\ spoilt' = failed
  /\ UNCHANGED shown

(* adfDebug_printLog(ALL), called once the DSP has crashed: nothing is     *)
(* logged meanwhile.                                                       *)
PrintAll ==
  /\ op = "idle"
  /\ wp' = Len(log) % Size /\ n' = Len(log)
  /\ shown' = [op |-> "all", text |-> TextFrom(Ring, Oldest(Ring, wp'), wp'),
               meanwhile |-> 0, failed |-> FALSE, alike |-> FALSE]
  /\ UNCHANGED <<left, log, op, low, mark, magic, cleared, spoilt>>

Next ==
  \/ \E b \in Bytes : DspLogs(b)
  \/ Reload
  \/ \E o \in Ops : ReadFirst(o)
  \/ ReadFails
  \/ \E f \in BOOLEAN : Dump(f) \/ Query(f) \/ Clear(f)
  \/ PrintAll

Spec == Init /\ [][Next]_vars

-----------------------------------------------------------------------------
(* A copy has its first chunk just while an operation waits for the rest,  *)
(* and a mark is always one of the write pointer's values, cut to 16 bits: *)
(* reserved[0] of adf_debug.c is written by the clear command only.        *)
TypeOK ==
  /\ left \in Leftovers /\ log \in Seq(Bytes) /\ Len(log) <= MaxBytes
  /\ op \in Ops \cup {"idle"}
  /\ wp \in Offset /\ mark \in {NoMark} \cup {LowHalf(Base + o) : o \in Offset}
  /\ magic \in (Bytes \cup {NUL}) \X (Bytes \cup {NUL})
  /\ cleared <= n /\ n <= Len(log)
  /\ DOMAIN low = IF op = "idle" THEN {} ELSE 0..(Split - 1)
  /\ spoilt \in BOOLEAN

Newest(k) == SubSeq(log, n - k + 1, n)
Least(a, b) == IF a < b THEN a ELSE b
Cleanly == ~shown.failed /\ shown.meanwhile = 0

(* The ring holds the log of this firmware only, but for one byte.         *)
OwnLog == left = Zero \/ n >= Size - 1
(* Every place of the ring has a mark.                                     *)
MarksFit == Base + Size <= 65536

(* After a clear that went well, a dump shows just what was logged since,  *)
(* or the newest Size - 1 bytes when there is more: the byte after wp and  *)
(* the magic before the mark tell the cases apart, at every position of    *)
(* wp and mark, unless new bytes happen to look like the magic.  Without a *)
(* clear it does so if the ring started with zeros or has been filled, as  *)
(* queries and the print after a crash do.                                 *)
ShowsNewest ==
  Cleanly =>
    /\ shown.op = "dump" /\ MarksFit /\ ~shown.alike /\ ~spoilt /\ (mark = NoMark => OwnLog) =>
         shown.text = Newest(Least(n - cleared, Size - 1))
    /\ shown.op \in {"query", "all"} /\ OwnLog => shown.text = Newest(Least(n, Size - 1))

(* What the DSP logs between two chunks does not spoil a dump while the    *)
(* bytes since the clear, these included, leave the magic alone: whatever  *)
(* was in the ring before.                                                 *)
TornDumpExact ==
  shown.op = "dump" /\ MarksFit /\ ~shown.failed /\ ~spoilt /\ mark # NoMark
    /\ n + shown.meanwhile - cleared <= Size - 2
  => shown.text = Newest(n - cleared)

(* k bytes logged between two chunks spoil at most the first k bytes that  *)
(* a query of a filled ring shows: the others are the newest of the log.   *)
TornQueryTail ==
  shown.op = "query" /\ ~shown.failed /\ n >= Size - 1 =>
    LET k == Least(shown.meanwhile, Size - 1)
    IN /\ Len(shown.text) = Size - 1
       /\ SubSeq(shown.text, k + 1, Size - 1) = Newest(Size - 1 - k)

(* A chunk that fails unnoticed shortens what is shown and no more: it is  *)
(* still a stretch of the log, without a gap and without a foreign byte,   *)
(* wherever a mark, a magic or what looks like one makes it begin.         *)
FailedShowsStretch ==
  shown.op # "none" /\ shown.meanwhile = 0 /\ OwnLog =>
    \E i \in 1..(n + 1 - Len(shown.text)) : shown.text = SubSeq(log, i, i + Len(shown.text) - 1)
=============================================================================
