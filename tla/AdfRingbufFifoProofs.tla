------------------------ MODULE AdfRingbufFifoProofs ------------------------
(***************************************************************************)
(* The ADF ring buffer implements the queue of ByteFifo, for every size,   *)
(* dropunit and set of lengths, until a write takes wp up to rp or more is *)
(* reserved than was flushed.                                              *)
(***************************************************************************)
EXTENDS AdfRingbufProofs, SequenceTheorems

-----------------------------------------------------------------------------
(* Remainders of numbers below three times the divisor.                    *)
LEMMA ModSmall == \A a \in Nat, b \in Nat \ {0} : a < b => a % b = a
OBVIOUS
LEMMA ModNext == \A a \in Nat, b \in Nat \ {0} : b <= a /\ a < 2 * b => a % b = a - b
OBVIOUS
LEMMA ModThird ==
  \A a \in Nat, b \in Nat \ {0} : 2 * b <= a /\ a < 3 * b => a % b = a - 2 * b
OBVIOUS

(***************************************************************************)
(* Going back from wp through the buffer one meets the stream, newest byte *)
(* first: the bytes to be read, then those flushed since the buffer last   *)
(* changed, which adfRingbuf_reserve brings back.                          *)
(***************************************************************************)
Back(p, i, size) == IF i <= p THEN p - i ELSE p - i + size
TakenFits == taken + getUsedSize < Size
Content ==
  \A i \in 1..(getUsedSize + taken) : data[Back(wp, i, Size)] = Back(n, i, Stamps)

(* The numbers of the stream start again at Stamps.                        *)
LEMMA StreamNumber ==
  ASSUME TypeOK, NEW x \in 0..Stamps
  PROVE  (n + x) % Stamps = IF n + x < Stamps THEN n + x ELSE (n + x) - Stamps
<1>1. Stamps \in Nat \ {0} /\ n + x \in Nat /\ n + x < 2 * Stamps
  BY RingAssumption DEF TypeOK
<1>2. n + x < Stamps => (n + x) % Stamps = n + x
  BY <1>1, ModSmall, Zenon
<1>3. Stamps <= n + x => (n + x) % Stamps = (n + x) - Stamps
  BY <1>1, ModNext, Zenon
<1>4. n + x < Stamps \/ Stamps <= n + x
  BY <1>1
<1> QED BY <1>2, <1>3, <1>4, Zenon

(* The bytes found going back from the write pointer after a copy: the     *)
(* new ones, then the old ones.                                            *)
LEMMA CopyInBack ==
  ASSUME TypeOK, NEW k \in 0..(Size - 1), NEW i \in 1..(Size - 1)
  PROVE  CopyIn(k)[Back(MOVE_PTR(wp, k), i, Size)] =
           IF i <= k THEN Back((n + k) % Stamps, i, Stamps) ELSE data[Back(wp, i - k, Size)]
<1> DEFINE o == Back(MOVE_PTR(wp, k), i, Size)
<1>1. wp \in 0..(Size - 1) /\ Size \in Nat \ {0} /\ Stamps \in Nat /\ Stamps > Size /\ n \in 0..(Stamps - 1)
  BY RingAssumption DEF TypeOK, Offset
<1>2. o \in Offset
  BY <1>1 DEF Back, MOVE_PTR, Offset
<1>3. CopyIn(k)[o] = IF o >= wp /\ o < wp + k THEN (n + o - wp) % Stamps
                     ELSE IF o < k - (Size - wp) THEN (n + (Size - wp) + o) % Stamps
                     ELSE data[o]
  BY <1>2 DEF CopyIn
<1>4. CASE i <= k
  <2>1. \/ o >= wp /\ o < wp + k /\ o - wp = k - i
        \/ ~(o >= wp /\ o < wp + k) /\ o < k - (Size - wp) /\ (Size - wp) + o = k - i
    BY <1>1, <1>4 DEF Back, MOVE_PTR
  <2>2. CopyIn(k)[o] = (n + (k - i)) % Stamps
    <3>1. n + o - wp = n + (o - wp) /\ n + (Size - wp) + o = n + ((Size - wp) + o)
      BY <1>1, <1>2 DEF Offset
    <3> HIDE DEF o
    <3> QED BY <1>3, <2>1, <3>1
  <2>3. k - i \in 0..Stamps /\ k \in 0..Stamps
    BY <1>1, <1>4
  <2>4. (n + (k - i)) % Stamps = IF n + (k - i) < Stamps THEN n + (k - i) ELSE (n + (k - i)) - Stamps
    BY <2>3, StreamNumber
  <2>5. (n + k) % Stamps = IF n + k < Stamps THEN n + k ELSE (n + k) - Stamps
    BY <2>3, StreamNumber
  <2>6. (n + (k - i)) % Stamps = Back((n + k) % Stamps, i, Stamps)
    BY <1>1, <1>4, <2>4, <2>5 DEF Back
  <2> QED BY <1>4, <2>2, <2>6
<1>5. CASE ~(i <= k)
  <2>1. ~(o >= wp /\ o < wp + k) /\ ~(o < k - (Size - wp)) /\ o = Back(wp, i - k, Size)
    BY <1>1, <1>5 DEF Back, MOVE_PTR
  <2> HIDE DEF o
  <2>2. CopyIn(k)[o] = data[Back(wp, i - k, Size)]
    BY <1>3, <2>1
  <2> QED BY <1>5, <2>2 DEF o
<1> QED BY <1>4, <1>5

LEMMA ProduceUsed ==
  ASSUME TypeOK, NEW len \in AllLens, Produce(len), ValidLen(len) >= 0
  PROVE  LET all == getUsedSize + ValidLen(len) - DropLen(len)
         IN  /\ getUsedSize' = IF all < Size THEN all ELSE 0
             /\ ~caught' => all < Size
<1> DEFINE k == ValidLen(len)
           d == DropLen(len)
<1>1. k \in 0..(Size - 1) /\ d \in 0..Size /\ getUsedSize + k - d \in 0..Size
  BY ProduceOutcome
<1>2. rp' = MOVE_PTR(rp, d) /\ wp' = MOVE_PTR(wp, k) /\ (k > 0 /\ wp' = rp' => caught')
  <2>1. ~(k < 0)
    BY <1>1
  <2> QED BY <2>1 DEF Produce
<1>3. rp \in 0..(Size - 1) /\ wp \in 0..(Size - 1) /\ Size \in Nat
  BY RingAssumption DEF TypeOK, Offset
<1> HIDE DEF k, d
<1>4. getUsedSize' = IF getUsedSize + k - d < Size THEN getUsedSize + k - d ELSE 0
  BY <1>1, <1>2, <1>3 DEF getUsedSize, CALC_RW_SIZE, MOVE_PTR
<1>5. getUsedSize + k - d = Size => k > 0 /\ wp' = rp'
  BY <1>1, <1>2, <1>3 DEF getUsedSize, CALC_RW_SIZE, MOVE_PTR
<1>6. ~caught' => getUsedSize + k - d < Size
  <2>1. getUsedSize \in Int /\ Size \in Int
    BY <1>3 DEF getUsedSize, CALC_RW_SIZE
  <2> QED BY <1>1, <1>2, <1>5, <2>1
<1> QED BY <1>4, <1>6 DEF k, d

LEMMA ProduceContent ==
  ASSUME TypeOK, TakenFits, Content, NEW len \in AllLens, Produce(len)
  PROVE  TakenFits' /\ Content'
<1> DEFINE k == ValidLen(len)
           d == DropLen(len)
<1>0. k \in Int
  BY ProduceOutcome
<1>1. CASE k < 0
  <2>1. UNCHANGED <<rp, wp, data, n, taken>>
    BY <1>0, <1>1 DEF Produce
  <2> QED BY <2>1 DEF Content, TakenFits, getUsedSize
<1>2. CASE k >= 0
  <2>1. /\ k \in 0..(Size - 1) /\ d \in 0..Size /\ getUsedSize + k - d \in 0..Size
        /\ getUsedSize' = IF getUsedSize + k - d < Size THEN getUsedSize + k - d ELSE 0
    BY <1>2, ProduceOutcome, ProduceUsed
  <2>2. data' = CopyIn(k) /\ wp' = MOVE_PTR(wp, k) /\ n' = (n + k) % Stamps /\ taken' = 0
    BY <1>0, <1>2 DEF Produce
  <2>3. getUsedSize \in 0..(Size - 1) /\ taken \in Nat /\ Size \in Nat
    BY FreeIsRest, RingAssumption DEF TypeOK
  <2> HIDE DEF k, d
  <2>a. TakenFits'
    BY <2>1, <2>2, <2>3 DEF TakenFits
  <2> SUFFICES ASSUME NEW i \in 1..(getUsedSize' + taken')
               PROVE  data'[Back(wp', i, Size)] = Back(n', i, Stamps)
    BY <2>a DEF Content
  <2>4. i \in 1..(Size - 1) /\ i <= getUsedSize + k
    BY <2>1, <2>2, <2>3
  <2>5. data'[Back(wp', i, Size)] =
          IF i <= k THEN Back((n + k) % Stamps, i, Stamps) ELSE data[Back(wp, i - k, Size)]
    BY <2>1, <2>2, <2>4, CopyInBack
  <2>6. CASE i <= k
    BY <2>2, <2>5, <2>6
  <2>7. CASE ~(i <= k)
    <3>1. i - k \in 1..(getUsedSize + taken)
      BY <2>1, <2>3, <2>4, <2>7
    <3>2. data[Back(wp, i - k, Size)] = Back(n, i - k, Stamps)
      BY <3>1 DEF Content
    <3>3. k \in 0..Stamps /\ Stamps \in Nat /\ Stamps > Size /\ n \in 0..(Stamps - 1)
      BY <2>1, RingAssumption DEF TypeOK
    <3>4. (n + k) % Stamps = IF n + k < Stamps THEN n + k ELSE (n + k) - Stamps
      BY <3>3, StreamNumber
    <3>5. Back((n + k) % Stamps, i, Stamps) = Back(n, i - k, Stamps)
      BY <2>1, <2>3, <2>4, <2>7, <3>3, <3>4 DEF Back
    <3> QED BY <2>2, <2>5, <2>7, <3>2, <3>5
  <2> QED BY <2>6, <2>7
<1> QED BY <1>0, <1>1, <1>2

(* What was flushed fits, so a reserve of no more than that is not cut.    *)
LEMMA ReserveFits ==
  ASSUME TypeOK, TakenFits, NEW len \in Lens, adfRingbuf_reserve(len), ~astray'
  PROVE  /\ Reserved(len) \in 0..taken /\ getUsedSize + Reserved(len) < Size
         /\ getUsedSize' = getUsedSize + Reserved(len) /\ taken' = taken - Reserved(len)
         /\ UNCHANGED <<wp, data, n>>
<1> DEFINE k == Reserved(len)
<1>1. /\ k \in 0..getFreeSize /\ (k < getFreeSize => getUsedSize' = getUsedSize + k)
      /\ taken' = (IF k > taken THEN 0 ELSE taken - k)
      /\ astray' = (astray \/ k > taken) /\ UNCHANGED <<wp, data, n>>
  BY ReserveUsed
<1>2. /\ getUsedSize \in 0..(Size - 1) /\ getFreeSize = Size - getUsedSize
      /\ taken \in Nat /\ taken + getUsedSize < Size /\ Size \in Nat
  BY FreeIsRest, RingAssumption DEF TypeOK, TakenFits
<1> HIDE DEF k
<1>3. ~(k > taken)
  BY <1>1
<1> QED BY <1>1, <1>2, <1>3 DEF k

LEMMA StepContent ==
  ASSUME TypeOK, TakenFits, Content, [Next]_vars, ~astray'
  PROVE  TakenFits' /\ Content'
<1>1. ASSUME NEW len \in AllLens, Produce(len) PROVE TakenFits' /\ Content'
  BY <1>1, ProduceContent
<1>2. ASSUME NEW len \in Lens, adfRingbuf_flush(len) PROVE TakenFits' /\ Content'
  <2>1. getUsedSize' + taken' = getUsedSize + taken /\ UNCHANGED <<wp, data, n>>
    BY <1>2, FlushUsed, FreeIsRest, RingAssumption DEF TypeOK
  <2>2. taken' + getUsedSize' = taken + getUsedSize
    BY <1>2, FlushUsed, FreeIsRest, RingAssumption DEF TypeOK
  <2> QED BY <2>1, <2>2 DEF Content, TakenFits
<1>3. ASSUME NEW len \in Lens, adfRingbuf_reserve(len) PROVE TakenFits' /\ Content'
  <2>1. getUsedSize' + taken' = getUsedSize + taken /\ UNCHANGED <<wp, data, n>>
    BY <1>3, ReserveFits, FreeIsRest, RingAssumption DEF TypeOK
  <2>2. taken' + getUsedSize' = taken + getUsedSize
    BY <1>3, ReserveFits, FreeIsRest, RingAssumption DEF TypeOK
  <2> QED BY <2>1, <2>2 DEF Content, TakenFits
<1>4. CASE adfRingbuf_reset
  BY <1>4, RingAssumption DEF adfRingbuf_reset, Content, TakenFits, getUsedSize, CALC_RW_SIZE
<1>5. CASE UNCHANGED vars
  BY <1>5 DEF vars, Content, TakenFits, getUsedSize
<1> QED BY <1>1, <1>2, <1>3, <1>4, <1>5, StepCases

(* A reset mends whatever a full buffer or a reserve has done.             *)
LEMMA DisturbedEnds ==
  ASSUME TypeOK, Disturbed, ~Disturbed', [Next]_vars
  PROVE  TakenFits' /\ Content'
<1>1. ASSUME NEW len \in AllLens, Produce(len) PROVE FALSE
  <2>1. caught => caught'
    BY <1>1 DEF Produce
  <2>2. astray' = astray
    BY <1>1 DEF Produce
  <2> QED BY <2>1, <2>2 DEF Disturbed
<1>2. ASSUME NEW len \in Lens, adfRingbuf_flush(len) PROVE FALSE
  BY <1>2 DEF adfRingbuf_flush, Disturbed
<1>3. ASSUME NEW len \in Lens, adfRingbuf_reserve(len) PROVE FALSE
  BY <1>3, ReserveUsed DEF Disturbed
<1>4. CASE adfRingbuf_reset
  BY <1>4, RingAssumption DEF adfRingbuf_reset, Content, TakenFits, getUsedSize, CALC_RW_SIZE
<1>5. CASE UNCHANGED vars
  BY <1>5 DEF vars, Disturbed
<1> QED BY <1>1, <1>2, <1>3, <1>4, <1>5, StepCases

(* Until something disturbs it, the buffer holds the stream.               *)
HoldsStream == ~Disturbed => TakenFits /\ Content

LEMMA StepHolds ==
  ASSUME TypeOK, HoldsStream, [Next]_vars
  PROVE  HoldsStream'
<1> SUFFICES ASSUME ~Disturbed' PROVE TakenFits' /\ Content'
  BY DEF HoldsStream
<1>1. CASE Disturbed
  BY <1>1, DisturbedEnds
<1>2. CASE ~Disturbed
  BY <1>2, StepContent DEF HoldsStream, Disturbed
<1> QED BY <1>1, <1>2

-----------------------------------------------------------------------------
(* The last u bytes of the stream before byte m, oldest first; what can be *)
(* read is such a stretch, ending with the last byte written.              *)
Stretch(m, u) == [j \in 1..u |-> Back(m, u - j + 1, Stamps)]
ReadsStretch == Read(getUsedSize) = Stretch(n, getUsedSize)

LEMMA ContentRead == TypeOK /\ Content => ReadsStretch
<1> SUFFICES ASSUME TypeOK, Content PROVE ReadsStretch
  OBVIOUS
<1>1. getUsedSize \in 0..(Size - 1) /\ rp \in 0..(Size - 1) /\ wp \in 0..(Size - 1)
      /\ Size \in Nat /\ taken \in Nat
  BY FreeIsRest, RingAssumption DEF TypeOK, Offset
<1>2. ASSUME NEW j \in 1..getUsedSize
      PROVE  (IF j <= Size - rp THEN data[rp + j - 1] ELSE data[j - 1 - (Size - rp)])
               = Back(n, getUsedSize - j + 1, Stamps)
  <2>1. getUsedSize - j + 1 \in 1..(getUsedSize + taken)
    BY <1>1
  <2>2. data[Back(wp, getUsedSize - j + 1, Size)] = Back(n, getUsedSize - j + 1, Stamps)
    BY <2>1 DEF Content
  <2>3. IF j <= Size - rp
        THEN Back(wp, getUsedSize - j + 1, Size) = rp + j - 1
        ELSE Back(wp, getUsedSize - j + 1, Size) = j - 1 - (Size - rp)
    BY <1>1 DEF Back, getUsedSize, CALC_RW_SIZE
  <2> QED BY <2>2, <2>3
<1> QED BY <1>2 DEF ReadsStretch, Read, Stretch

LEMMA StretchSeq ==
  ASSUME NEW m \in Int, NEW u \in Nat
  PROVE  /\ Stretch(m, u) \in Seq(Int) /\ Len(Stretch(m, u)) = u
         /\ \A j \in 1..u : Stretch(m, u)[j] = Back(m, u - j + 1, Stamps)
<1>1. \A j \in 1..u : Back(m, u - j + 1, Stamps) \in Int
  BY RingAssumption DEF Back
<1>2. Stretch(m, u) \in [1..u -> Int]
  BY <1>1 DEF Stretch
<1>3. Stretch(m, u) \in Seq(Int)
  BY <1>2, SeqDef
<1>4. Len(Stretch(m, u)) = u
  BY <1>2, <1>3, LenProperties
<1> QED BY <1>3, <1>4 DEF Stretch

LEMMA StretchEmpty == \A m \in Int : Stretch(m, 0) = <<>>
<1> SUFFICES ASSUME NEW m \in Int PROVE Stretch(m, 0) = <<>>
  OBVIOUS
<1>1. Stretch(m, 0) \in Seq(Int) /\ Len(Stretch(m, 0)) = 0
  BY StretchSeq
<1> QED BY <1>1, EmptySeq

(* The end of a stretch is a stretch.                                      *)
LEMMA NewestOfStretch ==
  ASSUME NEW m \in Int, NEW u \in Nat, NEW k \in 0..u
  PROVE  Fifo!Newest(Stretch(m, u), k) = Stretch(m, k)
<1> DEFINE s == Stretch(m, u)
           t == SubSeq(s, u - k + 1, u)
<1>1. s \in Seq(Int) /\ Len(s) = u /\ \A j \in 1..u : s[j] = Back(m, u - j + 1, Stamps)
  BY StretchSeq
<1>2. /\ Stretch(m, k) \in Seq(Int) /\ Len(Stretch(m, k)) = k
      /\ \A j \in 1..k : Stretch(m, k)[j] = Back(m, k - j + 1, Stamps)
  BY StretchSeq
<1> HIDE DEF s
<1>3. \A i \in (u - k + 1)..u : s[i] \in Int
  BY <1>1, ElementOfSeq
<1>4. /\ t \in Seq(Int) /\ Len(t) = (IF u - k + 1 <= u THEN u - (u - k + 1) + 1 ELSE 0)
      /\ \A i \in 1..(u - (u - k + 1) + 1) : t[i] = s[(u - k + 1) + i - 1]
  <2>1. u - k + 1 \in Int /\ u \in Int
    OBVIOUS
  <2> QED BY <1>3, <2>1, SubSeqProperties
<1> HIDE DEF t
<1>5. Len(t) = k
  BY <1>4
<1>6. ASSUME NEW j \in 1..k PROVE t[j] = Stretch(m, k)[j]
  <2>1. t[j] = s[(u - k + 1) + j - 1]
    BY <1>4
  <2>2. (u - k + 1) + j - 1 \in 1..u /\ u - ((u - k + 1) + j - 1) + 1 = k - j + 1
    OBVIOUS
  <2> QED BY <1>1, <1>2, <2>1, <2>2
<1>7. t = Stretch(m, k)
  BY <1>2, <1>4, <1>5, <1>6, SeqEqual
<1> QED BY <1>1, <1>7 DEF Fifo!Newest, s, t

LEMMA BytesSeq ==
  ASSUME TypeOK, NEW l \in 0..(Size - 1)
  PROVE  /\ Fifo!Bytes(l) \in Seq(Int) /\ Len(Fifo!Bytes(l)) = l
         /\ \A j \in 1..l : Fifo!Bytes(l)[j] = (n + (j - 1)) % Stamps
<1>1. \A j \in 1..l : (n + j - 1) % Stamps \in Int /\ n + j - 1 = n + (j - 1)
  BY RingAssumption DEF TypeOK
<1>2. Fifo!Bytes(l) \in [1..l -> Int]
  BY <1>1 DEF Fifo!Bytes
<1>3. Fifo!Bytes(l) \in Seq(Int) /\ Len(Fifo!Bytes(l)) = l
  <2>1. l \in Nat
    BY RingAssumption
  <2>2. Fifo!Bytes(l) \in Seq(Int)
    BY <1>2, <2>1, SeqDef
  <2> QED BY <1>2, <2>1, <2>2, LenProperties
<1> QED BY <1>1, <1>3 DEF Fifo!Bytes

(* Bytes written after a stretch: going back from the last one, as far as  *)
(* a buffer reaches, one meets the stream.                                 *)
LEMMA Written ==
  ASSUME TypeOK, NEW u \in 0..(Size - 1), NEW l \in 0..(Size - 1)
  PROVE  LET all == Stretch(n, u) \o Fifo!Bytes(l)
         IN  /\ all \in Seq(Int) /\ Len(all) = u + l
             /\ \A x \in 1..(u + l) :
                  x <= Size => all[u + l - x + 1] = Back((n + l) % Stamps, x, Stamps)
<1> DEFINE all == Stretch(n, u) \o Fifo!Bytes(l)
<1>1. /\ Size \in Nat /\ Stamps \in Nat /\ Stamps > Size /\ n \in 0..(Stamps - 1)
      /\ u \in Nat /\ n \in Int
  BY RingAssumption DEF TypeOK
<1>2. /\ Stretch(n, u) \in Seq(Int) /\ Len(Stretch(n, u)) = u
      /\ \A j \in 1..u : Stretch(n, u)[j] = Back(n, u - j + 1, Stamps)
  BY <1>1, StretchSeq
<1>3. /\ Fifo!Bytes(l) \in Seq(Int) /\ Len(Fifo!Bytes(l)) = l
      /\ \A j \in 1..l : Fifo!Bytes(l)[j] = (n + (j - 1)) % Stamps
  BY BytesSeq
<1>4. /\ all \in Seq(Int) /\ Len(all) = u + l
      /\ \A i \in 1..(u + l) :
           all[i] = IF i <= u THEN Stretch(n, u)[i] ELSE Fifo!Bytes(l)[i - u]
  <2> DEFINE a == Stretch(n, u)
             b == Fifo!Bytes(l)
  <2>1. a \in Seq(Int) /\ b \in Seq(Int) /\ Len(a) = u /\ Len(b) = l
    BY <1>2, <1>3
  <2> HIDE DEF a, b
  <2>2. /\ a \o b \in Seq(Int) /\ Len(a \o b) = Len(a) + Len(b)
        /\ \A i \in 1..(Len(a) + Len(b)) : (a \o b)[i] = IF i <= Len(a) THEN a[i] ELSE b[i - Len(a)]
    BY <2>1, ConcatProperties
  <2> QED BY <2>1, <2>2 DEF a, b
<1> HIDE DEF all
<1>5. (n + l) % Stamps = IF n + l < Stamps THEN n + l ELSE (n + l) - Stamps
  <2>1. l \in 0..Stamps
    BY <1>1
  <2> QED BY <2>1, StreamNumber
<1>6. ASSUME NEW x \in 1..(u + l), x <= Size
      PROVE  all[u + l - x + 1] = Back((n + l) % Stamps, x, Stamps)
  <2>1. u + l - x + 1 \in 1..(u + l)
    OBVIOUS
  <2>2. CASE x <= l
    <3>1. all[u + l - x + 1] = Fifo!Bytes(l)[l - x + 1]
      <4>1. ~(u + l - x + 1 <= u) /\ (u + l - x + 1) - u = l - x + 1
        BY <1>1, <2>2
      <4> QED BY <1>4, <2>1, <4>1
    <3>2. l - x + 1 \in 1..l /\ (l - x + 1) - 1 = l - x /\ l - x \in 0..Stamps
      BY <1>1, <2>2
    <3>3. Fifo!Bytes(l)[l - x + 1] = (n + (l - x)) % Stamps
      BY <1>3, <3>2
    <3>4. (n + (l - x)) % Stamps =
            IF n + (l - x) < Stamps THEN n + (l - x) ELSE (n + (l - x)) - Stamps
      BY <3>2, StreamNumber
    <3>5. (n + (l - x)) % Stamps = Back((n + l) % Stamps, x, Stamps)
      BY <1>1, <1>5, <2>2, <3>4 DEF Back
    <3> QED BY <3>1, <3>3, <3>5
  <2>3. CASE ~(x <= l)
    <3>1. u + l - x + 1 \in 1..u /\ u - (u + l - x + 1) + 1 = x - l
      BY <1>1, <2>3
    <3>2. all[u + l - x + 1] = Back(n, x - l, Stamps)
      <4>1. u + l - x + 1 <= u
        BY <3>1
      <4> QED BY <1>2, <1>4, <2>1, <3>1, <4>1
    <3>3. Back(n, x - l, Stamps) = Back((n + l) % Stamps, x, Stamps)
      BY <1>1, <1>5, <1>6, <2>3 DEF Back
    <3> QED BY <3>2, <3>3
  <2> QED BY <2>2, <2>3
<1> QED BY <1>4, <1>6 DEF all

LEMMA NewestWritten ==
  ASSUME TypeOK, NEW u \in 0..(Size - 1), NEW l \in 0..(Size - 1),
         NEW k \in 0..(u + l), k <= Size
  PROVE  Fifo!Newest(Stretch(n, u) \o Fifo!Bytes(l), k) = Stretch((n + l) % Stamps, k)
<1> DEFINE all == Stretch(n, u) \o Fifo!Bytes(l)
           m == (n + l) % Stamps
           first == u + l - k + 1
           t == SubSeq(all, first, u + l)
<1>1. /\ all \in Seq(Int) /\ Len(all) = u + l
      /\ \A x \in 1..(u + l) : x <= Size => all[u + l - x + 1] = Back(m, x, Stamps)
  BY Written
<1>2. m \in Int
  BY RingAssumption DEF TypeOK
<1> HIDE DEF all, m
<1>3. /\ Stretch(m, k) \in Seq(Int) /\ Len(Stretch(m, k)) = k
      /\ \A j \in 1..k : Stretch(m, k)[j] = Back(m, k - j + 1, Stamps)
  BY <1>2, StretchSeq
<1>4. first \in 1..(u + l + 1) /\ u + l \in Int /\ first \in Int
  OBVIOUS
<1>5. \A i \in first..(u + l) : all[i] \in Int
  BY <1>1, <1>4, ElementOfSeq
<1>6. /\ t \in Seq(Int) /\ Len(t) = (IF first <= u + l THEN (u + l) - first + 1 ELSE 0)
      /\ \A i \in 1..((u + l) - first + 1) : t[i] = all[first + i - 1]
  BY <1>4, <1>5, SubSeqProperties
<1> HIDE DEF t
<1>7. Len(t) = k
  BY <1>6
<1>8. ASSUME NEW j \in 1..k PROVE t[j] = Stretch(m, k)[j]
  <2>1. t[j] = all[first + j - 1]
    BY <1>6
  <2>2. k - j + 1 \in 1..(u + l) /\ k - j + 1 <= Size
        /\ first + j - 1 = u + l - (k - j + 1) + 1
    BY RingAssumption
  <2>3. all[u + l - (k - j + 1) + 1] = Back(m, k - j + 1, Stamps)
    BY <1>1, <2>2
  <2> QED BY <1>3, <2>1, <2>2, <2>3
<1>9. t = Stretch(m, k)
  BY <1>3, <1>6, <1>7, <1>8, SeqEqual
<1>10. Fifo!Newest(all, k) = t
  BY <1>1 DEF Fifo!Newest, t
<1> QED BY <1>9, <1>10 DEF all, m

LEMMA AllWritten ==
  ASSUME TypeOK, NEW u \in 0..(Size - 1), NEW l \in 0..(Size - 1), u + l <= Size
  PROVE  Stretch(n, u) \o Fifo!Bytes(l) = Stretch((n + l) % Stamps, u + l)
<1> DEFINE all == Stretch(n, u) \o Fifo!Bytes(l)
<1>1. all \in Seq(Int) /\ Len(all) = u + l
  BY Written
<1>2. Fifo!Newest(all, u + l) = Stretch((n + l) % Stamps, u + l)
  BY NewestWritten
<1> HIDE DEF all
<1>3. Fifo!Newest(all, u + l) = SubSeq(all, 1, Len(all))
  <2>1. Len(all) - (u + l) + 1 = 1
    BY <1>1
  <2> QED BY <2>1 DEF Fifo!Newest
<1>4. SubSeq(all, 1, Len(all)) = all
  BY <1>1, SubSeqFull
<1> QED BY <1>2, <1>3, <1>4 DEF all

(* The bytes before a stretch, put back in front of it.                    *)
LEMMA Reappear ==
  ASSUME TypeOK, NEW u \in 0..(Size - 1), NEW l \in 0..(Size - 1), u + l < Size
  PROVE  [j \in 1..l |-> (n + 2 * Stamps - u - l + j - 1) % Stamps] \o Stretch(n, u)
           = Stretch(n, u + l)
<1> DEFINE a == [j \in 1..l |-> (n + 2 * Stamps - u - l + j - 1) % Stamps]
           b == Stretch(n, u)
           c == Stretch(n, u + l)
<1>1. /\ Size \in Nat /\ Stamps \in Nat \ {0} /\ Stamps > Size /\ n \in 0..(Stamps - 1)
      /\ u \in Nat /\ u + l \in Nat /\ n \in Int /\ l \in Nat
  BY RingAssumption DEF TypeOK
<1>2. ASSUME NEW j \in 1..l PROVE a[j] = Back(n, u + l - j + 1, Stamps)
  <2> DEFINE v == n + 2 * Stamps - u - l + j - 1
  <2>1. a[j] = v % Stamps
    OBVIOUS
  <2>2. v \in Nat /\ v = n + 2 * Stamps - (u + l - j + 1) /\ Stamps <= v /\ v < 3 * Stamps
    BY <1>1
  <2> HIDE DEF v, a
  <2>3. v < 2 * Stamps => v % Stamps = v - Stamps
    BY <1>1, <2>2, ModNext
  <2>4. 2 * Stamps <= v => v % Stamps = v - 2 * Stamps
    BY <1>1, <2>2, ModThird
  <2> QED BY <1>1, <2>1, <2>2, <2>3, <2>4 DEF Back
<1>3. /\ b \in Seq(Int) /\ Len(b) = u /\ \A j \in 1..u : b[j] = Back(n, u - j + 1, Stamps)
  BY <1>1, StretchSeq
<1>4. /\ c \in Seq(Int) /\ Len(c) = u + l
      /\ \A j \in 1..(u + l) : c[j] = Back(n, u + l - j + 1, Stamps)
  BY <1>1, StretchSeq
<1>5. a \in Seq(Int) /\ Len(a) = l
  <2>1. \A j \in 1..l : a[j] \in Int
    BY <1>1, <1>2 DEF Back
  <2>2. DOMAIN a = 1..l /\ a = [j \in 1..l |-> a[j]]
    OBVIOUS
  <2> HIDE DEF a
  <2>3. a \in [1..l -> Int]
    BY <2>1, <2>2
  <2>4. a \in Seq(Int)
    BY <1>1, <2>3, SeqDef
  <2> QED BY <1>1, <2>3, <2>4, LenProperties
<1> HIDE DEF a, b, c
<1>6. /\ a \o b \in Seq(Int) /\ Len(a \o b) = Len(a) + Len(b)
      /\ \A i \in 1..(Len(a) + Len(b)) : (a \o b)[i] = IF i <= Len(a) THEN a[i] ELSE b[i - Len(a)]
  BY <1>3, <1>5, ConcatProperties
<1>7. ASSUME NEW i \in 1..(u + l) PROVE (a \o b)[i] = c[i]
  <2>1. (a \o b)[i] = IF i <= l THEN a[i] ELSE b[i - l]
    BY <1>3, <1>5, <1>6
  <2>2. CASE i <= l
    BY <1>1, <1>2, <1>4, <2>1, <2>2
  <2>3. CASE ~(i <= l)
    <3>1. i - l \in 1..u /\ u - (i - l) + 1 = u + l - i + 1
      BY <1>1, <2>3
    <3> QED BY <1>3, <1>4, <2>1, <2>3, <3>1
  <2> QED BY <2>2, <2>3
<1>8. Len(a \o b) = Len(c) /\ Len(a \o b) = u + l
  BY <1>1, <1>3, <1>4, <1>5, <1>6
<1>9. a \o b = c
  BY <1>4, <1>6, <1>7, <1>8, SeqEqual
<1> QED BY <1>9 DEF a, b, c

-----------------------------------------------------------------------------
(* Every step is a step of the queue, or none.                             *)
FifoStep == [Disturbed \/ Disturbed' \/ Fifo!Next]_<<Read(getUsedSize), n>>

LEMMA StretchKnown ==
  ASSUME TypeOK, ReadsStretch
  PROVE  /\ getUsedSize \in 0..(Size - 1) /\ n \in Int
         /\ Len(Read(getUsedSize)) = getUsedSize /\ Read(getUsedSize) = Stretch(n, getUsedSize)
<1>1. getUsedSize \in 0..(Size - 1) /\ getUsedSize \in Nat /\ n \in Int
  BY FreeIsRest, RingAssumption DEF TypeOK
<1>2. Len(Stretch(n, getUsedSize)) = getUsedSize
  BY <1>1, StretchSeq
<1> QED BY <1>1, <1>2 DEF ReadsStretch

LEMMA DroppingWriteRefines ==
  ASSUME TypeOK, ReadsStretch, ReadsStretch', Unit > 0, NEW len \in AllLens, Produce(len),
         ~caught'
  PROVE  Fifo!PutAndDrop(len)
<1> DEFINE u == getUsedSize
           d == DropLen(len)
           all == Read(getUsedSize) \o Fifo!Bytes(len)
<1>1. /\ u \in 0..(Size - 1) /\ Size \in Nat /\ Unit \in Nat /\ n \in Int
      /\ Read(getUsedSize) = Stretch(n, u)
  BY StretchKnown, RingAssumption
<1>2. /\ ValidLen(len) = len /\ len \in 1..(Size - 1) /\ d \in 0..Size
      /\ IF u + len < Size THEN d = 0 ELSE u + len - d \in (Size - Unit + 1)..Size
  BY DropLeavesRoom
<1>a. len \in 0..(Size - 1)
  BY <1>2
<1>3. n' = (n + len) % Stamps
  <2>1. ~(ValidLen(len) < 0)
    BY <1>1, <1>2
  <2> QED BY <1>2, <2>1 DEF Produce
<1>4. getUsedSize' = u + len - d /\ u + len - d < Size
  <2>1. u + len - d \in Int
    BY <1>1, <1>2
  <2> QED BY <1>1, <1>2, <2>1, ProduceUsed
<1>5. Len(all) = u + len
  BY <1>1, <1>a, Written
<1>6. Read(getUsedSize)' = Stretch(n', getUsedSize')
  BY DEF ReadsStretch, Stretch, Back
<1>7. IF Len(all) < Size
      THEN Read(getUsedSize)' = all
      ELSE \E k \in (Size - Unit + 1)..(Size - 1) : Read(getUsedSize)' = Fifo!Newest(all, k)
  <2>1. CASE u + len < Size
    <3>1. all = Stretch((n + len) % Stamps, u + len)
      <4>1. u + len <= Size
        BY <1>1, <1>2, <2>1
      <4>2. Stretch(n, u) \o Fifo!Bytes(len) = Stretch((n + len) % Stamps, u + len)
        BY <1>1, <1>a, <4>1, AllWritten
      <4> QED BY <1>1, <4>2
    <3>2. getUsedSize' = u + len
      BY <1>1, <1>2, <1>4, <2>1
    <3> QED BY <1>3, <1>5, <1>6, <2>1, <3>1, <3>2
  <2>2. CASE ~(u + len < Size)
    <3> DEFINE k == u + len - d
    <3>1. k \in (Size - Unit + 1)..(Size - 1) /\ k \in 0..(u + len) /\ k <= Size
          /\ getUsedSize' = k
      BY <1>1, <1>2, <1>4, <2>2, RingAssumption
    <3> HIDE DEF k
    <3>2. Fifo!Newest(all, k) = Stretch((n + len) % Stamps, k)
      BY <1>1, <1>a, <3>1, NewestWritten
    <3>3. Read(getUsedSize)' = Fifo!Newest(all, k)
      BY <1>3, <1>6, <3>1, <3>2
    <3>4. ~(Len(all) < Size)
      BY <1>5, <2>2
    <3> QED BY <3>1, <3>3, <3>4
  <2> QED BY <2>1, <2>2
<1> HIDE DEF all
<1> QED BY <1>3, <1>7 DEF Fifo!PutAndDrop, all

LEMMA KeepingWriteRefines ==
  ASSUME TypeOK, ReadsStretch, ReadsStretch', Unit = 0, NEW len \in AllLens, Produce(len),
         ValidLen(len) >= 0
  PROVE  Fifo!PutIfRoom(len)
<1> DEFINE u == getUsedSize
           k == ValidLen(len)
<1>1. /\ u \in 0..(Size - 1) /\ Size \in Nat /\ n \in Int
      /\ Read(getUsedSize) = Stretch(n, u) /\ Len(Read(getUsedSize)) = u
  BY StretchKnown, RingAssumption
<1>2. /\ DropLen(len) = 0 /\ k < getFreeSize /\ k \in Int /\ getFreeSize = Size - u
      /\ k = IF u + len < Size THEN len ELSE Size - WORD - u
  BY KeepLeavesRoom, FreeIsRest
<1>4. k \in 0..(Size - 1) /\ u + k < Size
  <2> HIDE DEF k, u
  <2>1. k >= 0
    BY DEF k
  <2> QED BY <1>1, <1>2, <2>1
<1>5. n' = (n + k) % Stamps
  BY <1>4 DEF Produce
<1>7. getUsedSize' = u + k
  <2>1. getUsedSize' = IF u + k - DropLen(len) < Size THEN u + k - DropLen(len) ELSE 0
    BY <1>4, ProduceUsed
  <2> HIDE DEF u, k
  <2> QED BY <1>1, <1>2, <1>4, <2>1
<1>8. Read(getUsedSize)' = Stretch(n', getUsedSize')
  BY DEF ReadsStretch, Stretch, Back
<1> HIDE DEF k
<1>9. Read(getUsedSize)' = Read(getUsedSize) \o Fifo!Bytes(k)
  <2>1. Stretch(n, u) \o Fifo!Bytes(k) = Stretch((n + k) % Stamps, u + k)
    <3>1. u + k <= Size
      BY <1>1, <1>4
    <3> QED BY <1>1, <1>4, <3>1, AllWritten
  <2> QED BY <1>1, <1>5, <1>7, <1>8, <2>1
<1>10. ~(Unit > 0) /\ k >= 0
  BY <1>4
<1>11. k = IF Len(Read(getUsedSize)) + len < Size THEN len
           ELSE Size - WORD - Len(Read(getUsedSize))
  BY <1>1, <1>2
<1> QED BY <1>5, <1>9, <1>10, <1>11 DEF Fifo!PutIfRoom

LEMMA FlushRefines ==
  ASSUME TypeOK, ReadsStretch, ReadsStretch', NEW len \in Lens, adfRingbuf_flush(len)
  PROVE  Fifo!Take(len)
<1> DEFINE u == getUsedSize
           k == IF len > u THEN u ELSE len
           q == Read(getUsedSize)
<1>1. u \in 0..(Size - 1) /\ len \in Nat /\ n \in Int /\ q = Stretch(n, u) /\ Len(q) = u
  BY StretchKnown, RingAssumption
<1>2. getUsedSize' = u - k /\ n' = n
  BY FlushUsed
<1>3. k = Fifo!Smaller(len, Len(q)) /\ u \in Nat /\ u - k \in 0..u
  BY <1>1, RingAssumption DEF Fifo!Smaller
<1> HIDE DEF k
<1>4. Fifo!Newest(Stretch(n, u), u - k) = Stretch(n, u - k)
  BY <1>1, <1>3, NewestOfStretch
<1>5. Read(getUsedSize)' = Stretch(n', getUsedSize')
  BY DEF ReadsStretch, Stretch, Back
<1>6. q' = Fifo!Newest(q, Len(q) - Fifo!Smaller(len, Len(q)))
  <2>1. Stretch(n', getUsedSize') = Stretch(n, u - k)
    BY <1>2
  <2> QED BY <1>1, <1>3, <1>4, <1>5, <2>1
<1> QED BY <1>2, <1>6 DEF Fifo!Take

LEMMA ReserveRefines ==
  ASSUME TypeOK, TakenFits, ReadsStretch, ReadsStretch', ~astray',
         NEW len \in Lens, adfRingbuf_reserve(len)
  PROVE  FifoStep
<1> DEFINE u == getUsedSize
           k == Reserved(len)
           q == Read(getUsedSize)
<1>1. /\ u \in 0..(Size - 1) /\ Size \in Nat /\ taken \in Nat
      /\ n \in Int /\ q = Stretch(n, u) /\ Len(q) = u
  BY StretchKnown, RingAssumption DEF TypeOK
<1>2. k \in 0..taken /\ u + k < Size /\ getUsedSize' = u + k /\ n' = n
  BY ReserveFits
<1>3. Read(getUsedSize)' = Stretch(n', getUsedSize')
  BY DEF ReadsStretch, Stretch, Back
<1>4. Read(getUsedSize)' = Stretch(n, u + k)
  BY <1>2, <1>3
<1> HIDE DEF k
<1>5. CASE k = 0
  <2>1. q' = q
    BY <1>1, <1>4, <1>5
  <2> QED BY <1>2, <2>1 DEF FifoStep
<1>6. CASE k # 0
  <2>1. k \in 0..(Size - 1) /\ k \in 1..(Size - 1)
    BY <1>1, <1>2, <1>6
  <2>2. [j \in 1..k |-> (n + 2 * Stamps - u - k + j - 1) % Stamps] \o Stretch(n, u)
          = Stretch(n, u + k)
    BY <1>1, <1>2, <2>1, Reappear
  <2>3. Read(getUsedSize)' =
          [j \in 1..k |-> (n + 2 * Stamps - Len(q) - k + j - 1) % Stamps] \o q
    BY <1>1, <1>4, <2>2
  <2>4. Len(q) + k < Size
    BY <1>1, <1>2
  <2>5. Fifo!PutBack(k)
    BY <1>2, <2>3, <2>4 DEF Fifo!PutBack
  <2> QED BY <2>1, <2>5 DEF FifoStep, Fifo!Next
<1> QED BY <1>5, <1>6

LEMMA ResetRefines ==
  ASSUME ReadsStretch', adfRingbuf_reset
  PROVE  Fifo!Reset
<1>1. getUsedSize' = 0 /\ n' = 0
  BY DEF adfRingbuf_reset, getUsedSize, CALC_RW_SIZE
<1>2. Read(getUsedSize)' = Stretch(n', getUsedSize')
  BY DEF ReadsStretch, Stretch, Back
<1>3. Stretch(n', getUsedSize') = <<>>
  BY <1>1, StretchEmpty
<1> QED BY <1>1, <1>2, <1>3 DEF Fifo!Reset

LEMMA StepRefines ==
  ASSUME TypeOK, TypeOK', HoldsStream, HoldsStream', [Next]_vars
  PROVE  FifoStep
<1> SUFFICES ASSUME ~Disturbed, ~Disturbed' PROVE FifoStep
  BY DEF FifoStep
<1>0. TakenFits /\ Content /\ Content' /\ ~caught' /\ ~astray'
  BY DEF HoldsStream, Disturbed
<1>r. ReadsStretch
  BY <1>0, ContentRead
<1>s. ReadsStretch'
  <2>1. (TypeOK /\ Content => ReadsStretch)'
    BY ContentRead, PTL
  <2> QED BY <1>0, <2>1
<1>1. ASSUME NEW len \in AllLens, Produce(len) PROVE FifoStep
  <2>1. CASE Unit > 0
    BY <1>0, <1>r, <1>s, <1>1, <2>1, DroppingWriteRefines DEF FifoStep, Fifo!Next
  <2>2. CASE Unit = 0 /\ ValidLen(len) >= 0
    BY <1>r, <1>s, <1>1, <2>2, KeepingWriteRefines DEF FifoStep, Fifo!Next
  <2>3. CASE ~(ValidLen(len) >= 0)
    <3>1. UNCHANGED <<rp, wp, data, n>>
      BY <1>1, <2>3 DEF Produce
    <3> QED BY <3>1 DEF FifoStep, Read, getUsedSize
  <2>4. Unit > 0 \/ Unit = 0
    BY RingAssumption
  <2> QED BY <2>1, <2>2, <2>3, <2>4
<1>2. ASSUME NEW len \in Lens, adfRingbuf_flush(len) PROVE FifoStep
  <2>1. len \in AllLens
    BY <1>2 DEF AllLens
  <2> QED BY <1>r, <1>s, <1>2, <2>1, FlushRefines DEF FifoStep, Fifo!Next
<1>3. ASSUME NEW len \in Lens, adfRingbuf_reserve(len) PROVE FifoStep
  BY <1>0, <1>r, <1>s, <1>3, ReserveRefines
<1>4. CASE adfRingbuf_reset
  BY <1>s, <1>4, ResetRefines DEF FifoStep, Fifo!Next
<1>5. CASE UNCHANGED vars
  BY <1>5 DEF vars, FifoStep, Read, getUsedSize
<1> QED BY <1>1, <1>2, <1>3, <1>4, <1>5, StepCases

LEMMA InitRefines == Init => Fifo!Init /\ HoldsStream
<1> SUFFICES ASSUME Init PROVE Fifo!Init /\ HoldsStream
  OBVIOUS
<1>1. getUsedSize = 0 /\ taken = 0 /\ n = 0
  BY DEF Init, getUsedSize, CALC_RW_SIZE
<1>2. TakenFits /\ Content
  BY <1>1, RingAssumption DEF Content, TakenFits
<1>3. Read(getUsedSize) = Stretch(n, getUsedSize)
  BY <1>2, InitType, ContentRead DEF ReadsStretch
<1>4. Read(getUsedSize) = <<>>
  BY <1>1, <1>3, StretchEmpty
<1> QED BY <1>1, <1>2, <1>4 DEF Fifo!Init, HoldsStream

(***************************************************************************)
(* For every size, dropunit and set of lengths that the assumption allows: *)
(* the bytes that a reader can read are a queue of the bytes written,      *)
(* across the wrap of both pointers and across drops.  Nothing that was    *)
(* accepted is lost with dropunit 0; with another one a write that does    *)
(* not fit leaves the newest bytes, fewer than dropunit short of the size. *)
(* Only a write that takes wp up to rp, which KeptBytesStayReadable rules  *)
(* out for dropunit 0, and a reserve of more than was flushed end this.    *)
(***************************************************************************)
THEOREM RingbufIsFifo == Spec => ImplementsFifo
<1>1. TypeOK /\ [Next]_vars => TypeOK'
  BY StepType
<1>2. TypeOK /\ HoldsStream /\ [Next]_vars => HoldsStream'
  BY StepHolds
<1>3. TypeOK /\ TypeOK' /\ HoldsStream /\ HoldsStream' /\ [Next]_vars => FifoStep
  BY StepRefines
<1> QED BY <1>1, <1>2, <1>3, InitType, InitRefines, PTL DEF Spec, ImplementsFifo, FifoStep
=============================================================================
