-------------------------- MODULE AdfRingbufProofs --------------------------
(***************************************************************************)
(* Proofs about the ADF ring buffer, for every buffer size, dropunit and   *)
(* set of lengths.                                                         *)
(***************************************************************************)
EXTENDS AdfRingbuf, TLAPS

(* A remainder is smaller than the divisor.                                *)
LEMMA ModRange == \A a \in Nat, b \in Nat \ {0} : a % b \in 0..(b - 1)
OBVIOUS

(* A moved pointer stays in the buffer.                                    *)
LEMMA MoveRange ==
  ASSUME NEW p \in Offset, NEW off \in 0..Size
  PROVE  MOVE_PTR(p, off) \in Offset
BY RingAssumption DEF MOVE_PTR, Offset

(* Rounding down to a multiple of a unit takes nothing below 0.            *)
LEMMA RoundDown ==
  ASSUME NEW d \in Nat, NEW u \in Nat \ {0}
  PROVE  d - (d % u) \in 0..d
<1>1. d % u \in 0..(u - 1)
  BY ModRange
<1>2. d % u <= d
  OBVIOUS
<1> QED BY <1>1, <1>2

(* Rounding up to a multiple of a unit adds less than the unit.            *)
LEMMA RoundUp ==
  ASSUME NEW m \in Nat, Unit \in Nat \ {0}
  PROVE  Rounded(m) \in m..(m + Unit - 1)
<1> DEFINE d == m + Unit - 1
<1>1. d \in Nat
  OBVIOUS
<1> HIDE DEF d
<1>2. d % Unit \in 0..(Unit - 1)
  BY <1>1, ModRange
<1>3. d - (d % Unit) \in m..(m + Unit - 1)
  BY <1>1, <1>2 DEF d
<1> QED BY <1>3 DEF d, Rounded

LEMMA FreeIsRest ==
  ASSUME TypeOK
  PROVE  /\ getUsedSize \in 0..(Size - 1) /\ getFreeSize = Size - getUsedSize
         /\ getFreeSize \in 1..Size
BY RingAssumption DEF TypeOK, Offset, getUsedSize, CALC_RW_SIZE, getFreeSize, CALC_WR_SIZE

(***************************************************************************)
(* _adfRingbuf_checkDrop leaves room for what is written: at worst the     *)
(* buffer becomes full.                                                    *)
(***************************************************************************)
LEMMA DropLeavesRoom ==
  ASSUME TypeOK, NEW len \in AllLens, Unit > 0
  PROVE  /\ ValidLen(len) = len /\ len \in 1..(Size - 1) /\ DropLen(len) \in 0..Size
         /\ IF getUsedSize + len < Size
            THEN DropLen(len) = 0
            ELSE getUsedSize + len - DropLen(len) \in (Size - Unit + 1)..Size
<1>1. /\ getUsedSize \in 0..(Size - 1) /\ getFreeSize = Size - getUsedSize
      /\ Size \in Nat /\ Unit \in Nat \ {0} /\ len \in 1..(Size - 1)
      /\ \A m \in 0..(len - 1) : Rounded(m) <= Size
  BY FreeIsRest, RingAssumption DEF AllLens
<1>2. ValidLen(len) = len
  BY <1>1 DEF ValidLen
<1>3. CASE getUsedSize + len < Size
  BY <1>1, <1>2, <1>3 DEF DropLen
<1>4. CASE ~(getUsedSize + len < Size)
  <2> DEFINE m == len - getFreeSize
  <2>1. m \in Nat /\ m \in 0..(len - 1)
    BY <1>1, <1>4
  <2>2. DropLen(len) = Rounded(m)
    BY <1>1, <1>4 DEF DropLen
  <2>3. getUsedSize + len = Size + m
    BY <1>1
  <2> HIDE DEF m
  <2>4. Rounded(m) \in m..(m + Unit - 1) /\ Rounded(m) <= Size
    BY <1>1, <2>1, RoundUp
  <2> QED BY <1>1, <1>2, <1>4, <2>1, <2>2, <2>3, <2>4
<1> QED BY <1>3, <1>4

(* A buffer that never drops accepts less than its free space.             *)
LEMMA KeepLeavesRoom ==
  ASSUME TypeOK, NEW len \in AllLens, Unit = 0
  PROVE  /\ DropLen(len) = 0 /\ ValidLen(len) \in Int /\ ValidLen(len) < getFreeSize
         /\ ValidLen(len) = IF getUsedSize + len < Size THEN len ELSE Size - WORD - getUsedSize
<1>1. /\ getUsedSize \in 0..(Size - 1) /\ getFreeSize = Size - getUsedSize
      /\ Size \in Nat /\ len \in Nat \ {0}
  BY FreeIsRest, RingAssumption DEF AllLens
<1>2. DropLen(len) = 0
  BY DEF DropLen
<1>3. ValidLen(len) = IF len >= getFreeSize THEN getFreeSize - 4 ELSE len
  BY DEF ValidLen, WORD
<1> QED BY <1>1, <1>2, <1>3 DEF WORD

(* What a write makes of the bytes in the buffer.                          *)
LEMMA ProduceOutcome ==
  ASSUME TypeOK, NEW len \in AllLens
  PROVE  /\ ValidLen(len) \in Int
         /\ ValidLen(len) >= 0 =>
              /\ ValidLen(len) \in 0..(Size - 1) /\ DropLen(len) \in 0..Size
              /\ getUsedSize + ValidLen(len) - DropLen(len) \in 0..Size
<1>1. /\ getUsedSize \in 0..(Size - 1) /\ getFreeSize = Size - getUsedSize
      /\ Size \in Nat /\ Unit \in Nat
  BY FreeIsRest, RingAssumption
<1>2. CASE Unit > 0
  <2>1. /\ ValidLen(len) = len /\ len \in 1..(Size - 1) /\ DropLen(len) \in 0..Size
        /\ IF getUsedSize + len < Size
           THEN DropLen(len) = 0
           ELSE getUsedSize + len - DropLen(len) \in (Size - Unit + 1)..Size
    BY <1>2, DropLeavesRoom
  <2> QED BY <1>1, <2>1
<1>3. CASE Unit = 0
  BY <1>1, <1>3, KeepLeavesRoom
<1> QED BY <1>1, <1>2, <1>3

(* Bytes copied into the buffer are bytes of the stream.                   *)
LEMMA CopyInType ==
  ASSUME TypeOK, NEW k \in 0..(Size - 1)
  PROVE  CopyIn(k) \in [Offset -> 0..(Stamps - 1)]
<1> SUFFICES ASSUME NEW o \in Offset
             PROVE  CopyIn(k)[o] \in 0..(Stamps - 1)
  BY DEF CopyIn
<1>1. Stamps \in Nat \ {0}
  BY RingAssumption
<1>2. CASE o >= wp /\ o < wp + k
  <2>1. n + o - wp \in Nat
    BY <1>2 DEF TypeOK, Offset
  <2>2. (n + o - wp) % Stamps \in 0..(Stamps - 1)
    BY <1>1, <2>1, ModRange
  <2> QED BY <1>2, <2>2 DEF CopyIn
<1>3. CASE ~(o >= wp /\ o < wp + k) /\ o < k - (Size - wp)
  <2>1. n + (Size - wp) + o \in Nat
    BY RingAssumption DEF TypeOK, Offset
  <2>2. (n + (Size - wp) + o) % Stamps \in 0..(Stamps - 1)
    BY <1>1, <2>1, ModRange
  <2> QED BY <1>3, <2>2 DEF CopyIn
<1>4. CASE ~(o >= wp /\ o < wp + k) /\ ~(o < k - (Size - wp))
  BY <1>4 DEF CopyIn, TypeOK
<1> QED BY <1>2, <1>3, <1>4

LEMMA ProduceType ==
  ASSUME TypeOK, NEW len \in AllLens, Produce(len)
  PROVE  TypeOK'
<1> DEFINE k == ValidLen(len)
<1>0. k \in Int
  BY ProduceOutcome
<1>1. CASE k >= 0
  <2>1. /\ rp' = MOVE_PTR(rp, DropLen(len)) /\ data' = CopyIn(k)
        /\ wp' = MOVE_PTR(wp, k) /\ n' = (n + k) % Stamps
        /\ taken' = 0 /\ UNCHANGED <<astray, fault>>
    BY <1>0, <1>1 DEF Produce
  <2>2. k \in 0..(Size - 1) /\ DropLen(len) \in 0..Size
    BY <1>1, ProduceOutcome
  <2>3. caught' \in BOOLEAN
    <3>1. caught' = (caught \/ (k > 0 /\ wp' = rp'))
      BY <1>0, <1>1 DEF Produce
    <3> HIDE DEF k
    <3> QED BY <3>1, Zenon
  <2> HIDE DEF k
  <2>a. rp \in Offset /\ wp \in Offset /\ k \in 0..Size
    BY <2>2, RingAssumption DEF TypeOK
  <2>b. MOVE_PTR(rp, DropLen(len)) \in Offset
    BY <2>a, <2>2, MoveRange
  <2>c. MOVE_PTR(wp, k) \in Offset
    BY <2>a, MoveRange
  <2>4. rp' \in Offset /\ wp' \in Offset
    BY <2>1, <2>b, <2>c
  <2>5. data' \in [Offset -> 0..(Stamps - 1)]
    BY <2>1, <2>2, CopyInType
  <2>6. n' \in 0..(Stamps - 1)
    BY <2>1, <2>2, ModRange, RingAssumption DEF TypeOK
  <2> QED BY <2>1, <2>3, <2>4, <2>5, <2>6 DEF TypeOK
<1>2. CASE k < 0
  <2>1. UNCHANGED <<rp, wp, data, n, taken, caught, astray>> /\ fault' = TRUE
    BY <1>0, <1>2 DEF Produce
  <2> QED BY <2>1 DEF TypeOK
<1> QED BY <1>0, <1>1, <1>2

LEMMA FlushUsed ==
  ASSUME TypeOK, NEW len \in Lens, adfRingbuf_flush(len)
  PROVE  LET k == IF len > getUsedSize THEN getUsedSize ELSE len
         IN  /\ k \in 0..getUsedSize /\ rp' \in Offset
             /\ getUsedSize' = getUsedSize - k /\ taken' = taken + k
             /\ UNCHANGED <<wp, data, n, caught, astray, fault>>
<1> DEFINE k == IF len > getUsedSize THEN getUsedSize ELSE len
<1>1. getUsedSize \in 0..(Size - 1) /\ k \in 0..getUsedSize /\ k \in 0..Size
  BY FreeIsRest, RingAssumption
<1>2. /\ rp' = MOVE_PTR(rp, k) /\ taken' = taken + k
      /\ UNCHANGED <<wp, data, n, caught, astray, fault>>
  BY DEF adfRingbuf_flush
<1> HIDE DEF k
<1>3. getUsedSize' = getUsedSize - k
  BY <1>1, <1>2, RingAssumption DEF getUsedSize, CALC_RW_SIZE, MOVE_PTR, TypeOK, Offset
<1>4. rp' \in Offset
  <2>1. rp \in Offset
    BY DEF TypeOK
  <2> QED BY <1>1, <1>2, <2>1, MoveRange
<1> QED BY <1>1, <1>2, <1>3, <1>4 DEF k

(* What a reserve moves rp back by, and what that makes of the bytes that  *)
(* can be read.                                                            *)
Reserved(len) == IF len >= getFreeSize THEN WholeUnits(getFreeSize) ELSE len
LEMMA ReserveUsed ==
  ASSUME TypeOK, NEW len \in Lens, adfRingbuf_reserve(len)
  PROVE  /\ Reserved(len) \in 0..getFreeSize /\ rp' \in Offset
         /\ Reserved(len) < getFreeSize => getUsedSize' = getUsedSize + Reserved(len)
         /\ taken' = IF Reserved(len) > taken THEN 0 ELSE taken - Reserved(len)
         /\ astray' = (astray \/ Reserved(len) > taken)
         /\ UNCHANGED <<wp, data, n, caught, fault>>
<1> DEFINE k == Reserved(len)
<1>1. /\ getUsedSize \in 0..(Size - 1) /\ getFreeSize = Size - getUsedSize
      /\ getFreeSize \in 1..Size /\ Size \in Nat /\ len \in Nat \ {0} /\ Unit \in Nat
  BY FreeIsRest, RingAssumption
<1>2. WholeUnits(getFreeSize) \in 0..getFreeSize
  <2>1. CASE Unit > 0
    <3>1. getFreeSize - (getFreeSize % Unit) \in 0..getFreeSize
      BY <1>1, <2>1, RoundDown
    <3> QED BY <2>1, <3>1 DEF WholeUnits
  <2>2. CASE ~(Unit > 0)
    BY <1>1, <2>2 DEF WholeUnits
  <2> QED BY <2>1, <2>2
<1>3. k \in 0..getFreeSize /\ Size - k \in 0..Size
  BY <1>1, <1>2 DEF Reserved
<1>4. /\ rp' = MOVE_PTR(rp, Size - k) /\ taken' = (IF k > taken THEN 0 ELSE taken - k)
      /\ astray' = (astray \/ k > taken)
      /\ UNCHANGED <<wp, data, n, caught, fault>>
  BY DEF adfRingbuf_reserve, Reserved
<1> HIDE DEF k
<1>5. k < getFreeSize => getUsedSize' = getUsedSize + k
  BY <1>1, <1>3, <1>4, RingAssumption
     DEF getUsedSize, CALC_RW_SIZE, MOVE_PTR, TypeOK, Offset
<1>6. rp' \in Offset
  <2>1. rp \in Offset
    BY DEF TypeOK
  <2> QED BY <1>3, <1>4, <2>1, MoveRange
<1> QED BY <1>3, <1>4, <1>5, <1>6 DEF k

LEMMA ReserveType ==
  ASSUME TypeOK, NEW len \in Lens, adfRingbuf_reserve(len)
  PROVE  TypeOK'
<1> DEFINE k == Reserved(len)
<1>1. /\ k \in 0..getFreeSize /\ rp' \in Offset
      /\ taken' = (IF k > taken THEN 0 ELSE taken - k) /\ astray' = (astray \/ k > taken)
      /\ UNCHANGED <<wp, data, n, caught, fault>>
  BY ReserveUsed
<1> HIDE DEF k
<1>2. astray' \in BOOLEAN
  BY <1>1, Zenon
<1>3. taken' \in Nat
  BY <1>1, FreeIsRest DEF TypeOK
<1> QED BY <1>1, <1>2, <1>3 DEF TypeOK

LEMMA ApplyProduces ==
  ASSUME TypeOK, NEW ptr \in Offset, adfRingbuf_apply(ptr)
  PROVE  \E len \in AllLens : Produce(len)
<1>1. CALC_RW_SIZE(wp, ptr) \in 1..(Size - 1) /\ "apply" \in Calls
  BY RingAssumption DEF adfRingbuf_apply, TypeOK, Offset, CALC_RW_SIZE
<1>2. CALC_RW_SIZE(wp, ptr) \in AllLens
  BY <1>1 DEF AllLens
<1> QED BY <1>2 DEF adfRingbuf_apply

(* The kinds of step.                                                      *)
LEMMA StepCases ==
  ASSUME TypeOK, [Next]_vars
  PROVE  \/ \E len \in AllLens : Produce(len)
         \/ \E len \in Lens : adfRingbuf_flush(len)
         \/ \E len \in Lens : adfRingbuf_reserve(len)
         \/ adfRingbuf_reset
         \/ UNCHANGED vars
<1>1. Lens \subseteq AllLens
  BY DEF AllLens
<1> QED BY <1>1, ApplyProduces DEF Next, adfRingbuf_write, adfRingbuf_add

LEMMA StepType ==
  ASSUME TypeOK, [Next]_vars
  PROVE  TypeOK'
<1>1. ASSUME NEW len \in AllLens, Produce(len) PROVE TypeOK'
  BY <1>1, ProduceType
<1>2. ASSUME NEW len \in Lens, adfRingbuf_flush(len) PROVE TypeOK'
  <2> DEFINE k == IF len > getUsedSize THEN getUsedSize ELSE len
  <2>1. /\ k \in 0..getUsedSize /\ rp' \in Offset /\ taken' = taken + k
        /\ UNCHANGED <<wp, data, n, caught, astray, fault>>
    BY <1>2, FlushUsed
  <2> HIDE DEF k
  <2> QED BY <2>1, FreeIsRest DEF TypeOK
<1>3. ASSUME NEW len \in Lens, adfRingbuf_reserve(len) PROVE TypeOK'
  BY <1>3, ReserveType
<1>4. CASE adfRingbuf_reset
  <2>1. 0 \in Offset /\ 0 \in 0..(Stamps - 1) /\ 0 \in Nat
    BY RingAssumption DEF Offset
  <2> QED BY <1>4, <2>1 DEF adfRingbuf_reset, TypeOK
<1>5. CASE UNCHANGED vars
  BY <1>5 DEF vars, TypeOK
<1> QED BY <1>1, <1>2, <1>3, <1>4, <1>5, StepCases

LEMMA InitType == Init => TypeOK
<1> SUFFICES ASSUME Init PROVE TypeOK
  OBVIOUS
<1>1. 0 \in Offset /\ 0 \in 0..(Stamps - 1)
  BY RingAssumption DEF Offset
<1>2. data \in [Offset -> 0..(Stamps - 1)]
  BY <1>1 DEF Init
<1> QED BY <1>1, <1>2 DEF Init, TypeOK

(***************************************************************************)
(* For every size and dropunit: whatever is written, dropped, flushed and  *)
(* reserved, even when more is reserved than was flushed or wp has caught  *)
(* up with rp, both pointers stay inside the buffer and every byte in it   *)
(* is a byte of the stream.                                                *)
(***************************************************************************)
THEOREM PointersInBuffer == Spec => []TypeOK
<1>1. TypeOK /\ [Next]_vars => TypeOK'
  BY StepType
<1> QED BY <1>1, InitType, PTL DEF Spec

-----------------------------------------------------------------------------
(* Buffers that never drop.                                                *)

LEMMA ProduceApart ==
  ASSUME Unit = 0, TypeOK, NoCatchUp, NEW len \in AllLens, Produce(len)
  PROVE  NoCatchUp'
<1> DEFINE k == ValidLen(len)
<1>1. DropLen(len) = 0 /\ k \in Int /\ k < getFreeSize
  BY KeepLeavesRoom
<1>2. CASE k >= 0
  <2>1. /\ rp' = MOVE_PTR(rp, 0) /\ wp' = MOVE_PTR(wp, k)
        /\ caught' = (caught \/ (k > 0 /\ wp' = rp'))
    BY <1>1, <1>2 DEF Produce
  <2> HIDE DEF k
  <2>2. ~(k > 0 /\ wp' = rp')
    BY <1>1, <2>1, RingAssumption DEF MOVE_PTR, TypeOK, Offset, getFreeSize, CALC_WR_SIZE
  <2> QED BY <2>1, <2>2 DEF NoCatchUp
<1>3. CASE k < 0
  BY <1>1, <1>3 DEF Produce, NoCatchUp
<1> QED BY <1>1, <1>2, <1>3

LEMMA StepApart ==
  ASSUME Unit = 0, TypeOK, NoCatchUp, [Next]_vars
  PROVE  NoCatchUp'
<1>1. ASSUME NEW len \in AllLens, Produce(len) PROVE NoCatchUp'
  BY <1>1, ProduceApart
<1>2. ASSUME NEW len \in Lens, adfRingbuf_flush(len) PROVE NoCatchUp'
  BY <1>2 DEF adfRingbuf_flush, NoCatchUp
<1>3. ASSUME NEW len \in Lens, adfRingbuf_reserve(len) PROVE NoCatchUp'
  BY <1>3 DEF adfRingbuf_reserve, NoCatchUp
<1>4. CASE adfRingbuf_reset
  BY <1>4 DEF adfRingbuf_reset, NoCatchUp
<1>5. CASE UNCHANGED vars
  BY <1>5 DEF vars, NoCatchUp
<1> QED BY <1>1, <1>2, <1>3, <1>4, <1>5, StepCases

(***************************************************************************)
(* For every size and every length of write, single bytes and lengths      *)
(* above the size included: in a buffer that never drops no write takes wp *)
(* up to rp, so that a full buffer is never taken for an empty one.        *)
(***************************************************************************)
THEOREM KeptBytesStayReadable == Unit = 0 /\ Spec => []NoCatchUp
<1>1. TypeOK /\ [Next]_vars => TypeOK'
  BY StepType
<1>2. Unit = 0 /\ TypeOK /\ NoCatchUp /\ [Next]_vars => NoCatchUp'
  BY StepApart
<1>3. Init => NoCatchUp
  BY DEF Init, NoCatchUp
<1>4. Unit = 0 => [](Unit = 0)
  OBVIOUS
<1> QED BY <1>1, <1>2, <1>3, <1>4, InitType, PTL DEF Spec
=============================================================================
