---------------------------- MODULE AdfLogProofs ----------------------------
(***************************************************************************)
(* Proofs about what is shown of the DSP's log, for every ring size, every *)
(* split of the copy into chunks and every length of the log.              *)
(***************************************************************************)
EXTENDS AdfLog, SequenceTheorems, WellFoundedInduction, TLAPS

-----------------------------------------------------------------------------
(* Remainders.                                                             *)
LEMMA DivMod ==
  ASSUME NEW a \in Nat, NEW b \in Nat \ {0}
  PROVE  a = b * (a \div b) + (a % b) /\ a \div b \in Nat /\ a % b \in 0..(b - 1)
OBVIOUS

LEMMA Multiple ==
  ASSUME NEW b \in Nat \ {0}, NEW q \in Int, q >= 1
  PROVE  b * q >= b
OBVIOUS

LEMMA ModUnique ==
  ASSUME NEW a \in Nat, NEW b \in Nat \ {0}, NEW q \in Int, NEW r \in 0..(b - 1), a = b * q + r
  PROVE  a % b = r
<1> DEFINE p == a \div b
           s == a % b
<1>1. a = b * p + s /\ p \in Nat /\ s \in 0..(b - 1)
  BY DivMod
<1> HIDE DEF p, s
<1>2. b * (q - p) = s - r /\ b * (p - q) = r - s
  BY <1>1
<1>3. ~(q - p >= 1)
  BY <1>1, <1>2, Multiple
<1>4. ~(p - q >= 1)
  BY <1>1, <1>2, Multiple
<1>5. p = q /\ s = r
  BY <1>1, <1>2, <1>3, <1>4
<1> QED BY <1>5 DEF s

LEMMA ModSmall ==
  ASSUME NEW a \in Nat, NEW b \in Nat \ {0}
  PROVE  /\ a < b => a % b = a
         /\ b <= a /\ a < 2 * b => a % b = a - b
OBVIOUS

(* Two numbers with the same remainder are at least the divisor apart.     *)
LEMMA ModApart ==
  ASSUME NEW a \in Nat, NEW c \in Nat, NEW b \in Nat \ {0}, a % b = c % b, a < c
  PROVE  a + b <= c
<1>1. a = b * (a \div b) + (a % b) /\ a \div b \in Nat /\ a % b \in 0..(b - 1)
  BY DivMod
<1>2. c = b * (c \div b) + (c % b) /\ c \div b \in Nat
  BY DivMod
<1>3. c - a = b * ((c \div b) - (a \div b))
  BY <1>1, <1>2
<1>4. (c \div b) - (a \div b) >= 1
  BY <1>1, <1>2, <1>3
<1> QED BY <1>1, <1>2, <1>3, <1>4, Multiple

(* i steps back from p in the ring.                                        *)
Back(p, i) == IF i <= p THEN p - i ELSE p - i + Size

LEMMA Sizes == /\ Size \in Nat \ {0} /\ Size >= 4 /\ Split \in 0..Size
               /\ Bytes \subseteq Nat \ {0} /\ Base \in Nat \ {0}
BY AdfLogAssumption

(* If every place of the ring has a mark, the mark is where it was put.    *)
LEMMA MarksWhole ==
  ASSUME MarksFit, NEW o \in Offset
  PROVE  LowHalf(Base + o) = Base + o /\ Base + o # NoMark
<1>1. Base + o \in Nat /\ Base + o < 65536 /\ Base + o # 0 /\ 65536 \in Nat \ {0}
  BY Sizes DEF MarksFit, Offset
<1> QED BY <1>1, ModSmall DEF LowHalf, NoMark

LEMMA BackRange ==
  ASSUME NEW p \in Offset, NEW i \in 0..Size
  PROVE  Back(p, i) \in 0..Size /\ (i # 0 => Back(p, i) \in Offset)
BY Sizes DEF Back, Offset

LEMMA ModBack ==
  ASSUME NEW a \in Nat, NEW i \in 0..Size, i <= a
  PROVE  (a - i) % Size = IF i = 0 THEN a % Size ELSE Back(a % Size, i)
<1> DEFINE q == a \div Size
           r == a % Size
<1>1. a = Size * q + r /\ q \in Nat /\ r \in 0..(Size - 1)
  BY Sizes, DivMod
<1> HIDE DEF q, r
<1>2. CASE i <= r
  <2>1. a - i = Size * q + (r - i) /\ r - i \in 0..(Size - 1) /\ a - i \in Nat
    BY <1>1, <1>2, Sizes
  <2>2. (a - i) % Size = r - i
    BY <1>1, <2>1, Sizes, ModUnique
  <2> QED BY <1>1, <1>2, <2>2 DEF r, Back
<1>3. CASE ~(i <= r)
  <2>1. /\ a - i = Size * (q - 1) + (r - i + Size) /\ r - i + Size \in 0..(Size - 1)
        /\ a - i \in Nat /\ q - 1 \in Int
    BY <1>1, <1>3, Sizes
  <2>2. (a - i) % Size = r - i + Size
    BY <1>1, <2>1, Sizes, ModUnique
  <2> QED BY <1>1, <1>3, <2>2 DEF r, Back
<1> QED BY <1>2, <1>3

LEMMA ModRound ==
  ASSUME NEW a \in Nat
  PROVE  (a + Size) % Size = a % Size /\ a % Size \in Offset
<1>1. a = Size * (a \div Size) + (a % Size) /\ a \div Size \in Nat /\ a % Size \in 0..(Size - 1)
  BY Sizes, DivMod
<1>2. /\ a + Size = Size * ((a \div Size) + 1) + (a % Size) /\ a + Size \in Nat
      /\ (a \div Size) + 1 \in Int
  BY <1>1, Sizes
<1>3. (a + Size) % Size = a % Size
  BY <1>1, <1>2, Sizes, ModUnique
<1> QED BY <1>1, <1>3 DEF Offset

(* A set of natural numbers that is not empty has a least element.         *)
LEMMA MinIs ==
  ASSUME NEW S, S \subseteq Nat, S # {}
  PROVE  Min(S) \in S /\ \A y \in S : Min(S) <= y
<1>1. PICK x \in S : \A y \in S : ~(<<y, x>> \in OpToRel(<, Nat))
  BY NatLessThanWellFounded, WFMin
<1>2. ASSUME NEW y \in S PROVE x <= y
  <2>1. x \in Nat /\ y \in Nat /\ <<y, x>> \in Nat \X Nat
    OBVIOUS
  <2>2. y < x => <<y, x>> \in OpToRel(<, Nat)
    <3>1. <<y, x>>[1] = y /\ <<y, x>>[2] = x
      OBVIOUS
    <3> QED BY <2>1, <3>1, Zenon DEF OpToRel
  <2>3. ~(y < x)
    BY <1>1, <2>2, Zenon
  <2> QED BY <2>1, <2>3
<1> QED BY <1>2 DEF Min

-----------------------------------------------------------------------------
(* The inductive invariant.                                                *)

(* Byte j of the log; before its first byte there is what the ring held.   *)
ByteAt(j) == IF j >= 1 THEN log[j] ELSE left[j - 1 + Size]

(***************************************************************************)
(* What is counted, and the pointers that follow from it; the first chunk  *)
(* holds the ring as it was when the write pointer was copied; the magic   *)
(* is the two bytes logged last before the clear, as long as what has been *)
(* logged since leaves room for them; an operation that is under way has   *)
(* shown nothing.                                                          *)
(***************************************************************************)
Counts == n \in Nat /\ cleared \in Nat /\ wp = n % Size
Marked == MarksFit => IF mark = NoMark THEN cleared = 0 ELSE mark = Base + (cleared % Size)
FirstChunk ==
  op # "idle" =>
    /\ low \in [0..(Split - 1) -> Bytes \cup {NUL}]
    /\ \A i \in 1..Size : Back(wp, i) < Split => low[Back(wp, i)] = ByteAt(n - i + 1)
MagicKept ==
  mark # NoMark /\ ~spoilt /\ Len(log) - cleared <= Size - 2 =>
    magic = <<ByteAt(cleared - 1), ByteAt(cleared)>>
ShownType ==
  /\ shown.text \in Seq(Bytes \cup {NUL}) /\ shown.meanwhile \in Nat
  /\ op # "idle" => shown = Nothing
Facts == TypeOK /\ Counts /\ Marked /\ FirstChunk /\ MagicKept /\ ShownType

-----------------------------------------------------------------------------
(* The ring.                                                               *)

LEMMA LogType ==
  ASSUME TypeOK
  PROVE  /\ log \in Seq(Bytes) /\ Len(log) \in Nat /\ DOMAIN log = 1..Len(log)
         /\ \A k \in 1..Len(log) : log[k] \in Bytes /\ log[k] # NUL
<1>1. log \in Seq(Bytes)
  BY DEF TypeOK
<1>2. Len(log) \in Nat /\ DOMAIN log = 1..Len(log) /\ \A k \in 1..Len(log) : log[k] \in Bytes
  BY <1>1, LenProperties, ElementOfSeq
<1> QED BY <1>1, <1>2, Sizes DEF NUL

(* Going back from where byte m + 1 goes, one meets the bytes of the log   *)
(* up to m, newest first, as far as later ones have not written over them. *)
LEMMA RingBack ==
  ASSUME TypeOK, NEW m \in 0..Len(log), NEW i \in 1..Size, i + (Len(log) - m) <= Size
  PROVE  Ring[Back(m % Size, i)] = ByteAt(m - i + 1)
<1> DEFINE o == Back(m % Size, i)
           at == {k \in DOMAIN log : (k - 1) % Size = o}
           last == m - i + 1
           a == (m + Size) - i
<1>1. /\ Len(log) \in Nat /\ DOMAIN log = 1..Len(log) /\ m \in Nat
      /\ m % Size \in Offset /\ o \in Offset /\ Size \in Nat \ {0}
  <2>1. Len(log) \in Nat /\ DOMAIN log = 1..Len(log) /\ m \in Nat /\ Size \in Nat \ {0}
    BY LogType, Sizes
  <2>2. m % Size \in Offset /\ i \in 0..Size /\ i # 0
    BY <2>1, ModRound
  <2>3. o \in Offset
    BY <2>2, BackRange
  <2> QED BY <2>1, <2>2, <2>3
<1>2. a \in Nat /\ a % Size = o
  <2>1. m + Size \in Nat /\ i \in 0..Size /\ i <= m + Size
    BY <1>1
  <2>2. ((m + Size) - i) % Size = Back((m + Size) % Size, i)
    BY <2>1, ModBack
  <2>3. (m + Size) % Size = m % Size
    BY <1>1, ModRound
  <2> QED BY <1>1, <2>1, <2>2, <2>3
<1> HIDE DEF o
<1>3. ASSUME NEW k \in at PROVE k <= last
  <2>1. k - 1 \in Nat /\ (k - 1) % Size = a % Size /\ k - 1 < a /\ k \in Nat
    BY <1>1, <1>2
  <2> HIDE DEF a, at
  <2>2. (k - 1) + Size <= a
    BY <1>1, <1>2, <2>1, ModApart
  <2> QED BY <1>1, <2>1, <2>2 DEF a
<1>4. Ring[o] = IF at = {} THEN left[o] ELSE log[Max(at)]
  BY <1>1 DEF Ring
<1>5. CASE last >= 1
  <2>1. last - 1 = m - i /\ last \in 1..Len(log) /\ i \in 0..Size /\ i <= m
    BY <1>1, <1>5
  <2>2. (m - i) % Size = o
    BY <1>1, <2>1, ModBack DEF o
  <2>3. last \in at
    BY <1>1, <2>1, <2>2
  <2> HIDE DEF last, at
  <2>4. \A k \in at : last >= k /\ k \in Nat
    BY <1>1, <1>3, <2>1 DEF at
  <2>5. Max(at) = last
    <3>1. \A x \in at : (\A y \in at : x >= y) => x = last
      BY <2>1, <2>3, <2>4
    <3> QED BY <2>3, <2>4, <3>1 DEF Max
  <2>6. Ring[o] = log[last]
    BY <1>4, <2>3, <2>5
  <2> QED BY <1>5, <2>6 DEF ByteAt, o, last
<1>6. CASE ~(last >= 1)
  <2>1. at = {}
    <3> SUFFICES ASSUME NEW k \in at PROVE FALSE
      OBVIOUS
    <3>1. k <= last /\ k \in 1..Len(log)
      BY <1>1, <1>3
    <3> QED BY <1>1, <1>6, <3>1
  <2>2. Ring[o] = left[o]
    BY <1>4, <2>1
  <2>3. m < Size /\ i > m
    BY <1>1, <1>6
  <2>4. m % Size = m
    BY <1>1, <2>3, ModSmall
  <2>5. o = last - 1 + Size
    BY <1>1, <2>3, <2>4 DEF o, Back
  <2> QED BY <1>6, <2>2, <2>5 DEF ByteAt, o
<1> QED BY <1>5, <1>6

(* Every place of the ring is some way back from the end of the log.       *)
LEMMA RingPlace ==
  ASSUME TypeOK, NEW o \in Offset
  PROVE  \E i \in 1..Size : /\ o = Back(Len(log) % Size, i) /\ Ring[o] = ByteAt(Len(log) - i + 1)
                            /\ o < Len(log) => i <= Len(log)
<1> DEFINE r == Len(log) % Size
           i == IF o < r THEN r - o ELSE r - o + Size
<1>1. r \in Offset /\ Len(log) \in 0..Len(log) /\ Len(log) \in Nat
  BY LogType, ModRound
<1>2. i \in 1..Size /\ o = Back(r, i)
  BY <1>1, Sizes DEF Offset, Back
<1>3. o < Len(log) => i <= Len(log)
  <2>1. CASE Len(log) < Size
    <3>1. r = Len(log)
      BY <1>1, <2>1, Sizes, ModSmall
    <3> QED BY <1>1, <3>1, Sizes DEF Offset
  <2>2. CASE ~(Len(log) < Size)
    BY <1>1, <1>2, <2>2, Sizes
  <2> QED BY <2>1, <2>2
<1> HIDE DEF i
<1>4. i + (Len(log) - Len(log)) <= Size
  BY <1>1, <1>2, Sizes
<1>5. Ring[Back(r, i)] = ByteAt(Len(log) - i + 1)
  BY <1>1, <1>2, <1>4, RingBack
<1> QED BY <1>2, <1>3, <1>5

LEMMA LeftType ==
  ASSUME TypeOK
  PROVE  left \in [Offset -> Bytes \cup {NUL}]
BY AdfLogAssumption DEF TypeOK, Offset, NUL

LEMMA ByteAtType ==
  ASSUME TypeOK, NEW j \in Int, j <= Len(log), 1 - Size <= j
  PROVE  /\ ByteAt(j) \in Bytes \cup {NUL} /\ (j >= 1 => ByteAt(j) # NUL)
         /\ j < 1 /\ left = Zero => ByteAt(j) = NUL
<1>1. CASE j >= 1
  BY <1>1, LogType DEF ByteAt
<1>2. CASE ~(j >= 1)
  <2>1. j - 1 + Size \in Offset /\ ByteAt(j) = left[j - 1 + Size]
    BY <1>2, Sizes DEF Offset, ByteAt
  <2> QED BY <1>2, <2>1, LeftType DEF Zero
<1> QED BY <1>1, <1>2

LEMMA RingType ==
  ASSUME TypeOK
  PROVE  /\ Ring \in [Offset -> Bytes \cup {NUL}]
         /\ \A o \in Offset : o < Len(log) => Ring[o] # NUL
<1>1. ASSUME NEW o \in Offset
      PROVE  Ring[o] \in Bytes \cup {NUL} /\ (o < Len(log) => Ring[o] # NUL)
  <2>1. PICK i \in 1..Size : Ring[o] = ByteAt(Len(log) - i + 1) /\ (o < Len(log) => i <= Len(log))
    BY RingPlace
  <2>2. /\ Len(log) - i + 1 \in Int /\ Len(log) - i + 1 <= Len(log)
        /\ 1 - Size <= Len(log) - i + 1
    BY LogType, Sizes
  <2>3. ByteAt(Len(log) - i + 1) \in Bytes \cup {NUL}
        /\ (Len(log) - i + 1 >= 1 => ByteAt(Len(log) - i + 1) # NUL)
    BY <2>2, ByteAtType
  <2> QED BY <2>1, <2>3, LogType, Sizes
<1>2. Ring = [o \in Offset |-> Ring[o]]
  BY DEF Ring
<1> QED BY <1>1, <1>2

-----------------------------------------------------------------------------
(* The copy of the ring.                                                   *)

Chars == Bytes \cup {NUL}

LEMMA CountFacts ==
  ASSUME Facts
  PROVE  /\ n \in 0..Len(log) /\ n \in Nat /\ Len(log) \in Nat /\ cleared \in 0..n
         /\ wp = n % Size /\ wp \in Offset
BY LogType DEF Facts, Counts, TypeOK

LEMMA CopyPlace ==
  ASSUME Facts, op # "idle", NEW rest, \A x \in Split..(Size - 1) : rest[x] \in Chars
  PROVE  /\ Copy(rest) \in [Offset -> Chars]
         /\ \A i \in 1..Size :
              /\ Back(wp, i) \in Offset
              /\ Copy(rest)[Back(wp, i)] = IF Back(wp, i) < Split THEN ByteAt(n - i + 1)
                                           ELSE rest[Back(wp, i)]
<1>1. low \in [0..(Split - 1) -> Chars]
  BY DEF Facts, FirstChunk, Chars
<1>2. \A x \in Offset : IF x < Split THEN x \in 0..(Split - 1) ELSE x \in Split..(Size - 1)
  BY Sizes DEF Offset
<1>3. Copy(rest) \in [Offset -> Chars]
  BY <1>1, <1>2 DEF Copy
<1>4. ASSUME NEW i \in 1..Size
      PROVE  /\ Back(wp, i) \in Offset
             /\ Copy(rest)[Back(wp, i)] = IF Back(wp, i) < Split THEN ByteAt(n - i + 1)
                                          ELSE rest[Back(wp, i)]
  <2>1. Back(wp, i) \in Offset
    <3>1. i \in 0..Size /\ i # 0
      BY Sizes
    <3> QED BY <3>1, CountFacts, BackRange
  <2> QED BY <2>1 DEF Copy, Facts, FirstChunk
<1> QED BY <1>3, <1>4

(* A copy without a failure is exact as far as nothing new has been        *)
(* written over what was there, and has no NUL once the ring was filled.   *)
LEMMA CopyExact ==
  ASSUME Facts, op # "idle"
  PROVE  /\ Copy(Ring) \in [Offset -> Chars]
         /\ \A i \in 1..Size :
              i + (Len(log) - n) <= Size => Copy(Ring)[Back(wp, i)] = ByteAt(n - i + 1)
         /\ n >= Size - 1 => \A i \in 1..(Size - 1) : Copy(Ring)[Back(wp, i)] # NUL
<1>1. TypeOK /\ Ring \in [Offset -> Chars] /\ \A o \in Offset : o < Len(log) => Ring[o] # NUL
  BY RingType DEF Facts, Chars
<1>2. /\ Copy(Ring) \in [Offset -> Chars]
      /\ \A i \in 1..Size :
           /\ Back(wp, i) \in Offset
           /\ Copy(Ring)[Back(wp, i)] = IF Back(wp, i) < Split THEN ByteAt(n - i + 1)
                                        ELSE Ring[Back(wp, i)]
  <2>1. \A x \in Split..(Size - 1) : Ring[x] \in Chars
    BY <1>1, Sizes DEF Offset
  <2> QED BY <2>1, CopyPlace
<1>3. ASSUME NEW i \in 1..Size, i + (Len(log) - n) <= Size
      PROVE  Copy(Ring)[Back(wp, i)] = ByteAt(n - i + 1)
  <2>1. Ring[Back(wp, i)] = ByteAt(n - i + 1)
    BY <1>1, <1>3, CountFacts, RingBack
  <2> QED BY <1>2, <2>1
<1>4. ASSUME n >= Size - 1, NEW i \in 1..(Size - 1)
      PROVE  Copy(Ring)[Back(wp, i)] # NUL
  <2>1. /\ i \in 1..Size /\ n - i + 1 \in Int /\ n - i + 1 <= Len(log) /\ n - i + 1 >= 1
        /\ 1 - Size <= n - i + 1
    BY <1>4, CountFacts, Sizes
  <2>2. ByteAt(n - i + 1) # NUL
    BY <1>1, <2>1, ByteAtType
  <2>3. Back(wp, i) < Len(log)
    <3>1. CASE n < Size
      <4>1. wp = n /\ n = Size - 1
        BY <1>4, <3>1, CountFacts, Sizes, ModSmall
      <4> QED BY <4>1, CountFacts, Sizes DEF Back
    <3>2. CASE ~(n < Size)
      <4>1. Back(wp, i) \in Offset
        BY <1>2, <2>1
      <4> QED BY <3>2, <4>1, CountFacts, Sizes DEF Offset
    <3> QED BY <3>1, <3>2
  <2> QED BY <1>1, <1>2, <2>1, <2>2, <2>3
<1> QED BY <1>2, <1>3, <1>4

(* A copy whose rest failed has zeros and no wrong byte.                   *)
LEMMA CopyFailed ==
  ASSUME Facts, op # "idle", NEW rest \in Cleared
  PROVE  /\ Copy(rest) \in [Offset -> Chars]
         /\ \A i \in 1..Size : Copy(rest)[Back(wp, i)] \in {ByteAt(n - i + 1), NUL}
<1>1. rest \in [Offset -> Chars] /\ \A x \in Offset : rest[x] = NUL
  BY DEF Cleared, Zero, Chars
<1>2. \A x \in Split..(Size - 1) : x \in Offset
  BY Sizes DEF Offset
<1> QED BY <1>1, <1>2, CopyPlace

-----------------------------------------------------------------------------
(* The text taken from a copy.                                             *)

LEMMA UsedRange ==
  ASSUME NEW rp \in 0..Size, NEW w \in Offset
  PROVE  CALC_RW_SIZE(rp, w) \in 0..(Size - 1)
BY Sizes DEF CALC_RW_SIZE, Offset

LEMMA BufPlace ==
  ASSUME NEW rp \in 0..Size, NEW w \in Offset, NEW k \in 1..CALC_RW_SIZE(rp, w)
  PROVE  (rp + k - 1) % Size = Back(w, CALC_RW_SIZE(rp, w) - k + 1)
<1> DEFINE a == rp + k - 1
<1>1. a \in Nat /\ a < 2 * Size
  BY Sizes DEF CALC_RW_SIZE, Offset
<1>2. (a < Size => a % Size = a) /\ (Size <= a => a % Size = a - Size)
  <2> HIDE DEF a
  <2> QED BY <1>1, Sizes, ModSmall
<1>3. a < Size => Back(w, CALC_RW_SIZE(rp, w) - k + 1) = a
  BY Sizes DEF CALC_RW_SIZE, Offset, Back
<1>4. Size <= a => Back(w, CALC_RW_SIZE(rp, w) - k + 1) = a - Size
  BY Sizes DEF CALC_RW_SIZE, Offset, Back
<1> HIDE DEF a
<1>5. a % Size = Back(w, CALC_RW_SIZE(rp, w) - k + 1)
  BY <1>1, <1>2, <1>3, <1>4, Sizes
<1> QED BY <1>5 DEF a

(* The text is what lies between rp and w, up to the first NUL.            *)
LEMMA TextIs ==
  ASSUME NEW c \in [Offset -> Chars], NEW rp \in 0..Size, NEW w \in Offset
  PROVE  LET used == CALC_RW_SIZE(rp, w)
             text == TextFrom(c, rp, w)
         IN  /\ text \in Seq(Chars) /\ Len(text) \in 0..used
             /\ \A k \in 1..Len(text) : text[k] = c[Back(w, used - k + 1)] /\ text[k] # NUL
             /\ (\A i \in 1..used : c[Back(w, i)] # NUL) => Len(text) = used
<1> DEFINE used == CALC_RW_SIZE(rp, w)
           buf == [k \in 1..used |-> c[(rp + k - 1) % Size]]
           nuls == {k \in 1..used : buf[k] = NUL}
           stop == IF nuls = {} THEN used ELSE Min(nuls) - 1
           text == TextFrom(c, rp, w)
<1>1. used \in 0..(Size - 1) /\ used \in Nat
  BY UsedRange, Sizes
<1>2. text = SubSeq(buf, 1, stop)
  BY DEF TextFrom
<1>3. ASSUME NEW k \in 1..used
      PROVE  /\ buf[k] = c[Back(w, used - k + 1)] /\ buf[k] \in Chars
             /\ used - k + 1 \in 1..used
  <2>1. used - k + 1 \in 1..used /\ used - k + 1 \in 0..Size /\ used - k + 1 # 0
    BY <1>1, Sizes
  <2>2. Back(w, used - k + 1) \in Offset
    BY <2>1, BackRange
  <2>3. (rp + k - 1) % Size = Back(w, used - k + 1)
    BY BufPlace
  <2> QED BY <2>1, <2>2, <2>3
<1> HIDE DEF used, buf, text
<1>4. stop \in 0..used /\ \A k \in 1..stop : buf[k] # NUL
  <2>1. CASE nuls = {}
    BY <1>1, <2>1
  <2>2. CASE nuls # {}
    <3>1. nuls \subseteq Nat
      BY <1>1
    <3> HIDE DEF nuls
    <3>2. Min(nuls) \in nuls /\ \A y \in nuls : Min(nuls) <= y
      BY <2>2, <3>1, MinIs
    <3>3. Min(nuls) \in 1..used
      BY <3>2 DEF nuls
    <3>4. stop = Min(nuls) - 1
      BY <2>2
    <3> HIDE DEF stop
    <3>5. ASSUME NEW k \in 1..stop PROVE buf[k] # NUL
      <4>1. k \in 1..used /\ k < Min(nuls)
        BY <1>1, <3>3, <3>4
      <4>2. k \notin nuls
        BY <3>2, <3>3, <4>1
      <4> QED BY <4>1, <4>2 DEF nuls
    <3> QED BY <1>1, <3>3, <3>4, <3>5
  <2> QED BY <2>1, <2>2
<1>5. (\A i \in 1..used : c[Back(w, i)] # NUL) => stop = used
  BY <1>3
<1> HIDE DEF stop
<1>6. /\ text \in Seq(Chars) /\ Len(text) = stop
      /\ \A k \in 1..stop : text[k] = buf[k]
  <2>1. \A k \in 1..stop : buf[k] \in Chars
    BY <1>1, <1>3, <1>4
  <2>2. /\ SubSeq(buf, 1, stop) \in Seq(Chars)
        /\ Len(SubSeq(buf, 1, stop)) = (IF 1 <= stop THEN stop - 1 + 1 ELSE 0)
        /\ \A k \in 1..(stop - 1 + 1) : SubSeq(buf, 1, stop)[k] = buf[1 + k - 1]
    BY <1>1, <1>4, <2>1, SubSeqProperties
  <2> QED BY <1>1, <1>2, <1>4, <2>2
<1>7. \A k \in 1..stop : text[k] = c[Back(w, used - k + 1)] /\ text[k] # NUL
  BY <1>1, <1>3, <1>4, <1>6
<1> QED BY <1>4, <1>5, <1>6, <1>7 DEF used, text

LEMMA LogStretch ==
  ASSUME TypeOK, NEW i \in Nat \ {0}, NEW l \in Nat, i + l - 1 <= Len(log)
  PROVE  /\ SubSeq(log, i, i + l - 1) \in Seq(Chars) /\ Len(SubSeq(log, i, i + l - 1)) = l
         /\ \A k \in 1..l : SubSeq(log, i, i + l - 1)[k] = log[i + k - 1]
<1> DEFINE j == i + l - 1
           t == SubSeq(log, i, j)
<1>1. j \in Int /\ i \in Int /\ j - i + 1 = l /\ (i <= j <=> l >= 1)
  OBVIOUS
<1>2. \A k \in i..j : log[k] \in Chars
  BY LogType DEF Chars
<1> HIDE DEF j
<1>3. /\ t \in Seq(Chars) /\ Len(t) = (IF i <= j THEN j - i + 1 ELSE 0)
      /\ \A k \in 1..(j - i + 1) : t[k] = log[i + k - 1]
  BY <1>1, <1>2, SubSeqProperties
<1>4. Len(t) = l
  BY <1>1, <1>3
<1> QED BY <1>1, <1>3, <1>4 DEF j

(* A copy that is exact between rp and w shows the newest bytes.           *)
LEMMA TextWhole ==
  ASSUME TypeOK, NEW c \in [Offset -> Chars], NEW rp \in 0..Size, NEW w \in Offset,
         NEW m \in 0..Len(log), CALC_RW_SIZE(rp, w) <= m,
         \A i \in 1..CALC_RW_SIZE(rp, w) : c[Back(w, i)] = ByteAt(m - i + 1)
  PROVE  TextFrom(c, rp, w) = SubSeq(log, m - CALC_RW_SIZE(rp, w) + 1, m)
<1> DEFINE used == CALC_RW_SIZE(rp, w)
           text == TextFrom(c, rp, w)
           first == m - used + 1
<1>1. used \in 0..(Size - 1) /\ used \in Nat /\ Len(log) \in Nat /\ m \in Nat
  BY UsedRange, Sizes, LogType
<1>2. /\ text \in Seq(Chars) /\ Len(text) \in 0..used
      /\ \A k \in 1..Len(text) : text[k] = c[Back(w, used - k + 1)]
      /\ (\A i \in 1..used : c[Back(w, i)] # NUL) => Len(text) = used
  BY TextIs
<1> HIDE DEF used, text
<1>3. ASSUME NEW i \in 1..used PROVE c[Back(w, i)] = log[m - i + 1] /\ c[Back(w, i)] # NUL
  <2>1. m - i + 1 \in 1..Len(log) /\ c[Back(w, i)] = ByteAt(m - i + 1)
    BY <1>1 DEF used
  <2> QED BY <2>1, LogType DEF ByteAt
<1>4. Len(text) = used
  BY <1>2, <1>3
<1>5. /\ first \in Nat \ {0} /\ first + used - 1 = m /\ first + used - 1 <= Len(log)
  BY <1>1 DEF used
<1> HIDE DEF first
<1>6. /\ SubSeq(log, first, m) \in Seq(Chars) /\ Len(SubSeq(log, first, m)) = used
      /\ \A k \in 1..used : SubSeq(log, first, m)[k] = log[first + k - 1]
  BY <1>1, <1>5, LogStretch
<1>7. ASSUME NEW k \in 1..used PROVE text[k] = SubSeq(log, first, m)[k]
  <2>1. used - k + 1 \in 1..used /\ m - (used - k + 1) + 1 = first + k - 1
    BY <1>1 DEF first
  <2> QED BY <1>2, <1>3, <1>4, <1>6, <2>1
<1>8. text = SubSeq(log, first, m)
  BY <1>2, <1>4, <1>6, <1>7, SeqEqual
<1> QED BY <1>8 DEF text, first, used

(* A copy without a wrong byte shows a stretch of the log.                 *)
LEMMA TextStretch ==
  ASSUME TypeOK, NEW c \in [Offset -> Chars], NEW rp \in 0..Size, NEW w \in Offset,
         NEW m \in 0..Len(log), left = Zero \/ m >= Size - 1,
         \A i \in 1..CALC_RW_SIZE(rp, w) : c[Back(w, i)] \in {ByteAt(m - i + 1), NUL}
  PROVE  LET text == TextFrom(c, rp, w)
         IN  \E i \in 1..(m + 1 - Len(text)) : text = SubSeq(log, i, i + Len(text) - 1)
<1> DEFINE used == CALC_RW_SIZE(rp, w)
           text == TextFrom(c, rp, w)
           l == Len(text)
<1>1. used \in 0..(Size - 1) /\ used \in Nat /\ Len(log) \in Nat /\ m \in Nat
  BY UsedRange, Sizes, LogType
<1>2. /\ text \in Seq(Chars) /\ l \in 0..used
      /\ \A k \in 1..l : text[k] = c[Back(w, used - k + 1)] /\ text[k] # NUL
  BY TextIs
<1> HIDE DEF used, text
<1>3. ASSUME NEW k \in 1..l
      PROVE  text[k] = log[(m - used + 1) + k - 1] /\ (m - used + 1) + k - 1 >= 1
  <2>1. used - k + 1 \in 1..used /\ m - (used - k + 1) + 1 = (m - used + 1) + k - 1
    BY <1>1, <1>2
  <2>2. text[k] = ByteAt((m - used + 1) + k - 1) /\ text[k] # NUL
    <3>1. c[Back(w, used - k + 1)] \in {ByteAt(m - (used - k + 1) + 1), NUL}
      BY <2>1 DEF used
    <3> QED BY <1>2, <2>1, <3>1
  <2>3. (m - used + 1) + k - 1 >= 1
    <3>1. CASE m >= Size - 1
      <4>1. Size \in Nat /\ k \in Nat /\ k >= 1
        BY <1>1, <1>2, Sizes
      <4> QED BY <1>1, <3>1, <4>1
    <3>2. ASSUME left = Zero, ~((m - used + 1) + k - 1 >= 1)
          PROVE  FALSE
      <4>1. /\ (m - used + 1) + k - 1 \in Int /\ (m - used + 1) + k - 1 <= Len(log)
            /\ 1 - Size <= (m - used + 1) + k - 1 /\ (m - used + 1) + k - 1 < 1
        BY <1>1, <1>2, <3>2, Sizes
      <4>2. ByteAt((m - used + 1) + k - 1) = NUL
        BY <3>2, <4>1, ByteAtType
      <4> QED BY <2>2, <4>2
    <3>3. left = Zero \/ m >= Size - 1
      OBVIOUS
    <3> QED BY <3>1, <3>2, <3>3
  <2> QED BY <2>2, <2>3 DEF ByteAt
<1>4. CASE l = 0
  <2>1. SubSeq(log, 1, 1 + l - 1) = <<>> /\ text = <<>>
    <3>1. 1 + l - 1 = 0
      BY <1>4
    <3>2. SubSeq(log, 1, 0) = <<>>
      BY SubSeqEmpty
    <3>3. text = <<>>
      BY <1>2, <1>4, EmptySeq
    <3> QED BY <3>1, <3>2, <3>3
  <2>2. 1 \in 1..(m + 1 - l)
    BY <1>1, <1>4
  <2>3. \E i \in 1..(m + 1 - l) : text = SubSeq(log, i, i + l - 1)
    BY <2>1, <2>2
  <2> QED BY <2>3 DEF text
<1>5. CASE l # 0
  <2> DEFINE first == m - used + 1
  <2>1. first >= 1
    <3>1. 1 \in 1..l
      BY <1>1, <1>2, <1>5
    <3> QED BY <1>1, <1>3, <3>1
  <2>2. /\ first \in Nat \ {0} /\ l \in Nat /\ first + l - 1 <= Len(log) /\ first \in 1..(m + 1 - l)
    BY <1>1, <1>2, <2>1
  <2> HIDE DEF first
  <2>3. /\ SubSeq(log, first, first + l - 1) \in Seq(Chars)
        /\ Len(SubSeq(log, first, first + l - 1)) = l
        /\ \A k \in 1..l : SubSeq(log, first, first + l - 1)[k] = log[first + k - 1]
    BY <2>2, LogStretch
  <2>4. \A k \in 1..l : text[k] = SubSeq(log, first, first + l - 1)[k]
    BY <1>3, <2>3 DEF first
  <2>5. text = SubSeq(log, first, first + l - 1)
    BY <1>2, <2>3, <2>4, SeqEqual
  <2>6. \E i \in 1..(m + 1 - l) : text = SubSeq(log, i, i + l - 1)
    BY <2>2, <2>5
  <2> QED BY <2>6 DEF text
<1> QED BY <1>4, <1>5

(* adfLog_reCalcHeader without a mark.                                     *)
LEMMA OldestRange ==
  ASSUME NEW c \in [Offset -> Chars], NEW w \in Offset
  PROVE  Oldest(c, w) \in 0..Size
BY Sizes DEF Oldest, Offset

LEMMA NextPlace ==
  ASSUME NEW w \in Offset
  PROVE  (w + 1) % Size = Back(w, Size - 1)
<1>1. w + 1 \in Nat /\ w + 1 < 2 * Size /\ w \in 0..(Size - 1) /\ Size \in Nat \ {0} /\ Size >= 4
  BY Sizes DEF Offset
<1>2. (w + 1 < Size => (w + 1) % Size = w + 1) /\ (Size <= w + 1 => (w + 1) % Size = (w + 1) - Size)
  BY <1>1, ModSmall
<1>3. w + 1 < Size \/ Size <= w + 1
  BY <1>1
<1> QED BY <1>1, <1>2, <1>3 DEF Back

LEMMA OldestText ==
  ASSUME TypeOK, NEW c \in [Offset -> Chars], NEW m \in 0..Len(log), left = Zero \/ m >= Size - 1,
         \A i \in 1..(Size - 1) : c[Back(m % Size, i)] = ByteAt(m - i + 1)
  PROVE  TextFrom(c, Oldest(c, m % Size), m % Size) =
           SubSeq(log, m - Least(m, Size - 1) + 1, m)
<1> DEFINE w == m % Size
           rp == Oldest(c, w)
           k == Least(m, Size - 1)
<1>1. w \in Offset /\ m \in Nat /\ Len(log) \in Nat
  BY LogType, ModRound
<1>2. rp \in 0..Size
  BY <1>1, OldestRange
<1>3. c[(w + 1) % Size] = ByteAt(m - (Size - 1) + 1)
  <2>1. Size - 1 \in 1..(Size - 1)
    BY Sizes
  <2> QED BY <1>1, <2>1, NextPlace
<1>4. ByteAt(m - (Size - 1) + 1) = NUL <=> m - (Size - 1) + 1 < 1
  <2>1. /\ m - (Size - 1) + 1 \in Int /\ m - (Size - 1) + 1 <= Len(log)
        /\ 1 - Size <= m - (Size - 1) + 1 /\ (m - (Size - 1) + 1 < 1 => left = Zero)
    BY <1>1, Sizes
  <2> QED BY <2>1, ByteAtType
<1>5. CALC_RW_SIZE(rp, w) = k /\ k <= m /\ k \in 0..(Size - 1)
  <2>1. CASE m < Size - 1
    <3>1. w = m
      <4>1. m < Size
        BY <1>1, <2>1, Sizes
      <4>2. m % Size = m
        BY <1>1, <4>1, Sizes, ModSmall, Zenon
      <4> QED BY <4>2
    <3>2. rp = 0
      BY <1>1, <1>3, <1>4, <2>1, Sizes DEF Oldest
    <3> HIDE DEF w, rp
    <3> QED BY <1>1, <2>1, <3>1, <3>2, Sizes DEF CALC_RW_SIZE, Least
  <2>2. CASE ~(m < Size - 1)
    <3>1. rp = w + 1
      BY <1>1, <1>3, <1>4, <2>2, Sizes DEF Oldest
    <3> HIDE DEF w, rp
    <3> QED BY <1>1, <2>2, <3>1, Sizes DEF CALC_RW_SIZE, Least, Offset
  <2> QED BY <2>1, <2>2
<1> HIDE DEF w, rp
<1>6. \A i \in 1..CALC_RW_SIZE(rp, w) : c[Back(w, i)] = ByteAt(m - i + 1)
  <2>1. \A i \in 1..k : i \in 1..(Size - 1)
    BY <1>5, Sizes
  <2> HIDE DEF k
  <2> QED BY <1>5, <2>1 DEF w
<1>7. TextFrom(c, rp, w) = SubSeq(log, m - CALC_RW_SIZE(rp, w) + 1, m)
  BY <1>1, <1>2, <1>5, <1>6, TextWhole
<1> QED BY <1>5, <1>7 DEF w, rp

-----------------------------------------------------------------------------
(* The mark and the magic.                                                 *)

LEMMA MagicPlace ==
  ASSUME NEW c \in [Offset -> Chars], NEW r \in Offset
  PROVE  MagicAt(c, r) = <<c[Back(r, 2)], c[Back(r, 1)]>> /\ MagicAt(c, r) \in Chars \X Chars
<1>1. r \in 0..(Size - 1) /\ Size \in Nat \ {0} /\ Size >= 4
  BY Sizes DEF Offset
<1>2. ASSUME NEW j \in {1, 2} PROVE (r + Size - j) % Size = Back(r, j) /\ Back(r, j) \in Offset
  <2> DEFINE a == r + Size - j
  <2>1. a \in Nat /\ a < 2 * Size /\ (a < Size => Back(r, j) = a) /\ (Size <= a => Back(r, j) = a - Size)
    BY <1>1 DEF Back
  <2>2. Back(r, j) \in Offset
    BY <1>1 DEF Back, Offset
  <2> HIDE DEF a
  <2>3. (a < Size => a % Size = a) /\ (Size <= a => a % Size = a - Size)
    BY <1>1, <2>1, ModSmall
  <2>4. a % Size = Back(r, j)
    BY <1>1, <2>1, <2>3
  <2> QED BY <2>2, <2>4 DEF a
<1> QED BY <1>2 DEF MagicAt

LEMMA MarkPlace ==
  ASSUME Facts, MarksFit, mark # NoMark, n - cleared < Size
  PROVE  /\ mark - Base \in Offset /\ CALC_RW_SIZE(mark - Base, wp) = n - cleared /\ InRange
         /\ \A j \in 1..Size :
              n - cleared + j <= Size => Back(mark - Base, j) = Back(wp, n - cleared + j)
<1> DEFINE d == n - cleared
           at == mark - Base
<1>1. /\ n \in Nat /\ cleared \in 0..n /\ wp = n % Size /\ wp \in 0..(Size - 1)
      /\ Size \in Nat \ {0} /\ d \in 0..(Size - 1)
  BY CountFacts, Sizes DEF Offset
<1>0. n - d = cleared /\ mark = Base + (cleared % Size) /\ cleared % Size \in Offset
  <2>1. cleared \in Nat /\ n - d = cleared
    BY <1>1
  <2>2. mark = Base + (cleared % Size)
    BY DEF Facts, Marked
  <2> QED BY <2>1, <2>2, ModRound
<1>2. at = IF d = 0 THEN wp ELSE Back(wp, d)
  <2>1. (n - d) % Size = IF d = 0 THEN n % Size ELSE Back(n % Size, d)
    <3>1. d \in 0..Size /\ d <= n
      BY <1>1
    <3> HIDE DEF d
    <3> QED BY <1>1, <3>1, ModBack
  <2>2. at = cleared % Size
    BY <1>0, Sizes DEF Offset
  <2> QED BY <1>0, <1>1, <2>1, <2>2
<1> HIDE DEF at
<1>3. at \in Offset /\ CALC_RW_SIZE(at, wp) = d
  BY <1>1, <1>2 DEF Back, CALC_RW_SIZE, Offset
<1>4. ASSUME NEW j \in 1..Size, d + j <= Size PROVE Back(at, j) = Back(wp, d + j)
  BY <1>1, <1>2, <1>4 DEF Back
<1>5. InRange
  BY <1>0, Sizes DEF InRange, Offset
<1> QED BY <1>3, <1>4, <1>5 DEF at

(* While the bytes logged since a clear leave the magic alone, it is found *)
(* before the mark.                                                        *)
LEMMA MagicFound ==
  ASSUME Facts, op # "idle", MarksFit, mark # NoMark, ~spoilt, Len(log) - cleared <= Size - 2
  PROVE  Found(Copy(Ring))
<1> DEFINE c == Copy(Ring)
           d == n - cleared
           at == mark - Base
<1>1. /\ n \in 0..Len(log) /\ cleared \in 0..n /\ Len(log) \in Nat /\ d \in 0..(Size - 2)
      /\ Size \in Nat \ {0} /\ n \in Nat
  BY CountFacts, Sizes
<1>2. /\ at \in Offset /\ InRange
      /\ \A j \in 1..Size : d + j <= Size => Back(at, j) = Back(wp, d + j)
  BY <1>1, MarkPlace
<1>3. /\ c \in [Offset -> Chars]
      /\ \A i \in 1..Size : i + (Len(log) - n) <= Size => c[Back(wp, i)] = ByteAt(n - i + 1)
  BY CopyExact
<1> HIDE DEF c, at
<1>4. ASSUME NEW j \in {1, 2} PROVE c[Back(at, j)] = ByteAt(cleared - j + 1)
  <2>1. /\ j \in 1..Size /\ d + j \in 1..Size /\ d + j <= Size
        /\ (d + j) + (Len(log) - n) <= Size /\ n - (d + j) + 1 = cleared - j + 1
    BY <1>1, Sizes
  <2>2. Back(at, j) = Back(wp, d + j)
    BY <1>2, <2>1
  <2>3. c[Back(wp, d + j)] = ByteAt(n - (d + j) + 1)
    BY <1>3, <2>1
  <2> QED BY <2>1, <2>2, <2>3
<1>5. MagicAt(c, at) = <<c[Back(at, 2)], c[Back(at, 1)]>>
  BY <1>2, <1>3, MagicPlace
<1>6. cleared - 2 + 1 = cleared - 1 /\ cleared - 1 + 1 = cleared
  BY <1>1
<1>7. magic = <<ByteAt(cleared - 1), ByteAt(cleared)>>
  BY DEF Facts, MagicKept
<1> QED BY <1>2, <1>4, <1>5, <1>6, <1>7 DEF c, at, Found

(* What a clear takes as the magic.                                        *)
LEMMA MagicTaken ==
  ASSUME Facts, op # "idle", Len(log) - n <= Size - 2
  PROVE  MagicAt(Copy(Ring), wp) = <<ByteAt(n - 1), ByteAt(n)>>
<1> DEFINE c == Copy(Ring)
<1>1. n \in 0..Len(log) /\ Len(log) \in Nat /\ wp \in Offset /\ Size \in Nat \ {0} /\ n \in Nat
  BY CountFacts, Sizes
<1>2. /\ c \in [Offset -> Chars]
      /\ \A i \in 1..Size : i + (Len(log) - n) <= Size => c[Back(wp, i)] = ByteAt(n - i + 1)
  BY CopyExact
<1> HIDE DEF c
<1>3. /\ 1 \in 1..Size /\ 2 \in 1..Size /\ 1 + (Len(log) - n) <= Size /\ 2 + (Len(log) - n) <= Size
      /\ n - 1 + 1 = n /\ n - 2 + 1 = n - 1
  BY <1>1, Sizes
<1>4. c[Back(wp, 1)] = ByteAt(n - 1 + 1) /\ c[Back(wp, 2)] = ByteAt(n - 2 + 1)
  BY <1>2, <1>3
<1>5. MagicAt(c, wp) = <<c[Back(wp, 2)], c[Back(wp, 1)]>>
  BY <1>1, <1>2, MagicPlace
<1> QED BY <1>3, <1>4, <1>5 DEF c

-----------------------------------------------------------------------------
(* Every step keeps the invariant.                                         *)

LEMMA LogGrows ==
  ASSUME TypeOK, NEW b \in Bytes, DspLogs(b)
  PROVE  /\ log' \in Seq(Bytes) /\ Len(log') = Len(log) + 1 /\ Len(log') <= MaxBytes
         /\ \A k \in 1..Len(log) : log'[k] = log[k]
         /\ \A j \in Int : j <= Len(log) => ByteAt(j)' = ByteAt(j)
<1>1. log' = Append(log, b) /\ Len(log) < MaxBytes /\ left' = left
  BY DEF DspLogs
<1>2. /\ log' \in Seq(Bytes) /\ Len(log') = Len(log) + 1
      /\ \A k \in 1..Len(log) : log'[k] = log[k]
  BY <1>1, LogType, AppendProperties
<1>3. Len(log') <= MaxBytes
  BY <1>1, <1>2, LogType, AdfLogAssumption
<1>4. ASSUME NEW j \in Int, j <= Len(log) PROVE ByteAt(j)' = ByteAt(j)
  BY <1>1, <1>2, <1>4, LogType DEF ByteAt
<1> QED BY <1>2, <1>3, <1>4

LEMMA LogsFacts ==
  ASSUME Facts, NEW b \in Bytes, DspLogs(b)
  PROVE  Facts'
<1>1. /\ log' \in Seq(Bytes) /\ Len(log') = Len(log) + 1 /\ Len(log') <= MaxBytes
      /\ \A j \in Int : j <= Len(log) => ByteAt(j)' = ByteAt(j)
  BY LogGrows DEF Facts
<1>2. UNCHANGED <<left, op, wp, low, mark, magic, n, cleared, spoilt, shown>>
  BY DEF DspLogs
<1>3. n \in 0..Len(log) /\ n \in Nat /\ Len(log) \in Nat /\ cleared \in 0..n
  BY CountFacts
<1>4. TypeOK'
  BY <1>1, <1>2, <1>3 DEF Facts, TypeOK
<1>5. (Counts /\ Marked /\ ShownType)'
  BY <1>2 DEF Facts, Counts, Marked, ShownType
<1>6. FirstChunk'
  <2> SUFFICES ASSUME op # "idle" PROVE
                 /\ low \in [0..(Split - 1) -> Bytes \cup {NUL}]
                 /\ \A i \in 1..Size : Back(wp, i) < Split => low[Back(wp, i)] = ByteAt(n - i + 1)'
    BY <1>2 DEF FirstChunk, Back
  <2>1. ASSUME NEW i \in 1..Size PROVE ByteAt(n - i + 1)' = ByteAt(n - i + 1)
    <3>1. n - i + 1 \in Int /\ n - i + 1 <= Len(log)
      BY <1>3, Sizes
    <3>2. ByteAt(n - i + 1)' = IF n - i + 1 >= 1 THEN log'[n - i + 1] ELSE left[(n - i + 1) - 1 + Size]
      BY <1>2 DEF ByteAt
    <3> QED BY <1>1, <1>2, <3>1, <3>2 DEF ByteAt
  <2> QED BY <2>1 DEF Facts, FirstChunk
<1>7. MagicKept'
  <2> SUFFICES ASSUME mark # NoMark, ~spoilt, Len(log) - cleared <= Size - 2
               PROVE  magic = <<ByteAt(cleared - 1)', ByteAt(cleared)'>>
    BY <1>1, <1>2, <1>3, Sizes DEF MagicKept
  <2>1. magic = <<ByteAt(cleared - 1), ByteAt(cleared)>>
    BY DEF Facts, MagicKept
  <2>2. cleared - 1 \in Int /\ cleared \in Int /\ cleared - 1 <= Len(log) /\ cleared <= Len(log)
    BY <1>3
  <2>3. ByteAt(cleared - 1)' = ByteAt(cleared - 1) /\ ByteAt(cleared)' = ByteAt(cleared)
    BY <1>1, <1>2, <2>2 DEF ByteAt
  <2> QED BY <2>1, <2>3
<1> QED BY <1>4, <1>5, <1>6, <1>7 DEF Facts

LEMMA NothingType ==
  /\ Nothing.text \in Seq(Bytes \cup {NUL}) /\ Nothing.meanwhile \in Nat
  /\ Nothing.op = "none"
BY EmptySeq DEF Nothing

LEMMA ReloadFacts == ASSUME Facts, Reload PROVE Facts'
<1>1. /\ left' \in Leftovers /\ op' = "idle" /\ op = "idle" /\ low' = low /\ log' = <<>>
      /\ wp' = 0 /\ mark' = NoMark
      /\ magic' = <<NUL, NUL>> /\ n' = 0 /\ cleared' = 0 /\ spoilt' = FALSE /\ shown' = Nothing
  BY DEF Reload
<1>2. log' \in Seq(Bytes) /\ Len(log') = 0
  BY <1>1, EmptySeq
<1>3. 0 % Size = 0 /\ 0 \in Offset /\ 0 <= MaxBytes
  BY Sizes, ModSmall, AdfLogAssumption DEF Offset
<1>4. TypeOK'
  <2>1. DOMAIN low' = {}
    BY <1>1 DEF Facts, TypeOK
  <2>2. spoilt' \in BOOLEAN
    BY <1>1
  <2>3. magic' \in (Bytes \cup {NUL}) \X (Bytes \cup {NUL})
    BY <1>1
  <2>4. cleared' <= n' /\ n' <= Len(log') /\ Len(log') <= MaxBytes
    BY <1>1, <1>2, <1>3
  <2> QED BY <1>1, <1>2, <1>3, <2>1, <2>2, <2>3, <2>4 DEF TypeOK
<1>5. (Counts /\ Marked /\ FirstChunk /\ MagicKept /\ ShownType)'
  BY <1>1, <1>3, NothingType DEF Counts, Marked, FirstChunk, MagicKept, ShownType
<1> QED BY <1>4, <1>5 DEF Facts

LEMMA ReadFirstFacts == ASSUME Facts, NEW o \in Ops, ReadFirst(o) PROVE Facts'
<1> DEFINE w == Len(log) % Size
<1>1. /\ op' = o /\ wp' = w /\ n' = Len(log) /\ low' = [x \in 0..(Split - 1) |-> Ring[x]]
      /\ shown' = Nothing /\ UNCHANGED <<left, log, mark, magic, cleared, spoilt>>
  BY DEF ReadFirst
<1>2. /\ TypeOK /\ Len(log) \in Nat /\ w \in Offset /\ cleared \in 0..n /\ n \in 0..Len(log)
      /\ Ring \in [Offset -> Chars] /\ o # "idle"
  BY CountFacts, ModRound, RingType DEF Facts, Chars, Ops
<1>3. TypeOK'
  <2>1. DOMAIN low' = 0..(Split - 1)
    BY <1>1
  <2>2. cleared' <= n' /\ n' <= Len(log')
    BY <1>1, <1>2
  <2> QED BY <1>1, <1>2, <2>1, <2>2 DEF TypeOK
<1>4. FirstChunk'
  <2>1. low' \in [0..(Split - 1) -> Chars]
    <3>1. \A x \in 0..(Split - 1) : x \in Offset
      BY Sizes DEF Offset
    <3> QED BY <1>1, <1>2, <3>1
  <2>2. ASSUME NEW i \in 1..Size, Back(w, i) < Split
        PROVE  low'[Back(w, i)] = ByteAt(Len(log) - i + 1)
    <3>1. Back(w, i) \in Offset
      <4>1. i \in 0..Size /\ i # 0
        BY Sizes
      <4> QED BY <1>2, <4>1, BackRange
    <3>2. Back(w, i) \in 0..(Split - 1)
      BY <2>2, <3>1, Sizes DEF Offset
    <3>3. Len(log) \in 0..Len(log) /\ i + (Len(log) - Len(log)) <= Size
      BY <1>2, Sizes
    <3>4. Ring[Back(w, i)] = ByteAt(Len(log) - i + 1)
      BY <1>2, <3>3, RingBack
    <3> QED BY <1>1, <3>2, <3>4
  <2> HIDE DEF w
  <2> QED BY <1>1, <2>1, <2>2 DEF FirstChunk, Chars, Back, ByteAt
<1>5. (Counts /\ Marked /\ MagicKept /\ ShownType)'
  BY <1>1, <1>2, NothingType DEF Facts, Counts, Marked, MagicKept, ShownType, ByteAt
<1> QED BY <1>3, <1>4, <1>5 DEF Facts

(* The end of an operation that leaves the mark alone.                     *)
LEMMA ShowFacts ==
  ASSUME Facts, EndOp, UNCHANGED <<mark, magic, cleared, spoilt>>,
         shown'.text \in Seq(Chars), shown'.meanwhile \in Nat
  PROVE  Facts'
<1>1. op' = "idle" /\ low' = <<>> /\ UNCHANGED <<left, log, wp, n>>
  BY DEF EndOp
<1>2. DOMAIN low' = {}
  BY <1>1
<1>3. TypeOK'
  BY <1>1, <1>2 DEF Facts, TypeOK
<1>4. (Counts /\ Marked /\ FirstChunk /\ MagicKept /\ ShownType)'
  BY <1>1 DEF Facts, Counts, Marked, FirstChunk, MagicKept, ShownType, ByteAt, Chars
<1> QED BY <1>3, <1>4 DEF Facts

LEMMA ClearFacts == ASSUME Facts, NEW f \in BOOLEAN, Clear(f) PROVE Facts'
<1>1. /\ op = "clear" /\ op' = "idle" /\ low' = <<>> /\ UNCHANGED <<left, log, wp, n, shown>>
      /\ mark' = LowHalf(Base + wp) /\ cleared' = n /\ spoilt' = f
  BY DEF Clear, EndOp
<1>2. PICK rest \in (IF f THEN Stale ELSE {Ring}) : magic' = MagicAt(Copy(rest), wp)
  BY DEF Clear
<1>3. (\A x \in Split..(Size - 1) : rest[x] \in Chars) /\ (~f => rest = Ring)
  <2>1. \A x \in Split..(Size - 1) : x \in Offset
    BY Sizes DEF Offset
  <2> QED BY <1>2, <2>1, RingType DEF Stale, Chars, Facts
<1>4. op # "idle" /\ n \in Nat /\ n \in 0..Len(log) /\ Len(log) \in Nat /\ wp \in Offset /\ wp = n % Size
  BY <1>1, CountFacts
<1>5. magic' \in Chars \X Chars
  <2>1. Copy(rest) \in [Offset -> Chars]
    BY <1>3, <1>4, CopyPlace
  <2> QED BY <1>2, <1>4, <2>1, MagicPlace
<1>6. TypeOK'
  <2>1. DOMAIN low' = {}
    BY <1>1
  <2>2. spoilt' \in BOOLEAN
    BY <1>1
  <2>3. cleared' <= n'
    BY <1>1, <1>4
  <2> QED BY <1>1, <1>4, <1>5, <2>1, <2>2, <2>3 DEF Facts, TypeOK, Chars
<1>7. MagicKept'
  <2> SUFFICES ASSUME ~f, Len(log) - n <= Size - 2 PROVE magic' = <<ByteAt(n - 1), ByteAt(n)>>
    BY <1>1 DEF MagicKept, ByteAt
  <2> QED BY <1>2, <1>3, <1>4, MagicTaken
<1>8. MarksFit => mark' = Base + wp /\ mark' # NoMark
  BY <1>1, <1>4, MarksWhole
<1>9. (Counts /\ Marked /\ FirstChunk /\ ShownType)'
  BY <1>1, <1>4, <1>8 DEF Facts, Counts, Marked, MarksFit, FirstChunk, ShownType
<1> QED BY <1>6, <1>7, <1>9 DEF Facts

-----------------------------------------------------------------------------
(* What is shown.                                                          *)

Shows == ShowsNewest /\ TornDumpExact /\ TornQueryTail /\ FailedShowsStretch

LEMMA NoneShows == ASSUME shown'.op = "none" PROVE Shows'
BY DEF Shows, ShowsNewest, TornDumpExact, TornQueryTail, FailedShowsStretch

(* What the DSP logs later changes no stretch of the log.                  *)
LEMMA StretchKept ==
  ASSUME TypeOK, NEW b \in Bytes, DspLogs(b),
         NEW i \in Nat \ {0}, NEW l \in Nat, i + l - 1 <= Len(log)
  PROVE  SubSeq(log', i, i + l - 1) = SubSeq(log, i, i + l - 1)
<1> DEFINE j == i + l - 1
           t == SubSeq(log', i, j)
<1>1. /\ \A k \in 1..Len(log) : log'[k] = log[k] /\ log[k] \in Bytes
      /\ Len(log) \in Nat
  BY LogGrows, LogType
<1>2. j \in Int /\ i \in Int /\ j - i + 1 = l /\ (i <= j <=> l >= 1)
  OBVIOUS
<1>3. \A k \in i..j : log'[k] \in Chars
  BY <1>1 DEF Chars
<1>4. /\ SubSeq(log, i, j) \in Seq(Chars) /\ Len(SubSeq(log, i, j)) = l
      /\ \A k \in 1..l : SubSeq(log, i, j)[k] = log[i + k - 1]
  BY LogStretch
<1>5. \A k \in 1..l : i + k - 1 \in 1..Len(log)
  BY <1>1
<1> HIDE DEF j
<1>6. /\ t \in Seq(Chars) /\ Len(t) = (IF i <= j THEN j - i + 1 ELSE 0)
      /\ \A k \in 1..(j - i + 1) : t[k] = log'[i + k - 1]
  BY <1>2, <1>3, SubSeqProperties
<1>7. Len(t) = l /\ \A k \in 1..l : t[k] = SubSeq(log, i, j)[k]
  BY <1>1, <1>2, <1>4, <1>5, <1>6
<1>8. t = SubSeq(log, i, j)
  BY <1>4, <1>6, <1>7, SeqEqual
<1> QED BY <1>8 DEF j

LEMMA LogsShows ==
  ASSUME Facts, Shows, NEW b \in Bytes, DspLogs(b)
  PROVE  Shows'
<1>1. UNCHANGED <<left, mark, n, cleared, spoilt, shown>>
  BY DEF DspLogs
<1>2. /\ n \in 0..Len(log) /\ n \in Nat /\ Len(log) \in Nat /\ cleared \in 0..n /\ TypeOK
      /\ Size \in Nat /\ Size >= 4
  BY CountFacts, Sizes DEF Facts
<1>3. ASSUME NEW k \in 0..n PROVE Newest(k)' = Newest(k)
  <2>1. n - k + 1 \in Nat \ {0} /\ k \in Nat /\ (n - k + 1) + k - 1 = n /\ n <= Len(log)
    BY <1>2
  <2>2. SubSeq(log', n - k + 1, n) = SubSeq(log, n - k + 1, n)
    BY <1>2, <2>1, StretchKept
  <2> QED BY <1>1, <2>2 DEF Newest
<1>4. ShowsNewest'
  <2>1. Least(n - cleared, Size - 1) \in 0..n /\ Least(n, Size - 1) \in 0..n
    BY <1>2 DEF Least
  <2>2. /\ Newest(Least(n - cleared, Size - 1))' = Newest(Least(n - cleared, Size - 1))
        /\ Newest(Least(n, Size - 1))' = Newest(Least(n, Size - 1))
    <3>1. /\ SubSeq(log', n - Least(n - cleared, Size - 1) + 1, n) = Newest(Least(n - cleared, Size - 1))
          /\ SubSeq(log', n - Least(n, Size - 1) + 1, n) = Newest(Least(n, Size - 1))
      BY <1>1, <1>3, <2>1 DEF Newest
    <3> QED BY <1>1, <3>1 DEF Newest, Least
  <2> QED BY <1>1, <2>2 DEF Shows, ShowsNewest, Cleanly, OwnLog, MarksFit
<1>5. TornDumpExact'
  <2>1. n - cleared \in 0..n
    BY <1>2
  <2>2. Newest(n - cleared)' = Newest(n - cleared)
    <3>1. SubSeq(log', n - (n - cleared) + 1, n) = Newest(n - cleared)
      BY <1>1, <1>3, <2>1 DEF Newest
    <3> QED BY <1>1, <3>1 DEF Newest
  <2> QED BY <1>1, <2>2 DEF Shows, TornDumpExact, MarksFit
<1>6. TornQueryTail'
  <2> DEFINE k == Least(shown.meanwhile, Size - 1)
  <2> SUFFICES ASSUME shown.op = "query", ~shown.failed, n >= Size - 1
               PROVE  /\ Len(shown.text) = Size - 1
                      /\ SubSeq(shown.text, k + 1, Size - 1) = Newest(Size - 1 - k)'
    BY <1>1 DEF TornQueryTail, Newest, Least
  <2>1. Size - 1 - k \in 0..n
    BY <1>2 DEF Facts, ShownType, Least
  <2>2. Newest(Size - 1 - k)' = Newest(Size - 1 - k)
    <3>1. SubSeq(log', n - (Size - 1 - k) + 1, n) = Newest(Size - 1 - k)
      BY <1>1, <1>3, <2>1 DEF Newest
    <3> QED BY <1>1, <3>1 DEF Newest, Least
  <2> QED BY <2>2 DEF Shows, TornQueryTail
<1>7. FailedShowsStretch'
  <2> DEFINE l == Len(shown.text)
  <2>1. l \in Nat
    BY LenProperties DEF Facts, ShownType
  <2> SUFFICES ASSUME shown.op # "none", shown.meanwhile = 0, OwnLog
               PROVE  \E i \in 1..(n + 1 - l) : shown.text = SubSeq(log', i, i + l - 1)
    BY <1>1 DEF FailedShowsStretch, OwnLog
  <2>2. PICK i \in 1..(n + 1 - l) : shown.text = SubSeq(log, i, i + l - 1)
    BY DEF Shows, FailedShowsStretch
  <2> HIDE DEF l
  <2>3. i \in Nat \ {0} /\ i + l - 1 <= Len(log)
    BY <1>2, <2>1
  <2>4. SubSeq(log', i, i + l - 1) = SubSeq(log, i, i + l - 1)
    BY <1>2, <2>1, <2>3, StretchKept
  <2> QED BY <2>2, <2>4
<1> QED BY <1>4, <1>5, <1>6, <1>7 DEF Shows

(* A copy made while nothing was logged, with or without a failure, shows  *)
(* a stretch of the log from wherever it is read.                          *)
LEMMA QuietStretch ==
  ASSUME Facts, op # "idle", NEW f \in BOOLEAN, NEW rest \in IF f THEN Cleared ELSE {Ring},
         NEW rp \in 0..Size, Len(log) = n, OwnLog
  PROVE  LET text == TextFrom(Copy(rest), rp, wp)
         IN  \E i \in 1..(n + 1 - Len(text)) : text = SubSeq(log, i, i + Len(text) - 1)
<1> DEFINE c == Copy(rest)
<1>1. /\ TypeOK /\ wp \in Offset /\ n \in 0..Len(log) /\ Len(log) \in Nat /\ Size \in Nat
  BY CountFacts, Sizes DEF Facts
<1>2. c \in [Offset -> Chars] /\ \A i \in 1..Size : c[Back(wp, i)] \in {ByteAt(n - i + 1), NUL}
  <2>1. CASE f
    BY <2>1, CopyFailed
  <2>2. CASE ~f
    <3>1. rest = Ring /\ \A i \in 1..Size : i + (Len(log) - n) <= Size
      BY <1>1, <2>2
    <3> QED BY <3>1, CopyExact
  <2> QED BY <2>1, <2>2
<1> HIDE DEF c
<1>3. \A i \in 1..CALC_RW_SIZE(rp, wp) : c[Back(wp, i)] \in {ByteAt(n - i + 1), NUL}
  <2>1. \A i \in 1..CALC_RW_SIZE(rp, wp) : i \in 1..Size
    BY <1>1, UsedRange
  <2> QED BY <1>2, <2>1
<1>4. LET text == TextFrom(c, rp, wp)
      IN  \E i \in 1..(n + 1 - Len(text)) : text = SubSeq(log, i, i + Len(text) - 1)
  BY <1>1, <1>2, <1>3, TextStretch DEF OwnLog
<1> QED BY <1>4 DEF c

LEMMA RestType ==
  ASSUME Facts, op # "idle", NEW f \in BOOLEAN, NEW rest \in IF f THEN Cleared ELSE {Ring}
  PROVE  Copy(rest) \in [Offset -> Chars] /\ (~f => rest = Ring)
BY CopyFailed, CopyExact

(* A dump that finds the mark shows what was logged since the clear.       *)
LEMMA MarkedText ==
  ASSUME Facts, op # "idle", MarksFit, mark # NoMark, n - cleared < Size,
         (n - cleared) + (Len(log) - n) <= Size
  PROVE  TextFrom(Copy(Ring), mark - Base, wp) = Newest(n - cleared)
<1> DEFINE c == Copy(Ring)
           at == mark - Base
<1>1. /\ TypeOK /\ wp \in Offset /\ n \in 0..Len(log) /\ Len(log) \in Nat /\ cleared \in 0..n
      /\ Size \in Nat
  BY CountFacts, Sizes DEF Facts
<1>2. at \in Offset /\ CALC_RW_SIZE(at, wp) = n - cleared
  BY MarkPlace
<1> HIDE DEF at
<1>3. at \in 0..Size /\ CALC_RW_SIZE(at, wp) <= n
  BY <1>1, <1>2 DEF Offset
<1>4. /\ c \in [Offset -> Chars]
      /\ \A i \in 1..Size : i + (Len(log) - n) <= Size => c[Back(wp, i)] = ByteAt(n - i + 1)
  BY CopyExact
<1> HIDE DEF c
<1>5. \A i \in 1..CALC_RW_SIZE(at, wp) : c[Back(wp, i)] = ByteAt(n - i + 1)
  <2>1. \A i \in 1..(n - cleared) : i \in 1..Size /\ i + (Len(log) - n) <= Size
    BY <1>1
  <2> QED BY <1>2, <1>4, <2>1
<1>6. TextFrom(c, at, wp) = SubSeq(log, n - CALC_RW_SIZE(at, wp) + 1, n)
  BY <1>1, <1>3, <1>4, <1>5, TextWhole
<1> QED BY <1>2, <1>6 DEF Newest, c, at

(* A copy made while nothing was logged, read without a mark.              *)
LEMMA UnmarkedText ==
  ASSUME Facts, op # "idle", Len(log) = n, OwnLog
  PROVE  TextFrom(Copy(Ring), Oldest(Copy(Ring), wp), wp) = Newest(Least(n, Size - 1))
<1> DEFINE c == Copy(Ring)
<1>1. /\ TypeOK /\ wp = n % Size /\ n \in 0..Len(log) /\ Len(log) \in Nat /\ Size \in Nat
  BY CountFacts, Sizes DEF Facts
<1>2. /\ c \in [Offset -> Chars]
      /\ \A i \in 1..Size : i + (Len(log) - n) <= Size => c[Back(wp, i)] = ByteAt(n - i + 1)
  BY CopyExact
<1> HIDE DEF c
<1>3. \A i \in 1..(Size - 1) : c[Back(n % Size, i)] = ByteAt(n - i + 1)
  <2>1. \A i \in 1..(Size - 1) : i \in 1..Size /\ i + (Len(log) - n) <= Size
    BY <1>1
  <2> QED BY <1>1, <1>2, <2>1
<1>4. TextFrom(c, Oldest(c, n % Size), n % Size) = SubSeq(log, n - Least(n, Size - 1) + 1, n)
  BY <1>1, <1>2, <1>3, OldestText DEF OwnLog
<1> QED BY <1>1, <1>4 DEF Newest, c

LEMMA DumpShows ==
  ASSUME Facts, NEW f \in BOOLEAN, Dump(f)
  PROVE  Facts' /\ Shows'
<1>1. op = "dump" /\ EndOp /\ UNCHANGED <<mark, magic, cleared, spoilt>>
  BY DEF Dump
<1>2. PICK rest \in (IF f THEN Cleared ELSE {Ring}) :
        shown' = [op |-> "dump",
                  text |-> TextFrom(Copy(rest), reCalcHeader(Copy(rest), wp), wp),
                  meanwhile |-> Len(log) - n, failed |-> f,
                  alike |-> n - cleared >= Size /\ Found(Copy(rest))]
  BY DEF Dump
<1> DEFINE c == Copy(rest)
           rp == reCalcHeader(c, wp)
           text == TextFrom(c, rp, wp)
           found == Found(c)
<1>3. /\ op # "idle" /\ wp \in Offset /\ n \in 0..Len(log) /\ Len(log) \in Nat /\ n \in Nat
      /\ cleared \in 0..n /\ Size \in Nat /\ Size >= 4
  BY <1>1, CountFacts, Sizes
<1>4. c \in [Offset -> Chars] /\ (~f => rest = Ring)
  BY <1>3, RestType
<1>5. rp = (IF found THEN mark - Base ELSE Oldest(c, wp)) /\ rp \in 0..Size
  <2>1. rp = (IF found THEN mark - Base ELSE Oldest(c, wp))
    BY DEF reCalcHeader
  <2>2. found => mark - Base \in 0..Size
    <3>1. mark \in Int
      BY Sizes DEF Facts, TypeOK, NoMark, LowHalf, Offset
    <3> QED BY <3>1, Sizes DEF Found, InRange
  <2>3. Oldest(c, wp) \in 0..Size
    BY <1>3, <1>4, OldestRange
  <2> HIDE DEF c, rp
  <2> QED BY <2>1, <2>2, <2>3
<1>6. /\ shown'.op = "dump" /\ shown'.text = text /\ shown'.meanwhile = Len(log) - n
      /\ shown'.failed = f /\ (shown'.alike <=> found /\ n - cleared >= Size)
  BY <1>2
<1>7. /\ UNCHANGED <<left, mark, cleared, spoilt, log, wp, n>>
  BY <1>1 DEF EndOp
<1> HIDE DEF c, rp, text, found
<1>8. Facts'
  <2>1. text \in Seq(Chars)
    BY <1>3, <1>4, <1>5, TextIs DEF text
  <2>2. Len(log) - n \in Nat
    BY <1>3
  <2> QED BY <1>1, <1>6, <2>1, <2>2, ShowFacts
<1>9. FailedShowsStretch'
  <2> SUFFICES ASSUME Len(log) - n = 0, OwnLog
               PROVE  \E i \in 1..(n + 1 - Len(text)) : text = SubSeq(log, i, i + Len(text) - 1)
    BY <1>6, <1>7 DEF FailedShowsStretch, OwnLog
  <2>1. Len(log) = n
    BY <1>3
  <2> QED BY <1>3, <1>5, <2>1, QuietStretch DEF text, c
<1>10. ASSUME ~f, Len(log) - n = 0, MarksFit, ~spoilt, ~(found /\ n - cleared >= Size),
              mark = NoMark => OwnLog
       PROVE  text = Newest(Least(n - cleared, Size - 1))
  <2>1. c = Copy(Ring) /\ Len(log) = n
    BY <1>3, <1>4, <1>10 DEF c
  <2>2. CASE found
    <3>1. /\ mark # NoMark /\ n - cleared < Size /\ (n - cleared) + (Len(log) - n) <= Size
      BY <1>3, <1>10, <2>1, <2>2, Sizes DEF found, Found, InRange, NoMark
    <3>2. TextFrom(Copy(Ring), mark - Base, wp) = Newest(n - cleared)
      BY <1>3, <1>10, <3>1, MarkedText
    <3>3. Least(n - cleared, Size - 1) = n - cleared
      BY <1>3, <3>1 DEF Least
    <3> QED BY <1>5, <2>1, <2>2, <3>2, <3>3 DEF text
  <2>3. CASE ~found
    <3>1. OwnLog => text = Newest(Least(n, Size - 1))
      BY <1>3, <1>5, <2>1, <2>3, UnmarkedText DEF text
    <3>2. CASE mark = NoMark
      <4>1. cleared = 0
        BY <1>10, <3>2 DEF Facts, Marked
      <4> QED BY <1>3, <1>10, <3>1, <3>2, <4>1
    <3>3. CASE mark # NoMark
      <4>1. ~(Len(log) - cleared <= Size - 2)
        BY <1>3, <1>10, <2>1, <2>3, <3>3, MagicFound DEF found, c
      <4>2. Least(n - cleared, Size - 1) = Size - 1 /\ Least(n, Size - 1) = Size - 1
        BY <1>3, <2>1, <4>1 DEF Least
      <4>3. OwnLog
        BY <1>3, <2>1, <4>1 DEF OwnLog
      <4> QED BY <3>1, <4>2, <4>3
    <3> QED BY <3>2, <3>3
  <2> QED BY <2>2, <2>3
<1>11. ShowsNewest'
  <2>1. Newest(Least(n - cleared, Size - 1))' = Newest(Least(n - cleared, Size - 1))
    BY <1>7 DEF Newest, Least
  <2> QED BY <1>6, <1>7, <1>10, <2>1 DEF ShowsNewest, Cleanly, OwnLog, MarksFit
<1>12. TornDumpExact'
  <2> SUFFICES ASSUME ~f, MarksFit, ~spoilt, mark # NoMark, n + (Len(log) - n) - cleared <= Size - 2
               PROVE  text = Newest(n - cleared)
    BY <1>6, <1>7 DEF TornDumpExact, MarksFit, Newest
  <2>1. /\ Len(log) - cleared <= Size - 2 /\ n - cleared < Size
        /\ (n - cleared) + (Len(log) - n) <= Size /\ c = Copy(Ring)
    BY <1>3, <1>4 DEF c
  <2>2. found
    BY <1>3, <2>1, MagicFound DEF found
  <2>3. TextFrom(Copy(Ring), mark - Base, wp) = Newest(n - cleared)
    BY <1>3, <2>1, MarkedText
  <2> QED BY <1>5, <2>1, <2>2, <2>3 DEF text
<1>13. TornQueryTail'
  BY <1>6 DEF TornQueryTail
<1> QED BY <1>8, <1>9, <1>11, <1>12, <1>13 DEF Shows

(* A query of a filled ring, with k bytes logged between its chunks.       *)
LEMMA TornText ==
  ASSUME Facts, op # "idle", n >= Size - 1
  PROVE  LET text == TextFrom(Copy(Ring), Oldest(Copy(Ring), wp), wp)
             k == Least(Len(log) - n, Size - 1)
         IN  Len(text) = Size - 1 /\ SubSeq(text, k + 1, Size - 1) = Newest(Size - 1 - k)
<1> DEFINE c == Copy(Ring)
           rp == Oldest(c, wp)
           text == TextFrom(c, rp, wp)
           k == Least(Len(log) - n, Size - 1)
           l == Size - 1 - k
           first == n - l + 1
           tail == SubSeq(text, k + 1, Size - 1)
<1>1. /\ TypeOK /\ wp \in Offset /\ n \in 0..Len(log) /\ Len(log) \in Nat /\ n \in Nat
      /\ Size \in Nat /\ Size >= 4
  BY CountFacts, Sizes DEF Facts
<1>2. /\ c \in [Offset -> Chars]
      /\ \A i \in 1..Size : i + (Len(log) - n) <= Size => c[Back(wp, i)] = ByteAt(n - i + 1)
      /\ \A i \in 1..(Size - 1) : c[Back(wp, i)] # NUL
  BY CopyExact
<1> HIDE DEF c
<1>3. rp = wp + 1 /\ rp \in 0..Size /\ CALC_RW_SIZE(rp, wp) = Size - 1
  <2>1. c[(wp + 1) % Size] # NUL
    <3>1. (wp + 1) % Size = Back(wp, Size - 1) /\ Size - 1 \in 1..(Size - 1)
      BY <1>1, NextPlace
    <3> QED BY <1>2, <3>1
  <2>2. rp = wp + 1
    BY <2>1 DEF Oldest
  <2> QED BY <1>1, <2>2 DEF CALC_RW_SIZE, Offset
<1> HIDE DEF rp
<1>4. /\ text \in Seq(Chars) /\ Len(text) = Size - 1
      /\ \A j \in 1..(Size - 1) : text[j] = c[Back(wp, (Size - 1) - j + 1)]
  <2> DEFINE used == CALC_RW_SIZE(rp, wp)
  <2>1. /\ text \in Seq(Chars) /\ Len(text) \in 0..used
        /\ \A j \in 1..Len(text) : text[j] = c[Back(wp, used - j + 1)]
        /\ (\A i \in 1..used : c[Back(wp, i)] # NUL) => Len(text) = used
    BY <1>1, <1>2, <1>3, TextIs
  <2>2. used = Size - 1
    BY <1>3
  <2> HIDE DEF used, text
  <2> QED BY <1>2, <2>1, <2>2
<1>5. /\ k \in 0..(Size - 1) /\ l \in 0..(Size - 1) /\ l \in Nat /\ k + l = Size - 1
      /\ (l >= 1 => Len(log) - n <= k)
      /\ first \in Nat \ {0} /\ first + l - 1 = n /\ first + l - 1 <= Len(log)
  <2>1. k \in 0..(Size - 1) /\ (k < Size - 1 => k = Len(log) - n)
    BY <1>1 DEF Least
  <2> HIDE DEF k
  <2> QED BY <1>1, <2>1
<1> HIDE DEF text, k, l
<1>6. /\ tail \in Seq(Chars) /\ Len(tail) = l
      /\ \A j \in 1..l : tail[j] = text[k + j]
  <2>1. \A j \in (k + 1)..(Size - 1) : text[j] \in Chars
    <3>1. \A j \in 1..Len(text) : text[j] \in Chars
      BY <1>4, ElementOfSeq
    <3> QED BY <1>1, <1>4, <1>5, <3>1
  <2>2. k + 1 \in Int /\ Size - 1 \in Int
    BY <1>1, <1>5
  <2>3. /\ tail \in Seq(Chars)
        /\ Len(tail) = (IF k + 1 <= Size - 1 THEN (Size - 1) - (k + 1) + 1 ELSE 0)
        /\ \A j \in 1..((Size - 1) - (k + 1) + 1) : tail[j] = text[(k + 1) + j - 1]
    BY <2>1, <2>2, SubSeqProperties
  <2> HIDE DEF tail
  <2>4. (Size - 1) - (k + 1) + 1 = l /\ (k + 1 <= Size - 1 <=> l >= 1)
    BY <1>1, <1>5
  <2>5. \A j \in 1..l : (k + 1) + j - 1 = k + j
    BY <1>5
  <2> QED BY <1>5, <2>3, <2>4, <2>5
<1> HIDE DEF first, tail
<1>7. /\ SubSeq(log, first, n) \in Seq(Chars) /\ Len(SubSeq(log, first, n)) = l
      /\ \A j \in 1..l : SubSeq(log, first, n)[j] = log[first + j - 1]
  BY <1>1, <1>5, LogStretch
<1>8. ASSUME NEW j \in 1..l PROVE tail[j] = SubSeq(log, first, n)[j]
  <2> DEFINE i == l - j + 1
  <2>1. /\ i \in 1..Size /\ i + (Len(log) - n) <= Size /\ n - i + 1 = first + j - 1
        /\ n - i + 1 >= 1 /\ k + j \in 1..(Size - 1) /\ (Size - 1) - (k + j) + 1 = i
    BY <1>1, <1>5 DEF first
  <2> HIDE DEF i
  <2>2. c[Back(wp, i)] = ByteAt(n - i + 1) /\ text[k + j] = c[Back(wp, i)]
    BY <1>2, <1>4, <2>1
  <2> QED BY <1>6, <1>7, <2>1, <2>2 DEF ByteAt
<1>9. tail = SubSeq(log, first, n)
  BY <1>5, <1>6, <1>7, <1>8, SeqEqual
<1> QED BY <1>4, <1>9 DEF Newest, tail, text, rp, c, k, l, first

LEMMA QueryShows ==
  ASSUME Facts, NEW f \in BOOLEAN, Query(f)
  PROVE  Facts' /\ Shows'
<1>1. op = "query" /\ EndOp /\ UNCHANGED <<mark, magic, cleared, spoilt>>
  BY DEF Query
<1>2. PICK rest \in (IF f THEN Cleared ELSE {Ring}) :
        shown' = [op |-> "query", text |-> TextFrom(Copy(rest), Oldest(Copy(rest), wp), wp),
                  meanwhile |-> Len(log) - n, failed |-> f, alike |-> FALSE]
  BY DEF Query
<1> DEFINE c == Copy(rest)
           rp == Oldest(c, wp)
           text == TextFrom(c, rp, wp)
<1>3. /\ op # "idle" /\ wp \in Offset /\ n \in 0..Len(log) /\ Len(log) \in Nat /\ n \in Nat
      /\ Size \in Nat /\ Size >= 4
  BY <1>1, CountFacts, Sizes
<1>4. c \in [Offset -> Chars] /\ (~f => rest = Ring)
  BY <1>3, RestType
<1>5. rp \in 0..Size
  BY <1>3, <1>4, OldestRange
<1>6. /\ shown'.op = "query" /\ shown'.text = text /\ shown'.meanwhile = Len(log) - n
      /\ shown'.failed = f
  BY <1>2
<1>7. UNCHANGED <<left, log, wp, n>>
  BY <1>1 DEF EndOp
<1> HIDE DEF c, rp, text
<1>8. Facts'
  <2>1. text \in Seq(Chars)
    BY <1>3, <1>4, <1>5, TextIs DEF text
  <2>2. Len(log) - n \in Nat
    BY <1>3
  <2> QED BY <1>1, <1>6, <2>1, <2>2, ShowFacts
<1>9. FailedShowsStretch'
  <2> SUFFICES ASSUME Len(log) - n = 0, OwnLog
               PROVE  \E i \in 1..(n + 1 - Len(text)) : text = SubSeq(log, i, i + Len(text) - 1)
    BY <1>6, <1>7 DEF FailedShowsStretch, OwnLog
  <2>1. Len(log) = n
    BY <1>3
  <2> QED BY <1>3, <1>5, <2>1, QuietStretch DEF text, c
<1>10. ShowsNewest'
  <2> SUFFICES ASSUME ~f, Len(log) - n = 0, OwnLog PROVE text = Newest(Least(n, Size - 1))
    BY <1>6, <1>7 DEF ShowsNewest, Cleanly, OwnLog, Newest, Least
  <2>1. c = Copy(Ring) /\ Len(log) = n
    BY <1>3, <1>4 DEF c
  <2> QED BY <1>3, <2>1, UnmarkedText DEF text, rp
<1>11. TornQueryTail'
  <2> DEFINE k == Least(Len(log) - n, Size - 1)
  <2>1. ASSUME ~f, n >= Size - 1
        PROVE  Len(text) = Size - 1 /\ SubSeq(text, k + 1, Size - 1) = Newest(Size - 1 - k)
    <3>1. c = Copy(Ring)
      BY <1>4, <2>1 DEF c
    <3> QED BY <1>3, <2>1, <3>1, TornText DEF text, rp
  <2>2. Newest(Size - 1 - k)' = Newest(Size - 1 - k) /\ Least(shown'.meanwhile, Size - 1) = k
    BY <1>6, <1>7 DEF Newest, Least
  <2> QED BY <1>6, <1>7, <2>1, <2>2 DEF TornQueryTail, Newest, Least
<1>12. TornDumpExact'
  BY <1>6 DEF TornDumpExact
<1> QED BY <1>8, <1>9, <1>10, <1>11, <1>12 DEF Shows

LEMMA PrintAllShows ==
  ASSUME Facts, PrintAll
  PROVE  Facts' /\ Shows'
<1> DEFINE m == Len(log)
           w == m % Size
           rp == Oldest(Ring, w)
           text == TextFrom(Ring, rp, w)
<1>1. /\ op = "idle" /\ wp' = w /\ n' = m /\ UNCHANGED <<left, log, op, low, mark, magic, cleared, spoilt>>
      /\ shown'.op = "all" /\ shown'.text = text /\ shown'.meanwhile = 0 /\ shown'.failed = FALSE
  BY DEF PrintAll
<1>2. /\ TypeOK /\ m \in Nat /\ m \in 0..Len(log) /\ w \in Offset /\ cleared \in 0..n /\ n \in 0..m
      /\ Ring \in [Offset -> Chars] /\ Size \in Nat /\ Size >= 4
  BY CountFacts, ModRound, RingType, Sizes DEF Facts, Chars
<1>3. rp \in 0..Size
  BY <1>2, OldestRange
<1>4. \A i \in 1..Size : Ring[Back(w, i)] = ByteAt(m - i + 1)
  <2>1. \A i \in 1..Size : i + (Len(log) - m) <= Size
    BY <1>2
  <2> QED BY <1>2, <2>1, RingBack
<1> HIDE DEF rp, text
<1>5. Facts'
  <2>1. text \in Seq(Chars)
    BY <1>2, <1>3, TextIs DEF text
  <2>2. TypeOK'
    <3>1. cleared' <= n' /\ n' <= Len(log')
      BY <1>1, <1>2
    <3> HIDE DEF w, m
    <3> QED BY <1>1, <1>2, <3>1 DEF TypeOK
  <2>3. (Counts /\ Marked /\ FirstChunk /\ MagicKept)'
    BY <1>1, <1>2 DEF Facts, Counts, Marked, FirstChunk, MagicKept, ByteAt
  <2>4. ShownType'
    BY <1>1, <2>1 DEF ShownType, Chars
  <2> QED BY <2>2, <2>3, <2>4 DEF Facts
<1>6. OwnLog' => text = SubSeq(log, m - Least(m, Size - 1) + 1, m)
  <2>1. \A i \in 1..(Size - 1) : Ring[Back(w, i)] = ByteAt(m - i + 1)
    BY <1>2, <1>4
  <2> QED BY <1>1, <1>2, <2>1, OldestText DEF text, rp, OwnLog
<1>7. ShowsNewest'
  BY <1>1, <1>6 DEF ShowsNewest, Newest, Least
<1>8. OwnLog' => \E i \in 1..(m + 1 - Len(text)) : text = SubSeq(log, i, i + Len(text) - 1)
  <2>1. CALC_RW_SIZE(rp, w) \in 0..(Size - 1)
    BY <1>2, <1>3, UsedRange
  <2>2. \A i \in 1..CALC_RW_SIZE(rp, w) : Ring[Back(w, i)] \in {ByteAt(m - i + 1), NUL}
    BY <1>2, <1>4, <2>1
  <2> QED BY <1>1, <1>2, <1>3, <2>2, TextStretch DEF text, OwnLog
<1>9. FailedShowsStretch'
  BY <1>1, <1>8 DEF FailedShowsStretch
<1>10. (TornDumpExact /\ TornQueryTail)'
  BY <1>1 DEF TornDumpExact, TornQueryTail
<1> QED BY <1>5, <1>7, <1>9, <1>10 DEF Shows

-----------------------------------------------------------------------------
(* Every step.                                                             *)

LEMMA InitShows == Init => Facts /\ Shows
<1> SUFFICES ASSUME Init PROVE Facts /\ Shows
  OBVIOUS
<1>1. /\ left \in Leftovers /\ log = <<>> /\ op = "idle" /\ wp = 0 /\ low = <<>> /\ mark = NoMark
      /\ magic = <<NUL, NUL>> /\ n = 0 /\ cleared = 0 /\ spoilt = FALSE /\ shown = Nothing
  BY DEF Init
<1>2. log \in Seq(Bytes) /\ Len(log) = 0
  BY <1>1, EmptySeq
<1>3. 0 % Size = 0 /\ 0 \in Offset /\ 0 <= MaxBytes
  BY Sizes, ModSmall, AdfLogAssumption DEF Offset
<1>4. TypeOK
  <2>1. DOMAIN low = {}
    BY <1>1
  <2>2. spoilt \in BOOLEAN
    BY <1>1
  <2>3. magic \in (Bytes \cup {NUL}) \X (Bytes \cup {NUL})
    BY <1>1
  <2> QED BY <1>1, <1>2, <1>3, <2>1, <2>2, <2>3 DEF TypeOK
<1>5. Counts /\ Marked /\ FirstChunk /\ MagicKept /\ ShownType
  BY <1>1, <1>3, NothingType DEF Counts, Marked, FirstChunk, MagicKept, ShownType
<1>6. Shows
  BY <1>1, NothingType DEF Shows, ShowsNewest, TornDumpExact, TornQueryTail, FailedShowsStretch
<1> QED BY <1>4, <1>5, <1>6 DEF Facts

LEMMA StepShows == Facts /\ Shows /\ [Next]_vars => (Facts /\ Shows)'
<1> SUFFICES ASSUME Facts, Shows, [Next]_vars PROVE Facts' /\ Shows'
  OBVIOUS
<1>1. CASE \E b \in Bytes : DspLogs(b)
  BY <1>1, LogsFacts, LogsShows
<1>2. CASE Reload
  <2>1. shown'.op = "none"
    BY <1>2, NothingType DEF Reload
  <2> QED BY <1>2, <2>1, ReloadFacts, NoneShows
<1>3. ASSUME NEW o \in Ops, ReadFirst(o) PROVE Facts' /\ Shows'
  <2>1. shown'.op = "none"
    BY <1>3, NothingType DEF ReadFirst
  <2> QED BY <1>3, <2>1, ReadFirstFacts, NoneShows
<1>4. CASE ReadFails
  <2>1. shown' = Nothing /\ UNCHANGED <<left, log, op, wp, low, mark, magic, n, cleared, spoilt>>
    BY <1>4 DEF ReadFails
  <2>2. Facts'
    BY <2>1, NothingType DEF Facts, TypeOK, Counts, Marked, FirstChunk, MagicKept, ShownType, ByteAt
  <2>3. shown'.op = "none"
    BY <2>1, NothingType
  <2> QED BY <2>2, <2>3, NoneShows
<1>5. ASSUME NEW f \in BOOLEAN, Dump(f) PROVE Facts' /\ Shows'
  BY <1>5, DumpShows
<1>6. ASSUME NEW f \in BOOLEAN, Query(f) PROVE Facts' /\ Shows'
  BY <1>6, QueryShows
<1>7. ASSUME NEW f \in BOOLEAN, Clear(f) PROVE Facts' /\ Shows'
  <2>1. shown' = shown /\ op # "idle"
    BY <1>7 DEF Clear
  <2>2. shown'.op = "none"
    BY <2>1, NothingType DEF Facts, ShownType
  <2> QED BY <1>7, <2>2, ClearFacts, NoneShows
<1>8. CASE PrintAll
  BY <1>8, PrintAllShows
<1>9. CASE UNCHANGED vars
  <2>1. UNCHANGED <<left, log, op, wp, low, mark, magic, n, cleared, spoilt, shown>>
    BY <1>9 DEF vars
  <2>2. Facts'
    BY <2>1 DEF Facts, TypeOK, Counts, Marked, FirstChunk, MagicKept, ShownType, ByteAt
  <2>3. Shows'
    BY <2>1 DEF Shows, ShowsNewest, TornDumpExact, TornQueryTail, FailedShowsStretch, Cleanly, OwnLog, Newest
  <2> QED BY <2>2, <2>3
<1> QED BY <1>1, <1>2, <1>3, <1>4, <1>5, <1>6, <1>7, <1>8, <1>9 DEF Next

LEMMA ShowsInvariant == Spec => [](Facts /\ Shows)
<1> QED BY InitShows, StepShows, PTL DEF Spec

-----------------------------------------------------------------------------
(* Every copy, mark and counter of log.c's handlers keeps its type, and    *)
(* the first chunk is there just while an operation waits for the rest.    *)
THEOREM LogTypeCorrect == Spec => []TypeOK
<1>1. Facts /\ Shows => TypeOK
  BY DEF Facts
<1> QED BY <1>1, ShowsInvariant, PTL

(* After a good clear a dump shows just what was logged since, or the      *)
(* newest Size - 1 bytes when there is more; a query and the print after   *)
(* a crash show the newest Size - 1 bytes: adfLog_reCalcHeader tells the   *)
(* cases apart at every position of the write pointer and of the mark.     *)
THEOREM NewestShown == Spec => []ShowsNewest
<1>1. Facts /\ Shows => ShowsNewest
  BY DEF Shows
<1> QED BY <1>1, ShowsInvariant, PTL

(* However the DSP logs between the chunks of adf_dbg_mem_read, a dump is  *)
(* exact while the bytes since the clear leave the magic alone.            *)
THEOREM TornDumpIsExact == Spec => []TornDumpExact
<1>1. Facts /\ Shows => TornDumpExact
  BY DEF Shows
<1> QED BY <1>1, ShowsInvariant, PTL

(* k bytes logged between the chunks of adfLog_query's copy spoil at most  *)
(* the first k bytes of a filled ring's text.                              *)
THEOREM TornQueryIsTail == Spec => []TornQueryTail
<1>1. Facts /\ Shows => TornQueryTail
  BY DEF Shows
<1> QED BY <1>1, ShowsInvariant, PTL

(* A chunk that dbmdx_debug_read fails to report only shortens what is     *)
(* shown: the text is a stretch of the log.                                *)
THEOREM FailureShowsStretch == Spec => []FailedShowsStretch
<1>1. Facts /\ Shows => FailedShowsStretch
  BY DEF Shows
<1> QED BY <1>1, ShowsInvariant, PTL
=============================================================================
