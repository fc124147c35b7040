-------------------------- MODULE SignOfLifeProofs --------------------------
(***************************************************************************)
(* Proofs about the sign-of-life driver, for any number of callers and any *)
(* set of requests.                                                        *)
(***************************************************************************)
EXTENDS SignOfLife, TLAPS

-----------------------------------------------------------------------------
(* Facts about the tables and the register helpers.                        *)

(* search_rtc_by_lcr returns a three-bit code for every argument.          *)
LEMMA SearchRtcType ==
  ASSUME NEW k, NEW r
  PROVE  search_rtc_by_lcr(k, r) \in Code
<1> DEFINE rows == {n \in Code \ {0} : n <= Len(rtc_to_lcr(k)) /\ rtc_to_lcr(k)[n] = r}
<1>1. CASE rows = {}
  BY <1>1 DEF search_rtc_by_lcr, Code
<1>2. CASE rows # {}
  <2>1. (CHOOSE n \in rows : TRUE) \in rows
    BY <1>2
  <2>2. search_rtc_by_lcr(k, r) = CHOOSE n \in rows : TRUE
    BY <1>2 DEF search_rtc_by_lcr
  <2> QED BY <2>1, <2>2
<1> QED BY <1>1, <1>2

LEMMA ZeroCode == 0 \in Code
BY DEF Code

(* The kinds and the flags are the fields of the registers.                *)
LEMMA KindSeqType == \A n \in 1..4 : KindSeq[n] \in Kind /\ KindSeq[n] \in Field
BY DEF KindSeq, Kind, Field

LEMMA KindIsField == Kind \subseteq Field
BY DEF Field

(* The parity accumulator stays a bit.                                     *)
LEMMA ParityRoundType ==
  ASSUME NEW acc \in {0, 1}, NEW n \in 1..4, rtc \in [Field -> Code]
  PROVE  ParityRound(acc, n) \in {0, 1}
<1>1. rtc[KindSeq[n]] \in Code
  BY KindSeqType
<1>2. \A c \in Code : CodeParity(c) \in {0, 1}
  BY DEF CodeParity, Code
<1> QED BY <1>1, <1>2 DEF ParityRound, Xor

(* Reading and writing whole registers keeps the fields three bits wide.   *)
LEMMA RegType ==
  ASSUME rtc \in [Field -> Code]
  PROVE  /\ \A r : ReadReg(r) \in [Field -> Code]
         /\ \A r : \A v \in [Field -> Code] : WriteReg(r, v) \in [Field -> Code]
BY DEF ReadReg, WriteReg, Code

LEMMA SetFieldType ==
  ASSUME NEW v \in [Field -> Code], NEW f \in Field, NEW c \in Code
  PROVE  SetField(v, f, c) \in [Field -> Code]
BY DEF SetField

(* No reason, the check-failed reason and every decoded code are reasons.  *)
LEMMA ReasonType ==
  /\ NOT_AVAILABLE \in Reason
  /\ RTC_CHECK_FAIL \in Reason
  /\ AndroidBootReason \subseteq Reason
  /\ \A k \in Kind, c \in Code : search_lcr_by_rtc(k, c) \in Reason
<1>1. NOT_AVAILABLE \in AndroidBootReason
  BY DEF AndroidBootReason
<1>2. RTC_CHECK_FAIL \in Reason /\ AndroidBootReason \subseteq Reason
  BY DEF Reason
<1>3. ASSUME NEW k \in Kind, NEW c \in Code
      PROVE  search_lcr_by_rtc(k, c) \in Reason
  <2>1. search_lcr_by_rtc(k, c) \in {search_lcr_by_rtc(k, d) : d \in Code}
    OBVIOUS
  <2> QED BY <2>1 DEF Reason, DecodedReason
<1> QED BY <1>1, <1>2, <1>3

(* The selected reason is one of the four read, or none.                   *)
LEMMA SelectReasonChoice ==
  ASSUME NEW g
  PROVE  \/ SelectReason(g) = NOT_AVAILABLE
         \/ \E k \in Kind : SelectReason(g) = g[k]
<1> DEFINE rows == {n \in 1..4 : g[LookupOrder[n]] \in lcr_data}
           first == CHOOSE n \in rows : \A j \in rows : n <= j
<1>1. CASE rows = {}
  BY <1>1 DEF SelectReason
<1>2. CASE rows # {}
  <2>1. \E n \in rows : \A j \in rows : n <= j
    <3>1. \A j \in rows : j \in {1, 2, 3, 4}
      OBVIOUS
    <3> HIDE DEF rows
    <3>2. CASE 1 \in rows   BY <3>1, <3>2
    <3>3. CASE 1 \notin rows /\ 2 \in rows   BY <3>1, <3>3
    <3>4. CASE 1 \notin rows /\ 2 \notin rows /\ 3 \in rows   BY <3>1, <3>4
    <3>5. CASE 1 \notin rows /\ 2 \notin rows /\ 3 \notin rows   BY <1>2, <3>1, <3>5
    <3> QED BY <3>2, <3>3, <3>4, <3>5
  <2>2. first \in rows
    <3> HIDE DEF rows
    <3> QED BY <2>1
  <2>3. SelectReason(g) = g[LookupOrder[first]]
    BY <1>2 DEF SelectReason
  <2>4. first \in 1..4
    BY <2>2
  <2>5. LookupOrder[first] \in Kind
    <3> HIDE DEF first
    <3> QED BY <2>4 DEF LookupOrder, Kind
  <2> QED BY <2>3, <2>5
<1> QED BY <1>1, <1>2

-----------------------------------------------------------------------------
(* Type correctness.                                                       *)

LEMMA NoRegType == NoReg \in [Field -> Code] /\ NoReason \in [Kind -> Reason]
BY ReasonType DEF NoReg, NoReason, Code

LEMMA InitType == Init => TypeOK
<1> SUFFICES ASSUME Init PROVE TypeOK
  OBVIOUS
<1>1. rtc \in [Field -> Code]
  BY NoRegType DEF Init
<1>2. CallerTypeOK
  BY NoRegType DEF Init, CallerTypeOK, Code, Kind
<1>3. BootTypeOK
  BY NoRegType, ReasonType DEF Init, BootTypeOK, Code, AndroidBootReason
<1>4. HistTypeOK
  BY NoRegType DEF Init, HistTypeOK, NoReg
<1> QED BY <1>1, <1>2, <1>3, <1>4 DEF TypeOK

(* Starting a call keeps the types of the caller's locals.                 *)
LEMMA CallType ==
  ASSUME TypeOK, NEW c \in Caller, NEW k \in Kind, NEW r, Call(c, k, r)
  PROVE  /\ CallerTypeOK'
         /\ disturbed' \in BOOLEAN
         /\ UNCHANGED <<rtc, want, torn>>
<1>1. search_rtc_by_lcr(k, r) \in Code
  BY SearchRtcType
<1>2. CallerTypeOK'
  BY <1>1 DEF Call, TypeOK, CallerTypeOK
<1>3. disturbed' \in BOOLEAN
  BY Zenon DEF Call
<1> QED BY <1>2, <1>3 DEF Call

(* A mark changes one flag; if it fails, fields of its register may go.    *)
Marks(f, v) ==
  /\ \/ rtc' = [rtc EXCEPT ![f] = v] /\ disturbed' = (disturbed \/ Active # {})
     \/ /\ rtc' \in [Field -> Code] /\ \A k \in Kind : rtc'[k] \in {rtc[k], 0}
        /\ disturbed' = TRUE
  /\ want' = [want EXCEPT ![f] = v]
  /\ UNCHANGED <<callVars, bootVars, torn>>

LEMMA BothMark ==
  ASSUME TypeOK
  PROVE  /\ Mark("LPRST", 1, {rtc}) => Marks("LPRST", 1)
         /\ \A v \in {0, 1} : rtc_mark_quiescent(v) => Marks("QUIESCENT", v)
<1>1. rtc \in [Field -> Code]
  BY DEF TypeOK
<1>2. ASSUME NEW v \in {0, 1}
      PROVE  LET g == SetField(Erased("AL_DOW"), "QUIESCENT", v)
             IN  g \in [Field -> Code] /\ \A k \in Kind : g[k] \in {rtc[k], 0}
  <2>1. v \in Code /\ "QUIESCENT" \in Field /\ "QUIESCENT" \notin Kind
    BY DEF Code, Field, Kind
  <2>2. /\ Erased("AL_DOW") \in [Field -> Code]
        /\ \A f \in Field : Erased("AL_DOW")[f] \in {rtc[f], 0}
    BY <1>1 DEF Erased, WriteReg, NoReg, Code
  <2> QED BY <2>1, <2>2, KindIsField DEF SetField
<1>3. Mark("LPRST", 1, {rtc}) => Marks("LPRST", 1)
  BY <1>1 DEF Mark, Marks
<1>4. ASSUME NEW v \in {0, 1}, rtc_mark_quiescent(v) PROVE Marks("QUIESCENT", v)
  <2> DEFINE g == SetField(Erased("AL_DOW"), "QUIESCENT", v)
  <2>1. Mark("QUIESCENT", v, {rtc, g})
    BY <1>4 DEF rtc_mark_quiescent
  <2>2. g \in [Field -> Code] /\ \A k \in Kind : g[k] \in {rtc[k], 0}
    BY <1>2
  <2> HIDE DEF g
  <2> QED BY <1>1, <2>1, <2>2 DEF Mark, Marks
<1> QED BY <1>3, <1>4

LEMMA MarkType ==
  ASSUME TypeOK, NEW f \in Field, NEW v \in {0, 1}, Marks(f, v)
  PROVE  /\ rtc' \in [Field -> Code]
         /\ want' \in [Field -> Code]
         /\ disturbed' \in BOOLEAN
         /\ torn' = torn
         /\ CallerTypeOK' /\ BootTypeOK'
<1>1. disturbed' \in BOOLEAN
  BY Zenon DEF Marks
<1>2. CallerTypeOK'
  BY DEF Marks, TypeOK, callVars, CallerTypeOK
<1>3. BootTypeOK'
  BY DEF Marks, TypeOK, bootVars, BootTypeOK
<1> QED BY <1>1, <1>2, <1>3 DEF Marks, TypeOK, HistTypeOK, Code

LEMMA PowerDownType == TypeOK /\ PowerDown => TypeOK'
<1> SUFFICES ASSUME TypeOK, PowerDown PROVE TypeOK'
  OBVIOUS
<1>1. rtc' \in [Field -> Code]
  BY DEF TypeOK, PowerDown
<1>2. CallerTypeOK'
  BY NoRegType DEF PowerDown, CallerTypeOK, Code, Kind
<1>3. BootTypeOK'
  BY NoRegType, ReasonType DEF PowerDown, BootTypeOK, Code, AndroidBootReason
<1>4. torn' \in BOOLEAN
  BY Zenon DEF PowerDown
<1>5. HistTypeOK'
  BY <1>4 DEF TypeOK, PowerDown, HistTypeOK
<1> QED BY <1>1, <1>2, <1>3, <1>5 DEF TypeOK

LEMMA JudgeType ==
  ASSUME TypeOK, NEW p, Judge(p), lcr_boot' = lcr_boot
  PROVE  BootTypeOK'
<1> USE DEF TypeOK, BootTypeOK
<1> DEFINE k == KindSeq[bk]
           read == IF p = bx THEN search_lcr_by_rtc(k, bcode) ELSE RTC_CHECK_FAIL
           r == IF k = "BOOT" /\ read = NOT_AVAILABLE THEN lcr_boot ELSE read
           all == [got EXCEPT ![k] = r]
<1>1. k \in Kind
  BY KindSeqType DEF Judge
<1>2. read \in Reason
  BY <1>1, ReasonType
<1>3. r \in Reason
  BY <1>2, ReasonType
<1>4. all \in [Kind -> Reason]
  BY <1>1, <1>3
<1>5. SelectReason(all) \in Reason
  BY <1>4, SelectReasonChoice, ReasonType
<1>6. /\ bpc = "lookup" /\ bi' = 0 /\ bcode' = 0 /\ bx' = 0
      /\ \/ bk < 4 /\ bk' = bk + 1 /\ got' = all /\ UNCHANGED <<bpc, reported>>
         \/ bk' = 1 /\ got' = NoReason /\ reported' = SelectReason(all) /\ bpc' = "decide"
  BY DEF Judge
<1> HIDE DEF all
<1> QED BY <1>4, <1>5, <1>6, NoRegType DEF Code

LEMMA InitStepType == TypeOK /\ InitStep => TypeOK'
<1> SUFFICES ASSUME TypeOK, InitStep PROVE TypeOK'
  OBVIOUS
<1> USE DEF TypeOK, CallerTypeOK, BootTypeOK, HistTypeOK, callVars, histVars
<1>1. CASE LookupRead
  BY <1>1, KindSeqType DEF LookupRead
<1>2. CASE LookupParity
  <2>1. ParityRound(bx, bi) \in {0, 1}
    BY <1>2, ParityRoundType DEF LookupParity
  <2> QED BY <1>2, <2>1 DEF LookupParity
<1>3. CASE LookupCheck
  BY <1>3, JudgeType DEF LookupCheck
<1>4. CASE KeepForCharger
  BY <1>4 DEF KeepForCharger
<1>5. CASE BeginClear
  BY <1>5 DEF BeginClear
<1>6. CASE ClearReason
  BY <1>6, KindSeqType DEF ClearReason, Code
<1>7. CASE ClearParity
  <2>0. rtc' \in [Field -> Code]
    BY <1>7, ZeroCode DEF ClearParity
  <2>1. want' \in [Field -> Code]
    BY <1>7, <2>0 DEF ClearParity
  <2>2. disturbed' \in BOOLEAN /\ torn' \in BOOLEAN
    BY <1>7 DEF ClearParity
  <2> QED BY <1>7, <2>0, <2>1, <2>2 DEF ClearParity
<1> QED BY <1>1, <1>2, <1>3, <1>4, <1>5, <1>6, <1>7 DEF InitStep

LEMMA WriterStepType ==
  ASSUME TypeOK, NEW c \in Caller, WriterStep(c)
  PROVE  TypeOK'
<1> USE DEF TypeOK, CallerTypeOK, BootTypeOK, HistTypeOK, bootVars, histVars
<1>1. CASE WriteReadReason(c)
  <2>1. ReadReg(RegOf(kind[c])) \in [Field -> Code]
    BY RegType
  <2> QED BY <1>1, <2>1 DEF WriteReadReason
<1>2. CASE WriteReason(c)
  <2>1. SetField(tmp[c], kind[c], code[c]) \in [Field -> Code]
    BY SetFieldType, KindIsField
  <2>2. rtc' \in [Field -> Code]
    BY <1>2, <2>1, RegType DEF WriteReason, ReasonDone
  <2>3. want' \in [Field -> Code]
    BY <1>2 DEF WriteReason, ReasonDone
  <2> QED BY <1>2, <2>2, <2>3, NoRegType DEF WriteReason, ReasonDone, Code, Kind
<1>3. CASE WriteReadParity(c)
  <2>1. ReadReg("AL_DOW") \in [Field -> Code]
    BY RegType
  <2> QED BY <1>3, <2>1 DEF WriteReadParity
<1>4. CASE WriteComputeParity(c)
  <2>1. i[c] \in 1..4 /\ i[c] + 1 \in 1..5
    BY <1>4 DEF WriteComputeParity
  <2>2. ParityRound(x[c], i[c]) \in {0, 1}
    BY <2>1, ParityRoundType
  <2> QED BY <1>4, <2>1, <2>2 DEF WriteComputeParity
<1>5. CASE WriteParity(c)
  <2>1. SetField(tmp[c], "PARITY", x[c]) \in [Field -> Code]
    <3>1. x[c] \in Code /\ "PARITY" \in Field
      BY DEF Field, Code
    <3> QED BY <3>1, SetFieldType
  <2>2. rtc' \in [Field -> Code]
    BY <1>5, <2>1, RegType DEF WriteParity, ParityDone
  <2>3. CallerTypeOK'
    BY <1>5, NoRegType DEF WriteParity, ParityDone
  <2>4. BootTypeOK' /\ HistTypeOK'
    BY <1>5 DEF WriteParity, ParityDone
  <2> QED BY <2>2, <2>3, <2>4
<1> QED BY <1>1, <1>2, <1>3, <1>4, <1>5 DEF WriterStep

LEMMA ErasedType ==
  ASSUME rtc \in [Field -> Code]
  PROVE  \A r : /\ Erased(r) \in [Field -> Code]
               /\ \A f \in Field : Erased(r)[f] \in {rtc[f], 0}
BY DEF Erased, WriteReg, NoReg, Code

LEMMA AccessFailsType == TypeOK /\ AccessFails => TypeOK'
<1> SUFFICES ASSUME TypeOK, AccessFails PROVE TypeOK'
  OBVIOUS
<1> USE DEF TypeOK, HistTypeOK
<1>0. disturbed' = TRUE
  BY DEF AccessFails
<1>1. CASE LookupFails
  <2>1. UNCHANGED <<rtc, callVars, lcr_boot, rpc, rmode, want, torn>>
    BY <1>1 DEF LookupFails
  <2>2. BootTypeOK'
    <3>1. CASE Judge(0)
      BY <2>1, <3>1, JudgeType
    <3>2. CASE ~Judge(0)
      BY <1>1, <3>2 DEF LookupFails, BootTypeOK, Code
    <3> QED BY <3>1, <3>2
  <2> QED BY <1>0, <2>1, <2>2 DEF CallerTypeOK, callVars
<1>2. CASE ClearFails
  <2>1. rtc' \in [Field -> Code] /\ want' \in [Field -> Code]
    <3>1. KindSeq[bk] \in Field \/ bk = 5
      BY KindSeqType DEF BootTypeOK
    <3> QED BY <1>2, <3>1, ErasedType, ZeroCode DEF ClearFails
  <2>2. BootTypeOK'
    BY <1>2 DEF ClearFails, BootTypeOK
  <2> QED BY <1>0, <1>2, <2>1, <2>2 DEF ClearFails, CallerTypeOK, callVars
<1>3. ASSUME NEW c \in Caller, WriterFails(c) PROVE TypeOK'
  <2>1. want' \in [Field -> Code]
    BY <1>3, KindIsField DEF WriterFails, ReasonDone, ParityDone, CallerTypeOK
  <2>2. CallerTypeOK'
    <3>1. CASE pc[c] \in {"read", "readpar"} /\ ~ReasonDone(c) /\ ~ParityDone(c)
      BY <1>3, <3>1, NoRegType DEF WriterFails, CallerTypeOK
    <3>2. CASE ReasonDone(c)
      <4>1. 0 \in Code /\ "BOOT" \in Kind
        BY DEF Code, Kind
      <4> QED BY <3>2, <4>1, NoRegType DEF ReasonDone, CallerTypeOK
    <3>3. CASE ParityDone(c)
      BY <3>3, NoRegType DEF ParityDone, CallerTypeOK
    <3>4. CASE /\ pc[c] = "parity" /\ i[c] <= 4 /\ i' = [i EXCEPT ![c] = @ + 1]
               /\ UNCHANGED <<pc, kind, code, tmp, x>>
      BY <3>4 DEF CallerTypeOK
    <3> QED BY <1>3, <3>1, <3>2, <3>3, <3>4 DEF WriterFails, ReasonDone, ParityDone
  <2> QED BY <1>0, <1>3, <2>1, <2>2 DEF WriterFails, BootTypeOK, bootVars
<1> QED BY <1>1, <1>2, <1>3 DEF AccessFails

(***************************************************************************)
(* Every register field, local variable and history variable keeps its     *)
(* type, whatever the interleaving and whichever accesses fail.            *)
(***************************************************************************)
THEOREM TypeCorrect == Spec => []TypeOK
<1>1. TypeOK /\ [Next]_vars => TypeOK'
  <2> SUFFICES ASSUME TypeOK, [Next]_vars PROVE TypeOK'
    OBVIOUS
  <2>1. ASSUME NEW r \in BootReasons, InitDriver(r) PROVE TypeOK'
    <3>1. rtc' \in [Field -> Code] /\ CallerTypeOK' /\ HistTypeOK'
      BY <2>1 DEF InitDriver, TypeOK, CallerTypeOK, HistTypeOK, callVars, histVars
    <3>3. BootTypeOK'
      BY <2>1, SolAssumption DEF InitDriver, TypeOK, BootTypeOK
    <3> QED BY <3>1, <3>3 DEF TypeOK
  <2>2. CASE InitNoMemory
    BY <2>2 DEF InitNoMemory, TypeOK, CallerTypeOK, BootTypeOK, HistTypeOK,
                callVars, histVars
  <2>3. CASE InitStep
    BY <2>3, InitStepType
  <2>4. ASSUME NEW c \in Threads, NEW q \in Requests, SetReason(c, q[1], q[2])
        PROVE  TypeOK'
    <3>1. c \in Caller /\ q[1] \in Kind
      BY SolAssumption DEF Caller
    <3> QED BY <2>4, <3>1, CallType DEF SetReason, TypeOK, BootTypeOK, HistTypeOK, bootVars
  <2>5. ASSUME NEW c \in Caller, WriterStep(c) PROVE TypeOK'
    BY <2>5, WriterStepType
  <2>6. CASE mtk_rtc_mark_sw_lprst
    BY <2>6, BothMark, MarkType DEF mtk_rtc_mark_sw_lprst, TypeOK, HistTypeOK, Field
  <2>7. CASE RebootModeRegister \/ RebootModeClear
    <3>1. CASE RebootModeRegister
      BY <3>1 DEF RebootModeRegister, TypeOK, CallerTypeOK, BootTypeOK, HistTypeOK,
                  callVars, bootVars, histVars
    <3>2. CASE RebootModeClear
      BY <3>2, BothMark, MarkType DEF RebootModeClear, TypeOK, HistTypeOK, Field
    <3> QED BY <2>7, <3>1, <3>2
  <2>8. CASE RebootNotify
    <3>1. Reboot \in Caller /\ "BOOT" \in Kind /\ "SHUTDOWN" \in Kind
      BY DEF Caller, Kind
    <3> QED BY <2>8, <3>1, CallType
            DEF RebootNotify, TypeOK, CallerTypeOK, BootTypeOK, HistTypeOK,
                bootVars, callVars, histVars
  <2>9. ASSUME NEW q \in {0, 1}, RebootModeNotify(q) PROVE TypeOK'
    BY <2>9, BothMark, MarkType
       DEF RebootModeNotify, TypeOK, CallerTypeOK, BootTypeOK, HistTypeOK,
           callVars, bootVars, histVars, Field
  <2>12. CASE AccessFails
    BY <2>12, AccessFailsType
  <2>10. CASE MachineDown \/ Crash
    BY <2>10, PowerDownType DEF MachineDown, Crash
  <2>11. CASE UNCHANGED vars
    BY <2>11 DEF vars, callVars, bootVars, histVars, TypeOK, CallerTypeOK,
                 BootTypeOK, HistTypeOK
  <2> QED BY <2>1, <2>2, <2>3, <2>4, <2>5, <2>6, <2>7, <2>8, <2>9, <2>10, <2>11, <2>12
          DEF Next
<1> QED BY <1>1, InitType, PTL DEF Spec

-----------------------------------------------------------------------------
(* No reason is made up.                                                   *)

(***************************************************************************)
(* NoInventedReason is not inductive: a caller writes back a whole         *)
(* register that it read earlier.  The strengthening says the same of the  *)
(* copies and of the codes that callers are about to write.                *)
(***************************************************************************)
Held(k) == Askable[k] \cup {0}
OnlyAsked ==
  /\ \A k \in Kind : rtc[k] \in Held(k)
  /\ \A c \in Caller : \A k \in Kind : tmp[c][k] \in Held(k)
  /\ \A c \in Caller : code[c] \in Held(kind[c])

(* The reason of a request, or of the reboot notifier, can be asked for.   *)
LEMMA RequestAskable ==
  ASSUME NEW q \in Requests \cup NotifierRequests, q[1] \in Kind
  PROVE  search_rtc_by_lcr(q[1], q[2]) \in Held(q[1])
BY DEF Held, Askable

LEMMA NotFlags ==
  /\ "PARITY" \notin Kind /\ "QUIESCENT" \notin Kind /\ "LPRST" \notin Kind
  /\ "PARITY" \in Field /\ "QUIESCENT" \in Field /\ "LPRST" \in Field
BY DEF Kind, Field

(* Starting a call keeps OnlyAsked if what it asks for is askable.         *)
LEMMA CallOnlyAsked ==
  ASSUME TypeOK, OnlyAsked, NEW c \in Caller, NEW k \in Kind, NEW r,
         search_rtc_by_lcr(k, r) \in Held(k), Call(c, k, r)
  PROVE  OnlyAsked'
<1> USE DEF OnlyAsked, Held
<1>1. rtc' = rtc /\ tmp' = tmp
  BY DEF Call
<1>2. ASSUME NEW d \in Caller PROVE code'[d] \in Held(kind'[d])
  BY DEF Call, TypeOK, CallerTypeOK
<1> QED BY <1>1, <1>2 DEF Askable

(* Changing a flag leaves every kind of reason alone, or erases it.        *)
LEMMA MarkOnlyAsked ==
  ASSUME TypeOK, OnlyAsked, NEW f \in {"QUIESCENT", "LPRST"}, NEW v, Marks(f, v)
  PROVE  OnlyAsked'
<1>1. \A k \in Kind : rtc'[k] \in {rtc[k], 0}
  BY NotFlags, KindIsField DEF Marks, TypeOK
<1> QED BY <1>1 DEF Marks, OnlyAsked, callVars, Held, Askable

LEMMA InitStepOnlyAsked ==
  ASSUME TypeOK, OnlyAsked, InitStep
  PROVE  OnlyAsked'
<1>1. tmp' = tmp /\ code' = code /\ kind' = kind
  BY DEF InitStep, LookupRead, LookupParity, LookupCheck, Judge, KeepForCharger,
         BeginClear, ClearReason, ClearParity, callVars
<1>2. ASSUME NEW k \in Kind PROVE rtc'[k] \in Held(k)
  <2>1. CASE ClearReason
    BY <2>1, KindIsField DEF ClearReason, TypeOK, OnlyAsked, Held
  <2>2. CASE ClearParity
    BY <2>2, NotFlags, KindIsField DEF ClearParity, TypeOK, OnlyAsked
  <2>3. CASE rtc' = rtc
    BY <2>3 DEF OnlyAsked
  <2> QED BY <2>1, <2>2, <2>3
          DEF InitStep, LookupRead, LookupParity, LookupCheck, Judge, KeepForCharger, BeginClear
<1> QED BY <1>1, <1>2 DEF OnlyAsked, Held, Askable

LEMMA WriterStepOnlyAsked ==
  ASSUME TypeOK, OnlyAsked, NEW c \in Caller, WriterStep(c)
  PROVE  OnlyAsked'
<1> USE KindIsField
<1>1. \A r : \A k \in Kind : ReadReg(r)[k] \in Held(k)
  BY DEF ReadReg, OnlyAsked, Held
<1>2. \A k \in Kind : NoReg[k] \in Held(k)
  BY DEF NoReg, Held
<1>3. CASE WriteReadReason(c)
  <2>1. ASSUME NEW d \in Caller, NEW k \in Kind PROVE tmp'[d][k] \in Held(k)
    BY <1>1, <1>3 DEF WriteReadReason, OnlyAsked, TypeOK, CallerTypeOK
  <2> QED BY <1>3, <2>1 DEF WriteReadReason, OnlyAsked, Held, Askable
<1>4. CASE WriteReason(c)
  <2>1. ASSUME NEW k \in Kind PROVE rtc'[k] \in Held(k)
    BY <1>4 DEF WriteReason, ReasonDone, WriteReg, SetField, OnlyAsked, TypeOK, CallerTypeOK
  <2>2. ASSUME NEW d \in Caller, NEW k \in Kind PROVE tmp'[d][k] \in Held(k)
    BY <1>2, <1>4 DEF WriteReason, ReasonDone, OnlyAsked, TypeOK, CallerTypeOK
  <2>3. ASSUME NEW d \in Caller PROVE code'[d] \in Held(kind'[d])
    BY <1>4 DEF WriteReason, ReasonDone, OnlyAsked, Held, TypeOK, CallerTypeOK
  <2> QED BY <2>1, <2>2, <2>3 DEF OnlyAsked, Held, Askable
<1>5. CASE WriteReadParity(c)
  <2>1. ASSUME NEW d \in Caller, NEW k \in Kind PROVE tmp'[d][k] \in Held(k)
    BY <1>1, <1>5 DEF WriteReadParity, OnlyAsked, TypeOK, CallerTypeOK
  <2> QED BY <1>5, <2>1 DEF WriteReadParity, OnlyAsked, Held, Askable
<1>6. CASE WriteComputeParity(c)
  BY <1>6 DEF WriteComputeParity, OnlyAsked, Held, Askable
<1>7. CASE WriteParity(c)
  <2>1. ASSUME NEW k \in Kind PROVE rtc'[k] \in Held(k)
    BY <1>7, NotFlags DEF WriteParity, ParityDone, WriteReg, SetField, OnlyAsked, TypeOK, CallerTypeOK
  <2>2. ASSUME NEW d \in Caller, NEW k \in Kind PROVE tmp'[d][k] \in Held(k)
    BY <1>2, <1>7 DEF WriteParity, ParityDone, OnlyAsked, TypeOK, CallerTypeOK
  <2> QED BY <1>7, <2>1, <2>2 DEF WriteParity, ParityDone, OnlyAsked, Held, Askable
<1> QED BY <1>3, <1>4, <1>5, <1>6, <1>7 DEF WriterStep

(* A failed access erases fields and copies, it does not fill them.        *)
LEMMA AccessFailsOnlyAsked ==
  ASSUME TypeOK, OnlyAsked, AccessFails
  PROVE  OnlyAsked'
<1>1. \A k \in Kind : rtc'[k] \in {rtc[k], 0}
  <2>1. rtc' = rtc \/ \E r : rtc' = Erased(r)
    BY DEF AccessFails, LookupFails, ClearFails, WriterFails
  <2> QED BY <2>1, ErasedType, KindIsField DEF TypeOK
<1>2. \A c \in Caller : \A k \in Kind : tmp'[c][k] \in {tmp[c][k], 0}
  <2>1. tmp' = tmp \/ \E c \in Caller : tmp' = [tmp EXCEPT ![c] = NoReg]
    BY DEF AccessFails, LookupFails, ClearFails, WriterFails, ReasonDone, ParityDone, callVars
  <2> QED BY <2>1, KindIsField DEF NoReg, TypeOK, CallerTypeOK
<1>3. \A c \in Caller : code'[c] = 0 \/ (code'[c] = code[c] /\ kind'[c] = kind[c])
  <2>1. \/ UNCHANGED <<code, kind>>
        \/ \E c \in Caller : code' = [code EXCEPT ![c] = 0] /\ kind' = [kind EXCEPT ![c] = "BOOT"]
    BY DEF AccessFails, LookupFails, ClearFails, WriterFails, ReasonDone, ParityDone, callVars
  <2> QED BY <2>1 DEF TypeOK, CallerTypeOK
<1> QED BY <1>1, <1>2, <1>3 DEF OnlyAsked, Held, Askable

(* The record, the copies and the pending codes hold askable codes only.   *)
LEMMA OnlyAskedInvariant == Spec => []OnlyAsked
<1>1. Init => OnlyAsked
  BY KindIsField DEF Init, OnlyAsked, NoReg, Held
<1>2. TypeOK /\ OnlyAsked /\ [Next]_vars => OnlyAsked'
  <2> SUFFICES ASSUME TypeOK, OnlyAsked, [Next]_vars PROVE OnlyAsked'
    OBVIOUS
  <2>1. ASSUME NEW r \in BootReasons, InitDriver(r) PROVE OnlyAsked'
    BY <2>1 DEF InitDriver, OnlyAsked, callVars, Held, Askable
  <2>2. CASE InitNoMemory
    BY <2>2 DEF InitNoMemory, OnlyAsked, callVars, Held, Askable
  <2>3. CASE InitStep
    BY <2>3, InitStepOnlyAsked
  <2>4. ASSUME NEW c \in Threads, NEW q \in Requests, SetReason(c, q[1], q[2])
        PROVE  OnlyAsked'
    <3>1. c \in Caller /\ q[1] \in Kind
      BY SolAssumption DEF Caller
    <3>2. search_rtc_by_lcr(q[1], q[2]) \in Held(q[1])
      BY <3>1, RequestAskable
    <3> QED BY <2>4, <3>1, <3>2, CallOnlyAsked DEF SetReason
  <2>5. ASSUME NEW c \in Caller, WriterStep(c) PROVE OnlyAsked'
    BY <2>5, WriterStepOnlyAsked
  <2>6. CASE mtk_rtc_mark_sw_lprst
    BY <2>6, BothMark, MarkOnlyAsked DEF mtk_rtc_mark_sw_lprst
  <2>7. CASE RebootModeRegister \/ RebootModeClear
    BY <2>7, BothMark, MarkOnlyAsked
       DEF RebootModeRegister, RebootModeClear, callVars, OnlyAsked, Held, Askable
  <2>8. CASE RebootNotify
    <3>1. Reboot \in Caller /\ "BOOT" \in Kind /\ "SHUTDOWN" \in Kind
      BY DEF Caller, Kind
    <3>2. /\ <<"BOOT", "WARMBOOT_BY_SW">> \in Requests \cup NotifierRequests
          /\ <<"SHUTDOWN", "SHUTDOWN_BY_SW">> \in Requests \cup NotifierRequests
      BY DEF NotifierRequests
    <3>3. /\ search_rtc_by_lcr("BOOT", "WARMBOOT_BY_SW") \in Held("BOOT")
          /\ search_rtc_by_lcr("SHUTDOWN", "SHUTDOWN_BY_SW") \in Held("SHUTDOWN")
      BY <3>1, <3>2, RequestAskable
    <3>4. CASE Call(Reboot, "BOOT", "WARMBOOT_BY_SW")
      BY <3>1, <3>3, <3>4, CallOnlyAsked
    <3>5. CASE Call(Reboot, "SHUTDOWN", "SHUTDOWN_BY_SW")
      BY <3>1, <3>3, <3>5, CallOnlyAsked
    <3>6. CASE UNCHANGED <<rtc, callVars, histVars>>
      BY <3>6 DEF OnlyAsked, callVars, Held, Askable
    <3> QED BY <2>8, <3>4, <3>5, <3>6 DEF RebootNotify
  <2>9. ASSUME NEW q \in {0, 1}, RebootModeNotify(q) PROVE OnlyAsked'
    <3>1. CASE rtc_mark_quiescent(q)
      BY <3>1, BothMark, MarkOnlyAsked
    <3>2. CASE UNCHANGED <<rtc, callVars, bootVars, histVars>>
      BY <3>2 DEF OnlyAsked, callVars, Held, Askable
    <3> QED BY <2>9, <3>1, <3>2 DEF RebootModeNotify
  <2>12. CASE AccessFails
    BY <2>12, AccessFailsOnlyAsked
  <2>10. CASE MachineDown \/ Crash
    <3>1. rtc' = rtc /\ tmp' = [c \in Caller |-> NoReg] /\ code' = [c \in Caller |-> 0]
      BY <2>10 DEF MachineDown, Crash, PowerDown
    <3>2. \A c \in Caller : \A k \in Kind : tmp'[c][k] = 0
      BY <3>1, KindIsField DEF NoReg
    <3>3. \A c \in Caller : code'[c] = 0
      BY <3>1
    <3> QED BY <3>1, <3>2, <3>3 DEF OnlyAsked, Held, Askable
  <2>11. CASE UNCHANGED vars
    BY <2>11 DEF vars, callVars, OnlyAsked, Held, Askable
  <2> QED BY <2>1, <2>2, <2>3, <2>4, <2>5, <2>6, <2>7, <2>8, <2>9, <2>10, <2>11, <2>12
          DEF Next
<1> QED BY <1>1, <1>2, TypeCorrect, PTL DEF Spec

(***************************************************************************)
(* For any number of callers and any requests, no interleaving of          *)
(* rtc_write_life_cycle_reason with itself, with the reset and with        *)
(* crashes puts a code in the record that nobody asked for in that kind.   *)
(***************************************************************************)
THEOREM NothingInvented == Spec => []NoInventedReason
<1>1. OnlyAsked => NoInventedReason
  BY DEF OnlyAsked, NoInventedReason, Held
<1> QED BY <1>1, OnlyAskedInvariant, PTL

-----------------------------------------------------------------------------
(* Operations that do not overlap do not damage each other's fields.       *)

(* Where callers may be active: after dev_sol_init, or in a reboot.        *)
WhoIsActive ==
  /\ bpc \in {"off", "failed"} => rpc = "run"
  /\ bpc # "up" /\ rpc = "run" => \A c \in Caller : pc[c] = "idle"

(* The reset starts at the first kind and leaves emptied kinds behind it.  *)
ClearedSoFar ==
  /\ bpc = "decide" => bk = 1
  /\ bpc = "clear" /\ ~disturbed =>
       \A j \in 1..4 : j < bk => rtc[KindSeq[j]] = 0 /\ want[KindSeq[j]] = 0

(* Without overlap there is one operation at a time ...                    *)
OneAtATime ==
  ~disturbed =>
    /\ \A c, d \in Caller : pc[c] # "idle" /\ pc[d] # "idle" => c = d
    /\ BootBusy => \A c \in Caller : pc[c] = "idle"

(* ... so the register copy that an operation will write back is current.  *)
CopiesCurrent ==
  ~disturbed => \A c \in Caller : \A f \in Field :
    /\ pc[c] = "write" /\ RegOf(f) = RegOf(kind[c]) => tmp[c][f] = rtc[f]
    /\ pc[c] = "parity" /\ RegOf(f) = "AL_DOW" => tmp[c][f] = rtc[f]

SerialInv ==
  WhoIsActive /\ ClearedSoFar /\ OneAtATime /\ CopiesCurrent /\ SerialRecordExact

LEMMA CallSerial ==
  ASSUME TypeOK, SerialInv, NEW c \in Caller, NEW k \in Kind, NEW r,
         Call(c, k, r), UNCHANGED bootVars, bpc = "up" \/ rpc' # "run",
         rpc' = "run" => rpc = "run", bpc \notin {"off", "failed"}
  PROVE  SerialInv'
<1> USE DEF SerialInv, TypeOK, CallerTypeOK, bootVars
<1>1. ~disturbed' => ~disturbed /\ Active = {} /\ ~BootBusy
  BY DEF Call
<1>2. WhoIsActive'
  BY DEF WhoIsActive, Call
<1>3. ClearedSoFar'
  BY <1>1 DEF ClearedSoFar, Call
<1>4. OneAtATime'
  BY <1>1 DEF OneAtATime, Call, Active, BootBusy
<1>5. CopiesCurrent'
  BY <1>1 DEF CopiesCurrent, Call, Active
<1>6. SerialRecordExact'
  BY <1>1 DEF SerialRecordExact, Call
<1> QED BY <1>2, <1>3, <1>4, <1>5, <1>6

LEMMA MarkSerial ==
  ASSUME TypeOK, SerialInv, NEW f \in {"QUIESCENT", "LPRST"}, NEW v \in {0, 1},
         Marks(f, v), rpc' = rpc \/ (rpc # "run" /\ rpc' # "run" /\ bpc \notin {"off", "failed"})
  PROVE  SerialInv'
<1> USE DEF SerialInv, TypeOK, CallerTypeOK, HistTypeOK, bootVars, callVars
<1>1. ~disturbed' => ~disturbed /\ Active = {} /\ rtc' = [rtc EXCEPT ![f] = v]
  BY DEF Marks
<1>2. WhoIsActive'
  BY DEF WhoIsActive, Marks
<1>3. ClearedSoFar'
  <2>1. \A j \in 1..4 : want'[KindSeq[j]] = want[KindSeq[j]]
    BY KindSeqType, NotFlags DEF Marks
  <2>2. ~disturbed' => \A j \in 1..4 : rtc'[KindSeq[j]] = rtc[KindSeq[j]]
    BY <1>1, KindSeqType, NotFlags
  <2> QED BY <1>1, <2>1, <2>2 DEF ClearedSoFar, Marks
<1>4. OneAtATime'
  BY <1>1 DEF OneAtATime, Marks, BootBusy
<1>5. CopiesCurrent'
  BY <1>1 DEF CopiesCurrent, Marks, Active
<1>6. SerialRecordExact'
  BY <1>1 DEF SerialRecordExact, Marks
<1> QED BY <1>2, <1>3, <1>4, <1>5, <1>6

LEMMA AccessFailsSerial ==
  ASSUME TypeOK, SerialInv, AccessFails
  PROVE  SerialInv'
<1>1. disturbed' = TRUE
  BY DEF AccessFails
<1>2. WhoIsActive' /\ (bpc' = "decide" => bk' = 1)
  <2>1. CASE LookupFails
    BY <2>1 DEF LookupFails, Judge, callVars, SerialInv, WhoIsActive
  <2>2. CASE ClearFails
    BY <2>2 DEF ClearFails, callVars, SerialInv, WhoIsActive
  <2>3. ASSUME NEW c \in Caller, WriterFails(c)
        PROVE  WhoIsActive' /\ (bpc' = "decide" => bk' = 1)
    <3>1. UNCHANGED <<bpc, bk, rpc>> /\ pc[c] # "idle"
      BY <2>3 DEF WriterFails, ReasonDone, ParityDone, bootVars
    <3> QED BY <3>1 DEF SerialInv, WhoIsActive, ClearedSoFar
  <2> QED BY <2>1, <2>2, <2>3 DEF AccessFails
<1> QED BY <1>1, <1>2 DEF SerialInv, ClearedSoFar, OneAtATime, CopiesCurrent, SerialRecordExact

LEMMA InitStepSerial ==
  ASSUME TypeOK, SerialInv, InitStep
  PROVE  SerialInv'
<1> USE DEF SerialInv, TypeOK, BootTypeOK, HistTypeOK, callVars, histVars
<1>1. CASE ClearReason
  <2>1. KindSeq[bk] \in Kind /\ KindSeq[bk] \in Field
    BY <1>1, KindSeqType DEF ClearReason
  <2>2. bpc = "clear" /\ BootBusy
    BY <1>1 DEF ClearReason, BootBusy
  <2>3. WhoIsActive' /\ OneAtATime'
    BY <1>1 DEF WhoIsActive, OneAtATime, BootBusy, ClearReason
  <2>4. ClearedSoFar'
    BY <1>1, <2>1, KindSeqType DEF ClearedSoFar, ClearReason
  <2>5. CopiesCurrent'
    BY <1>1, <2>2 DEF CopiesCurrent, OneAtATime, ClearReason
  <2>6. SerialRecordExact'
    BY <1>1, <2>1 DEF SerialRecordExact, ClearReason
  <2> QED BY <2>3, <2>4, <2>5, <2>6
<1>2. CASE ClearParity
  <2>1. bpc = "clear" /\ BootBusy /\ bk = 5 /\ bpc' = "up" /\ UNCHANGED <<pc, tmp, kind, rpc>>
    BY <1>2 DEF ClearParity, BootBusy
  <2>2. ~disturbed' => \A c \in Caller : pc[c] = "idle"
    BY <1>2, <2>1 DEF ClearParity, WhoIsActive, OneAtATime
  <2>3. WhoIsActive' /\ OneAtATime' /\ CopiesCurrent' /\ ClearedSoFar'
    BY <2>1, <2>2 DEF WhoIsActive, OneAtATime, CopiesCurrent, ClearedSoFar
  <2>4. ASSUME ~disturbed', NEW f \in Field \ {"PARITY"} PROVE rtc'[f] = want'[f]
    <3>1. rtc'[f] = rtc[f]
      BY <1>2 DEF ClearParity
    <3>2. CASE want' = rtc'
      BY <3>2
    <3>3. CASE UNCHANGED <<want, disturbed>>
      BY <2>4, <3>1, <3>3 DEF SerialRecordExact
    <3> QED BY <1>2, <3>2, <3>3 DEF ClearParity
  <2> QED BY <2>3, <2>4 DEF SerialRecordExact
<1>3. CASE LookupRead \/ LookupParity \/ KeepForCharger \/ BeginClear \/ LookupCheck
  <2>1. /\ UNCHANGED <<rtc, pc, tmp, kind, rpc, want, disturbed>>
        /\ bpc \in {"lookup", "decide"}
    BY <1>3 DEF LookupRead, LookupParity, KeepForCharger, BeginClear, LookupCheck, Judge
  <2>2. bpc' = "clear" => bk' = 1
    BY <1>3 DEF LookupRead, LookupParity, KeepForCharger, BeginClear, LookupCheck, Judge, ClearedSoFar
  <2>3. bpc' = "decide" => bk' = 1
    BY <1>3 DEF LookupRead, LookupParity, KeepForCharger, BeginClear, LookupCheck, Judge, ClearedSoFar
  <2>4. bpc' \notin {"off", "failed"}
    BY <1>3 DEF LookupRead, LookupParity, KeepForCharger, BeginClear, LookupCheck, Judge
  <2>5. WhoIsActive' /\ OneAtATime'
    BY <2>1, <2>4 DEF WhoIsActive, OneAtATime, BootBusy
  <2>6. ClearedSoFar'
    BY <2>2, <2>3 DEF ClearedSoFar
  <2>7. CopiesCurrent' /\ SerialRecordExact'
    BY <2>1 DEF CopiesCurrent, SerialRecordExact
  <2> QED BY <2>5, <2>6, <2>7
<1> QED BY <1>1, <1>2, <1>3 DEF InitStep

LEMMA WriterStepSerial ==
  ASSUME TypeOK, SerialInv, NEW c \in Caller, WriterStep(c)
  PROVE  SerialInv'
<1> USE DEF SerialInv, TypeOK, CallerTypeOK, HistTypeOK, bootVars, histVars
<1>1. /\ pc[c] # "idle"
      /\ \A d \in Caller : d # c => pc'[d] = pc[d] /\ tmp'[d] = tmp[d] /\ kind'[d] = kind[d]
      /\ UNCHANGED <<bpc, bk, rpc, disturbed>>
  BY DEF WriterStep, WriteReadReason, WriteReason, ReasonDone, WriteReadParity, WriteComputeParity, WriteParity, ParityDone
<1>2. WhoIsActive' /\ OneAtATime'
  BY <1>1 DEF WhoIsActive, OneAtATime, BootBusy
<1>3. ~disturbed /\ bpc # "up" => FALSE
  BY <1>1 DEF OneAtATime, WhoIsActive, BootBusy, BootTypeOK
<1>4. ClearedSoFar'
  BY <1>1, <1>3 DEF ClearedSoFar, WhoIsActive, BootTypeOK
<1>5. ASSUME ~disturbed PROVE CopiesCurrent' /\ SerialRecordExact'
  <2>1. \A d \in Caller : d # c => pc'[d] = "idle"
    BY <1>1, <1>5 DEF OneAtATime
  <2>2. \A f \in Field \ {"PARITY"} : rtc[f] = want[f]
    BY <1>5 DEF SerialRecordExact
  <2>3. CASE WriteReadReason(c)
    <3>1. tmp'[c] = ReadReg(RegOf(kind[c])) /\ pc'[c] = "write" /\ UNCHANGED <<rtc, want, kind>>
      BY <2>3 DEF WriteReadReason
    <3> QED BY <2>1, <2>2, <3>1 DEF CopiesCurrent, SerialRecordExact, ReadReg
  <2>4. CASE WriteReason(c)
    <3>1. pc'[c] = "readpar"
      BY <2>4 DEF WriteReason, ReasonDone
    <3>2. CopiesCurrent'
      BY <2>1, <3>1 DEF CopiesCurrent
    <3>3. ASSUME NEW f \in Field \ {"PARITY"} PROVE rtc'[f] = want'[f]
      <4>1. pc[c] = "write" /\ kind[c] \in Field
        BY <2>4, KindIsField DEF WriteReason, ReasonDone
      <4>2. RegOf(f) = RegOf(kind[c]) => tmp[c][f] = rtc[f]
        BY <1>5, <4>1 DEF CopiesCurrent
      <4>3. want'[f] = IF f = kind[c] THEN code[c] ELSE want[f]
        BY <2>4 DEF WriteReason, ReasonDone
      <4>4. rtc'[f] = IF RegOf(f) = RegOf(kind[c])
                      THEN IF f = kind[c] THEN code[c] ELSE tmp[c][f] ELSE rtc[f]
        BY <2>4 DEF WriteReason, ReasonDone, WriteReg, SetField
      <4> QED BY <2>2, <4>2, <4>3, <4>4
    <3> QED BY <3>2, <3>3 DEF SerialRecordExact
  <2>5. CASE WriteReadParity(c)
    <3>1. tmp'[c] = ReadReg("AL_DOW") /\ pc'[c] = "parity" /\ UNCHANGED <<rtc, want, kind>>
      BY <2>5 DEF WriteReadParity
    <3> QED BY <2>1, <2>2, <3>1 DEF CopiesCurrent, SerialRecordExact, ReadReg
  <2>6. CASE WriteComputeParity(c)
    BY <2>6 DEF WriteComputeParity, CopiesCurrent, SerialRecordExact
  <2>7. CASE WriteParity(c)
    <3>1. pc'[c] = "idle" /\ want' = want /\ pc[c] = "parity"
      BY <2>7 DEF WriteParity, ParityDone
    <3>2. CopiesCurrent'
      BY <2>1, <3>1 DEF CopiesCurrent
    <3>3. ASSUME NEW f \in Field \ {"PARITY"} PROVE rtc'[f] = rtc[f]
      <4>1. rtc'[f] = IF RegOf(f) = "AL_DOW" THEN tmp[c][f] ELSE rtc[f]
        BY <2>7 DEF WriteParity, ParityDone, WriteReg, SetField
      <4> QED BY <1>5, <3>1, <4>1 DEF CopiesCurrent
    <3> QED BY <2>2, <3>1, <3>2, <3>3 DEF SerialRecordExact
  <2> QED BY <2>3, <2>4, <2>5, <2>6, <2>7 DEF WriterStep
<1>6. ASSUME disturbed PROVE CopiesCurrent' /\ SerialRecordExact'
  BY <1>1, <1>6 DEF CopiesCurrent, SerialRecordExact
<1> QED BY <1>2, <1>4, <1>5, <1>6

LEMMA PowerDownSerial == TypeOK /\ SerialInv /\ PowerDown => SerialInv'
<1> SUFFICES ASSUME TypeOK, SerialInv, PowerDown PROVE SerialInv'
  OBVIOUS
<1>1. \A c \in Caller : pc'[c] = "idle"
  BY DEF PowerDown
<1>2. bpc' = "off" /\ rpc' = "run" /\ UNCHANGED <<rtc, want, disturbed>>
  BY DEF PowerDown
<1>3. WhoIsActive' /\ ClearedSoFar' /\ OneAtATime' /\ CopiesCurrent'
  BY <1>1, <1>2 DEF WhoIsActive, ClearedSoFar, OneAtATime, CopiesCurrent
<1>4. SerialRecordExact'
  BY <1>2 DEF SerialRecordExact, SerialInv
<1> QED BY <1>3, <1>4 DEF SerialInv

LEMMA SerialInvariant == Spec => []SerialInv
<1>1. Init => SerialInv
  BY DEF Init, SerialInv, WhoIsActive, ClearedSoFar, OneAtATime, CopiesCurrent,
         SerialRecordExact, NoReg, BootBusy
<1>2. TypeOK /\ SerialInv /\ [Next]_vars => SerialInv'
  <2> SUFFICES ASSUME TypeOK, SerialInv, [Next]_vars PROVE SerialInv'
    OBVIOUS
  <2>1. ASSUME NEW r \in BootReasons, InitDriver(r) PROVE SerialInv'
    <3>1. \A c \in Caller : pc'[c] = "idle"
      BY <2>1 DEF InitDriver, callVars, SerialInv, WhoIsActive
    <3>2. bpc' = "lookup" /\ UNCHANGED <<rpc, disturbed>>
      BY <2>1 DEF InitDriver, histVars
    <3>3. WhoIsActive' /\ ClearedSoFar' /\ OneAtATime' /\ CopiesCurrent'
      BY <3>1, <3>2 DEF WhoIsActive, ClearedSoFar, OneAtATime, CopiesCurrent
    <3>4. SerialRecordExact'
      BY <2>1 DEF InitDriver, SerialInv, SerialRecordExact, histVars
    <3> QED BY <3>3, <3>4 DEF SerialInv
  <2>2. CASE InitNoMemory
    <3>1. bpc = "off" /\ bpc' = "failed" /\ UNCHANGED <<rtc, pc, tmp, kind, rpc, disturbed, want>>
      BY <2>2 DEF InitNoMemory, callVars, histVars
    <3> QED BY <3>1 DEF SerialInv, WhoIsActive, ClearedSoFar, OneAtATime,
                        CopiesCurrent, SerialRecordExact, BootBusy
  <2>3. CASE InitStep
    BY <2>3, InitStepSerial
  <2>4. ASSUME NEW c \in Threads, NEW q \in Requests, SetReason(c, q[1], q[2])
        PROVE  SerialInv'
    <3>1. c \in Caller /\ q[1] \in Kind
      BY SolAssumption DEF Caller
    <3>2. Call(c, q[1], q[2]) /\ UNCHANGED bootVars /\ bpc = "up" /\ rpc' = rpc
      BY <2>4 DEF SetReason
    <3> QED BY <3>1, <3>2, CallSerial
  <2>5. ASSUME NEW c \in Caller, WriterStep(c) PROVE SerialInv'
    BY <2>5, WriterStepSerial
  <2>6. CASE mtk_rtc_mark_sw_lprst
    BY <2>6, BothMark, MarkSerial DEF mtk_rtc_mark_sw_lprst
  <2>7. CASE RebootModeRegister \/ RebootModeClear
    <3>1. CASE RebootModeRegister
      BY <3>1 DEF RebootModeRegister, bootVars, callVars, histVars, SerialInv,
         WhoIsActive, ClearedSoFar, OneAtATime, CopiesCurrent, SerialRecordExact,
         BootBusy
    <3>2. CASE RebootModeClear
      BY <3>2, BothMark, MarkSerial DEF RebootModeClear
    <3> QED BY <2>7, <3>1, <3>2
  <2>8. CASE RebootNotify
    <3>1. Reboot \in Caller /\ "BOOT" \in Kind /\ "SHUTDOWN" \in Kind
      BY DEF Caller, Kind
    <3>2. /\ rpc' = "notify" /\ rpc = "run" /\ bpc \notin {"off", "failed"}
          /\ UNCHANGED bootVars
      BY <2>8 DEF RebootNotify
    <3>3. CASE Call(Reboot, "BOOT", "WARMBOOT_BY_SW")
      BY <3>1, <3>2, <3>3, CallSerial
    <3>4. CASE Call(Reboot, "SHUTDOWN", "SHUTDOWN_BY_SW")
      BY <3>1, <3>2, <3>4, CallSerial
    <3>5. CASE UNCHANGED <<rtc, callVars, histVars>>
      BY <3>2, <3>5 DEF bootVars, callVars, histVars, SerialInv, WhoIsActive,
         ClearedSoFar, OneAtATime, CopiesCurrent, SerialRecordExact, BootBusy
    <3> QED BY <2>8, <3>3, <3>4, <3>5 DEF RebootNotify
  <2>9. ASSUME NEW q \in {0, 1}, RebootModeNotify(q) PROVE SerialInv'
    <3>1. rpc = "notify" /\ rpc' = "down" /\ bpc \notin {"off", "failed"}
      BY <2>9 DEF RebootModeNotify, SerialInv, WhoIsActive
    <3>2. CASE rtc_mark_quiescent(q)
      BY <3>1, <3>2, BothMark, MarkSerial
    <3>3. CASE UNCHANGED <<rtc, callVars, bootVars, histVars>>
      BY <3>1, <3>3 DEF bootVars, callVars, histVars, SerialInv, WhoIsActive,
         ClearedSoFar, OneAtATime, CopiesCurrent, SerialRecordExact, BootBusy
    <3> QED BY <2>9, <3>2, <3>3 DEF RebootModeNotify
  <2>12. CASE AccessFails
    BY <2>12, AccessFailsSerial
  <2>10. CASE MachineDown \/ Crash
    BY <2>10, PowerDownSerial DEF MachineDown, Crash
  <2>11. CASE UNCHANGED vars
    BY <2>11 DEF vars, callVars, bootVars, histVars, SerialInv, WhoIsActive,
       ClearedSoFar, OneAtATime, CopiesCurrent, SerialRecordExact, BootBusy
  <2> QED BY <2>1, <2>2, <2>3, <2>4, <2>5, <2>6, <2>7, <2>8, <2>9, <2>10, <2>11, <2>12
          DEF Next
<1> QED BY <1>1, <1>2, TypeCorrect, PTL DEF Spec

(***************************************************************************)
(* For any number of callers: unless two operations overlapped, every      *)
(* field of both registers but the parity bit holds what the last          *)
(* operation on it wrote.                                                  *)
(***************************************************************************)
THEOREM SerialOperationsKeepRecord == Spec => []SerialRecordExact
<1>1. SerialInv => SerialRecordExact
  BY DEF SerialInv
<1> QED BY <1>1, SerialInvariant, PTL
=============================================================================
