----------------------- MODULE SignOfLifeReportProofs -----------------------
(***************************************************************************)
(* Proofs about what dev_sol_init reports: the parity bit that guards the  *)
(* record, the reason that the lookup selects, and the refinement of       *)
(* LifeCycleRecord by the behaviours without overlapping operations.       *)
(***************************************************************************)
EXTENDS SignOfLifeProofs

-----------------------------------------------------------------------------
(* The parity loop.                                                        *)

(* What the loop of get_sign_of_life_parity has before its round n.        *)
PartialParity(n) ==
  ( (IF n > 1 THEN CodeParity(rtc["BOOT"]) ELSE 0)
  + (IF n > 2 THEN CodeParity(rtc["SHUTDOWN"]) ELSE 0)
  + (IF n > 3 THEN CodeParity(rtc["THERMAL_SHUTDOWN"]) ELSE 0)
  + (IF n > 4 THEN CodeParity(rtc["SPECIAL"]) ELSE 0) ) % 2

-----------------------------------------------------------------------------
(* The reason read for a kind, from a record whose parity is right or not. *)
ReadAs(k) ==
  LET r == search_lcr_by_rtc(k, rtc[k])
  IN  IF ~Intact THEN RTC_CHECK_FAIL
      ELSE IF k = "BOOT" /\ r = NOT_AVAILABLE THEN lcr_boot ELSE r

(***************************************************************************)
(* The inductive invariant.  Without overlap: an operation between its two *)
(* writes has the parity of the rounds it has done ...                     *)
(***************************************************************************)
ParitySoFar ==
  \A c \in Caller :
    /\ ~disturbed /\ pc[c] = "parity" => x[c] = PartialParity(i[c])
    /\ pc[c] # "parity" => x[c] = 0 /\ i[c] = 1

(* ... every finished operation left a record whose parity is right ...    *)
Unfinished ==
  \/ torn
  \/ \E c \in Caller : pc[c] \in {"readpar", "parity"}
  \/ bpc = "clear" /\ bk # 1
IntactWhenFinished == ~disturbed /\ ~Unfinished => Intact

(* ... and the lookup has read, and summed up, the record as it still is.  *)
LookupCurrent ==
  ~disturbed /\ bpc = "lookup" =>
    /\ bi > 0 => bx = PartialParity(bi) /\ bcode = rtc[KindSeq[bk]]
    /\ \A j \in 1..4 : j < bk => got[KindSeq[j]] = ReadAs(KindSeq[j])

(* Before the lookup nothing is left of the boot before.                   *)
LookupFresh ==
  /\ bpc \in {"off", "failed", "lookup"} => reported = NOT_AVAILABLE
  /\ bpc \in {"off", "failed"} => got = NoReason /\ bk = 1
  /\ bpc # "lookup" => bi = 0
  /\ bpc \notin {"off", "failed"} => lcr_boot \in BootReasons

ReportInv == ParitySoFar /\ IntactWhenFinished /\ LookupCurrent /\ ReportExact

(* A reason that was asked for, the command line's, or none.               *)
AskedReason(r) ==
  \/ r \in {NOT_AVAILABLE, RTC_CHECK_FAIL, lcr_boot}
  \/ \E k \in Kind : \E c \in Askable[k] : r = search_lcr_by_rtc(k, c)
LookupAsked ==
  /\ bpc = "lookup" /\ bi > 0 => bcode \in Held(KindSeq[bk])
  /\ \A k \in Kind : AskedReason(got[k])
  /\ AskedReason(reported)

(* Only dev_sol_init and a power-down touch the variables of dev_sol_init. *)
LEMMA BootSteps ==
  ASSUME [Next]_vars
  PROVE  \/ \E r \in BootReasons : InitDriver(r)
         \/ InitNoMemory
         \/ InitStep
         \/ LookupFails \/ ClearFails
         \/ PowerDown
         \/ UNCHANGED bootVars
<1>1. ASSUME NEW c \in Threads, NEW q \in Requests, SetReason(c, q[1], q[2])
      PROVE  UNCHANGED bootVars
  BY <1>1 DEF SetReason
<1>2. ASSUME NEW c \in Caller, WriterStep(c) PROVE UNCHANGED bootVars
  BY <1>2 DEF WriterStep, WriteReadReason, WriteReason, ReasonDone, WriteReadParity,
              WriteComputeParity, WriteParity, ParityDone
<1>3. mtk_rtc_mark_sw_lprst \/ RebootModeRegister \/ RebootModeClear \/ RebootNotify
      => UNCHANGED bootVars
  BY DEF mtk_rtc_mark_sw_lprst, RebootModeRegister, RebootModeClear, RebootNotify,
         rtc_mark_quiescent, Mark
<1>4. ASSUME NEW q \in {0, 1}, RebootModeNotify(q) PROVE UNCHANGED bootVars
  BY <1>4 DEF RebootModeNotify, rtc_mark_quiescent, Mark
<1>6. AccessFails => LookupFails \/ ClearFails \/ UNCHANGED bootVars
  BY DEF AccessFails, WriterFails
<1>5. UNCHANGED vars => UNCHANGED bootVars
  BY DEF vars
<1> QED BY <1>1, <1>2, <1>3, <1>4, <1>5, <1>6 DEF Next, MachineDown, Crash

LEMMA LookupFreshInvariant == Spec => []LookupFresh
<1>1. Init => LookupFresh
  BY DEF Init, LookupFresh
<1>2. LookupFresh /\ [Next]_vars => LookupFresh'
  <2> SUFFICES ASSUME LookupFresh, [Next]_vars PROVE LookupFresh'
    OBVIOUS
  <2>1. ASSUME NEW r \in BootReasons, InitDriver(r) PROVE LookupFresh'
    BY <2>1 DEF InitDriver, LookupFresh
  <2>2. CASE InitNoMemory
    BY <2>2 DEF InitNoMemory, LookupFresh
  <2>3. CASE InitStep
    BY <2>3 DEF InitStep, LookupRead, LookupParity, LookupCheck, Judge, KeepForCharger,
                BeginClear, ClearReason, ClearParity, LookupFresh
  <2>4. CASE PowerDown
    BY <2>4 DEF PowerDown, LookupFresh
  <2>5. CASE UNCHANGED bootVars
    BY <2>5 DEF bootVars, LookupFresh
  <2>6. CASE LookupFails \/ ClearFails
    BY <2>6 DEF LookupFails, Judge, ClearFails, LookupFresh
  <2> QED BY <2>1, <2>2, <2>3, <2>4, <2>5, <2>6, BootSteps
<1> QED BY <1>1, <1>2, PTL DEF Spec

-----------------------------------------------------------------------------
(* A field of the record decodes to a reason that was asked for, or none.  *)
LEMMA HeldReason ==
  ASSUME NEW k \in Kind, NEW c \in Held(k)
  PROVE  AskedReason(search_lcr_by_rtc(k, c))
<1>1. CASE c \in Askable[k]
  BY <1>1 DEF AskedReason
<1>2. CASE c = 0
  <2>1. search_lcr_by_rtc(k, c) = NOT_AVAILABLE
    BY <1>2 DEF search_lcr_by_rtc
  <2> QED BY <2>1 DEF AskedReason
<1> QED BY <1>1, <1>2 DEF Held

LEMMA JudgeAsked ==
  ASSUME TypeOK, LookupAsked, NEW p, Judge(p), lcr_boot' = lcr_boot
  PROVE  LookupAsked'
<1> DEFINE k == KindSeq[bk]
           read == IF p = bx THEN search_lcr_by_rtc(k, bcode) ELSE RTC_CHECK_FAIL
           r == IF k = "BOOT" /\ read = NOT_AVAILABLE THEN lcr_boot ELSE read
           all == [got EXCEPT ![k] = r]
<1>1. k \in Kind /\ bcode \in Held(k)
  BY KindSeqType DEF Judge, TypeOK, BootTypeOK, LookupAsked
<1>2. AskedReason(read)
  BY <1>1, HeldReason DEF AskedReason
<1>3. AskedReason(r)
  BY <1>2 DEF AskedReason
<1>4. \A m \in Kind : AskedReason(all[m])
  BY <1>1, <1>3 DEF LookupAsked, TypeOK, BootTypeOK
<1>5. AskedReason(NOT_AVAILABLE)
  BY DEF AskedReason
<1>6. AskedReason(SelectReason(all))
  BY <1>4, <1>5, SelectReasonChoice
<1>7. /\ bi' = 0
      /\ \/ got' = all /\ reported' = reported
         \/ got' = NoReason /\ reported' = SelectReason(all)
  BY DEF Judge
<1>8. \A m \in Kind : AskedReason(NoReason[m])
  BY <1>5 DEF NoReason
<1>9. \A m : AskedReason(m)' <=> AskedReason(m)
  BY DEF AskedReason, Askable
<1> HIDE DEF all
<1> QED BY <1>4, <1>6, <1>7, <1>8, <1>9 DEF LookupAsked

(* Read as 0, a register decodes to no reason.                             *)
LEMMA FailsAsked ==
  ASSUME TypeOK, LookupAsked, LookupFails \/ ClearFails
  PROVE  LookupAsked'
<1>1. lcr_boot' = lcr_boot
  BY DEF LookupFails, ClearFails
<1>2. \A m : AskedReason(m)' <=> AskedReason(m)
  BY <1>1 DEF AskedReason, Askable
<1>3. CASE Judge(0)
  BY <1>1, <1>3, JudgeAsked
<1>4. CASE LookupFails /\ ~Judge(0)
  <2>1. UNCHANGED <<bk, got, reported>> /\ (bcode' = 0 \/ (bcode' = bcode /\ bi > 0 /\ bpc = "lookup"))
    BY <1>4 DEF LookupFails
  <2>2. 0 \in Held(KindSeq[bk])
    BY DEF Held
  <2> QED BY <1>2, <2>1, <2>2 DEF LookupAsked, Held, Askable
<1>5. CASE ClearFails
  <2>1. UNCHANGED <<got, reported>> /\ bpc' # "lookup"
    BY <1>5 DEF ClearFails
  <2> QED BY <1>2, <2>1 DEF LookupAsked
<1> QED BY <1>3, <1>4, <1>5

LEMMA InitStepAsked ==
  ASSUME TypeOK, OnlyAsked, LookupAsked, InitStep
  PROVE  LookupAsked'
<1>0. lcr_boot' = lcr_boot
  BY DEF InitStep, LookupRead, LookupParity, LookupCheck, Judge, KeepForCharger,
         BeginClear, ClearReason, ClearParity
<1>a. \A r : AskedReason(r)' <=> AskedReason(r)
  BY <1>0 DEF AskedReason, Askable
<1>1. CASE LookupRead
  <2>1. KindSeq[bk] \in Kind
    BY <1>1, KindSeqType DEF LookupRead, TypeOK, BootTypeOK
  <2>2. bcode' \in Held(KindSeq[bk])
    BY <1>1, <2>1 DEF LookupRead, OnlyAsked
  <2>3. UNCHANGED <<bk, got, reported>>
    BY <1>1 DEF LookupRead
  <2> QED BY <1>a, <2>2, <2>3 DEF LookupAsked, Held, Askable
<1>2. CASE LookupParity
  <2>1. UNCHANGED <<bk, bcode, got, reported>> /\ bpc = "lookup" /\ bi > 0
    BY <1>2 DEF LookupParity
  <2> QED BY <1>a, <2>1 DEF LookupAsked, Held, Askable
<1>3. CASE LookupCheck
  BY <1>3, JudgeAsked DEF LookupCheck
<1>4. CASE KeepForCharger \/ BeginClear \/ ClearReason \/ ClearParity
  <2>1. UNCHANGED <<got, reported>> /\ bpc' # "lookup"
    BY <1>4 DEF KeepForCharger, BeginClear, ClearReason, ClearParity
  <2> QED BY <1>a, <2>1 DEF LookupAsked
<1> QED BY <1>1, <1>2, <1>3, <1>4 DEF InitStep

(***************************************************************************)
(* For any callers and requests, and also when operations overlapped: the  *)
(* reason that dev_sol_init shows was asked for by some caller, came from  *)
(* the command line, or says that there is none or that the check failed.  *)
(***************************************************************************)
THEOREM ReportedWasAsked == Spec => []ReportAsked
<1>1. Init => LookupAsked
  BY DEF Init, LookupAsked, AskedReason, NoReason
<1>2. TypeOK /\ OnlyAsked /\ LookupFresh /\ LookupAsked /\ [Next]_vars => LookupAsked'
  <2> SUFFICES ASSUME TypeOK, OnlyAsked, LookupFresh, LookupAsked, [Next]_vars
               PROVE  LookupAsked'
    OBVIOUS
  <2>0. AskedReason(NOT_AVAILABLE)' /\ \A k \in Kind : NoReason[k] = NOT_AVAILABLE
    BY DEF AskedReason, NoReason
  <2>1. ASSUME NEW r \in BootReasons, InitDriver(r) PROVE LookupAsked'
    <3>1. got' = NoReason /\ reported' = NOT_AVAILABLE /\ bi' = 0
      BY <2>1 DEF InitDriver, LookupFresh
    <3> QED BY <2>0, <3>1 DEF LookupAsked
  <2>2. CASE InitStep
    BY <2>2, InitStepAsked
  <2>3. CASE PowerDown
    <3>1. got' = NoReason /\ reported' = NOT_AVAILABLE /\ bi' = 0
      BY <2>3 DEF PowerDown
    <3> QED BY <2>0, <3>1 DEF LookupAsked
  <2>4. CASE UNCHANGED bootVars \/ InitNoMemory
    BY <2>4 DEF bootVars, InitNoMemory, LookupAsked, AskedReason, Held, Askable
  <2>5. CASE LookupFails \/ ClearFails
    BY <2>5, FailsAsked
  <2> QED BY <2>1, <2>2, <2>3, <2>4, <2>5, BootSteps
<1>3. LookupAsked => ReportAsked
  BY DEF LookupAsked, AskedReason, ReportAsked
<1> QED BY <1>1, <1>2, <1>3, LookupFreshInvariant, TypeCorrect, OnlyAskedInvariant, PTL DEF Spec

-----------------------------------------------------------------------------
(* The parity bit and the lookup, without overlap.                         *)

LEMMA CodeParityBit == \A c \in Code : CodeParity(c) \in {0, 1}
BY DEF CodeParity, Code

LEMMA KindParityBit ==
  ASSUME rtc \in [Field -> Code], NEW k \in Kind
  PROVE  CodeParity(rtc[k]) \in {0, 1}
BY CodeParityBit, KindIsField

(* A round of the loop adds its kind; all four make the record's parity.   *)
LEMMA PartialParityRound ==
  ASSUME rtc \in [Field -> Code], NEW n \in 1..4
  PROVE  ParityRound(PartialParity(n), n) = PartialParity(n + 1)
<1>1. /\ CodeParity(rtc["BOOT"]) \in {0, 1}
      /\ CodeParity(rtc["SHUTDOWN"]) \in {0, 1}
      /\ CodeParity(rtc["THERMAL_SHUTDOWN"]) \in {0, 1}
      /\ CodeParity(rtc["SPECIAL"]) \in {0, 1}
  BY KindParityBit DEF Kind
<1>2. CASE n = 1
  BY <1>1, <1>2 DEF ParityRound, PartialParity, Xor, KindSeq
<1>3. CASE n = 2
  BY <1>1, <1>3 DEF ParityRound, PartialParity, Xor, KindSeq
<1>4. CASE n = 3
  BY <1>1, <1>4 DEF ParityRound, PartialParity, Xor, KindSeq
<1>5. CASE n = 4
  BY <1>1, <1>5 DEF ParityRound, PartialParity, Xor, KindSeq
<1> QED BY <1>2, <1>3, <1>4, <1>5

LEMMA PartialParityEnds ==
  PartialParity(1) = 0 /\ PartialParity(5) = RecordParity % 2
BY DEF PartialParity, RecordParity

(* The parities depend on the fields of the record only.                   *)
RecordSame == \A f \in Kind \cup {"PARITY"} : rtc'[f] = rtc[f]
LEMMA SameParity ==
  ASSUME RecordSame
  PROVE  /\ \A n : PartialParity(n)' = PartialParity(n)
         /\ Intact' <=> Intact
         /\ lcr_boot' = lcr_boot => \A k \in Kind : ReadAs(k)' = ReadAs(k)
<1>1. /\ rtc'["BOOT"] = rtc["BOOT"] /\ rtc'["SHUTDOWN"] = rtc["SHUTDOWN"]
      /\ rtc'["THERMAL_SHUTDOWN"] = rtc["THERMAL_SHUTDOWN"]
      /\ rtc'["SPECIAL"] = rtc["SPECIAL"] /\ rtc'["PARITY"] = rtc["PARITY"]
  BY DEF RecordSame, Kind
<1>2. \A n : PartialParity(n)' = PartialParity(n)
  BY <1>1 DEF PartialParity
<1>3. Intact' <=> Intact
  BY <1>1 DEF Intact, RecordParity
<1>4. ASSUME lcr_boot' = lcr_boot, NEW k \in Kind PROVE ReadAs(k)' = ReadAs(k)
  BY <1>3, <1>4 DEF ReadAs, RecordSame
<1> QED BY <1>2, <1>3, <1>4

(***************************************************************************)
(* A step that starts at most a call and changes at most a flag keeps the  *)
(* invariant.                                                              *)
(***************************************************************************)
QuietStep ==
  /\ RecordSame
  /\ \A k \in Kind : want'[k] = want[k]
  /\ \A c \in Caller : pc'[c] = pc[c] \/ (pc[c] = "idle" /\ pc'[c] = "read")
  /\ disturbed => disturbed'
  /\ UNCHANGED <<i, x, torn, bootVars>>

(* A step in which an access fails: little is claimed after it.            *)
FaultStep ==
  /\ disturbed' = TRUE
  /\ \A c \in Caller :
       \/ pc'[c] = "parity"
       \/ x'[c] = 0 /\ i'[c] = 1
       \/ pc'[c] = pc[c] /\ x'[c] = x[c] /\ i'[c] = i[c]

LEMMA FaultStepReport ==
  ASSUME ReportInv, FaultStep
  PROVE  ReportInv'
BY DEF FaultStep, ReportInv, ParitySoFar, IntactWhenFinished, LookupCurrent, ReportExact

LEMMA AccessFailsFault ==
  ASSUME TypeOK, ReportInv, AccessFails
  PROVE  FaultStep
<1>1. disturbed' = TRUE
  BY DEF AccessFails
<1>2. CASE LookupFails \/ ClearFails
  BY <1>1, <1>2 DEF LookupFails, ClearFails, callVars, FaultStep
<1>3. ASSUME NEW c \in Caller, WriterFails(c) PROVE FaultStep
  <2>1. ASSUME NEW d \in Caller \ {c} PROVE pc'[d] = pc[d] /\ x'[d] = x[d] /\ i'[d] = i[d]
    <3>1. pc \in [Caller -> {"idle", "read", "write", "readpar", "parity"}]
          /\ x \in [Caller -> {0, 1}] /\ i \in [Caller -> 1..5]
      BY DEF TypeOK, CallerTypeOK
    <3>2. CASE ReasonDone(c)
      BY <2>1, <3>1, <3>2 DEF ReasonDone
    <3>3. CASE ParityDone(c)
      BY <2>1, <3>1, <3>3 DEF ParityDone
    <3> QED BY <1>3, <2>1, <3>1, <3>2, <3>3 DEF WriterFails
  <2>2. pc'[c] = "parity" \/ (x'[c] = 0 /\ i'[c] = 1)
    BY <1>3 DEF WriterFails, ReasonDone, ParityDone, ReportInv, ParitySoFar, TypeOK, CallerTypeOK
  <2> QED BY <1>1, <2>1, <2>2 DEF FaultStep
<1> QED BY <1>2, <1>3 DEF AccessFails

LEMMA QuietStepReport ==
  ASSUME TypeOK, ReportInv, QuietStep
  PROVE  ReportInv'
<1> USE DEF QuietStep, ReportInv, bootVars
<1>1. ParitySoFar'
  BY SameParity DEF ParitySoFar
<1>2. Unfinished' <=> Unfinished
  BY DEF Unfinished
<1>3. IntactWhenFinished'
  BY <1>2, SameParity DEF IntactWhenFinished
<1>4. LookupCurrent'
  <2>1. \A j \in 1..4 : ReadAs(KindSeq[j])' = ReadAs(KindSeq[j])
    BY SameParity, KindSeqType
  <2>2. bpc = "lookup" => rtc'[KindSeq[bk]] = rtc[KindSeq[bk]]
    BY KindSeqType DEF RecordSame, TypeOK, BootTypeOK
  <2> QED BY <2>1, <2>2, SameParity DEF LookupCurrent
<1>5. ReportExact'
  <2>1. Expected(want)' = Expected(want)
    BY DEF Expected
  <2> QED BY <2>1 DEF ReportExact
<1> QED BY <1>1, <1>3, <1>4, <1>5

(* If all four kinds fail the check, that is what is reported.             *)
LEMMA SelectConstant ==
  ASSUME NEW g, \A k \in Kind : g[k] = RTC_CHECK_FAIL
  PROVE  SelectReason(g) = RTC_CHECK_FAIL
<1>1. RTC_CHECK_FAIL \in lcr_data /\ LookupOrder[1] \in Kind
  BY DEF lcr_data, LookupOrder, Kind
<1>2. 1 \in {n \in 1..4 : g[LookupOrder[n]] \in lcr_data}
  BY <1>1
<1>3. {n \in 1..4 : g[LookupOrder[n]] \in lcr_data} # {}
  BY <1>2
<1>4. \E n \in 1..4 : SelectReason(g) = g[LookupOrder[n]]
  <2> DEFINE rows == {n \in 1..4 : g[LookupOrder[n]] \in lcr_data}
             first == CHOOSE n \in rows : \A j \in rows : n <= j
  <2>1. \E n \in rows : \A j \in rows : n <= j
    BY <1>2
  <2>2. first \in rows
    <3> HIDE DEF rows
    <3> QED BY <2>1
  <2>3. SelectReason(g) = g[LookupOrder[first]]
    BY <1>3 DEF SelectReason
  <2> HIDE DEF first
  <2> QED BY <2>2, <2>3
<1>5. \A n \in 1..4 : LookupOrder[n] \in Kind
  BY DEF LookupOrder, Kind
<1> QED BY <1>4, <1>5

(* The check and the translation of one kind, in the middle of a lookup.   *)
LEMMA LookupCheckReads ==
  ASSUME TypeOK, LookupCurrent, ~disturbed, LookupCheck
  PROVE  LET k == KindSeq[bk]
             all == [got EXCEPT ![k] = ReadAs(k)]
         IN  /\ k \in Kind
             /\ \A j \in 1..4 : j <= bk => all[KindSeq[j]] = ReadAs(KindSeq[j])
             /\ all \in [Kind -> Reason]
             /\ \/ bk < 4 /\ bk' = bk + 1 /\ got' = all /\ UNCHANGED <<bpc, reported>>
                \/ /\ bk = 4 /\ bpc' = "decide" /\ bk' = 1
                   /\ reported' = SelectReason(all)
<1> DEFINE k == KindSeq[bk]
           read == IF rtc["PARITY"] = bx THEN search_lcr_by_rtc(k, bcode)
                   ELSE RTC_CHECK_FAIL
           r == IF k = "BOOT" /\ read = NOT_AVAILABLE THEN lcr_boot ELSE read
           all == [got EXCEPT ![k] = ReadAs(k)]
<1>1. bpc = "lookup" /\ bi = 5 /\ bk \in 1..4
  BY DEF LookupCheck, Judge, TypeOK, BootTypeOK
<1>2. k \in Kind
  BY <1>1, KindSeqType
<1>3. bx = RecordParity % 2 /\ bcode = rtc[k]
  BY <1>1, PartialParityEnds DEF LookupCurrent
<1>4. rtc["PARITY"] = bx <=> Intact
  BY <1>3 DEF Intact
<1>5. r = ReadAs(k)
  <2>1. RTC_CHECK_FAIL # NOT_AVAILABLE
    BY DEF RTC_CHECK_FAIL, NOT_AVAILABLE
  <2> QED BY <1>3, <1>4, <2>1 DEF ReadAs
<1>6. ReadAs(k) \in Reason
  <2>1. rtc[k] \in Code
    BY <1>2, KindIsField DEF TypeOK
  <2> QED BY <1>2, <2>1, ReasonType DEF ReadAs, TypeOK, BootTypeOK
<1>7. all \in [Kind -> Reason]
  BY <1>2, <1>6 DEF TypeOK, BootTypeOK
<1>8. \A j \in 1..4 : j <= bk => all[KindSeq[j]] = ReadAs(KindSeq[j])
  BY <1>1, <1>2, KindSeqType DEF LookupCurrent, TypeOK, BootTypeOK
<1>9. \/ bk < 4 /\ bk' = bk + 1 /\ got' = [got EXCEPT ![k] = r] /\ UNCHANGED <<bpc, reported>>
      \/ /\ bk = 4 /\ bpc' = "decide" /\ bk' = 1
         /\ reported' = SelectReason([got EXCEPT ![k] = r])
  BY DEF LookupCheck, Judge
<1> HIDE DEF r
<1> QED BY <1>2, <1>5, <1>7, <1>8, <1>9

(* The selection is the one the record calls for, or the failed check.     *)
LEMMA LookupSelects ==
  ASSUME TypeOK, LookupCurrent, SerialRecordExact, ~disturbed, LookupCheck, bk = 4
  PROVE  reported' = IF Intact THEN Expected(want) ELSE RTC_CHECK_FAIL
<1> DEFINE all == [got EXCEPT ![KindSeq[bk]] = ReadAs(KindSeq[bk])]
<1>1. /\ \A j \in 1..4 : all[KindSeq[j]] = ReadAs(KindSeq[j])
      /\ all \in [Kind -> Reason]
      /\ reported' = SelectReason(all)
  BY LookupCheckReads
<1>2. \A k \in Kind : \E j \in 1..4 : k = KindSeq[j]
  BY DEF Kind, KindSeq
<1>3. \A k \in Kind : all[k] = ReadAs(k)
  <2> HIDE DEF all
  <2> QED BY <1>1, <1>2
<1> HIDE DEF all
<1>4. CASE Intact
  <2>1. \A k \in Kind : rtc[k] = want[k]
    BY NotFlags, KindIsField DEF SerialRecordExact
  <2> DEFINE exp == [k \in Kind |->
                      LET r == search_lcr_by_rtc(k, want[k])
                      IN  IF k = "BOOT" /\ r = NOT_AVAILABLE THEN lcr_boot ELSE r]
  <2>2. \A k \in Kind : exp[k] = ReadAs(k)
    BY <1>4, <2>1 DEF ReadAs
  <2>3. exp = [k \in Kind |-> exp[k]] /\ all = [k \in Kind |-> all[k]]
    BY <1>1
  <2>4. Expected(want) = SelectReason(exp)
    BY DEF Expected
  <2> HIDE DEF exp
  <2>5. all = exp
    BY <1>3, <2>2, <2>3
  <2> QED BY <1>1, <1>4, <2>4, <2>5
<1>5. CASE ~Intact
  <2>1. \A k \in Kind : all[k] = RTC_CHECK_FAIL
    BY <1>3, <1>5 DEF ReadAs
  <2> QED BY <1>1, <1>5, <2>1, SelectConstant
<1> QED BY <1>4, <1>5

LEMMA InitStepReport ==
  ASSUME TypeOK, SerialInv, ReportInv, LookupFresh, InitStep
  PROVE  ReportInv'
<1> USE DEF ReportInv, SerialInv
<1>1. CASE LookupRead \/ LookupParity \/ LookupCheck
  <2>1. UNCHANGED <<rtc, callVars, histVars, lcr_boot>> /\ bpc = "lookup" /\ bk \in 1..4
    BY <1>1 DEF LookupRead, LookupParity, LookupCheck, Judge, TypeOK, BootTypeOK
  <2>2. bpc' = "lookup" \/ (bpc' = "decide" /\ LookupCheck /\ bk = 4)
    BY <1>1 DEF LookupRead, LookupParity, LookupCheck, Judge
  <2>3. RecordSame
    BY <2>1 DEF RecordSame
  <2>4. ParitySoFar'
    BY <2>1, <2>3, SameParity DEF ParitySoFar, callVars, histVars
  <2>5. Unfinished' <=> Unfinished
    BY <2>1, <2>2 DEF Unfinished, callVars, histVars
  <2>6. IntactWhenFinished'
    BY <2>1, <2>3, <2>5, SameParity DEF IntactWhenFinished, histVars
  <2>7. \A j \in 1..4 : ReadAs(KindSeq[j])' = ReadAs(KindSeq[j])
    BY <2>1, <2>3, SameParity, KindSeqType
  <2>8. LookupCurrent'
    <3>1. CASE LookupRead
      <4>1. PartialParity(bi)' = 0 /\ bx' = 0 /\ bcode' = rtc[KindSeq[bk]]
            /\ UNCHANGED <<bk, got, disturbed, rtc>>
        BY <2>1, <2>3, <3>1, SameParity, PartialParityEnds DEF LookupRead, histVars
      <4> QED BY <2>1, <2>7, <4>1 DEF LookupCurrent
    <3>2. CASE LookupParity
      <4>1. ParityRound(PartialParity(bi), bi) = PartialParity(bi + 1)
        BY <3>2, PartialParityRound DEF LookupParity, TypeOK
      <4>2. PartialParity(bi)' = PartialParity(bi + 1)
        BY <2>3, <3>2, SameParity DEF LookupParity
      <4>3. bi > 0 /\ bx' = ParityRound(bx, bi) /\ UNCHANGED <<bk, got, disturbed, rtc, bcode>>
        BY <2>1, <3>2 DEF LookupParity, histVars
      <4> QED BY <2>1, <2>7, <4>1, <4>2, <4>3 DEF LookupCurrent
    <3>3. CASE LookupCheck
      <4>1. bi' = 0 /\ disturbed' = disturbed
        BY <2>1, <3>3 DEF LookupCheck, Judge, histVars
      <4>2. ASSUME ~disturbed, bpc' = "lookup", NEW j \in 1..4, j < bk'
            PROVE  got'[KindSeq[j]] = ReadAs(KindSeq[j])
        <5>1. /\ bk' = bk + 1
              /\ got' = [got EXCEPT ![KindSeq[bk]] = ReadAs(KindSeq[bk])]
              /\ \A m \in 1..4 : m <= bk => got'[KindSeq[m]] = ReadAs(KindSeq[m])
          BY <3>3, <4>2, LookupCheckReads
        <5> QED BY <2>1, <4>2, <5>1
      <4> QED BY <2>7, <4>1, <4>2 DEF LookupCurrent
    <3> QED BY <1>1, <3>1, <3>2, <3>3
  <2>9. ReportExact'
    <3>1. CASE bpc' = "lookup"
      BY <3>1 DEF ReportExact
    <3>2. CASE LookupCheck /\ bk = 4 /\ ~disturbed
      <4>1. reported' = IF Intact THEN Expected(want) ELSE RTC_CHECK_FAIL
        BY <3>2, LookupSelects
      <4>2. Expected(want)' = Expected(want)
        BY <2>1 DEF Expected, histVars
      <4>3. ~torn => Intact
        <5>1. \A c \in Caller : pc[c] = "idle"
          BY <2>1, <3>2 DEF OneAtATime, BootBusy
        <5> QED BY <2>1, <3>2, <5>1 DEF IntactWhenFinished, Unfinished
      <4> QED BY <2>1, <4>1, <4>2, <4>3 DEF ReportExact, histVars
    <3>3. CASE disturbed
      BY <2>1, <3>3 DEF ReportExact, histVars
    <3> QED BY <2>2, <3>1, <3>2, <3>3
  <2> QED BY <2>4, <2>6, <2>8, <2>9
<1>2. CASE KeepForCharger \/ BeginClear
  <2>1. /\ UNCHANGED <<rtc, callVars, histVars>> /\ bk = 1 /\ bk' = 1
        /\ bpc = "decide" /\ bpc' \in {"up", "clear"}
    BY <1>2 DEF KeepForCharger, BeginClear, ClearedSoFar
  <2>2. RecordSame
    BY <2>1 DEF RecordSame
  <2>3. ParitySoFar'
    BY <2>1, <2>2, SameParity DEF ParitySoFar, callVars, histVars
  <2>4. IntactWhenFinished'
    BY <2>1, <2>2, SameParity DEF IntactWhenFinished, Unfinished, callVars, histVars
  <2>5. LookupCurrent' /\ ReportExact'
    BY <2>1 DEF LookupCurrent, ReportExact
  <2> QED BY <2>3, <2>4, <2>5
<1>3. CASE ClearReason
  <2>1. /\ UNCHANGED <<callVars, disturbed>> /\ bpc = "clear" /\ bpc' = "clear" /\ bk' # 1
    BY <1>3 DEF ClearReason, TypeOK, BootTypeOK
  <2>2. ParitySoFar'
    BY <2>1 DEF ParitySoFar, OneAtATime, BootBusy, callVars
  <2>3. IntactWhenFinished' /\ LookupCurrent' /\ ReportExact'
    BY <2>1 DEF IntactWhenFinished, Unfinished, LookupCurrent, ReportExact
  <2> QED BY <2>2, <2>3
<1>4. CASE ClearParity
  <2>1. /\ UNCHANGED <<callVars, rpc>> /\ bpc = "clear" /\ bpc' = "up" /\ bk = 5
        /\ rtc' = [rtc EXCEPT !["PARITY"] = 0]
        /\ ~disturbed' => ~disturbed \/ (rpc = "run" /\ \A k \in Kind : rtc[k] = 0)
    BY <1>4 DEF ClearParity
  <2>2. ASSUME ~disturbed' PROVE \A c \in Caller : pc'[c] = "idle"
    BY <2>1, <2>2 DEF OneAtATime, BootBusy, WhoIsActive, callVars
  <2>3. ParitySoFar'
    BY <2>1, <2>2 DEF ParitySoFar, callVars
  <2>4. ASSUME ~disturbed' PROVE Intact'
    <3>1. \A j \in 1..4 : rtc[KindSeq[j]] = 0
      BY <2>1, <2>4, KindSeqType DEF ClearedSoFar
    <3>2. /\ rtc'["BOOT"] = 0 /\ rtc'["SHUTDOWN"] = 0 /\ rtc'["THERMAL_SHUTDOWN"] = 0
          /\ rtc'["SPECIAL"] = 0 /\ rtc'["PARITY"] = 0
      BY <2>1, <3>1 DEF TypeOK, KindSeq, Field, Kind
    <3> QED BY <3>2 DEF Intact, RecordParity, CodeParity
  <2>5. IntactWhenFinished' /\ LookupCurrent' /\ ReportExact'
    BY <2>1, <2>4 DEF IntactWhenFinished, LookupCurrent, ReportExact
  <2> QED BY <2>3, <2>5
<1> QED BY <1>1, <1>2, <1>3, <1>4 DEF InitStep

LEMMA WriterStepReport ==
  ASSUME TypeOK, SerialInv, ReportInv, NEW c \in Caller, WriterStep(c)
  PROVE  ReportInv'
<1> USE DEF ReportInv, SerialInv, TypeOK, CallerTypeOK
<1>1. /\ pc[c] # "idle" /\ UNCHANGED <<bootVars, rpc, disturbed>>
      /\ \A d \in Caller \ {c} : pc'[d] = pc[d] /\ x'[d] = x[d] /\ i'[d] = i[d]
  BY DEF WriterStep, WriteReadReason, WriteReason, ReasonDone, WriteReadParity,
         WriteComputeParity, WriteParity, ParityDone, histVars
<1>2. ASSUME ~disturbed
      PROVE  bpc \notin {"lookup", "decide", "clear"} /\ \A d \in Caller \ {c} : pc[d] = "idle"
  BY <1>1, <1>2 DEF OneAtATime, BootBusy
<1>3. LookupCurrent' /\ ReportExact'
  BY <1>1, <1>2 DEF LookupCurrent, ReportExact, bootVars
<1>4. CASE WriteReadReason(c) \/ WriteReadParity(c) \/ WriteComputeParity(c)
  <2>1. UNCHANGED <<rtc, histVars>>
    BY <1>4 DEF WriteReadReason, WriteReadParity, WriteComputeParity
  <2>2. RecordSame
    BY <2>1 DEF RecordSame
  <2>3. IntactWhenFinished'
    <3>1. Unfinished => Unfinished'
      BY <1>1, <1>4, <2>1 DEF Unfinished, WriteReadReason, WriteReadParity,
         WriteComputeParity, bootVars, histVars
    <3> QED BY <2>1, <2>2, <3>1, SameParity DEF IntactWhenFinished, histVars
  <2>4. ParitySoFar'
    <3>1. ASSUME NEW d \in Caller, d # c
          PROVE  /\ ~disturbed' /\ pc'[d] = "parity" => x'[d] = PartialParity(i[d])'
                 /\ i'[d] = i[d]
                 /\ pc'[d] # "parity" => x'[d] = 0 /\ i'[d] = 1
      BY <1>1, <1>2, <3>1 DEF ParitySoFar
    <3>2. CASE WriteReadReason(c)
      BY <1>1, <1>2, <3>2 DEF WriteReadReason, ParitySoFar
    <3>3. CASE WriteReadParity(c)
      <4>1. x'[c] = 0 /\ i'[c] = 1 /\ pc'[c] = "parity"
        BY <3>3 DEF WriteReadParity, ParitySoFar
      <4>2. PartialParity(1)' = 0
        BY <2>2, SameParity, PartialParityEnds
      <4> QED BY <1>1, <1>2, <4>1, <4>2 DEF ParitySoFar
    <3>4. CASE WriteComputeParity(c)
      <4>1. i[c] \in 1..4 /\ pc[c] = "parity" /\ pc' = pc
            /\ x'[c] = ParityRound(x[c], i[c]) /\ i'[c] = i[c] + 1
        BY <3>4 DEF WriteComputeParity
      <4>2. ParityRound(PartialParity(i[c]), i[c]) = PartialParity(i[c] + 1)
        BY <4>1, PartialParityRound
      <4>3. \A n : PartialParity(n)' = PartialParity(n)
        BY <2>2, SameParity
      <4> QED BY <1>1, <1>2, <4>1, <4>2, <4>3 DEF ParitySoFar
    <3> QED BY <1>4, <3>2, <3>3, <3>4
  <2> QED BY <1>3, <2>3, <2>4
<1>5. CASE WriteReason(c)
  <2>1. pc[c] = "write" /\ pc'[c] = "readpar" /\ UNCHANGED <<i, x>>
    BY <1>5 DEF WriteReason, ReasonDone
  <2>2. ParitySoFar'
    BY <1>1, <1>2, <2>1 DEF ParitySoFar
  <2>3. IntactWhenFinished'
    BY <2>1 DEF IntactWhenFinished, Unfinished
  <2> QED BY <1>3, <2>2, <2>3
<1>6. CASE WriteParity(c)
  <2>1. /\ pc[c] = "parity" /\ i[c] = 5 /\ pc'[c] = "idle" /\ x'[c] = 0 /\ i'[c] = 1
        /\ rtc' = WriteReg("AL_DOW", SetField(tmp[c], "PARITY", x[c]))
    BY <1>6 DEF WriteParity, ParityDone
  <2>2. ParitySoFar'
    BY <1>1, <1>2, <2>1 DEF ParitySoFar
  <2>3. ASSUME ~disturbed PROVE Intact'
    <3>1. \A f \in Kind : rtc'[f] = rtc[f]
      <4>1. ASSUME NEW f \in Kind PROVE rtc'[f] = rtc[f]
        <5>1. f \in Field /\ f # "PARITY"
          BY KindIsField, NotFlags
        <5>2. RegOf(f) = "AL_DOW" => tmp[c][f] = rtc[f]
          BY <2>1, <2>3, <5>1 DEF CopiesCurrent
        <5> QED BY <2>1, <5>1, <5>2 DEF WriteReg, SetField
      <4> QED BY <4>1
    <3>2. rtc'["PARITY"] = x[c]
      BY <2>1, NotFlags DEF WriteReg, SetField, RegOf
    <3>3. x[c] = RecordParity % 2
      BY <2>1, <2>3, PartialParityEnds DEF ParitySoFar
    <3>4. RecordParity' = RecordParity
      BY <3>1 DEF RecordParity, Kind
    <3> QED BY <3>2, <3>3, <3>4 DEF Intact
  <2>4. IntactWhenFinished'
    BY <1>1, <2>3 DEF IntactWhenFinished
  <2> QED BY <1>3, <2>2, <2>4
<1> QED BY <1>4, <1>5, <1>6 DEF WriterStep

LEMMA PowerDownReport ==
  ASSUME TypeOK, ReportInv, PowerDown
  PROVE  ReportInv'
<1> USE DEF ReportInv
<1>1. /\ \A c \in Caller : pc'[c] = "idle" /\ x'[c] = 0 /\ i'[c] = 1
      /\ bpc' = "off" /\ UNCHANGED <<rtc, disturbed>>
  BY DEF PowerDown
<1>2. ParitySoFar'
  BY <1>1 DEF ParitySoFar
<1>3. Unfinished => torn'
  BY DEF PowerDown, Unfinished, TypeOK, BootTypeOK
<1>4. IntactWhenFinished'
  <2>1. RecordSame
    BY <1>1 DEF RecordSame
  <2> QED BY <1>1, <1>3, <2>1, SameParity DEF IntactWhenFinished, Unfinished
<1>5. LookupCurrent' /\ ReportExact'
  BY <1>1 DEF LookupCurrent, ReportExact
<1> QED BY <1>2, <1>4, <1>5

(* A call or a mark is a quiet step.                                       *)
LEMMA CallQuiet ==
  ASSUME TypeOK, NEW c \in Caller, NEW k, NEW r, Call(c, k, r), UNCHANGED bootVars
  PROVE  QuietStep
<1>1. RecordSame /\ UNCHANGED <<i, x, torn, want>>
  BY DEF Call, RecordSame
<1>2. \A d \in Caller : pc'[d] = pc[d] \/ (pc[d] = "idle" /\ pc'[d] = "read")
  BY DEF Call, TypeOK, CallerTypeOK
<1>3. disturbed => disturbed'
  BY DEF Call
<1> QED BY <1>1, <1>2, <1>3 DEF QuietStep

LEMMA MarkQuiet ==
  ASSUME TypeOK, NEW f \in {"QUIESCENT", "LPRST"}, NEW v, Marks(f, v)
  PROVE  QuietStep \/ FaultStep
<1>1. CASE rtc' = [rtc EXCEPT ![f] = v] /\ disturbed' = (disturbed \/ Active # {})
  <2>1. RecordSame
    BY <1>1, NotFlags, KindIsField DEF RecordSame, TypeOK
  <2>2. \A k \in Kind : want'[k] = want[k]
    BY NotFlags, KindIsField DEF Marks, TypeOK, HistTypeOK
  <2>3. disturbed => disturbed'
    BY <1>1
  <2> QED BY <2>1, <2>2, <2>3 DEF QuietStep, Marks, callVars
<1>2. CASE disturbed' = TRUE
  BY <1>2 DEF Marks, FaultStep, callVars
<1> QED BY <1>1, <1>2 DEF Marks

(* Every step is a step of dev_sol_init, of a caller or down, is quiet, or *)
(* fails.                                                                  *)
LEMMA StepKinds ==
  ASSUME TypeOK, ReportInv, [Next]_vars
  PROVE  \/ \E r \in BootReasons : InitDriver(r)
         \/ InitNoMemory
         \/ InitStep
         \/ \E c \in Caller : WriterStep(c)
         \/ PowerDown
         \/ QuietStep
         \/ FaultStep
<1>1. ASSUME NEW c \in Threads, NEW q \in Requests, SetReason(c, q[1], q[2])
      PROVE  QuietStep
  BY <1>1, CallQuiet DEF SetReason, Caller
<1>2. UNCHANGED <<rtc, callVars, bootVars, histVars>> => QuietStep
  BY DEF QuietStep, RecordSame, callVars, histVars
<1>3. CASE mtk_rtc_mark_sw_lprst
  BY <1>3, BothMark, MarkQuiet DEF mtk_rtc_mark_sw_lprst
<1>4. CASE RebootModeRegister \/ RebootModeClear
  BY <1>2, <1>4, BothMark, MarkQuiet DEF RebootModeRegister, RebootModeClear
<1>5. CASE RebootNotify
  <2>1. Reboot \in Caller
    BY DEF Caller
  <2> QED BY <1>2, <1>5, <2>1, CallQuiet DEF RebootNotify
<1>6. ASSUME NEW q \in {0, 1}, RebootModeNotify(q) PROVE QuietStep \/ FaultStep
  BY <1>2, <1>6, BothMark, MarkQuiet DEF RebootModeNotify
<1>8. CASE AccessFails
  BY <1>8, AccessFailsFault
<1>7. CASE UNCHANGED vars
  BY <1>2, <1>7 DEF vars
<1> QED BY <1>1, <1>3, <1>4, <1>5, <1>6, <1>7, <1>8 DEF Next, MachineDown, Crash

LEMMA ReportInvariant == Spec => []ReportInv
<1>1. Init => ReportInv
  <2> SUFFICES ASSUME Init PROVE ReportInv
    OBVIOUS
  <2>1. Intact
    <3>1. /\ rtc["BOOT"] = 0 /\ rtc["SHUTDOWN"] = 0 /\ rtc["THERMAL_SHUTDOWN"] = 0
          /\ rtc["SPECIAL"] = 0 /\ rtc["PARITY"] = 0
      BY DEF Init, NoReg, Field, Kind
    <3> QED BY <3>1 DEF Intact, RecordParity, CodeParity
  <2> QED BY <2>1 DEF Init, ReportInv, ParitySoFar, IntactWhenFinished, LookupCurrent, ReportExact
<1>2. TypeOK /\ SerialInv /\ LookupFresh /\ ReportInv /\ [Next]_vars => ReportInv'
  <2> SUFFICES ASSUME TypeOK, SerialInv, LookupFresh, ReportInv, [Next]_vars
               PROVE  ReportInv'
    OBVIOUS
  <2>1. ASSUME NEW r \in BootReasons, InitDriver(r) PROVE ReportInv'
    <3>1. /\ UNCHANGED <<rtc, callVars, histVars, bk, bi>> /\ bpc' = "lookup" /\ bpc = "off"
          /\ bk = 1 /\ bi = 0
      BY <2>1 DEF InitDriver, LookupFresh
    <3>2. RecordSame
      BY <3>1 DEF RecordSame
    <3>3. ParitySoFar'
      BY <3>1, <3>2, SameParity DEF ReportInv, ParitySoFar, callVars, histVars
    <3>4. IntactWhenFinished'
      BY <3>1, <3>2, SameParity DEF ReportInv, IntactWhenFinished, Unfinished, callVars, histVars
    <3>5. LookupCurrent' /\ ReportExact'
      BY <3>1 DEF LookupCurrent, ReportExact
    <3> QED BY <3>3, <3>4, <3>5 DEF ReportInv
  <2>2. CASE InitNoMemory
    <3>1. UNCHANGED <<rtc, callVars, histVars>> /\ bpc' = "failed" /\ bpc = "off"
      BY <2>2 DEF InitNoMemory
    <3>2. RecordSame
      BY <3>1 DEF RecordSame
    <3>3. ParitySoFar'
      BY <3>1, <3>2, SameParity DEF ReportInv, ParitySoFar, callVars, histVars
    <3>4. IntactWhenFinished'
      BY <3>1, <3>2, SameParity DEF ReportInv, IntactWhenFinished, Unfinished, callVars, histVars
    <3>5. LookupCurrent' /\ ReportExact'
      BY <3>1 DEF LookupCurrent, ReportExact
    <3> QED BY <3>3, <3>4, <3>5 DEF ReportInv
  <2>3. CASE InitStep
    BY <2>3, InitStepReport
  <2>4. ASSUME NEW c \in Caller, WriterStep(c) PROVE ReportInv'
    BY <2>4, WriterStepReport
  <2>5. CASE PowerDown
    BY <2>5, PowerDownReport
  <2>6. CASE QuietStep
    BY <2>6, QuietStepReport
  <2>7. CASE FaultStep
    BY <2>7, FaultStepReport
  <2> QED BY <2>1, <2>2, <2>3, <2>4, <2>5, <2>6, <2>7, StepKinds
<1> QED BY <1>1, <1>2, TypeCorrect, SerialInvariant, LookupFreshInvariant, PTL DEF Spec

(***************************************************************************)
(* For any callers: if no two operations overlapped and none was cut by a  *)
(* power-down, the parity bit that rtc_write_life_cycle_reason wrote last  *)
(* is the one that check_sign_of_life_parity will compute.                 *)
(***************************************************************************)
THEOREM ParityRightWhenIdle == Spec => []SerialParityRight
<1>1. ReportInv => SerialParityRight
  BY DEF ReportInv, IntactWhenFinished, Unfinished, SerialParityRight, Active
<1> QED BY <1>1, ReportInvariant, PTL

(***************************************************************************)
(* For any callers and any boot reasons: without overlap dev_sol_init      *)
(* selects the reason that the last operations call for, or says that the  *)
(* check failed, and that only if a power-down cut an operation.           *)
(***************************************************************************)
THEOREM ReportIsExact == Spec => []ReportExact
<1>1. ReportInv => ReportExact
  BY DEF ReportInv
<1> QED BY <1>1, ReportInvariant, PTL

-----------------------------------------------------------------------------
(* The driver implements LifeCycleRecord.                                  *)

(* The refinement mapping.                                                 *)
Record == [k \in Kind |-> rtc[k]]
Committed ==
  /\ ~torn
  /\ \A c \in Caller : pc[c] \notin {"readpar", "parity"}
  /\ bpc = "clear" => bk = 1
Booted == bpc \in {"decide", "clear", "up"}
AbstractStep == [LCR!Next]_(LCR!recordVars)

(* Recognising the steps of the abstract record.                           *)
LEMMA AbstractStutter ==
  ASSUME Record' = Record, Committed' <=> Committed, Booted' <=> Booted, reported' = reported
  PROVE  AbstractStep
BY DEF AbstractStep, LCR!recordVars, Record, Committed, Booted

LEMMA AbstractCommit ==
  ASSUME Booted, Booted', Committed', Record' = Record, reported' = reported
  PROVE  AbstractStep
BY DEF AbstractStep, LCR!Next, LCR!Commit, Record, Committed, Booted

LEMMA AbstractRecord ==
  ASSUME Booted, Booted', ~Committed', reported' = reported,
         NEW k \in Kind, NEW c \in Code, Record' = [Record EXCEPT ![k] = c]
  PROVE  AbstractStep
<1>1. LCR!Record(k, c)
  BY DEF LCR!Record, Record, Committed, Booted
<1>2. k \in LCR!Kind /\ c \in LCR!Code
  BY DEF LCR!Kind, LCR!Code, Kind, Code
<1> QED BY <1>1, <1>2 DEF AbstractStep, LCR!Next

LEMMA AbstractDown ==
  ASSUME Booted, ~Booted', Committed' <=> Committed, Record' = Record,
         reported' = NOT_AVAILABLE
  PROVE  AbstractStep
<1>1. LCR!Down
  BY DEF LCR!Down, LCR!NOT_AVAILABLE, NOT_AVAILABLE, Record, Committed, Booted
<1> QED BY <1>1 DEF AbstractStep, LCR!Next

(* The abstract record reads the same tables.                              *)
LEMMA SameTables ==
  /\ \A k, c : LCR!search_lcr_by_rtc(k, c) = search_lcr_by_rtc(k, c)
  /\ \A g : LCR!SelectReason(g) = SelectReason(g)
<1>1. \A k : LCR!rtc_to_lcr(k) = rtc_to_lcr(k)
  BY DEF rtc_to_lcr, LCR!rtc_to_lcr, rtc_to_boot_reason, LCR!rtc_to_boot_reason,
         rtc_to_shutdown_reason, LCR!rtc_to_shutdown_reason,
         rtc_to_thermal_shutdown_reason, LCR!rtc_to_thermal_shutdown_reason,
         rtc_to_special_mode_reason, LCR!rtc_to_special_mode_reason
<1>2. \A k, c : LCR!search_lcr_by_rtc(k, c) = search_lcr_by_rtc(k, c)
  BY <1>1 DEF search_lcr_by_rtc, LCR!search_lcr_by_rtc, NOT_AVAILABLE, LCR!NOT_AVAILABLE
<1>3. lcr_data = LCR!lcr_data
  BY DEF lcr_data, LCR!lcr_data, RTC_CHECK_FAIL, LCR!RTC_CHECK_FAIL
<1>4. LookupOrder = LCR!LookupOrder
  BY DEF LookupOrder, LCR!LookupOrder
<1>5. \A g : LCR!SelectReason(g) = SelectReason(g)
  BY <1>3, <1>4 DEF SelectReason, LCR!SelectReason, NOT_AVAILABLE, LCR!NOT_AVAILABLE
<1> QED BY <1>2, <1>5

LEMMA AbstractCalls == LCR!Calls(lcr_boot) = Expected(rtc)
<1> DEFINE a == [k \in Kind |->
                  IF k = "BOOT" /\ search_lcr_by_rtc(k, rtc[k]) = NOT_AVAILABLE THEN lcr_boot
                  ELSE search_lcr_by_rtc(k, rtc[k])]
<1>1. Kind = LCR!Kind /\ NOT_AVAILABLE = LCR!NOT_AVAILABLE
  BY DEF Kind, LCR!Kind, NOT_AVAILABLE, LCR!NOT_AVAILABLE
<1>2. LCR!Calls(lcr_boot) = LCR!SelectReason(a)
  BY <1>1, SameTables DEF LCR!Calls
<1>3. Expected(rtc) = SelectReason(a)
  BY DEF Expected
<1> QED BY <1>2, <1>3, SameTables

LEMMA AbstractReport ==
  ASSUME ~Booted, Booted', Committed' <=> Committed, Record' = Record,
         lcr_boot \in BootReasons,
         reported' = Expected(rtc) \/ (~Committed /\ reported' = RTC_CHECK_FAIL)
  PROVE  AbstractStep
<1>1. LCR!Report(lcr_boot)
  BY AbstractCalls
     DEF LCR!Report, LCR!RTC_CHECK_FAIL, RTC_CHECK_FAIL, Record, Committed, Booted
<1> QED BY <1>1 DEF AbstractStep, LCR!Next

(* The steps of the driver, one class after the other.                     *)
LEMMA LookupCheckRefines ==
  ASSUME TypeOK, SerialInv, ReportInv, LookupFresh, ~disturbed, LookupCheck
  PROVE  AbstractStep
<1>1. /\ UNCHANGED <<rtc, pc, torn>> /\ bpc = "lookup"
      /\ \/ bpc' = "lookup" /\ reported' = reported
         \/ bpc' = "decide" /\ bk = 4
  BY DEF LookupCheck, Judge, callVars, histVars
<1>2. Record' = Record /\ (Committed' <=> Committed) /\ ~Booted
  BY <1>1 DEF Record, Committed, Booted
<1>3. CASE bpc' = "lookup"
  BY <1>1, <1>2, <1>3, AbstractStutter DEF Booted
<1>4. CASE bpc' = "decide"
  <2>1. reported' = IF Intact THEN Expected(want) ELSE RTC_CHECK_FAIL
    BY <1>1, <1>4, LookupSelects DEF SerialInv, ReportInv
  <2>2. Expected(want) = Expected(rtc)
    <3>1. \A k \in Kind : rtc[k] = want[k]
      BY NotFlags, KindIsField DEF SerialInv, SerialRecordExact
    <3> QED BY <3>1 DEF Expected
  <2>3. ~Intact => ~Committed
    BY <1>1 DEF ReportInv, IntactWhenFinished, Unfinished, Committed
  <2>4. lcr_boot \in BootReasons
    BY <1>1 DEF LookupFresh
  <2> QED BY <1>2, <1>4, <2>1, <2>2, <2>3, <2>4, AbstractReport DEF Booted
<1> QED BY <1>1, <1>3, <1>4

LEMMA InitStepRefines ==
  ASSUME TypeOK, SerialInv, ReportInv, LookupFresh, ~disturbed, InitStep
  PROVE  AbstractStep
<1>1. CASE LookupCheck
  BY <1>1, LookupCheckRefines
<1>2. CASE LookupRead \/ LookupParity \/ KeepForCharger \/ BeginClear
  <2>1. /\ UNCHANGED <<rtc, pc, torn, reported>>
        /\ bpc # "clear" /\ (bpc' = "clear" => bk' = 1) /\ (Booted' <=> Booted)
    BY <1>2 DEF LookupRead, LookupParity, KeepForCharger, BeginClear, callVars,
                histVars, Booted, SerialInv, ClearedSoFar
  <2>2. Record' = Record /\ (Committed' <=> Committed)
    BY <2>1 DEF Record, Committed
  <2> QED BY <2>1, <2>2, AbstractStutter
<1>3. CASE ClearReason
  <2>1. KindSeq[bk] \in Kind /\ 0 \in Code
    BY <1>3, KindSeqType, ZeroCode DEF ClearReason, TypeOK, BootTypeOK
  <2>2. Record' = [Record EXCEPT ![KindSeq[bk]] = 0]
    BY <1>3, <2>1, KindIsField DEF ClearReason, Record, TypeOK
  <2>3. Booted /\ Booted' /\ ~Committed' /\ reported' = reported
    BY <1>3 DEF ClearReason, Booted, Committed, TypeOK, BootTypeOK
  <2> QED BY <2>1, <2>2, <2>3, AbstractRecord
<1>4. CASE ClearParity
  <2>1. /\ bpc = "clear" /\ bpc' = "up" /\ UNCHANGED <<pc, reported>>
        /\ rtc' = [rtc EXCEPT !["PARITY"] = 0] /\ (torn' = FALSE \/ torn' = torn)
    BY <1>4 DEF ClearParity, callVars
  <2>2. Record' = Record
    BY <2>1, NotFlags, KindIsField DEF Record, TypeOK
  <2>3. \A c \in Caller : pc'[c] = "idle"
    BY <2>1 DEF SerialInv, OneAtATime, BootBusy
  <2>4. Booted /\ Booted'
    BY <2>1 DEF Booted
  <2>5. CASE ~torn'
    BY <2>1, <2>2, <2>3, <2>4, <2>5, AbstractCommit DEF Committed
  <2>6. CASE torn'
    BY <2>1, <2>2, <2>4, <2>6, AbstractStutter DEF Committed
  <2> QED BY <2>5, <2>6
<1> QED BY <1>1, <1>2, <1>3, <1>4 DEF InitStep

LEMMA WriterStepRefines ==
  ASSUME TypeOK, SerialInv, ~disturbed, NEW c \in Caller, WriterStep(c)
  PROVE  AbstractStep
<1> USE DEF TypeOK, CallerTypeOK
<1>1. pc[c] # "idle" /\ UNCHANGED bootVars
  BY DEF WriterStep, WriteReadReason, WriteReason, ReasonDone, WriteReadParity,
         WriteComputeParity, WriteParity, ParityDone
<1>2. bpc = "up" /\ bpc' = "up" /\ reported' = reported /\ Booted /\ Booted'
  BY <1>1 DEF SerialInv, OneAtATime, WhoIsActive, BootBusy, BootTypeOK, bootVars, Booted
<1>3. \A d \in Caller \ {c} : pc[d] = "idle"
  BY <1>1 DEF SerialInv, OneAtATime
<1>4. CASE WriteReadReason(c) \/ WriteReadParity(c) \/ WriteComputeParity(c)
  <2>1. /\ UNCHANGED <<rtc, torn>>
        /\ \A d \in Caller : pc'[d] \in {"readpar", "parity"} <=> pc[d] \in {"readpar", "parity"}
    BY <1>4 DEF WriteReadReason, WriteReadParity, WriteComputeParity, histVars
  <2>2. Record' = Record /\ (Committed' <=> Committed)
    BY <1>2, <2>1 DEF Record, Committed
  <2> QED BY <1>2, <2>2, AbstractStutter
<1>5. CASE WriteReason(c)
  <2>1. kind[c] \in Kind /\ code[c] \in Code /\ ~Committed'
    BY <1>5 DEF WriteReason, ReasonDone, Committed
  <2>2. ASSUME NEW k \in Kind PROVE rtc'[k] = IF k = kind[c] THEN code[c] ELSE rtc[k]
    <3>1. k \in Field /\ (RegOf(k) = RegOf(kind[c]) => tmp[c][k] = rtc[k])
      BY <1>5, KindIsField DEF WriteReason, ReasonDone, SerialInv, CopiesCurrent
    <3> QED BY <1>5, <2>1, <3>1 DEF WriteReason, ReasonDone, WriteReg, SetField
  <2>3. Record' = [Record EXCEPT ![kind[c]] = code[c]]
    BY <2>1, <2>2 DEF Record
  <2> QED BY <1>2, <2>1, <2>3, AbstractRecord
<1>6. CASE WriteParity(c)
  <2>1. ASSUME NEW k \in Kind PROVE rtc'[k] = rtc[k]
    <3>1. k \in Field /\ k # "PARITY" /\ (RegOf(k) = "AL_DOW" => tmp[c][k] = rtc[k])
      BY <1>6, KindIsField, NotFlags DEF WriteParity, ParityDone, SerialInv, CopiesCurrent
    <3> QED BY <1>6, <3>1 DEF WriteParity, ParityDone, WriteReg, SetField
  <2>2. Record' = Record
    BY <2>1 DEF Record
  <2>3. Committed'
    BY <1>2, <1>3, <1>6 DEF WriteParity, ParityDone, Committed
  <2> QED BY <1>2, <2>2, <2>3, AbstractCommit
<1> QED BY <1>4, <1>5, <1>6 DEF WriterStep

(***************************************************************************)
(* For any callers: except where operations overlapped or an access failed *)
(* since the last clean reset, the driver implements LifeCycleRecord.  A   *)
(* set is one record at its first register write and one commit at its     *)
(* parity write, a lookup is one report, and power-downs may come between  *)
(* any two accesses.                                                       *)
(***************************************************************************)
THEOREM DriverImplementsRecord == Spec => ImplementsRecord
<1>1. Init => LCR!Init
  <2> SUFFICES ASSUME Init PROVE LCR!Init
    OBVIOUS
  <2>1. Record = [k \in Kind |-> 0]
    BY KindIsField DEF Init, NoReg, Record
  <2>2. Committed /\ ~Booted /\ reported = NOT_AVAILABLE
    BY DEF Init, Committed, Booted
  <2> QED BY <2>1, <2>2 DEF LCR!Init, LCR!Kind, Kind, LCR!NOT_AVAILABLE, NOT_AVAILABLE,
                            Record, Committed, Booted
<1>2. TypeOK /\ SerialInv /\ ReportInv /\ LookupFresh /\ ~disturbed
      /\ [Next]_vars /\ ~disturbed' => AbstractStep
  <2> SUFFICES ASSUME TypeOK, SerialInv, ReportInv, LookupFresh, ~disturbed, [Next]_vars,
                      ~disturbed'
               PROVE  AbstractStep
    OBVIOUS
  <2>1. CASE (\E r \in BootReasons : InitDriver(r)) \/ InitNoMemory
    <3>1. /\ UNCHANGED <<rtc, pc, torn, reported>>
          /\ bpc = "off" /\ bpc' \in {"lookup", "failed"}
      BY <2>1 DEF InitDriver, InitNoMemory, callVars, histVars
    <3>2. Record' = Record /\ (Committed' <=> Committed) /\ (Booted' <=> Booted)
      BY <3>1 DEF Record, Committed, Booted
    <3> QED BY <3>1, <3>2, AbstractStutter
  <2>2. CASE InitStep
    BY <2>2, InitStepRefines
  <2>3. ASSUME NEW c \in Caller, WriterStep(c) PROVE AbstractStep
    BY <2>3, WriterStepRefines
  <2>4. CASE PowerDown
    <3>1. /\ rtc' = rtc /\ bpc' = "off" /\ reported' = NOT_AVAILABLE
          /\ \A c \in Caller : pc'[c] = "idle"
          /\ torn' <=> Unfinished
      BY <2>4 DEF PowerDown, Unfinished, TypeOK, BootTypeOK
    <3>2. Record' = Record /\ (Committed' <=> Committed) /\ ~Booted'
      BY <3>1 DEF Record, Committed, Unfinished, Booted
    <3>3. CASE Booted
      BY <3>1, <3>2, <3>3, AbstractDown
    <3>4. CASE ~Booted
      BY <3>1, <3>2, <3>4, AbstractStutter DEF LookupFresh, Booted, TypeOK, BootTypeOK
    <3> QED BY <3>3, <3>4
  <2>5. CASE QuietStep
    <3>1. Record' = Record
      BY <2>5 DEF QuietStep, RecordSame, Record
    <3>2. (Committed' <=> Committed) /\ (Booted' <=> Booted) /\ reported' = reported
      BY <2>5 DEF QuietStep, Committed, Booted, bootVars
    <3> QED BY <3>1, <3>2, AbstractStutter
  <2> QED BY <2>1, <2>2, <2>3, <2>4, <2>5, StepKinds DEF FaultStep
<1>3. TypeOK /\ SerialInv /\ ReportInv /\ LookupFresh /\ [Next]_vars
      => [disturbed \/ disturbed' \/ LCR!Next]_(LCR!recordVars)
  BY <1>2 DEF AbstractStep
<1> QED BY <1>1, <1>3, TypeCorrect, SerialInvariant, ReportInvariant, LookupFreshInvariant, PTL
        DEF Spec, ImplementsRecord
=============================================================================
