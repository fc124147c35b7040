----------------------------- MODULE SignOfLife -----------------------------
(***************************************************************************)
(* The sign-of-life driver over the battery-backed RTC registers SPAR0 and *)
(* AL_DOW.  Kernel contexts (thermal zones, battery, key combo) and the    *)
(* reboot notifier record why the device goes down; the next boot reads    *)
(* the record, checks its parity, selects the reason shown in              *)
(* /proc/life_cycle_reason and clears the record.                          *)
(*                                                                         *)
(* Every lcr_rtc_lock()/lcr_rtc_unlock() section of the driver is one      *)
(* action, because the RTC mutex makes it atomic and nothing wider is:     *)
(* rtc_write_life_cycle_reason takes the mutex eight times.  A power loss, *)
(* panic or watchdog reset may come between any two of them; the RTC keeps *)
(* its registers, everything else is lost.  An access of a register may    *)
(* fail on its way to the PMIC; the driver does not look at the result.    *)
(***************************************************************************)
EXTENDS SolReasons, FiniteSets

CONSTANTS
  Threads,     \* kernel contexts that call the life_cycle_set_* functions
  Reboot,      \* the context that runs the reboot notifier chain
  Requests,    \* the calls they make: pairs <<kind, reason>>
  BootReasons, \* the values get_android_bootreason may find
  MayFail      \* whether register accesses may fail

ASSUME SolAssumption ==
  /\ Reboot \notin Threads
  /\ Requests \subseteq Kind \X STRING
  /\ BootReasons \subseteq AndroidBootReason
  /\ MayFail \in BOOLEAN

Caller == Threads \cup {Reboot}

(* The fields of the two registers that the driver's operations touch.     *)
Field == Kind \cup {"PARITY", "QUIESCENT", "LPRST"}
RegOf(f) == IF f \in {"BOOT", "SHUTDOWN", "LPRST"} THEN "SPAR0" ELSE "AL_DOW"

VARIABLES
  rtc,       \* the registers, by field; survive every power-down
  pc, kind, code, tmp, i, x,   \* each caller inside rtc_write_life_cycle_reason
  bpc, bk, bi, bx, bcode, got, lcr_boot,   \* dev_sol_init
  reported,  \* the reason selected by life_cycle_reason_idx
  rpc,       \* progress of the reboot notifier chain
  rmode,     \* progress of reboot_mode_register
  want,      \* history: the value the last operation gave to each field
  disturbed, \* history: two operations overlapped, or an access failed, since
             \* the last clean reset
  torn       \* history: a power-down cut an operation before its parity write

callVars == <<pc, kind, code, tmp, i, x>>
bootVars == <<bpc, bk, bi, bx, bcode, got, lcr_boot, reported>>
histVars == <<want, disturbed, torn>>
vars == <<rtc, callVars, bootVars, rpc, rmode, histVars>>

NoReg == [f \in Field |-> 0]
NoReason == [k \in Kind |-> NOT_AVAILABLE]

(* A locked read and a locked write of one whole register.                 *)
ReadReg(r) == [f \in Field |-> IF RegOf(f) = r THEN rtc[f] ELSE 0]
WriteReg(r, v) == [f \in Field |-> IF RegOf(f) = r THEN v[f] ELSE rtc[f]]

(* Replacing one field in a copy of a register: clear its mask, or it in.  *)
SetFieldUnmasked(v, f, c) ==
  [v EXCEPT ![f] = LET bit(n, j) == (n \div 2^j) % 2
                       or(j) == IF bit(@, j) + bit(c, j) > 0 THEN 2^j ELSE 0
                   IN  or(0) + or(1) + or(2)]
SetField(v, f, c) == [v EXCEPT ![f] = c]

(* One round of the loop of get_sign_of_life_parity.                       *)
ParityRoundSum(acc, n) == acc + CodeParity(rtc[KindSeq[n]])
ParityRoundFrom1(acc, n) ==
  IF n = 1 THEN acc ELSE Xor(acc, CodeParity(rtc[KindSeq[n]]))
ParityRound(acc, n) == Xor(acc, CodeParity(rtc[KindSeq[n]]))

Active == {c \in Caller : pc[c] # "idle"}
BootBusy == bpc \in {"lookup", "decide", "clear"}

Init ==
  /\ rtc = NoReg
  /\ pc = [c \in Caller |-> "idle"]
  /\ kind = [c \in Caller |-> "BOOT"]
  /\ code = [c \in Caller |-> 0]
  /\ tmp = [c \in Caller |-> NoReg]
  /\ i = [c \in Caller |-> 1]
  /\ x = [c \in Caller |-> 0]
  /\ bpc = "off" /\ bk = 1 /\ bi = 0 /\ bx = 0 /\ bcode = 0
  /\ got = NoReason
  /\ lcr_boot = NOT_AVAILABLE
  /\ reported = NOT_AVAILABLE
  /\ rpc = "run"
  /\ rmode = "none"
  /\ want = [f \in Field |-> 0]
  /\ disturbed = FALSE
  /\ torn = FALSE

-----------------------------------------------------------------------------
(* dev_sol_init.                                                           *)

(***************************************************************************)
(* Power-on and the start of dev_sol_init: allocate p_dev_sol, register    *)
(* the reboot notifier, install the RTC operations, read the boot reason r *)
(* of the command line.                                                    *)
(***************************************************************************)
InitDriver(r) ==
  /\ bpc = "off"
  /\ bpc' = "lookup"
  /\ lcr_boot' = r
  /\ UNCHANGED <<rtc, callVars, bk, bi, bx, bcode, got, reported, rpc, rmode,
                 histVars>>

(* kzalloc fails: the module is not loaded, nor any module that needs it.  *)
InitNoMemory ==
  /\ bpc = "off"
  /\ bpc' = "failed"
  /\ UNCHANGED <<rtc, callVars, bk, bi, bx, bcode, got, lcr_boot, reported,
                 rpc, rmode, histVars>>

(* rtc_read_life_cycle_reason for kind number bk: read its register.       *)
LookupReadShutdown ==
  /\ bpc = "lookup" /\ bi = 0
  /\ bcode' = rtc["SHUTDOWN"]
  /\ bi' = 1
  /\ bx' = 0
  /\ UNCHANGED <<rtc, callVars, bpc, bk, got, lcr_boot, reported, rpc, rmode,
                 histVars>>
LookupRead ==
  /\ bpc = "lookup" /\ bi = 0
  /\ bcode' = rtc[KindSeq[bk]]
  /\ bi' = 1
  /\ bx' = 0
  /\ UNCHANGED <<rtc, callVars, bpc, bk, got, lcr_boot, reported, rpc, rmode,
                 histVars>>

LookupParity ==
  /\ bpc = "lookup" /\ bi \in 1..4
  /\ bx' = ParityRound(bx, bi)
  /\ bi' = bi + 1
  /\ UNCHANGED <<rtc, callVars, bpc, bk, bcode, got, lcr_boot, reported, rpc,
                 rmode, histVars>>

(***************************************************************************)
(* check_sign_of_life_parity reads PARITY_REG; the reason is translated,   *)
(* with the command line's reason standing in for an absent boot reason.   *)
(* After the fourth kind life_cycle_reason_lookup selects one.             *)
(***************************************************************************)
Judge(parity) ==
  LET k == KindSeq[bk]
      read == IF parity = bx THEN search_lcr_by_rtc(k, bcode)
              ELSE RTC_CHECK_FAIL
      r == IF k = "BOOT" /\ read = NOT_AVAILABLE THEN lcr_boot ELSE read
      all == [got EXCEPT ![k] = r]
  IN /\ bpc = "lookup" /\ bi = 5
     /\ bi' = 0
     /\ bcode' = 0
     /\ bx' = 0
     /\ \/ /\ bk < 4
           /\ bk' = bk + 1
           /\ got' = all
           /\ UNCHANGED <<bpc, reported>>
        \/ /\ bk = 4
           /\ bk' = 1
           /\ got' = NoReason
           /\ reported' = SelectReason(all)
           /\ bpc' = "decide"
LookupCheck ==
  /\ Judge(rtc["PARITY"])
  /\ UNCHANGED <<rtc, callVars, lcr_boot, rpc, rmode, histVars>>

(* is_charging_mode(): a charger-mode boot keeps the record for the next.  *)
KeepForCharger ==
  /\ bpc = "decide"
  /\ bpc' = "up"
  /\ UNCHANGED <<rtc, callVars, bk, bi, bx, bcode, got, lcr_boot, reported,
                 rpc, rmode, histVars>>

BeginClear ==
  /\ bpc = "decide"
  /\ bpc' = "clear"
  /\ UNCHANGED <<rtc, callVars, bk, bi, bx, bcode, got, lcr_boot, reported,
                 rpc, rmode, histVars>>

(* rtc_clear_life_cycle_reason: one locked read-modify-write per kind ...  *)
ClearReason ==
  /\ bpc = "clear" /\ bk <= 4
  /\ rtc' = [rtc EXCEPT ![KindSeq[bk]] = 0]
  /\ want' = [want EXCEPT ![KindSeq[bk]] = 0]
  /\ bk' = bk + 1
  /\ UNCHANGED <<callVars, bpc, bi, bx, bcode, got, lcr_boot, reported, rpc,
                 rmode, disturbed, torn>>

(***************************************************************************)
(* ... and a last one for the parity bit.  A clear that nothing interfered *)
(* with and that left nothing ends the history of disturbances and of      *)
(* interrupted operations.                                                 *)
(***************************************************************************)
ClearParity ==
  /\ bpc = "clear" /\ bk = 5
  /\ rtc' = [rtc EXCEPT !["PARITY"] = 0]
  /\ bk' = 1
  /\ bpc' = "up"
  /\ \/ /\ rpc = "run" /\ \A k \in Kind : rtc[k] = 0
        /\ disturbed' = FALSE
        /\ torn' = FALSE
        /\ want' = rtc'
     \/ /\ rpc # "run" \/ \E k \in Kind : rtc[k] # 0
        /\ UNCHANGED <<want, disturbed, torn>>
  /\ UNCHANGED <<callVars, bi, bx, bcode, got, lcr_boot, reported, rpc, rmode>>

-----------------------------------------------------------------------------
(* rtc_write_life_cycle_reason, called by the four life_cycle_set_*.       *)

(* The call: p_dev_sol and the operation exist, the reason gets its code.  *)
Call(c, k, r) ==
  /\ pc[c] = "idle"
  /\ pc' = [pc EXCEPT ![c] = "read"]
  /\ kind' = [kind EXCEPT ![c] = k]
  /\ code' = [code EXCEPT ![c] = search_rtc_by_lcr(k, r)]
  /\ disturbed' = (disturbed \/ Active # {} \/ BootBusy)
  /\ UNCHANGED <<rtc, tmp, i, x, want, torn>>

(***************************************************************************)
(* A life_cycle_set_* call of another driver.  Those drivers are modules   *)
(* that need this one's symbols, so they run only after dev_sol_init.      *)
(***************************************************************************)
SetReason(c, k, r) ==
  /\ bpc = "up"
  /\ Call(c, k, r)
  /\ UNCHANGED <<bootVars, rpc, rmode>>

WriteReadReason(c) ==
  /\ pc[c] = "read"
  /\ tmp' = [tmp EXCEPT ![c] = ReadReg(RegOf(kind[c]))]
  /\ pc' = [pc EXCEPT ![c] = "write"]
  /\ UNCHANGED <<rtc, kind, code, i, x, bootVars, rpc, rmode, histVars>>

ReasonDone(c) ==
  /\ pc[c] = "write"
  /\ want' = [want EXCEPT ![kind[c]] = code[c]]
  /\ pc' = [pc EXCEPT ![c] = "readpar"]
  /\ kind' = [kind EXCEPT ![c] = "BOOT"]
  /\ code' = [code EXCEPT ![c] = 0]
  /\ tmp' = [tmp EXCEPT ![c] = NoReg]
  /\ UNCHANGED <<i, x>>
WriteReason(c) ==
  /\ ReasonDone(c)
  /\ rtc' = WriteReg(RegOf(kind[c]), SetField(tmp[c], kind[c], code[c]))
  /\ UNCHANGED <<bootVars, rpc, rmode, disturbed, torn>>

WriteZeroForParity(c) ==
  /\ pc[c] = "readpar"
  /\ tmp' = [tmp EXCEPT ![c] = NoReg]
  /\ pc' = [pc EXCEPT ![c] = "parity"]
  /\ UNCHANGED <<rtc, kind, code, i, x, bootVars, rpc, rmode, histVars>>
WriteReadParity(c) ==
  /\ pc[c] = "readpar"
  /\ tmp' = [tmp EXCEPT ![c] = ReadReg("AL_DOW")]
  /\ pc' = [pc EXCEPT ![c] = "parity"]
  /\ UNCHANGED <<rtc, kind, code, i, x, bootVars, rpc, rmode, histVars>>

(* The four locked reads of get_sign_of_life_parity.                       *)
WriteComputeParity(c) ==
  /\ pc[c] = "parity" /\ i[c] <= 4
  /\ x' = [x EXCEPT ![c] = ParityRound(x[c], i[c])]
  /\ i' = [i EXCEPT ![c] = @ + 1]
  /\ UNCHANGED <<rtc, pc, kind, code, tmp, bootVars, rpc, rmode, histVars>>

ParityDone(c) ==
  /\ pc[c] = "parity" /\ i[c] = 5
  /\ pc' = [pc EXCEPT ![c] = "idle"]
  /\ tmp' = [tmp EXCEPT ![c] = NoReg]
  /\ i' = [i EXCEPT ![c] = 1]
  /\ x' = [x EXCEPT ![c] = 0]
  /\ UNCHANGED <<kind, code, want>>
WriteParity(c) ==
  /\ ParityDone(c)
  /\ rtc' = WriteReg("AL_DOW", SetField(tmp[c], "PARITY", x[c]))
  /\ torn' = FALSE
  /\ UNCHANGED <<bootVars, rpc, rmode, disturbed>>

WriterStep(c) ==
  \/ WriteReadReason(c)
  \/ WriteReason(c)
  \/ WriteReadParity(c)
  \/ WriteComputeParity(c)
  \/ WriteParity(c)

-----------------------------------------------------------------------------
(* Accesses that fail: mtk_rtc_read then returns 0, mtk_rtc_write changes  *)
(* nothing.  The drivers go on as if nothing had happened; where a section *)
(* reads and writes, what it writes after a failed read is an empty copy.  *)

Erased(r) == WriteReg(r, NoReg)

LookupFailsAny ==
  /\ bpc = "lookup" /\ bi = 0
  /\ bcode' \in Code
  /\ bi' = 1
  /\ bx' = 0
  /\ UNCHANGED <<rtc, callVars, bpc, bk, got, lcr_boot, reported, rpc, rmode, want, torn>>
LookupFails ==
  /\ bpc = "lookup"
  /\ \/ bi = 0 /\ bcode' = 0 /\ bi' = 1 /\ bx' = 0 /\ UNCHANGED <<bpc, bk, got, reported>>
     \/ bi \in 1..4 /\ bi' = bi + 1 /\ UNCHANGED <<bpc, bk, bx, bcode, got, reported>>
     \/ Judge(0)
  /\ UNCHANGED <<rtc, callVars, lcr_boot, rpc, rmode, want, torn>>

ClearFails ==
  /\ bpc = "clear"
  /\ \/ /\ bk <= 4
        /\ rtc' \in {rtc, Erased(RegOf(KindSeq[bk]))}
        /\ want' = [want EXCEPT ![KindSeq[bk]] = 0]
        /\ bk' = bk + 1 /\ UNCHANGED bpc
     \/ /\ bk = 5
        /\ rtc' \in {rtc, Erased("AL_DOW")}
        /\ bk' = 1 /\ bpc' = "up" /\ UNCHANGED want
  /\ UNCHANGED <<callVars, bi, bx, bcode, got, lcr_boot, reported, rpc, rmode, torn>>

WriterFails(c) ==
  /\ \/ /\ pc[c] \in {"read", "readpar"}
        /\ pc' = [pc EXCEPT ![c] = IF pc[c] = "read" THEN "write" ELSE "parity"]
        /\ tmp' = [tmp EXCEPT ![c] = NoReg]
        /\ UNCHANGED <<kind, code, i, x, want>>
     \/ ReasonDone(c)
     \/ pc[c] = "parity" /\ i[c] <= 4 /\ i' = [i EXCEPT ![c] = @ + 1]
        /\ UNCHANGED <<pc, kind, code, tmp, x, want>>
     \/ ParityDone(c)
  /\ UNCHANGED <<rtc, bootVars, rpc, rmode, torn>>

AccessFails ==
  /\ MayFail
  /\ disturbed' = TRUE
  /\ LookupFails \/ ClearFails \/ \E c \in Caller : WriterFails(c)

-----------------------------------------------------------------------------
(* Single-bit marks in the same registers, and the ways down.              *)

(* A locked read-modify-write of one flag, and what it leaves when one of  *)
(* its accesses fails.                                                     *)
Mark(f, v, failed) ==
  /\ \/ /\ rtc' = [rtc EXCEPT ![f] = v]
        /\ disturbed' = (disturbed \/ Active # {})
     \/ /\ MayFail /\ rtc' \in failed
        /\ disturbed' = TRUE
  /\ want' = [want EXCEPT ![f] = v]
  /\ UNCHANGED <<callVars, bootVars, torn>>

rtc_mark_quiescent(v) ==
  Mark("QUIESCENT", v, {rtc, SetField(Erased("AL_DOW"), "QUIESCENT", v)})

(* The key combo driver marks a long press before it records the reason;   *)
(* an error leaves the register alone.                                     *)
mtk_rtc_mark_sw_lprst ==
  /\ bpc = "up"
  /\ <<"SHUTDOWN", "SHUTDOWN_BY_LONG_PWR_KEY_PRESS">> \in Requests
  /\ Mark("LPRST", 1, {rtc})
  /\ UNCHANGED <<rpc, rmode>>

(***************************************************************************)
(* reboot_mode_register, of a module loaded after this one: it joins the   *)
(* reboot notifier chain and then clears the quiescent flag.               *)
(***************************************************************************)
RebootModeRegister ==
  /\ bpc = "up" /\ rmode = "none"
  /\ rmode' = "registered"
  /\ UNCHANGED <<rtc, callVars, bootVars, rpc, histVars>>

RebootModeClear ==
  /\ rmode = "registered"
  /\ rmode' = "ready"
  /\ rtc_mark_quiescent(0)
  /\ UNCHANGED rpc

(***************************************************************************)
(* kernel_restart or kernel_power_off: life_cycle_reboot_notifier records  *)
(* a software restart or shutdown; a halt records nothing.                 *)
(***************************************************************************)
RebootNotify ==
  /\ rpc = "run" /\ bpc \in {"lookup", "decide", "clear", "up"}
  /\ rpc' = "notify"
  /\ \/ Call(Reboot, "BOOT", "WARMBOOT_BY_SW")
     \/ Call(Reboot, "SHUTDOWN", "SHUTDOWN_BY_SW")
     \/ UNCHANGED <<rtc, callVars, histVars>>
  /\ UNCHANGED <<bootVars, rmode>>

(* reboot_mode_notify, next on the chain: the quiescent flag of a silent   *)
(* OTA is set or cleared according to the reboot command.                  *)
RebootModeNotify(q) ==
  /\ rpc = "notify" /\ pc[Reboot] = "idle"
  /\ rpc' = "down"
  /\ \/ rmode # "none" /\ rtc_mark_quiescent(q)
     \/ rmode = "none" /\ UNCHANGED <<rtc, callVars, bootVars, histVars>>
  /\ UNCHANGED rmode

(* Everything but the RTC is lost.                                         *)
PowerDown ==
  /\ pc' = [c \in Caller |-> "idle"]
  /\ kind' = [c \in Caller |-> "BOOT"]
  /\ code' = [c \in Caller |-> 0]
  /\ tmp' = [c \in Caller |-> NoReg]
  /\ i' = [c \in Caller |-> 1]
  /\ x' = [c \in Caller |-> 0]
  /\ bpc' = "off" /\ bk' = 1 /\ bi' = 0 /\ bx' = 0 /\ bcode' = 0
  /\ got' = NoReason
  /\ lcr_boot' = NOT_AVAILABLE
  /\ reported' = NOT_AVAILABLE
  /\ rpc' = "run"
  /\ rmode' = "none"
  /\ torn' = \/ torn
             \/ \E c \in Caller : pc[c] \in {"readpar", "parity"}
             \/ bpc = "clear" /\ bk > 1
  /\ UNCHANGED <<rtc, want, disturbed>>

MachineDown == rpc = "down" /\ PowerDown

(* Kernel panic, watchdog reset, battery pulled: at any moment.            *)
Crash == bpc # "off" /\ PowerDown

-----------------------------------------------------------------------------
InitStep ==
  \/ LookupRead \/ LookupParity \/ LookupCheck
  \/ KeepForCharger \/ BeginClear \/ ClearReason \/ ClearParity

Next ==
  \/ \E r \in BootReasons : InitDriver(r)
  \/ InitNoMemory
  \/ InitStep
  \/ \E c \in Threads, q \in Requests : SetReason(c, q[1], q[2])
  \/ \E c \in Caller : WriterStep(c)
  \/ AccessFails
  \/ mtk_rtc_mark_sw_lprst
  \/ RebootModeRegister \/ RebootModeClear
  \/ RebootNotify
  \/ \E q \in {0, 1} : RebootModeNotify(q)
  \/ MachineDown
  \/ Crash

Spec == Init /\ [][Next]_vars

-----------------------------------------------------------------------------
(* Properties.                                                             *)

CallerTypeOK ==
  /\ pc \in [Caller -> {"idle", "read", "write", "readpar", "parity"}]
  /\ kind \in [Caller -> Kind]
  /\ code \in [Caller -> Code]
  /\ tmp \in [Caller -> [Field -> Code]]
  /\ i \in [Caller -> 1..5]
  /\ x \in [Caller -> {0, 1}]
BootTypeOK ==
  /\ bpc \in {"off", "failed", "lookup", "decide", "clear", "up"}
  /\ bk \in 1..5 /\ bi \in 0..5 /\ bx \in {0, 1} /\ bcode \in Code
  /\ bpc # "clear" => bk <= 4
  /\ got \in [Kind -> Reason]
  /\ lcr_boot \in AndroidBootReason
  /\ reported \in Reason
HistTypeOK ==
  /\ rpc \in {"run", "notify", "down"}
  /\ rmode \in {"none", "registered", "ready"}
  /\ want \in [Field -> Code]
  /\ disturbed \in BOOLEAN
  /\ torn \in BOOLEAN
TypeOK ==
  /\ rtc \in [Field -> Code]
  /\ CallerTypeOK
  /\ BootTypeOK
  /\ HistTypeOK

RecordParity ==
  CodeParity(rtc["BOOT"]) + CodeParity(rtc["SHUTDOWN"])
  + CodeParity(rtc["THERMAL_SHUTDOWN"]) + CodeParity(rtc["SPECIAL"])
Intact == rtc["PARITY"] = RecordParity % 2

(* The codes that the callers and the reboot notifier ask for in a kind.   *)
NotifierRequests ==
  {<<"BOOT", "WARMBOOT_BY_SW">>, <<"SHUTDOWN", "SHUTDOWN_BY_SW">>}
Askable ==
  [k \in Kind |->
    {search_rtc_by_lcr(k, q[2]) :
       q \in {p \in Requests \cup NotifierRequests : p[1] = k}}]

(***************************************************************************)
(* Whatever the interleaving of the callers, the resets and the crashes, a *)
(* field of the record is empty or holds a code some caller asked for in   *)
(* that kind: the unlocked read-modify-writes of                           *)
(* rtc_write_life_cycle_reason may lose a reason, they never make one up.  *)
(***************************************************************************)
NoInventedReason == \A k \in Kind : rtc[k] \in Askable[k] \cup {0}

(***************************************************************************)
(* As long as no two operations overlapped and no register access failed,  *)
(* every field of both registers, the quiescent and long-press flags       *)
(* included, holds what the last operation on it wrote, whole-register     *)
(* writes of earlier copies notwithstanding.                               *)
(***************************************************************************)
SerialRecordExact ==
  ~disturbed => \A f \in Field \ {"PARITY"} : rtc[f] = want[f]

(***************************************************************************)
(* As long as no two operations overlapped, no access failed and none was  *)
(* cut by a power-down, the record's parity bit is right whenever no       *)
(* operation is in progress: the next boot will not discard the record.    *)
(***************************************************************************)
SerialParityRight ==
  ~disturbed /\ ~torn /\ Active = {} /\ bpc # "clear" => Intact

Expected(w) ==
  SelectReason([k \in Kind |->
    LET r == search_lcr_by_rtc(k, w[k])
    IN  IF k = "BOOT" /\ r = NOT_AVAILABLE THEN lcr_boot ELSE r])

(***************************************************************************)
(* The reason that dev_sol_init selects is the one the recorded reasons    *)
(* call for, or, only if a power-down cut an operation, the check-failed   *)
(* reason: a half-written record is never read as some other reason.       *)
(***************************************************************************)
ReportExact ==
  ~disturbed /\ bpc = "decide" =>
     reported \in {Expected(want)} \cup (IF torn THEN {RTC_CHECK_FAIL} ELSE {})

(***************************************************************************)
(* Also when operations overlapped or failed: the reason shown was         *)
(* asked for, the command line's, the check-failed one, or none.           *)
(***************************************************************************)
ReportAsked ==
  \/ reported \in {NOT_AVAILABLE, RTC_CHECK_FAIL, lcr_boot}
  \/ \E k \in Kind : \E c \in Askable[k] : reported = search_lcr_by_rtc(k, c)

(***************************************************************************)
(* As long as no two operations overlap and no access fails, and again     *)
(* after the next clean reset, the driver implements the record of         *)
(* LifeCycleRecord: the eight locked register accesses of a set, the five  *)
(* of a reset and the twenty-four of a lookup act as one record, one       *)
(* commit and one report, also across power-downs between them.            *)
(***************************************************************************)
LCR == INSTANCE LifeCycleRecord WITH
  record <- [k \in Kind |-> rtc[k]],
  committed <- /\ ~torn
               /\ \A c \in Caller : pc[c] \notin {"readpar", "parity"}
               /\ bpc = "clear" => bk = 1,
  booted <- bpc \in {"decide", "clear", "up"},
  shown <- reported
ImplementsRecord ==
  LCR!Init /\ [][disturbed \/ disturbed' \/ LCR!Next]_(LCR!recordVars)

-----------------------------------------------------------------------------
(* Statements of the documentation that the code does not keep.            *)

(***************************************************************************)
(* sign_of_life.txt: life_cycle_set_thermal_shutdown_reason "will set the  *)
(* Thermal Shutdown reason", and likewise for the other kinds.  So when    *)
(* every call has returned, each kind holds the reason last set.           *)
(***************************************************************************)
NoLostReason ==
  bpc = "up" /\ rpc = "run" /\ Active = {} => \A k \in Kind : rtc[k] = want[k]
=============================================================================
