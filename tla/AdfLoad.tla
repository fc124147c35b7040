------------------------------ MODULE AdfLoad -------------------------------
(***************************************************************************)
(* Loading an ADF firmware image into the DSP, and everybody else who uses *)
(* what the loader keeps: the dump of the log after a crash, the periodic  *)
(* metrics query and the debugfs files.  Four kinds of threads share three *)
(* mutexes: metrisUploadLock and p_lock of the codec driver, which loads,  *)
(* and adfDspLock of the framework.                                        *)
(*                                                                         *)
(* Sections have their names only.  Images share a layout: a section has   *)
(* the same size in all of them.  The data words of the section table are  *)
(* zero in an image.  The model starts after the first call of             *)
(* adfLoad_getDspPriv, which sets the mutexes up.                          *)
(***************************************************************************)
EXTENDS Integers, Sequences

CONSTANTS
  Nobody,
  Irq,         \* the work that handles a detection, and recovers the DSP
  Boots,       \* threads that load: the one probe starts, writers of sysfs files
  Metrics,     \* the metrics upload work
  Debugfs,     \* readers and writers of the debugfs files
  Firmwares,   \* images: sequences of section names
  MaxTries,    \* RETRY_COUNT
  MaxBoots     \* bound: loads and recoveries begun

Reserved == {"STA", "CLI", "LOG"}

ASSUME AdfLoadAssumption ==
  /\ Nobody \notin Boots \cup Debugfs \cup {Irq, Metrics}
  /\ Irq \notin Boots \cup Debugfs \cup {Metrics}
  /\ Metrics \notin Boots \cup Debugfs /\ Boots \cap Debugfs = {}
  /\ Firmwares # {} /\ MaxTries \in Nat \ {0} /\ MaxBoots \in Nat
  /\ \A f \in Firmwares :
       /\ f \in Seq(Reserved \cup {"BIN"})
       /\ \A s \in Reserved : \E k \in DOMAIN f : f[k] = s /\ \A m \in DOMAIN f \ {k} : f[m] # s

Loaders == Boots \cup {Irq}
Users == Debugfs \cup {Metrics}
Procs == Loaders \cup Users
NULL == 0
Blocks == 1..(3 * (MaxTries * MaxBoots + 1))

VARIABLES
  mul, p_lock, adfDspLock,  \* who holds which mutex
  pc,                       \* where a thread is
  device_ready, wd_reset,   \* flags of the codec driver
  active_fw,                \* what runs on the DSP, as last looked up in ...
  active_fw_va_chip,        \* ... what has been loaded into it
  recovering,               \* loaders that load inside dbmdx_perform_recovery
  boots, tries,             \* loads and recoveries begun; attempts left
  fw, i,                    \* adfLoad_init: the image, the section
  dspHeader,                \* the section table kept: names and data; <<>> is NULL
  ptr,                      \* staData, cliData, logData
  heap,                     \* buffers allocated and not freed
  todo,                     \* what the user inside has yet to transfer
  stale,                    \* history: a detection, or the end of a recovery,
                            \* took the DSP for ready though there was no header
  oops                      \* NULL or freed memory was used

locks == <<mul, p_lock, adfDspLock>>
firmware == <<active_fw, active_fw_va_chip>>
flags == <<device_ready, wd_reset, stale, firmware>>
loadVars == <<boots, tries, fw, i, recovering>>
memory == <<dspHeader, ptr, heap>>
vars == <<locks, pc, flags, loadVars, memory, todo, oops>>

Init ==
  /\ mul = Nobody /\ p_lock = Nobody /\ adfDspLock = Nobody
  /\ pc = [t \in Procs |-> "idle"]
  /\ device_ready = FALSE /\ wd_reset = FALSE /\ stale = FALSE
  /\ active_fw = "PRE_BOOT" /\ active_fw_va_chip = "PRE_BOOT" /\ recovering = {}
  /\ boots = 0 /\ tries = 0 /\ fw = <<>> /\ i = 0
  /\ dspHeader = <<>> /\ ptr = [s \in Reserved |-> NULL] /\ heap = {}
  /\ todo = <<>> /\ oops = FALSE

-----------------------------------------------------------------------------
Goto(t, from, to) == ~oops /\ pc[t] = from /\ pc' = [pc EXCEPT ![t] = to]

(* mutex_lock, mutex_unlock.                                               *)
TakeP(t) == p_lock = Nobody /\ p_lock' = t /\ UNCHANGED <<mul, adfDspLock>>
TakeAdf(t) == adfDspLock = Nobody /\ adfDspLock' = t /\ UNCHANGED <<mul, p_lock>>
TakeMul(t) == mul = Nobody /\ mul' = t /\ UNCHANGED <<p_lock, adfDspLock>>
DropP == p_lock' = Nobody /\ UNCHANGED <<mul, adfDspLock>>
DropAdf == adfDspLock' = Nobody /\ UNCHANGED <<mul, p_lock>>

(* dbmdx_process_detection_irq.  Where it asks for the chip's interface it *)
(* looks up which firmware runs.                                           *)
Detect ==
  /\ Goto(Irq, "idle", "detect") /\ device_ready
  /\ UNCHANGED <<locks, flags, loadVars, memory, todo, oops>>
DetectLock ==
  /\ Goto(Irq, "detect", "detecting") /\ TakeP(Irq)
  /\ stale' = (stale \/ dspHeader = <<>>)
  /\ UNCHANGED <<device_ready, wd_reset, firmware, loadVars, memory, todo, oops>>
LookUp == active_fw' = active_fw_va_chip /\ UNCHANGED active_fw_va_chip
DetectOk ==
  /\ Goto(Irq, "detecting", "idle") /\ DropP /\ LookUp
  /\ UNCHANGED <<device_ready, wd_reset, stale, loadVars, memory, todo, oops>>
(* The chip's interface cannot be switched: it returns with p_lock held.   *)
DetectReturns ==
  /\ Goto(Irq, "detecting", "idle") /\ LookUp
  /\ UNCHANGED <<locks, device_ready, wd_reset, stale, loadVars, memory, todo, oops>>
(* The DSP does not wake up, or does not answer.                           *)
DetectFail ==
  /\ Goto(Irq, "detecting", "recover") /\ DropP
  /\ boots < MaxBoots /\ boots' = boots + 1
  /\ wd_reset' = TRUE
  /\ UNCHANGED firmware \/ LookUp
  /\ UNCHANGED <<device_ready, stale, tries, fw, i, recovering, memory, todo, oops>>

-----------------------------------------------------------------------------
(* dbmdx_perform_recovery and the sysfs files.                             *)

(* The firmware is looked at without p_lock; if none runs, none is loaded. *)
Recover(l) ==
  /\ \/ Goto(l, "recover", "mul") /\ active_fw # "PRE_BOOT" /\ recovering' = recovering \cup {l}
     \/ Goto(l, "recover", "resume") /\ active_fw = "PRE_BOOT" /\ UNCHANGED recovering
  /\ UNCHANGED <<locks, flags, boots, tries, fw, i, memory, todo, oops>>
(* The end of a recovery, under p_lock again.                              *)
Resume(l) ==
  /\ Goto(l, "resume", "idle") /\ p_lock = Nobody
  /\ device_ready' = TRUE
  /\ stale' = (stale \/ dspHeader = <<>>)
  /\ UNCHANGED <<locks, wd_reset, firmware, loadVars, memory, todo, oops>>

Begin(l, to) ==
  /\ Goto(l, "idle", to)
  /\ boots < MaxBoots /\ boots' = boots + 1
  /\ UNCHANGED <<locks, flags, tries, fw, i, recovering, memory, todo, oops>>
(* dbmdx_reboot_store: "va_resume" recovers what a shutdown turned off.    *)
Reboot(l) == Begin(l, "mul") \/ (active_fw = "POWER_OFF_VA" /\ Begin(l, "recover"))
(* dbmdx_reset_store.                                                      *)
Reset(l) == Begin(l, "recover")
(* dbmdx_shutdown, for "shutdown".                                         *)
Shutdown(l) ==
  /\ Goto(l, "idle", "shutdown") /\ device_ready
  /\ UNCHANGED <<locks, flags, loadVars, memory, todo, oops>>
ShutdownLock(l) ==
  /\ Goto(l, "shutdown", "idle") /\ p_lock = Nobody
  /\ device_ready' = FALSE /\ active_fw' = "POWER_OFF_VA"
  /\ UNCHANGED <<locks, wd_reset, stale, active_fw_va_chip, loadVars, memory, todo, oops>>

-----------------------------------------------------------------------------
(* dbmdx_request_and_load_fw_va_ve_mode.                                   *)

LoadMulNot(l) ==
  /\ Goto(l, "mul", "p_lock")
  /\ UNCHANGED <<locks, flags, loadVars, memory, todo, oops>>
LoadMul(l) ==
  /\ Goto(l, "mul", "p_lock") /\ TakeMul(l)
  /\ UNCHANGED <<flags, loadVars, memory, todo, oops>>
(* dbmdx_set_boot_active: nothing runs on the chip any more.               *)
LoadLock(l) ==
  /\ Goto(l, "p_lock", "booting") /\ TakeP(l)
  /\ device_ready' = FALSE /\ active_fw_va_chip' = "PRE_BOOT"
  /\ UNCHANGED <<wd_reset, stale, active_fw, loadVars, memory, todo, oops>>
(* dbmdx_set_power_mode: if the chip is falling asleep it drops p_lock to  *)
(* wait for the work that does it.                                         *)
LoadPower(l) ==
  /\ \/ Goto(l, "booting", "request") /\ UNCHANGED locks
     \/ Goto(l, "booting", "relock") /\ DropP
  /\ UNCHANGED <<flags, loadVars, memory, todo, oops>>
LoadRelock(l) ==
  /\ Goto(l, "relock", "request") /\ TakeP(l)
  /\ UNCHANGED <<flags, loadVars, memory, todo, oops>>

LeaveLoad(l, from, to) ==
  /\ Goto(l, from, to)
  /\ mul' = Nobody /\ p_lock' = Nobody /\ UNCHANGED adfDspLock
  /\ fw' = <<>> /\ i' = 0 /\ tries' = 0 /\ recovering' = recovering \ {l}
  /\ UNCHANGED <<wd_reset, stale, boots, memory, todo, oops>>

(* request_firmware and what precedes the boot may fail.                   *)
RequestFails(l) ==
  /\ LeaveLoad(l, "request", "idle")
  /\ UNCHANGED firmware \/ LookUp
  /\ UNCHANGED device_ready
RequestOneMore(l) ==
  /\ Goto(l, "request", "attempt") /\ LookUp
  /\ device_ready' = FALSE /\ tries' = MaxTries + 1
  /\ UNCHANGED <<locks, wd_reset, stale, boots, fw, i, recovering, memory, todo, oops>>
Request(l) ==
  /\ Goto(l, "request", "attempt") /\ LookUp
  /\ device_ready' = FALSE /\ tries' = MaxTries
  /\ UNCHANGED <<locks, wd_reset, stale, boots, fw, i, recovering, memory, todo, oops>>

(* dbmdx_va_ve_firmware_ready up to the image; errors before it.           *)
Attempt(l) ==
  /\ \/ /\ Goto(l, "attempt", IF wd_reset THEN "print" ELSE "load")
        /\ fw' \in Firmwares
     \/ Goto(l, "attempt", "retry") /\ UNCHANGED fw
  /\ LookUp
  /\ UNCHANGED <<locks, device_ready, wd_reset, stale, boots, tries, i, recovering, memory, todo, oops>>

(* adfDebug_printLog(0, ADF_LOG_DUMP_ALL) does not look at dspHeader.      *)
SecInfo(name) == {k \in DOMAIN dspHeader : dspHeader[k].name = name}
Usable(name) == \E k \in SecInfo(name) : dspHeader[k].data \in heap
PrintLog(l) ==
  /\ Goto(l, "print", "printing") /\ TakeAdf(l)
  /\ oops' = ~Usable("LOG")
  /\ UNCHANGED <<flags, loadVars, memory, todo>>
PrintDone(l) ==
  /\ Goto(l, "printing", "load") /\ DropAdf
  /\ wd_reset' = FALSE
  /\ UNCHANGED <<device_ready, stale, firmware, loadVars, memory, todo, oops>>

-----------------------------------------------------------------------------
(* adfLoad_init.                                                           *)

LoadBegin(l) ==
  /\ TakeAdf(l)
  /\ \/ /\ Goto(l, "load", "section")
        /\ dspHeader' = [k \in DOMAIN fw |-> [name |-> fw[k], data |-> NULL]]
        /\ i' = 1
     \/ Goto(l, "load", "error") /\ dspHeader = <<>> /\ UNCHANGED <<dspHeader, i>>
  /\ UNCHANGED <<flags, boots, tries, fw, recovering, ptr, heap, todo, oops>>

Section == IF i \in DOMAIN fw THEN fw[i] ELSE "end"
SectionBin(l) ==
  /\ Section = "BIN"
  /\ \/ Goto(l, "section", "section") /\ i' = i + 1
     \/ Goto(l, "section", "error") /\ UNCHANGED i
  /\ UNCHANGED <<locks, flags, boots, tries, fw, recovering, memory, todo, oops>>

(* kmalloc; without a block that is free it fails.                         *)
Fresh == CHOOSE b \in Blocks \ heap : TRUE
SectionAlloc(l) ==
  /\ Section \in Reserved /\ ptr[Section] = NULL
  /\ \/ /\ Goto(l, "section", "section") /\ Blocks \ heap # {}
        /\ heap' = heap \cup {Fresh}
        /\ ptr' = [ptr EXCEPT ![Section] = Fresh]
        /\ dspHeader' = [dspHeader EXCEPT ![i].data = Fresh]
        /\ i' = i + 1
     \/ Goto(l, "section", "error") /\ UNCHANGED <<memory, i>>
  /\ UNCHANGED <<locks, flags, boots, tries, fw, recovering, todo, oops>>
SectionReuse(l) ==
  /\ Section \in Reserved /\ ptr[Section] # NULL
  /\ Goto(l, "section", "section")
  /\ dspHeader' = [dspHeader EXCEPT ![i].data = ptr[Section]]
  /\ oops' = (ptr[Section] \notin heap)
  /\ i' = i + 1
  /\ UNCHANGED <<locks, flags, boots, tries, fw, recovering, ptr, heap, todo>>

(* The size of the image is checked last.                                  *)
LoadEnd(l) ==
  /\ Section = "end"
  /\ \/ Goto(l, "section", "configure") /\ DropAdf
     \/ Goto(l, "section", "error") /\ UNCHANGED locks
  /\ UNCHANGED <<flags, loadVars, memory, todo, oops>>

Data == {dspHeader[k].data : k \in DOMAIN dspHeader} \ {NULL}
LoadErrorKeep(l) ==
  /\ Goto(l, "error", "retry") /\ DropAdf
  /\ heap' = heap \ Data /\ oops' = ~(Data \subseteq heap)
  /\ dspHeader' = <<>> /\ UNCHANGED ptr
  /\ UNCHANGED <<flags, loadVars, todo>>
LoadErrorLast(l) ==
  /\ Goto(l, "error", "retry") /\ DropAdf
  /\ heap' = heap \ {dspHeader[k].data : k \in 1..(Len(dspHeader) - 1)}
  /\ dspHeader' = <<>> /\ ptr' = [s \in Reserved |-> NULL]
  /\ UNCHANGED <<flags, loadVars, todo, oops>>
LoadError(l) ==
  /\ Goto(l, "error", "retry") /\ DropAdf
  /\ IF dspHeader = <<>>
     THEN UNCHANGED <<memory, oops>>
     ELSE /\ heap' = heap \ Data /\ oops' = ~(Data \subseteq heap)
          /\ dspHeader' = <<>> /\ ptr' = [s \in Reserved |-> NULL]
  /\ UNCHANGED <<flags, loadVars, todo>>

-----------------------------------------------------------------------------
(* dbmdx_va_ve_firmware_ready after the image; dbmdx_switch_to_va_ve_      *)
(* firmware tries again.  A recovery goes on if nothing fails any more.    *)

Configure(l) ==
  /\ active_fw' = "VA" /\ active_fw_va_chip' = "VA"
  /\ \/ /\ Goto(l, "configure", "retry")
        /\ UNCHANGED <<locks, device_ready, wd_reset, stale, loadVars, memory, todo, oops>>
     \/ LeaveLoad(l, "configure", "idle") /\ device_ready' = TRUE
     \/ l \in recovering /\ LeaveLoad(l, "configure", "resume") /\ device_ready' = TRUE
Retry(l) ==
  /\ \/ /\ Goto(l, "retry", "attempt") /\ tries > 1
        /\ tries' = tries - 1 /\ fw' = <<>> /\ i' = 0
        /\ UNCHANGED <<locks, wd_reset, stale, boots, recovering, memory, todo, oops>>
     \/ LeaveLoad(l, "retry", "idle") /\ tries = 1
  /\ active_fw_va_chip' = "PRE_BOOT" /\ device_ready' = FALSE /\ UNCHANGED active_fw

-----------------------------------------------------------------------------
(* The users of the sections, under adfDspLock.  A user is the list of its *)
(* transfers: a section, and whether it is written.                        *)

Rd(s) == <<s, FALSE>>
Wr(s) == <<s, TRUE>>
readLog == <<Rd("LOG")>>
writeCli == <<Rd("STA"), Rd("CLI"), Wr("CLI")>>
readState == <<Rd("STA")>>
writeState == <<Rd("STA"), Wr("STA")>>
query == <<Rd("STA"), Rd("CLI"), Wr("CLI"), Rd("LOG")>>
Operations(u) == IF u = Metrics THEN {query} ELSE {readLog, writeCli, readState, writeState}

(* dbmdx_do_metrics_upload_work.                                           *)
MetricsStart ==
  /\ Goto(Metrics, "idle", "mul") /\ device_ready
  /\ UNCHANGED <<locks, flags, loadVars, memory, todo, oops>>
MetricsMul ==
  /\ Goto(Metrics, "mul", "adf") /\ TakeMul(Metrics)
  /\ UNCHANGED <<flags, loadVars, memory, todo, oops>>
DebugfsStart(u) ==
  /\ Goto(u, "idle", "adf")
  /\ UNCHANGED <<locks, flags, loadVars, memory, todo, oops>>

UserLock(u) ==
  /\ Goto(u, "adf", "use") /\ TakeAdf(u)
  /\ IF dspHeader = <<>> THEN UNCHANGED todo ELSE todo' \in Operations(u)
  /\ UNCHANGED <<flags, loadVars, memory, oops>>

(* dbmdx_debug_read does not take p_lock while wd_reset is set.            *)
Transfer(u) ==
  /\ todo # <<>>
  /\ Goto(u, "use", IF wd_reset /\ ~Head(todo)[2] THEN "unlocked" ELSE "wait")
  /\ oops' = ~Usable(Head(todo)[1])
  /\ UNCHANGED <<locks, flags, loadVars, memory, todo>>
TransferLock(u) ==
  /\ Goto(u, "wait", "locked") /\ TakeP(u)
  /\ UNCHANGED <<flags, loadVars, memory, todo, oops>>
(* A transfer that fails may end the operation.                            *)
TransferEnd(u) ==
  /\ \/ Goto(u, "locked", "use") /\ DropP
     \/ Goto(u, "unlocked", "use") /\ UNCHANGED locks
  /\ todo' \in {Tail(todo), <<>>}
  /\ UNCHANGED <<flags, loadVars, memory, oops>>

UserReturnHolding(u) ==
  /\ todo = <<>> /\ Goto(u, "use", "idle")
  /\ IF dspHeader = <<>> THEN UNCHANGED locks
     ELSE /\ adfDspLock' = Nobody /\ UNCHANGED p_lock
          /\ mul' = IF u = Metrics THEN Nobody ELSE mul
  /\ UNCHANGED <<flags, loadVars, memory, todo, oops>>
UserReturn(u) ==
  /\ todo = <<>> /\ Goto(u, "use", "idle")
  /\ adfDspLock' = Nobody /\ UNCHANGED p_lock
  /\ mul' = IF u = Metrics THEN Nobody ELSE mul
  /\ UNCHANGED <<flags, loadVars, memory, todo, oops>>

-----------------------------------------------------------------------------
LoadStep(l) ==
  \/ LoadMul(l) \/ LoadLock(l) \/ LoadPower(l) \/ LoadRelock(l) \/ RequestFails(l) \/ Request(l) \/ Attempt(l)
  \/ PrintLog(l) \/ PrintDone(l) \/ LoadBegin(l) \/ LoadEnd(l) \/ LoadError(l)
  \/ SectionBin(l) \/ SectionAlloc(l) \/ SectionReuse(l) \/ Configure(l) \/ Retry(l)
DetectStep == DetectLock \/ DetectOk \/ DetectReturns \/ DetectFail
RecoverStep(l) == Recover(l) \/ Resume(l) \/ ShutdownLock(l)
UserStep(u) == UserLock(u) \/ Transfer(u) \/ TransferLock(u) \/ TransferEnd(u) \/ UserReturn(u)

Next ==
  \/ Detect \/ DetectStep \/ MetricsStart \/ MetricsMul
  \/ \E l \in Boots : Reboot(l) \/ Reset(l) \/ Shutdown(l)
  \/ \E l \in Loaders : RecoverStep(l) \/ LoadStep(l)
  \/ \E u \in Debugfs : DebugfsStart(u)
  \/ \E u \in Users : UserStep(u)

Spec == Init /\ [][Next]_vars

(***************************************************************************)
(* A thread that can go on does.  A kernel mutex is handed to a waiter in  *)
(* the end, so who waits for one that is dropped again and again gets it.  *)
(***************************************************************************)
FairSpec ==
  /\ Spec
  /\ SF_vars(DetectStep \/ RecoverStep(Irq) \/ LoadStep(Irq))
  /\ \A l \in Boots : SF_vars(RecoverStep(l) \/ LoadStep(l))
  /\ SF_vars(MetricsMul \/ UserStep(Metrics)) /\ \A u \in Debugfs : SF_vars(UserStep(u))

-----------------------------------------------------------------------------
InLoad == {"booting", "request", "attempt", "print", "printing", "load", "section", "error", "configure", "retry"}
Labels == InLoad \cup {"idle", "detect", "detecting", "recover", "mul", "p_lock", "relock", "resume", "shutdown"}
            \cup {"adf", "use", "wait", "locked", "unlocked"}

(* A boot is tried RETRY_COUNT times at most, and adfLoad_init never goes  *)
(* past the end of the section table.                                      *)
TypeOK ==
  /\ mul \in Procs \cup {Nobody} /\ p_lock \in Procs \cup {Nobody}
  /\ adfDspLock \in Procs \cup {Nobody} /\ pc \in [Procs -> Labels]
  /\ device_ready \in BOOLEAN /\ wd_reset \in BOOLEAN
  /\ stale \in BOOLEAN /\ oops \in BOOLEAN
  /\ active_fw \in {"PRE_BOOT", "VA", "POWER_OFF_VA"}
  /\ active_fw_va_chip \in {"PRE_BOOT", "VA"} /\ recovering \subseteq Loaders
  /\ boots \in 0..MaxBoots /\ tries \in 0..MaxTries
  /\ fw \in Firmwares \cup {<<>>} /\ i \in 0..(Len(fw) + 1)
  /\ dspHeader \in Seq([name : Reserved \cup {"BIN"}, data : Blocks \cup {NULL}])
  /\ ptr \in [Reserved -> Blocks \cup {NULL}] /\ heap \subseteq Blocks
  /\ todo \in Seq(Reserved \X BOOLEAN)

(***************************************************************************)
(* When no load is under way there is either no header and no buffer, or   *)
(* each reserved section of the header has the buffer kept for it, which   *)
(* is allocated and nobody else's: whatever loads failed before, wherever. *)
(***************************************************************************)
HeaderOwned ==
  adfDspLock \notin Loaders \/ pc[adfDspLock] = "printing" =>
    \/ dspHeader = <<>> /\ \A s \in Reserved : ptr[s] = NULL
    \/ /\ \A s \in Reserved : \E k \in SecInfo(s) : dspHeader[k].data = ptr[s]
       /\ \A s \in Reserved : ptr[s] \in heap /\ (\A t \in Reserved \ {s} : ptr[t] # ptr[s])

(***************************************************************************)
(* No NULL or freed pointer is used, by the loader, the log dump or a user *)
(* of the sections: except by the log dump, after a detection or the end   *)
(* of a recovery went ahead though a load had failed and left no header.   *)
(***************************************************************************)
PointersGood == oops => stale /\ \E l \in Loaders : pc[l] = "printing" /\ dspHeader = <<>>

(***************************************************************************)
(* What a load that fails does not free, against the comment that AllFreed *)
(* is about: only buffers that an earlier load had allocated for sections  *)
(* behind the one it failed at; and no other step loses a buffer.          *)
(***************************************************************************)
Leaked == heap \ {ptr[s] : s \in Reserved}
LosesUnreached ==
  [][\A b \in Leaked' \ Leaked :
       \E s \in Reserved : ptr[s] = b /\ \A k \in SecInfo(s) : k > i]_vars

(***************************************************************************)
(* The metrics query, which holds adfDspLock when it asks for p_lock, and  *)
(* a load, which holds p_lock when it asks for adfDspLock, never meet.     *)
(***************************************************************************)
MetricsApart ==
  adfDspLock = Metrics => \A l \in Loaders : pc[l] \notin InLoad

(***************************************************************************)
(* A load or recovery that has begun ends and a user that asked for        *)
(* adfDspLock comes back, unless a user of debugfs and a load wait for     *)
(* each other's mutex, or a detection has returned without dropping        *)
(* p_lock.                                                                 *)
(***************************************************************************)
DeadlyEmbrace ==
  \E u \in Debugfs, l \in Loaders :
    adfDspLock = u /\ pc[u] = "wait" /\ p_lock = l /\ pc[l] \in {"print", "load"}
LockLost == p_lock = Irq /\ pc[Irq] \notin InLoad \cup {"detecting"}
Stopped == oops \/ DeadlyEmbrace \/ LockLost
LoadEnds == \A l \in Loaders : pc[l] \in {"recover", "mul"} ~> pc[l] = "idle" \/ Stopped
UserEnds == \A u \in Users : pc[u] = "adf" ~> pc[u] = "idle" \/ Stopped

(***************************************************************************)
(* dbmdx_debug_read: "Assume p->lock(p) is called before reaching here",   *)
(* where it reads the DSP after a crash.                                   *)
(***************************************************************************)
CrashReadLocked == \A u \in Users : pc[u] = "unlocked" => p_lock = u

(***************************************************************************)
(* The error exit of adfLoad_init, which leaves no header: "staData/       *)
(* cliData/logData has been assigned to the related secarray[i].data, so   *)
(* actually they have been freed already".  So without a header no buffer  *)
(* is left, once adfLoad_init has returned.                                *)
(***************************************************************************)
AllFreed == dspHeader = <<>> /\ adfDspLock \notin Loaders => heap = {}
=============================================================================
