--------------------------- MODULE AdfLoadProofs ----------------------------
(***************************************************************************)
(* Proofs about the loading of ADF images, for any number of loading       *)
(* threads and debugfs users, any images and any number of attempts.       *)
(***************************************************************************)
EXTENDS AdfLoad, SequenceTheorems, TLAPS

(* Where a user of the sections holds adfDspLock.                          *)
InUse == {"use", "wait", "locked", "unlocked"}

(***************************************************************************)
(* The lock discipline: who is where holds which mutex.  The converse does *)
(* not hold for p_lock, which a detection can return with.                 *)
(***************************************************************************)
Roles ==
  /\ \A l \in Loaders :
       pc[l] \in InLoad \cup {"idle", "detect", "detecting", "recover", "mul", "p_lock", "relock",
                           "resume", "shutdown"}
  /\ \A u \in Users : pc[u] \in InUse \cup {"idle", "mul", "adf"}
MulHeld ==
  /\ \A l \in Loaders : pc[l] \in InLoad \cup {"p_lock", "relock"} => mul = l
  /\ pc[Metrics] \in InUse \cup {"adf"} => mul = Metrics
PLockHeld ==
  /\ \A l \in Loaders : pc[l] \in InLoad => p_lock = l
  /\ pc[Irq] = "detecting" => p_lock = Irq
  /\ \A u \in Users : pc[u] = "locked" => p_lock = u
AdfHeld ==
  /\ \A l \in Loaders : pc[l] \in {"printing", "section", "error"} <=> adfDspLock = l
  /\ \A u \in Users : pc[u] \in InUse <=> adfDspLock = u
LockInv == Roles /\ MulHeld /\ PLockHeld /\ AdfHeld

(* The variables of a load are in use only inside one.                     *)
LoadVarsInv ==
  /\ \A l \in Loaders :
       /\ pc[l] \in {"print", "printing", "load", "section", "error", "configure"} => fw \in Firmwares
       /\ pc[l] = "configure" => dspHeader # <<>>
  /\ (\A l \in Loaders : pc[l] \notin {"section", "error", "configure", "retry"}) => i = 0

(* What the user inside has to transfer.                                   *)
TodoInv ==
  /\ todo # <<>> => adfDspLock \in Users /\ dspHeader # <<>>
  /\ \A u \in Users : pc[u] \in {"wait", "locked", "unlocked"} => todo # <<>>

(* The section table while adfLoad_init fills it, and after.               *)
NoPtrs == \A s \in Reserved : ptr[s] = NULL
PtrsOwned ==
  \A s \in Reserved :
    ptr[s] # NULL => ptr[s] \in heap /\ \A t \in Reserved \ {s} : ptr[t] # ptr[s]
Whole ==
  \/ dspHeader = <<>> /\ NoPtrs
  \/ \A s \in Reserved :
       ptr[s] # NULL /\ \E k \in SecInfo(s) : dspHeader[k].data = ptr[s]
Filled(k) == k < i /\ fw[k] \in Reserved
Table ==
  /\ i \in Nat \ {0} /\ DOMAIN dspHeader = DOMAIN fw
  /\ \A k \in DOMAIN fw :
       /\ dspHeader[k].name = fw[k]
       /\ Filled(k) => dspHeader[k].data = ptr[fw[k]] /\ ptr[fw[k]] # NULL
       /\ ~Filled(k) => dspHeader[k].data = NULL
MemoryInv ==
  /\ PtrsOwned
  /\ (\A l \in Loaders : pc[l] \notin {"section", "error"}) => Whole
  /\ \A l \in Loaders :
       /\ pc[l] = "section" => Table
       /\ pc[l] = "error" =>
            \/ dspHeader = <<>> /\ NoPtrs
            \/ Table /\ (Section \in Reserved => ptr[Section] = NULL)

(***************************************************************************)
(* device_ready and wd_reset can be relied upon as long as no detection    *)
(* and no recovery has taken a stale device_ready at its word.             *)
(***************************************************************************)
FlagInv ==
  /\ ~stale /\ (device_ready \/ wd_reset \/ pc[Irq] = "detecting") => dspHeader # <<>>
  /\ \A l \in Loaders :
       /\ pc[l] \in InLoad \ {"request"} => ~device_ready
       /\ pc[l] \in {"load", "section", "error", "configure"} => ~wd_reset
       /\ pc[l] \in {"print", "printing"} => wd_reset

LoadInv ==
  /\ TypeOK /\ LockInv /\ LoadVarsInv /\ TodoInv /\ MemoryInv /\ FlagInv
  /\ PointersGood

-----------------------------------------------------------------------------
(* The threads.                                                            *)

LEMMA ProcFacts ==
  /\ Loaders \subseteq Procs /\ Users \subseteq Procs /\ Loaders \cap Users = {}
  /\ Nobody \notin Procs /\ Irq \in Loaders /\ Metrics \in Users
  /\ Boots \subseteq Loaders /\ Debugfs \subseteq Users
BY AdfLoadAssumption DEF Procs, Loaders, Users

(* After an access to NULL or freed memory nothing runs any more.          *)
LEMMA NextGoesOn == Next => ~oops
BY DEF Next, Detect, DetectStep, DetectLock, DetectOk, DetectReturns, DetectFail, Begin, RecoverStep, Recover, Resume, ShutdownLock,
   MetricsStart, MetricsMul, Reboot, Reset, Shutdown, DebugfsStart, LoadStep, LoadMul, LoadLock, LoadPower, LoadRelock,
   RequestFails, Request, Attempt, PrintLog, PrintDone, LoadBegin, LoadEnd, LoadError,
   SectionBin, SectionAlloc, SectionReuse, Configure, Retry, LeaveLoad, UserStep,
   UserLock, Transfer, TransferLock, TransferEnd, UserReturn, Goto

-----------------------------------------------------------------------------
(* Who holds which mutex.                                                  *)

LEMMA LoadStepLocks ==
  ASSUME pc \in [Procs -> Labels], LockInv, NEW l \in Loaders, LoadStep(l)
  PROVE  LockInv'
<1> USE ProcFacts DEF LockInv, Roles, MulHeld, PLockHeld, AdfHeld, Goto, locks, InLoad, InUse
<1>1. CASE LoadMul(l)
  BY <1>1 DEF LoadMul, TakeMul
<1>2. CASE LoadLock(l)
  BY <1>2 DEF LoadLock, TakeP
<1>3. CASE RequestFails(l)
  BY <1>3 DEF RequestFails, LeaveLoad
<1>4. CASE Request(l)
  BY <1>4 DEF Request
<1>5. CASE Attempt(l)
  BY <1>5 DEF Attempt
<1>6. CASE PrintLog(l)
  BY <1>6 DEF PrintLog, TakeAdf
<1>7. CASE PrintDone(l)
  BY <1>7 DEF PrintDone, DropAdf
<1>8. CASE LoadBegin(l)
  BY <1>8 DEF LoadBegin, TakeAdf
<1>9. CASE LoadEnd(l)
  BY <1>9 DEF LoadEnd, DropAdf
<1>10. CASE LoadError(l)
  BY <1>10 DEF LoadError, DropAdf
<1>11. CASE SectionBin(l)
  BY <1>11 DEF SectionBin
<1>12. CASE SectionAlloc(l)
  BY <1>12 DEF SectionAlloc
<1>13. CASE SectionReuse(l)
  BY <1>13 DEF SectionReuse
<1>14. CASE Configure(l)
  BY <1>14 DEF Configure, LeaveLoad
<1>15. CASE Retry(l)
  BY <1>15 DEF Retry, LeaveLoad
<1>16. CASE LoadPower(l)
  BY <1>16 DEF LoadPower, DropP
<1>17. CASE LoadRelock(l)
  BY <1>17 DEF LoadRelock, TakeP
<1> QED BY <1>1, <1>2, <1>3, <1>4, <1>5, <1>6, <1>7, <1>8, <1>9, <1>10, <1>11, <1>12, <1>13, <1>14, <1>15, <1>16, <1>17 DEF LoadStep

LEMMA UserStepLocks ==
  ASSUME pc \in [Procs -> Labels], LockInv, NEW u \in Users, UserStep(u)
  PROVE  LockInv'
<1> USE ProcFacts DEF LockInv, Roles, MulHeld, PLockHeld, AdfHeld, Goto, locks, InLoad, InUse
<1>1. CASE UserLock(u)
  BY <1>1 DEF UserLock, TakeAdf
<1>2. CASE Transfer(u)
  BY <1>2 DEF Transfer
<1>3. CASE TransferLock(u)
  BY <1>3 DEF TransferLock, TakeP
<1>4. CASE TransferEnd(u)
  BY <1>4 DEF TransferEnd, DropP
<1>5. CASE UserReturn(u)
  BY <1>5 DEF UserReturn
<1> QED BY <1>1, <1>2, <1>3, <1>4, <1>5 DEF UserStep

LEMMA OtherStepLocks ==
  ASSUME pc \in [Procs -> Labels], LockInv,
         \/ Detect \/ DetectStep \/ MetricsStart \/ MetricsMul
         \/ \E l \in Boots : Reboot(l) \/ Reset(l) \/ Shutdown(l)
         \/ \E l \in Loaders : RecoverStep(l)
         \/ \E u \in Debugfs : DebugfsStart(u)
  PROVE  LockInv'
<1> USE ProcFacts, AdfLoadAssumption
    DEF LockInv, Roles, MulHeld, PLockHeld, AdfHeld, Goto, locks, InLoad, InUse
<1>1. CASE Detect
  BY <1>1 DEF Detect
<1>2. CASE DetectLock
  BY <1>2 DEF DetectLock, TakeP
<1>3. CASE DetectOk
  BY <1>3 DEF DetectOk, DropP
<1>4. CASE DetectReturns
  BY <1>4 DEF DetectReturns
<1>5. CASE DetectFail
  BY <1>5 DEF DetectFail, DropP
<1>6. ASSUME NEW l \in Loaders, RecoverStep(l) PROVE LockInv'
  BY <1>6 DEF RecoverStep, Recover, Resume, ShutdownLock
<1>7. CASE MetricsStart
  BY <1>7 DEF MetricsStart
<1>8. CASE MetricsMul
  BY <1>8 DEF MetricsMul, TakeMul
<1>9. ASSUME NEW l \in Boots, Reboot(l) \/ Reset(l) \/ Shutdown(l) PROVE LockInv'
  BY <1>9 DEF Reboot, Reset, Shutdown, Begin
<1>10. ASSUME NEW u \in Debugfs, DebugfsStart(u) PROVE LockInv'
  BY <1>10 DEF DebugfsStart
<1> QED BY <1>1, <1>2, <1>3, <1>4, <1>5, <1>6, <1>7, <1>8, <1>9, <1>10 DEF DetectStep

-----------------------------------------------------------------------------
(* Images, buffers and the section table.                                  *)

Name == Reserved \cup {"BIN"}
Entry == [name : Name, data : Blocks \cup {NULL}]

(* An image is a sequence of sections that has every reserved one.         *)
LEMMA FirmwareFacts ==
  ASSUME NEW f \in Firmwares
  PROVE  /\ f \in Seq(Name) /\ Len(f) \in Nat /\ DOMAIN f = 1..Len(f)
         /\ \A k \in DOMAIN f : f[k] \in Name
         /\ \A s \in Reserved : \E k \in DOMAIN f : f[k] = s
         /\ f # <<>>
<1>1. f \in Seq(Name) /\ \A s \in Reserved : \E k \in DOMAIN f : f[k] = s
  BY AdfLoadAssumption DEF Name
<1>2. Len(f) \in Nat /\ DOMAIN f = 1..Len(f) /\ \A k \in DOMAIN f : f[k] \in Name
  BY <1>1
<1>3. "LOG" \in Reserved
  BY DEF Reserved
<1>4. f # <<>>
  BY <1>1, <1>3
<1> QED BY <1>1, <1>2, <1>4

(* The section that adfLoad_init is at is one of the image, or the end.    *)
LEMMA SectionFacts ==
  ASSUME fw \in Firmwares, i \in Nat \ {0}
  PROVE  /\ Section \in Name \cup {"end"}
         /\ Section # "end" => i \in DOMAIN fw /\ i \in 1..Len(fw) /\ fw[i] = Section
         /\ Section = "end" => \A k \in DOMAIN fw : k < i
<1>1. "end" \notin Name
  BY DEF Name, Reserved
<1> QED BY <1>1, FirmwareFacts DEF Section

(* kmalloc returns a buffer that nobody has.                               *)
LEMMA FreshFacts ==
  ASSUME Blocks \ heap # {}
  PROVE  Fresh \in Blocks /\ Fresh \notin heap
BY DEF Fresh

LEMMA NullIsNoBlock == NULL \notin Blocks
BY DEF NULL, Blocks

(* The table of a new image, and the table with one more section filled.   *)
LEMMA HeaderTypes ==
  /\ \A f \in Firmwares : [k \in DOMAIN f |-> [name |-> f[k], data |-> NULL]] \in Seq(Entry)
  /\ \A h \in Seq(Entry), b \in Blocks \cup {NULL}, k \in Nat :
       [h EXCEPT ![k].data = b] \in Seq(Entry)
  /\ <<>> \in Seq(Entry)
<1>1. ASSUME NEW f \in Firmwares
      PROVE  [k \in DOMAIN f |-> [name |-> f[k], data |-> NULL]] \in Seq(Entry)
  <2>1. /\ Len(f) \in Nat /\ DOMAIN f = 1..Len(f)
        /\ \A k \in 1..Len(f) : [name |-> f[k], data |-> NULL] \in Entry
    BY FirmwareFacts DEF Entry
  <2>2. [k \in DOMAIN f |-> [name |-> f[k], data |-> NULL]] \in [1..Len(f) -> Entry]
    BY <2>1
  <2> QED BY <2>1, <2>2, SeqDef
<1>2. ASSUME NEW h \in Seq(Entry), NEW b \in Blocks \cup {NULL}, NEW k \in Nat
      PROVE  [h EXCEPT ![k].data = b] \in Seq(Entry)
  <2>1. CASE k \in DOMAIN h
    <3>0. h[k] \in Entry
      BY <2>1
    <3>1. [h[k] EXCEPT !.data = b] \in Entry
      BY <3>0 DEF Entry
    <3>2. [h EXCEPT ![k] = [h[k] EXCEPT !.data = b]] \in Seq(Entry)
      BY <2>1, <3>1, ExceptSeq
    <3> QED BY <3>2
  <2>2. CASE k \notin DOMAIN h
    <3>1. [h EXCEPT ![k].data = b] = h
      BY <2>2
    <3> QED BY <3>1
  <2> QED BY <2>1, <2>2
<1>3. <<>> \in Seq(Entry)
  OBVIOUS
<1> QED BY <1>1, <1>2, <1>3

-----------------------------------------------------------------------------
(* The memory that the loader keeps.                                       *)

(* p_lock keeps the loaders apart.                                         *)
LEMMA LoaderAlone ==
  ASSUME LockInv, NEW l \in Loaders, pc[l] \in InLoad
  PROVE  \A m \in Loaders \ {l} : pc[m] \notin InLoad
BY DEF LockInv, PLockHeld

(* A step that neither enters nor leaves the body of adfLoad_init.         *)
StillStep ==
  /\ UNCHANGED memory
  /\ \A l \in Loaders : pc[l] \in {"section", "error"} \/ pc'[l] \in {"section", "error"} =>
       UNCHANGED <<pc[l], fw, i>>
LEMMA StillStepMemory ==
  ASSUME MemoryInv, StillStep
  PROVE  MemoryInv'
<1>1. UNCHANGED <<dspHeader, ptr, heap>>
  BY DEF StillStep, memory
<1>2. PtrsOwned'
  BY <1>1 DEF MemoryInv, PtrsOwned
<1>3. ASSUME \A l \in Loaders : pc'[l] \notin {"section", "error"} PROVE Whole'
  <2>1. \A l \in Loaders : pc[l] \notin {"section", "error"}
    BY <1>3 DEF StillStep
  <2> QED BY <1>1, <2>1 DEF MemoryInv, Whole, SecInfo, NoPtrs
<1>4. ASSUME NEW l \in Loaders, pc'[l] \in {"section", "error"}
      PROVE  /\ pc[l] = pc'[l] /\ (Table' <=> Table) /\ Section' = Section
             /\ NoPtrs' <=> NoPtrs
  <2>1. UNCHANGED <<pc[l], fw, i>>
    BY <1>4 DEF StillStep
  <2> QED BY <1>1, <2>1 DEF Table, Filled, Section, NoPtrs
<1> QED BY <1>1, <1>2, <1>3, <1>4 DEF MemoryInv

LEMMA EntryType ==
  ASSUME TypeOK, NEW k \in DOMAIN dspHeader
  PROVE  dspHeader[k] \in Entry
<1>1. dspHeader \in Seq(Entry)
  BY DEF TypeOK, Entry, Name
<1> QED BY <1>1

(* Whether a table is filled or not, each buffer in it is allocated.       *)
LEMMA TableOwned ==
  ASSUME PtrsOwned, Table, fw \in Firmwares
  PROVE  Data \subseteq heap
<1> SUFFICES ASSUME NEW k \in DOMAIN dspHeader, dspHeader[k].data # NULL
             PROVE  dspHeader[k].data \in heap
  BY DEF Data
<1> QED BY DEF PtrsOwned, Table, Filled

LEMMA LoadBeginMemory ==
  ASSUME TypeOK, LockInv, LoadVarsInv, MemoryInv, NEW l \in Loaders, LoadBegin(l)
  PROVE  MemoryInv'
<1>1. /\ pc[l] = "load" /\ pc'[l] \in {"section", "error"} /\ UNCHANGED <<ptr, heap, fw>>
      /\ \A m \in Loaders \ {l} : pc'[m] = pc[m]
  BY ProcFacts DEF LoadBegin, Goto, TypeOK
<1>2. \A m \in Loaders \ {l} : pc[m] \notin InLoad
  BY <1>1, LoaderAlone DEF InLoad
<1>3. Whole
  BY <1>1, <1>2 DEF MemoryInv, InLoad
<1>4. PtrsOwned'
  BY <1>1 DEF MemoryInv, PtrsOwned
<1>5. fw \in Firmwares
  BY <1>1 DEF LoadVarsInv
<1>6. CASE pc'[l] = "section"
  <2>1. /\ dspHeader' = [k \in DOMAIN fw |-> [name |-> fw[k], data |-> NULL]]
        /\ i' = 1
    BY <1>6, ProcFacts DEF LoadBegin, Goto, TypeOK
  <2>2. Table'
    BY <1>1, <1>5, <2>1, FirmwareFacts DEF Table, Filled
  <2> QED BY <1>1, <1>2, <1>4, <1>6, <2>2 DEF MemoryInv, InLoad
<1>7. CASE pc'[l] = "error"
  <2>1. dspHeader = <<>> /\ dspHeader' = <<>>
    BY <1>7, ProcFacts DEF LoadBegin, Goto, TypeOK
  <2>2. NoPtrs
    <3>1. \A s : SecInfo(s) = {}
      BY <2>1 DEF SecInfo
    <3>2. "LOG" \in Reserved
      BY DEF Reserved
    <3> QED BY <1>3, <3>1, <3>2 DEF Whole
  <2>3. NoPtrs'
    BY <1>1, <2>2 DEF NoPtrs
  <2> QED BY <1>1, <1>2, <1>4, <1>7, <2>1, <2>3 DEF MemoryInv, InLoad
<1> QED BY <1>1, <1>6, <1>7

LEMMA LoadEndMemory ==
  ASSUME TypeOK, LockInv, LoadVarsInv, MemoryInv, NEW l \in Loaders, LoadEnd(l)
  PROVE  MemoryInv' /\ dspHeader # <<>>
<1>1. /\ pc[l] = "section" /\ pc'[l] \in {"configure", "error"} /\ Section = "end"
      /\ UNCHANGED <<dspHeader, ptr, heap, fw, i>>
      /\ \A m \in Loaders \ {l} : pc'[m] = pc[m]
  BY ProcFacts DEF LoadEnd, Goto, TypeOK, loadVars, memory
<1>2. \A m \in Loaders \ {l} : pc[m] \notin InLoad
  BY <1>1, LoaderAlone DEF InLoad
<1>3. Table /\ PtrsOwned /\ fw \in Firmwares
  BY <1>1 DEF MemoryInv, LoadVarsInv
<1>4. \A s \in Reserved : ptr[s] # NULL /\ \E k \in SecInfo(s) : dspHeader[k].data = ptr[s]
  <2>1. \A k \in DOMAIN fw : k < i
    BY <1>1, <1>3, SectionFacts DEF Table
  <2> QED BY <1>3, <2>1, FirmwareFacts DEF Table, Filled, SecInfo
<1>5. dspHeader # <<>>
  BY <1>4 DEF Reserved, SecInfo
<1>6. Whole'
  BY <1>1, <1>4 DEF Whole, SecInfo
<1>7. PtrsOwned'
  BY <1>1, <1>3 DEF PtrsOwned
<1>8. Table' /\ Section' = "end"
  BY <1>1, <1>3 DEF Table, Filled, Section
<1>9. "end" \notin Reserved
  BY DEF Reserved
<1> QED BY <1>1, <1>2, <1>5, <1>6, <1>7, <1>8, <1>9 DEF MemoryInv, InLoad

LEMMA SectionBinMemory ==
  ASSUME TypeOK, LockInv, LoadVarsInv, MemoryInv, NEW l \in Loaders, SectionBin(l)
  PROVE  MemoryInv'
<1>1. /\ pc[l] = "section" /\ pc'[l] \in {"section", "error"} /\ Section = "BIN"
      /\ UNCHANGED <<dspHeader, ptr, heap, fw>>
      /\ IF pc'[l] = "section" THEN i' = i + 1 ELSE i' = i
      /\ \A m \in Loaders \ {l} : pc'[m] = pc[m]
  BY ProcFacts DEF SectionBin, Goto, TypeOK, memory
<1>2. \A m \in Loaders \ {l} : pc[m] \notin InLoad
  BY <1>1, LoaderAlone DEF InLoad
<1>3. Table /\ PtrsOwned /\ fw \in Firmwares
  BY <1>1 DEF MemoryInv, LoadVarsInv
<1>4. i \in DOMAIN fw /\ fw[i] \notin Reserved /\ i \in Nat \ {0}
  BY <1>1, <1>3, SectionFacts DEF Table, Reserved
<1>5. Table'
  <2>1. \A k \in DOMAIN fw : Filled(k)' <=> Filled(k)
    BY <1>1, <1>3, <1>4, FirmwareFacts DEF Filled
  <2> QED BY <1>1, <1>3, <1>4, <2>1 DEF Table
<1>6. PtrsOwned'
  BY <1>1, <1>3 DEF PtrsOwned
<1>7. pc'[l] = "error" => Section' \notin Reserved
  BY <1>1, <1>4 DEF Section, Reserved
<1> QED BY <1>1, <1>2, <1>5, <1>6, <1>7 DEF MemoryInv, InLoad

LEMMA SectionAllocMemory ==
  ASSUME TypeOK, LockInv, LoadVarsInv, MemoryInv, NEW l \in Loaders, SectionAlloc(l)
  PROVE  MemoryInv'
<1>1. /\ pc[l] = "section" /\ pc'[l] \in {"section", "error"} /\ Section \in Reserved
      /\ ptr[Section] = NULL /\ UNCHANGED fw
      /\ \A m \in Loaders \ {l} : pc'[m] = pc[m]
  BY ProcFacts DEF SectionAlloc, Goto, TypeOK
<1>2. \A m \in Loaders \ {l} : pc[m] \notin InLoad
  BY <1>1, LoaderAlone DEF InLoad
<1>3. Table /\ PtrsOwned /\ fw \in Firmwares
  BY <1>1 DEF MemoryInv, LoadVarsInv
<1>4. i \in DOMAIN fw /\ fw[i] = Section /\ i \in Nat \ {0}
  BY <1>1, <1>3, SectionFacts DEF Table, Reserved
<1>5. CASE pc'[l] = "section"
  <2>1. /\ heap' = heap \cup {Fresh} /\ ptr' = [ptr EXCEPT ![Section] = Fresh]
        /\ dspHeader' = [dspHeader EXCEPT ![i].data = Fresh] /\ i' = i + 1
        /\ Blocks \ heap # {}
    BY <1>5, ProcFacts DEF SectionAlloc, Goto, TypeOK
  <2>2. Fresh \in Blocks /\ Fresh \notin heap /\ Fresh # NULL
    BY <2>1, FreshFacts, NullIsNoBlock
  <2>3. \A s \in Reserved : ptr'[s] = IF s = Section THEN Fresh ELSE ptr[s]
    BY <2>1 DEF TypeOK
  <2>4. PtrsOwned'
    BY <1>1, <1>3, <2>1, <2>2, <2>3 DEF PtrsOwned
  <2>5. Table'
    <3>0. DOMAIN dspHeader' = DOMAIN fw'
      BY <1>1, <1>3, <2>1 DEF Table
    <3>1. ASSUME NEW k \in DOMAIN fw
          PROVE  /\ dspHeader'[k].name = fw[k]
                 /\ dspHeader'[k].data = IF k = i THEN Fresh ELSE dspHeader[k].data
      <4>1. k \in DOMAIN dspHeader /\ dspHeader[k] \in Entry /\ dspHeader[k].name = fw[k]
        BY <1>3, EntryType DEF Table
      <4> QED BY <2>1, <4>1 DEF Entry
    <3>2. ASSUME NEW k \in DOMAIN fw
          PROVE  /\ Filled(k)' => dspHeader'[k].data = ptr'[fw[k]] /\ ptr'[fw[k]] # NULL
                 /\ ~Filled(k)' => dspHeader'[k].data = NULL
      <4>1. CASE k = i
        <5>1. Filled(k)'
          BY <1>1, <1>4, <2>1, <4>1 DEF Filled
        <5> QED BY <1>1, <1>4, <2>2, <2>3, <3>1, <4>1, <5>1
      <4>2. CASE k # i
        <5>1. Filled(k)' <=> Filled(k)
          BY <1>1, <1>3, <1>4, <2>1, <4>2, FirmwareFacts DEF Filled
        <5>2. Filled(k) => fw[k] # Section /\ fw[k] \in Reserved
          BY <1>1, <1>3 DEF Table, Filled
        <5> QED BY <1>3, <2>3, <3>1, <4>2, <5>1, <5>2 DEF Table
      <4> QED BY <4>1, <4>2
    <3>3. i' \in Nat \ {0} /\ fw' = fw
      BY <1>1, <1>4, <2>1
    <3>4. ASSUME NEW k \in DOMAIN fw'
          PROVE  /\ dspHeader'[k].name = fw'[k]
                 /\ Filled(k)' => dspHeader'[k].data = ptr'[fw'[k]] /\ ptr'[fw'[k]] # NULL
                 /\ ~Filled(k)' => dspHeader'[k].data = NULL
      BY <3>1, <3>2, <3>3
    <3> QED BY <3>0, <3>3, <3>4 DEF Table
  <2> QED BY <1>1, <1>2, <1>5, <2>4, <2>5 DEF MemoryInv, InLoad
<1>6. CASE pc'[l] = "error"
  <2>1. UNCHANGED <<dspHeader, ptr, heap, fw, i>>
    BY <1>6, ProcFacts DEF SectionAlloc, Goto, TypeOK, memory
  <2>2. PtrsOwned' /\ Table' /\ ptr'[Section'] = NULL
    BY <1>1, <1>3, <2>1 DEF PtrsOwned, Table, Filled, Section
  <2> QED BY <1>1, <1>2, <1>6, <2>2 DEF MemoryInv, InLoad
<1> QED BY <1>1, <1>5, <1>6

LEMMA SectionReuseMemory ==
  ASSUME TypeOK, LockInv, LoadVarsInv, MemoryInv, NEW l \in Loaders, SectionReuse(l)
  PROVE  MemoryInv' /\ ~oops'
<1>1. /\ pc[l] = "section" /\ pc'[l] = "section" /\ Section \in Reserved
      /\ ptr[Section] # NULL /\ UNCHANGED <<ptr, heap, fw>>
      /\ oops' = (ptr[Section] \notin heap)
      /\ dspHeader' = [dspHeader EXCEPT ![i].data = ptr[Section]] /\ i' = i + 1
      /\ \A m \in Loaders \ {l} : pc'[m] = pc[m]
  BY ProcFacts DEF SectionReuse, Goto, TypeOK
<1>2. \A m \in Loaders \ {l} : pc[m] \notin InLoad
  BY <1>1, LoaderAlone DEF InLoad
<1>3. Table /\ PtrsOwned /\ fw \in Firmwares
  BY <1>1 DEF MemoryInv, LoadVarsInv
<1>4. i \in DOMAIN fw /\ fw[i] = Section /\ i \in Nat \ {0}
  BY <1>1, <1>3, SectionFacts DEF Table, Reserved
<1>5. PtrsOwned' /\ ~oops'
  BY <1>1, <1>3 DEF PtrsOwned
<1>6. Table'
  <2>0. DOMAIN dspHeader' = DOMAIN fw' /\ i' \in Nat \ {0}
    BY <1>1, <1>3, <1>4 DEF Table
  <2>1. ASSUME NEW k \in DOMAIN fw
        PROVE  /\ dspHeader'[k].name = fw[k]
               /\ dspHeader'[k].data = IF k = i THEN ptr[Section] ELSE dspHeader[k].data
    <3>1. k \in DOMAIN dspHeader /\ dspHeader[k] \in Entry /\ dspHeader[k].name = fw[k]
      BY <1>3, EntryType DEF Table
    <3> QED BY <1>1, <3>1 DEF Entry
  <2>2. ASSUME NEW k \in DOMAIN fw
        PROVE  Filled(k)' <=> Filled(k) \/ k = i
    BY <1>1, <1>3, <1>4, FirmwareFacts DEF Filled
  <2>3. ASSUME NEW k \in DOMAIN fw'
        PROVE  /\ dspHeader'[k].name = fw'[k]
               /\ Filled(k)' => dspHeader'[k].data = ptr'[fw'[k]] /\ ptr'[fw'[k]] # NULL
               /\ ~Filled(k)' => dspHeader'[k].data = NULL
    BY <1>1, <1>3, <1>4, <2>1, <2>2 DEF Table
  <2> QED BY <2>0, <2>3 DEF Table
<1> QED BY <1>1, <1>2, <1>5, <1>6 DEF MemoryInv, InLoad

LEMMA LoadErrorMemory ==
  ASSUME TypeOK, LockInv, LoadVarsInv, MemoryInv, NEW l \in Loaders, LoadError(l)
  PROVE  MemoryInv' /\ ~oops'
<1>1. /\ pc[l] = "error" /\ pc'[l] = "retry" /\ ~oops
      /\ \A m \in Loaders \ {l} : pc'[m] = pc[m]
  BY ProcFacts DEF LoadError, Goto, TypeOK
<1>2. \A m \in Loaders : pc'[m] \notin {"section", "error"}
  BY <1>1, LoaderAlone DEF InLoad
<1>3. dspHeader' = <<>>
  BY DEF LoadError, memory
<1>4. CASE dspHeader = <<>>
  <2>1. UNCHANGED <<dspHeader, ptr, heap, oops>>
    BY <1>4 DEF LoadError, memory
  <2>2. NoPtrs
    <3>1. fw \in Firmwares
      BY <1>1 DEF LoadVarsInv
    <3>2. ~Table
      BY <1>4, <3>1, FirmwareFacts DEF Table
    <3> QED BY <1>1, <3>2 DEF MemoryInv
  <2>3. NoPtrs' /\ PtrsOwned'
    BY <2>1, <2>2 DEF NoPtrs, PtrsOwned
  <2> QED BY <1>1, <1>2, <1>3, <2>1, <2>3 DEF MemoryInv, Whole
<1>5. CASE dspHeader # <<>>
  <2>1. ptr' = [s \in Reserved |-> NULL] /\ oops' = ~(Data \subseteq heap)
    BY <1>5 DEF LoadError
  <2>2. Table /\ PtrsOwned /\ fw \in Firmwares
    BY <1>1, <1>5 DEF MemoryInv, LoadVarsInv
  <2>3. Data \subseteq heap
    BY <2>2, TableOwned
  <2>4. NoPtrs' /\ PtrsOwned'
    BY <2>1 DEF NoPtrs, PtrsOwned
  <2> QED BY <1>2, <1>3, <2>1, <2>3, <2>4 DEF MemoryInv, Whole
<1> QED BY <1>4, <1>5

LEMMA LoadStepMemory ==
  ASSUME TypeOK, LockInv, LoadVarsInv, MemoryInv, NEW l \in Loaders, LoadStep(l)
  PROVE  MemoryInv'
<1>1. CASE LoadBegin(l)
  BY <1>1, LoadBeginMemory
<1>2. CASE LoadEnd(l)
  BY <1>2, LoadEndMemory
<1>3. CASE SectionBin(l)
  BY <1>3, SectionBinMemory
<1>4. CASE SectionAlloc(l)
  BY <1>4, SectionAllocMemory
<1>5. CASE SectionReuse(l)
  BY <1>5, SectionReuseMemory
<1>6. CASE LoadError(l)
  BY <1>6, LoadErrorMemory
<1>7. CASE \/ LoadMul(l) \/ LoadLock(l) \/ LoadPower(l) \/ LoadRelock(l) \/ RequestFails(l) \/ Request(l) \/ Attempt(l)
           \/ PrintLog(l) \/ PrintDone(l) \/ Configure(l) \/ Retry(l)
  <2>1. /\ UNCHANGED memory
        /\ pc[l] \notin {"section", "error"} /\ pc'[l] \notin {"section", "error"}
        /\ \A m \in Loaders \ {l} : pc'[m] = pc[m]
        /\ pc[l] \in InLoad \/ UNCHANGED <<fw, i>>
    BY <1>7, ProcFacts
       DEF LoadMul, LoadLock, LoadPower, LoadRelock, RequestFails, Request, Attempt, PrintLog, PrintDone, Configure,
           Retry, LeaveLoad, Goto, TypeOK, loadVars, InLoad
  <2>2. pc[l] \in InLoad => \A m \in Loaders \ {l} : pc[m] \notin {"section", "error"}
    BY LoaderAlone DEF InLoad
  <2>3. StillStep
    BY <2>1, <2>2 DEF StillStep
  <2> QED BY <2>3, StillStepMemory
<1> QED BY <1>1, <1>2, <1>3, <1>4, <1>5, <1>6, <1>7 DEF LoadStep

(* The variables of the load, the flags and the users, in a loader's step. *)
LEMMA LoadStepFrame ==
  ASSUME TypeOK, NEW l \in Loaders, LoadStep(l)
  PROVE  /\ \A m \in Loaders \ {l} : pc'[m] = pc[m]
         /\ \A u \in Users : pc'[u] = pc[u]
         /\ todo' = todo
         /\ pc[l] \notin {"mul", "p_lock", "relock"} => pc[l] \in InLoad
         /\ pc'[l] \in InLoad \cup {"p_lock", "relock", "idle", "resume"}
BY ProcFacts
   DEF LoadStep, LoadMul, LoadLock, LoadPower, LoadRelock, RequestFails, Request, Attempt, PrintLog, PrintDone,
         LoadBegin, LoadEnd, LoadError, SectionBin, SectionAlloc, SectionReuse, Configure,
         Retry, LeaveLoad, Goto, TypeOK, InLoad

LEMMA LoadStepVars ==
  ASSUME TypeOK, LockInv, LoadVarsInv, MemoryInv, NEW l \in Loaders, LoadStep(l)
  PROVE  LoadVarsInv'
<1>1. \A m \in Loaders \ {l} : pc'[m] = pc[m]
  BY LoadStepFrame
<1>2. pc[l] \in InLoad => \A m \in Loaders \ {l} : pc[m] \notin InLoad
  BY LoaderAlone
<1> USE ProcFacts DEF Goto, LoadVarsInv, InLoad, TypeOK
<1>3. CASE LoadMul(l)
  BY <1>1, <1>2, <1>3 DEF LoadMul, loadVars, memory
<1>4. CASE LoadLock(l)
  BY <1>1, <1>2, <1>4 DEF LoadLock, loadVars, memory
<1>5. CASE RequestFails(l)
  BY <1>1, <1>2, <1>5 DEF RequestFails, LeaveLoad, memory
<1>6. CASE Request(l)
  BY <1>1, <1>2, <1>6 DEF Request, memory
<1>7. CASE Attempt(l)
  BY <1>1, <1>2, <1>7 DEF Attempt, memory
<1>8. CASE PrintLog(l)
  BY <1>1, <1>2, <1>8 DEF PrintLog, loadVars, memory
<1>9. CASE PrintDone(l)
  BY <1>1, <1>2, <1>9 DEF PrintDone, loadVars, memory
<1>10. CASE LoadBegin(l)
  BY <1>1, <1>2, <1>10 DEF LoadBegin
<1>11. CASE LoadEnd(l)
  BY <1>1, <1>2, <1>11, LoadEndMemory DEF LoadEnd, loadVars, memory
<1>12. CASE LoadError(l)
  BY <1>1, <1>2, <1>12 DEF LoadError, loadVars
<1>13. CASE SectionBin(l)
  BY <1>1, <1>2, <1>13 DEF SectionBin, memory
<1>14. CASE SectionAlloc(l)
  BY <1>1, <1>2, <1>14 DEF SectionAlloc
<1>15. CASE SectionReuse(l)
  BY <1>1, <1>2, <1>15 DEF SectionReuse
<1>16. CASE Configure(l)
  BY <1>1, <1>2, <1>16 DEF Configure, LeaveLoad, loadVars, memory
<1>17. CASE Retry(l)
  BY <1>1, <1>2, <1>17 DEF Retry, LeaveLoad, memory
<1>18. CASE LoadPower(l)
  BY <1>1, <1>2, <1>18 DEF LoadPower, loadVars, memory
<1>19. CASE LoadRelock(l)
  BY <1>1, <1>2, <1>19 DEF LoadRelock, loadVars, memory
<1> QED BY <1>3, <1>4, <1>5, <1>6, <1>7, <1>8, <1>9, <1>10, <1>11, <1>12, <1>13, <1>14, <1>15, <1>16, <1>17, <1>18, <1>19 DEF LoadStep

LEMMA LoadStepTodo ==
  ASSUME TypeOK, LockInv, TodoInv, NEW l \in Loaders, LoadStep(l)
  PROVE  TodoInv'
<1>1. todo' = todo /\ \A u \in Users : pc'[u] = pc[u]
  BY LoadStepFrame
<1>2. UNCHANGED <<adfDspLock, dspHeader>> \/ adfDspLock \in {Nobody, l}
  <2>1. pc[l] \in {"printing", "section", "error"} => adfDspLock = l
    BY DEF LockInv, AdfHeld
  <2> QED BY <2>1
      DEF LoadStep, LoadMul, LoadLock, LoadPower, LoadRelock, RequestFails, Request, Attempt, PrintLog, PrintDone,
         LoadBegin, LoadEnd, LoadError, SectionBin, SectionAlloc, SectionReuse, Configure,
         Retry, LeaveLoad,
         Goto, locks, memory, TakeAdf, TakeP, TakeMul, DropP
<1>3. Nobody \notin Users /\ l \notin Users
  BY ProcFacts
<1> QED BY <1>1, <1>2, <1>3 DEF TodoInv

LEMMA LoadStepFlags ==
  ASSUME TypeOK, LockInv, LoadVarsInv, MemoryInv, FlagInv, NEW l \in Loaders, LoadStep(l)
  PROVE  FlagInv'
<1>1. \A m \in Loaders \ {l} : pc'[m] = pc[m]
  BY LoadStepFrame
<1>2. pc[l] \in InLoad => \A m \in Loaders \ {l} : pc[m] \notin InLoad
  BY LoaderAlone
<1>3. pc[l] \in InLoad => pc[Irq] # "detecting"
  BY DEF LockInv, PLockHeld, InLoad
<1>4. Irq \in Loaders /\ l \in Procs
  BY ProcFacts
<1>5. pc[l] = "load" => fw \in Firmwares /\ fw # <<>> /\ DOMAIN fw # {}
  BY FirmwareFacts DEF LoadVarsInv, Reserved
<1>6. pc[l] = "section" => dspHeader # <<>>
  BY FirmwareFacts DEF LoadVarsInv, MemoryInv, Table
<1> USE DEF Goto, FlagInv, InLoad, flags, TypeOK
<1>7. CASE LoadMul(l)
  BY <1>1, <1>2, <1>3, <1>4, <1>5, <1>6, <1>7 DEF LoadMul, memory
<1>8. CASE LoadLock(l)
  BY <1>1, <1>2, <1>3, <1>4, <1>5, <1>6, <1>8 DEF LoadLock, memory
<1>9. CASE RequestFails(l)
  BY <1>1, <1>2, <1>3, <1>4, <1>5, <1>6, <1>9 DEF RequestFails, LeaveLoad, memory
<1>10. CASE Request(l)
  BY <1>1, <1>2, <1>3, <1>4, <1>5, <1>6, <1>10 DEF Request, memory
<1>11. CASE Attempt(l)
  BY <1>1, <1>2, <1>3, <1>4, <1>5, <1>6, <1>11 DEF Attempt, memory
<1>12. CASE PrintLog(l)
  BY <1>1, <1>2, <1>3, <1>4, <1>5, <1>6, <1>12 DEF PrintLog, memory
<1>13. CASE PrintDone(l)
  BY <1>1, <1>2, <1>3, <1>4, <1>5, <1>6, <1>13 DEF PrintDone, memory
<1>14. CASE LoadBegin(l)
  BY <1>1, <1>2, <1>3, <1>4, <1>5, <1>6, <1>14 DEF LoadBegin
<1>15. CASE LoadEnd(l)
  BY <1>1, <1>2, <1>3, <1>4, <1>5, <1>6, <1>15 DEF LoadEnd, memory
<1>16. CASE LoadError(l)
  BY <1>1, <1>2, <1>3, <1>4, <1>5, <1>6, <1>16 DEF LoadError
<1>17. CASE SectionBin(l)
  BY <1>1, <1>2, <1>3, <1>4, <1>5, <1>6, <1>17 DEF SectionBin, memory
<1>18. CASE SectionAlloc(l)
  BY <1>1, <1>2, <1>3, <1>4, <1>5, <1>6, <1>18 DEF SectionAlloc, memory
<1>19. CASE SectionReuse(l)
  BY <1>1, <1>2, <1>3, <1>4, <1>5, <1>6, <1>19 DEF SectionReuse
<1>20. CASE Configure(l)
  BY <1>1, <1>2, <1>3, <1>4, <1>5, <1>6, <1>20 DEF Configure, LeaveLoad, memory, LoadVarsInv
<1>21. CASE Retry(l)
  BY <1>1, <1>2, <1>3, <1>4, <1>5, <1>6, <1>21 DEF Retry, LeaveLoad, memory
<1>22. CASE LoadPower(l)
  BY <1>1, <1>2, <1>3, <1>4, <1>5, <1>6, <1>22 DEF LoadPower, memory
<1>23. CASE LoadRelock(l)
  BY <1>1, <1>2, <1>3, <1>4, <1>5, <1>6, <1>23 DEF LoadRelock, memory
<1> QED BY <1>7, <1>8, <1>9, <1>10, <1>11, <1>12, <1>13, <1>14, <1>15, <1>16, <1>17, <1>18, <1>19, <1>20, <1>21, <1>22, <1>23 DEF LoadStep

(* With a whole table, a reserved section can be used.                     *)
LEMMA WholeUsable ==
  ASSUME TypeOK, PtrsOwned, Whole, dspHeader # <<>>, NEW s \in Reserved
  PROVE  Usable(s)
<1>1. PICK k \in SecInfo(s) : dspHeader[k].data = ptr[s] /\ ptr[s] # NULL
  BY DEF Whole
<1>2. dspHeader[k].data \in heap
  BY <1>1 DEF PtrsOwned
<1> QED BY <1>2 DEF Usable

LEMMA LoadStepPointers ==
  ASSUME TypeOK, LockInv, LoadVarsInv, MemoryInv, FlagInv, ~oops,
         NEW l \in Loaders, LoadStep(l)
  PROVE  PointersGood'
<1>1. CASE PrintLog(l)
  <2>1. /\ pc[l] = "print" /\ pc'[l] = "printing" /\ oops' = ~Usable("LOG")
        /\ UNCHANGED <<dspHeader, stale>>
    BY <1>1, ProcFacts DEF PrintLog, Goto, TypeOK, flags, memory
  <2>2. Whole /\ PtrsOwned
    BY <2>1, LoaderAlone DEF MemoryInv, InLoad
  <2>3. dspHeader # <<>> => ~oops'
    BY <2>1, <2>2, WholeUsable DEF Reserved
  <2>4. dspHeader = <<>> => stale
    BY <2>1 DEF FlagInv
  <2> QED BY <2>1, <2>3, <2>4 DEF PointersGood
<1>2. CASE SectionReuse(l)
  BY <1>2, SectionReuseMemory DEF PointersGood
<1>3. CASE LoadError(l)
  BY <1>3, LoadErrorMemory DEF PointersGood
<1>4. CASE oops' = oops
  BY <1>4 DEF PointersGood
<1> QED BY <1>1, <1>2, <1>3, <1>4
    DEF LoadStep, LoadMul, LoadLock, LoadPower, LoadRelock, RequestFails, Request, Attempt, PrintDone, LoadBegin,
        LoadEnd, SectionBin, SectionAlloc, Configure, Retry, LeaveLoad

-----------------------------------------------------------------------------
(* Type correctness.                                                       *)

ControlType ==
  /\ mul \in Procs \cup {Nobody} /\ p_lock \in Procs \cup {Nobody}
  /\ adfDspLock \in Procs \cup {Nobody} /\ pc \in [Procs -> Labels]
  /\ device_ready \in BOOLEAN /\ wd_reset \in BOOLEAN
  /\ stale \in BOOLEAN /\ oops \in BOOLEAN
  /\ active_fw \in {"PRE_BOOT", "VA", "POWER_OFF_VA"}
  /\ active_fw_va_chip \in {"PRE_BOOT", "VA"} /\ recovering \subseteq Loaders
  /\ boots \in 0..MaxBoots /\ tries \in 0..MaxTries
ImageType == fw \in Firmwares \cup {<<>>} /\ i \in 0..(Len(fw) + 1)
MemoryType ==
  /\ dspHeader \in Seq(Entry)
  /\ ptr \in [Reserved -> Blocks \cup {NULL}] /\ heap \subseteq Blocks
LEMMA TypeParts ==
  /\ TypeOK <=> ControlType /\ ImageType /\ MemoryType /\ todo \in Seq(Reserved \X BOOLEAN)
  /\ TypeOK' <=> ControlType' /\ ImageType' /\ MemoryType' /\ todo' \in Seq(Reserved \X BOOLEAN)
BY DEF TypeOK, ControlType, ImageType, MemoryType, Entry, Name

LEMMA LoadStepControlType ==
  ASSUME ControlType, NEW l \in Loaders, LoadStep(l)
  PROVE  ControlType'
<1> USE ProcFacts, AdfLoadAssumption
    DEF ControlType, Goto, Labels, InLoad, locks, flags, firmware, LookUp, loadVars, LeaveLoad
<1>1. CASE LoadMul(l)
  BY <1>1 DEF LoadMul, TakeMul
<1>2. CASE LoadLock(l)
  BY <1>2 DEF LoadLock, TakeP
<1>3. CASE RequestFails(l)
  BY <1>3 DEF RequestFails
<1>4. CASE Request(l)
  <2>1. device_ready' \in BOOLEAN
    BY <1>4, Zenon DEF Request
  <2> QED BY <1>4, <2>1 DEF Request
<1>5. CASE Attempt(l)
  BY <1>5 DEF Attempt
<1>6. CASE PrintLog(l)
  BY <1>6 DEF PrintLog, TakeAdf
<1>7. CASE PrintDone(l)
  BY <1>7 DEF PrintDone, DropAdf
<1>8. CASE LoadBegin(l)
  BY <1>8 DEF LoadBegin, TakeAdf
<1>9. CASE LoadEnd(l)
  BY <1>9 DEF LoadEnd, DropAdf
<1>10. CASE LoadError(l)
  BY <1>10 DEF LoadError, DropAdf
<1>11. CASE SectionBin(l)
  BY <1>11 DEF SectionBin
<1>12. CASE SectionAlloc(l)
  BY <1>12 DEF SectionAlloc
<1>13. CASE SectionReuse(l)
  BY <1>13 DEF SectionReuse
<1>14. CASE Configure(l)
  <2>1. device_ready' \in BOOLEAN
    BY <1>14 DEF Configure
  <2>2. /\ UNCHANGED <<wd_reset, stale, oops, boots>> /\ recovering' \subseteq recovering
        /\ active_fw' = "VA" /\ active_fw_va_chip' = "VA"
        /\ pc' \in [Procs -> Labels] /\ tries' \in 0..MaxTries
        /\ UNCHANGED locks \/ (mul' = Nobody /\ p_lock' = Nobody /\ adfDspLock' = adfDspLock)
    BY <1>14 DEF Configure
  <2> QED BY <2>1, <2>2
<1>15. CASE Retry(l)
  <2>1. device_ready' \in BOOLEAN
    BY <1>15, Zenon DEF Retry
  <2>2. CASE LeaveLoad(l, "retry", "idle")
    BY <1>15, <2>1, <2>2 DEF Retry
  <2>3. CASE ~LeaveLoad(l, "retry", "idle")
    BY <1>15, <2>1, <2>3 DEF Retry
  <2> QED BY <2>2, <2>3
<1>16. CASE LoadPower(l)
  BY <1>16 DEF LoadPower, DropP
<1>17. CASE LoadRelock(l)
  BY <1>17 DEF LoadRelock, TakeP
<1> QED BY <1>1, <1>2, <1>3, <1>4, <1>5, <1>6, <1>7, <1>8, <1>9, <1>10, <1>11, <1>12, <1>13, <1>14, <1>15, <1>16, <1>17 DEF LoadStep

LEMMA LoadStepImageType ==
  ASSUME TypeOK, LockInv, LoadVarsInv, MemoryInv, NEW l \in Loaders, LoadStep(l)
  PROVE  ImageType'
<1>0. ImageType
  BY TypeParts
<1>1. CASE UNCHANGED <<fw, i>>
  BY <1>0, <1>1 DEF ImageType
<1>2. CASE fw' = <<>> /\ i' = 0
  BY <1>2 DEF ImageType
<1>3. CASE LoadBegin(l)
  BY <1>0, <1>3, FirmwareFacts DEF LoadBegin, ImageType
<1>4. CASE SectionBin(l) \/ SectionAlloc(l) \/ SectionReuse(l)
  <2>1. /\ pc[l] = "section" /\ fw' = fw /\ Section # "end"
        /\ i' = i \/ i' = i + 1
    BY <1>4 DEF SectionBin, SectionAlloc, SectionReuse, Goto, Reserved
  <2>2. fw \in Firmwares /\ i \in 1..Len(fw) /\ Len(fw) \in Nat
    BY <2>1, SectionFacts, FirmwareFacts DEF LoadVarsInv, MemoryInv, Table
  <2> QED BY <2>1, <2>2 DEF ImageType
<1>5. CASE Attempt(l)
  <2>1. i = 0 /\ i' = 0
    BY <1>5, LoaderAlone DEF Attempt, Goto, LoadVarsInv, InLoad
  <2>2. fw' \in Firmwares \cup {<<>>}
    BY <1>0, <1>5 DEF Attempt, ImageType
  <2> QED BY <2>1, <2>2, FirmwareFacts DEF ImageType
<1> QED BY <1>1, <1>2, <1>3, <1>4, <1>5
    DEF LoadStep, LoadMul, LoadLock, LoadPower, LoadRelock, RequestFails, Request, PrintLog, PrintDone,
        LoadEnd, LoadError, Configure, Retry, LeaveLoad, loadVars

LEMMA LoadStepMemoryType ==
  ASSUME TypeOK, LockInv, LoadVarsInv, MemoryInv, NEW l \in Loaders, LoadStep(l)
  PROVE  MemoryType'
<1>0. MemoryType /\ i \in Nat
  BY TypeParts, FirmwareFacts DEF ImageType
<1>1. CASE UNCHANGED <<dspHeader, ptr, heap>>
  BY <1>0, <1>1 DEF MemoryType
<1>2. CASE LoadBegin(l)
  <2>1. fw \in Firmwares /\ UNCHANGED <<ptr, heap>>
    BY <1>2 DEF LoadBegin, Goto, LoadVarsInv
  <2>2. \/ dspHeader' = dspHeader
        \/ dspHeader' = [k \in DOMAIN fw |-> [name |-> fw[k], data |-> NULL]]
    BY <1>2 DEF LoadBegin
  <2>3. dspHeader' \in Seq(Entry)
    BY <1>0, <2>1, <2>2, HeaderTypes DEF MemoryType
  <2> QED BY <1>0, <2>1, <2>3 DEF MemoryType
<1>3. CASE SectionAlloc(l)
  <2>1. \/ UNCHANGED <<dspHeader, ptr, heap>>
        \/ /\ heap' = heap \cup {Fresh} /\ ptr' = [ptr EXCEPT ![Section] = Fresh]
           /\ dspHeader' = [dspHeader EXCEPT ![i].data = Fresh] /\ Blocks \ heap # {}
    BY <1>3 DEF SectionAlloc, memory
  <2>2. CASE Blocks \ heap # {} /\ dspHeader' = [dspHeader EXCEPT ![i].data = Fresh]
    <3>1. dspHeader' \in Seq(Entry)
      BY <1>0, <2>2, FreshFacts, HeaderTypes DEF MemoryType
    <3> QED BY <1>0, <1>1, <2>1, <2>2, <3>1, FreshFacts DEF MemoryType
  <2> QED BY <1>1, <2>1, <2>2
<1>4. CASE SectionReuse(l)
  <2>1. /\ dspHeader' = [dspHeader EXCEPT ![i].data = ptr[Section]] /\ Section \in Reserved
        /\ UNCHANGED <<ptr, heap>>
    BY <1>4 DEF SectionReuse
  <2>2. dspHeader' \in Seq(Entry)
    BY <1>0, <2>1, HeaderTypes DEF MemoryType
  <2> QED BY <1>0, <2>1, <2>2 DEF MemoryType
<1>5. CASE LoadError(l)
  BY <1>0, <1>5, HeaderTypes DEF LoadError, memory, MemoryType
<1> QED BY <1>1, <1>2, <1>3, <1>4, <1>5
    DEF LoadStep, LoadMul, LoadLock, LoadPower, LoadRelock, RequestFails, Request, Attempt, PrintLog, PrintDone,
        LoadEnd, SectionBin, Configure, Retry, LeaveLoad, memory

-----------------------------------------------------------------------------
(* The users and the other steps.                                          *)

(* A user changes nothing that the loaders keep.                           *)
LEMMA UserStepFrame ==
  ASSUME TypeOK, NEW u \in Users, UserStep(u)
  PROVE  /\ UNCHANGED <<flags, loadVars, memory>>
         /\ \A l \in Loaders : pc'[l] = pc[l]
         /\ \A v \in Users \ {u} : pc'[v] = pc[v]
BY ProcFacts DEF UserStep, UserLock, Transfer, TransferLock, TransferEnd, UserReturn, Goto, TypeOK

LEMMA UserStepLoad ==
  ASSUME TypeOK, LoadVarsInv, MemoryInv, FlagInv, NEW u \in Users, UserStep(u)
  PROVE  LoadVarsInv' /\ MemoryInv' /\ FlagInv'
<1>1. UNCHANGED <<flags, loadVars, memory>> /\ \A l \in Loaders : pc'[l] = pc[l]
  BY UserStepFrame
<1>2. StillStep
  BY <1>1 DEF StillStep, loadVars
<1>3. LoadVarsInv'
  BY <1>1 DEF LoadVarsInv, loadVars, memory
<1>4. FlagInv'
  BY <1>1, ProcFacts DEF FlagInv, flags, memory
<1> QED BY <1>2, <1>3, <1>4, StillStepMemory

(* The transfers a user may have before it.                                *)
LEMMA OperationTypes ==
  ASSUME NEW u, NEW o \in Operations(u)
  PROVE  o \in Seq(Reserved \X BOOLEAN)
<1> DEFINE T == Reserved \X BOOLEAN
<1>1. Rd("LOG") \in T /\ Rd("STA") \in T /\ Rd("CLI") \in T /\ Wr("CLI") \in T /\ Wr("STA") \in T
  BY DEF Rd, Wr, Reserved
<1> HIDE DEF T
<1>2. readLog \in Seq(T) /\ readState \in Seq(T) /\ writeState \in Seq(T)
  BY <1>1 DEF readLog, readState, writeState
<1>3. writeCli \in Seq(T) /\ query \in Seq(T)
  BY <1>1 DEF writeCli, query
<1>4. o \in Seq(T)
  BY <1>2, <1>3 DEF Operations
<1> QED BY <1>4 DEF T

LEMMA UserStepTodo ==
  ASSUME TypeOK, LockInv, TodoInv, NEW u \in Users, UserStep(u)
  PROVE  TodoInv' /\ todo' \in Seq(Reserved \X BOOLEAN)
<1>1. todo \in Seq(Reserved \X BOOLEAN)
  BY TypeParts
<1>2. UNCHANGED dspHeader /\ \A v \in Users \ {u} : pc'[v] = pc[v]
  BY UserStepFrame DEF memory
<1>3. \A v \in Users : pc[v] \in InUse <=> adfDspLock = v
  BY DEF LockInv, AdfHeld
<1>4. CASE UserLock(u)
  <2>1. /\ adfDspLock = Nobody /\ adfDspLock' = u /\ pc'[u] = "use"
        /\ IF dspHeader = <<>> THEN todo' = todo ELSE todo' \in Operations(u)
    BY <1>4, ProcFacts DEF UserLock, Goto, TakeAdf, TypeOK
  <2>2. todo = <<>> /\ \A v \in Users : pc[v] \notin InUse
    BY <1>3, <2>1, ProcFacts DEF TodoInv
  <2>3. todo' \in Seq(Reserved \X BOOLEAN)
    BY <1>1, <2>1, OperationTypes
  <2> QED BY <1>2, <2>1, <2>2, <2>3 DEF TodoInv, InUse
<1>5. CASE Transfer(u) \/ TransferLock(u)
  <2>1. /\ pc[u] \in {"use", "wait"} /\ adfDspLock' = adfDspLock /\ todo' = todo
        /\ pc[u] = "use" => todo # <<>>
        /\ pc'[u] \in InUse
    BY <1>5, ProcFacts DEF Transfer, TransferLock, Goto, TakeP, locks, TypeOK, InUse
  <2> QED BY <1>1, <1>2, <2>1 DEF TodoInv
<1>6. CASE TransferEnd(u)
  <2>1. /\ pc[u] \in {"locked", "unlocked"} /\ pc'[u] = "use" /\ adfDspLock' = adfDspLock
        /\ todo' \in {Tail(todo), <<>>}
    BY <1>6, ProcFacts DEF TransferEnd, Goto, DropP, locks, TypeOK
  <2>2. todo # <<>> /\ adfDspLock = u /\ dspHeader # <<>>
    BY <1>3, <2>1 DEF TodoInv, InUse
  <2>3. todo' \in Seq(Reserved \X BOOLEAN)
    BY <1>1, <2>1, <2>2, HeadTailProperties, EmptySeq
  <2>4. \A v \in Users \ {u} : pc[v] \notin InUse
    BY <1>3, <2>2
  <2> QED BY <1>2, <2>1, <2>2, <2>3, <2>4 DEF TodoInv, InUse
<1>7. CASE UserReturn(u)
  <2>1. /\ pc[u] = "use" /\ pc'[u] = "idle" /\ todo = <<>> /\ todo' = <<>>
    BY <1>7, ProcFacts DEF UserReturn, Goto, TypeOK
  <2>2. \A v \in Users \ {u} : pc[v] \notin InUse
    BY <1>3, <2>1 DEF InUse
  <2> QED BY <1>1, <1>2, <2>1, <2>2 DEF TodoInv, InUse
<1> QED BY <1>4, <1>5, <1>6, <1>7 DEF UserStep

LEMMA UserStepPointers ==
  ASSUME TypeOK, LockInv, TodoInv, MemoryInv, ~oops, NEW u \in Users, UserStep(u)
  PROVE  ~oops'
<1>1. CASE Transfer(u)
  <2>1. pc[u] = "use" /\ todo # <<>> /\ oops' = ~Usable(Head(todo)[1])
    BY <1>1 DEF Transfer, Goto
  <2>2. adfDspLock = u /\ dspHeader # <<>>
    BY <2>1 DEF LockInv, AdfHeld, TodoInv, InUse
  <2>3. \A l \in Loaders : pc[l] \notin {"section", "error"}
    BY <2>2, ProcFacts DEF LockInv, AdfHeld
  <2>4. Head(todo)[1] \in Reserved
    <3>1. todo \in Seq(Reserved \X BOOLEAN)
      BY TypeParts
    <3>2. Head(todo) \in Reserved \X BOOLEAN
      BY <2>1, <3>1
    <3> QED BY <3>2
  <2>5. Usable(Head(todo)[1])
    BY <2>2, <2>3, <2>4, WholeUsable DEF MemoryInv
  <2> QED BY <2>1, <2>5
<1>2. CASE oops' = oops
  BY <1>2
<1> QED BY <1>1, <1>2 DEF UserStep, UserLock, TransferLock, TransferEnd, UserReturn

LEMMA UserStepControlType ==
  ASSUME ControlType, NEW u \in Users, UserStep(u)
  PROVE  ControlType'
<1> USE ProcFacts DEF ControlType, Goto, Labels, InLoad, locks, flags, firmware, LookUp, loadVars
<1>1. CASE UserLock(u)
  BY <1>1 DEF UserLock, TakeAdf
<1>2. CASE Transfer(u)
  BY <1>2 DEF Transfer
<1>3. CASE TransferLock(u)
  BY <1>3 DEF TransferLock, TakeP
<1>4. CASE TransferEnd(u)
  BY <1>4 DEF TransferEnd, DropP
<1>5. CASE UserReturn(u)
  BY <1>5 DEF UserReturn
<1> QED BY <1>1, <1>2, <1>3, <1>4, <1>5 DEF UserStep

(* The other steps start or end something outside adfLoad_init.            *)
OtherStep ==
  \/ Detect \/ DetectStep \/ MetricsStart \/ MetricsMul
  \/ \E l \in Boots : Reboot(l) \/ Reset(l) \/ Shutdown(l)
  \/ \E l \in Loaders : RecoverStep(l)
  \/ \E u \in Debugfs : DebugfsStart(u)

LEMMA OtherStepFrame ==
  ASSUME TypeOK, OtherStep
  PROVE  /\ UNCHANGED <<memory, fw, i, todo, oops, adfDspLock>>
         /\ \A l \in Loaders : pc'[l] = pc[l] \/ (pc[l] \notin InLoad /\ pc'[l] \notin InLoad)
         /\ \A u \in Users : pc'[u] = pc[u] \/ (pc[u] \notin InUse /\ pc'[u] \notin InUse)
BY ProcFacts
   DEF OtherStep, Detect, DetectStep, DetectLock, DetectOk, DetectReturns, DetectFail, Begin, RecoverStep, Recover, Resume, ShutdownLock,
       MetricsStart, MetricsMul, Reboot, Reset, Shutdown, DebugfsStart, Goto, TakeP, TakeMul, DropP, TypeOK,
       locks, loadVars, InLoad, InUse

LEMMA OtherStepLoad ==
  ASSUME TypeOK, LoadVarsInv, TodoInv, MemoryInv, OtherStep
  PROVE  LoadVarsInv' /\ TodoInv' /\ MemoryInv'
<1> USE OtherStepFrame DEF InLoad, InUse
<1>1. StillStep
  BY DEF StillStep
<1>2. LoadVarsInv'
  BY DEF LoadVarsInv, memory
<1>3. TodoInv'
  BY DEF TodoInv, memory
<1> QED BY <1>1, <1>2, <1>3, StillStepMemory

LEMMA OtherStepFlags ==
  ASSUME TypeOK, LockInv, FlagInv, OtherStep
  PROVE  FlagInv'
<1>1. /\ dspHeader' = dspHeader /\ Irq \in Loaders
      /\ \A l \in Loaders : pc'[l] = pc[l] \/ (pc[l] \notin InLoad /\ pc'[l] \notin InLoad)
  BY OtherStepFrame, ProcFacts DEF memory
<1>2. p_lock \in {Nobody, Irq} /\ pc[Irq] \notin InLoad => \A l \in Loaders : pc[l] \notin InLoad
  BY ProcFacts DEF LockInv, PLockHeld
<1> USE ProcFacts DEF FlagInv, Goto, flags, InLoad, TypeOK
<1>3. CASE Detect
  BY <1>1, <1>3 DEF Detect
<1>4. CASE DetectLock
  BY <1>1, <1>4 DEF DetectLock
<1>5. CASE DetectOk
  BY <1>1, <1>5 DEF DetectOk
<1>6. CASE DetectReturns
  BY <1>1, <1>6 DEF DetectReturns
<1>7. CASE DetectFail
  BY <1>1, <1>2, <1>7 DEF DetectFail, LockInv, PLockHeld
<1>8. ASSUME NEW l \in Loaders, RecoverStep(l) PROVE FlagInv'
  <2>1. CASE Recover(l)
    BY <1>1, <2>1 DEF Recover
  <2>2. CASE Resume(l)
    <3>1. \A m \in Loaders : pc[m] \notin InLoad
      BY <2>2 DEF Resume, LockInv, PLockHeld
    <3> QED BY <1>1, <2>2, <3>1 DEF Resume
  <2>3. CASE ShutdownLock(l)
    BY <1>1, <2>3 DEF ShutdownLock
  <2> QED BY <1>8, <2>1, <2>2, <2>3 DEF RecoverStep
<1>9. CASE MetricsStart
  BY <1>1, <1>9 DEF MetricsStart
<1>10. CASE MetricsMul
  BY <1>1, <1>10 DEF MetricsMul
<1>11. ASSUME NEW l \in Boots, Reboot(l) \/ Reset(l) \/ Shutdown(l) PROVE FlagInv'
  BY <1>1, <1>11, AdfLoadAssumption DEF Reboot, Reset, Shutdown, Begin
<1>12. ASSUME NEW u \in Debugfs, DebugfsStart(u) PROVE FlagInv'
  BY <1>1, <1>12 DEF DebugfsStart
<1> QED BY <1>3, <1>4, <1>5, <1>6, <1>7, <1>8, <1>9, <1>10, <1>11, <1>12 DEF OtherStep, DetectStep

LEMMA OtherStepControlType ==
  ASSUME ControlType, OtherStep
  PROVE  ControlType'
<1> USE ProcFacts, AdfLoadAssumption DEF ControlType, Goto, Labels, InLoad, locks, flags, firmware, LookUp, loadVars
<1>1. CASE Detect
  BY <1>1 DEF Detect
<1>2. CASE DetectLock
  <2>1. stale' \in BOOLEAN
    BY <1>2, Zenon DEF DetectLock
  <2> QED BY <1>2, <2>1 DEF DetectLock, TakeP
<1>3. CASE DetectOk \/ DetectReturns
  BY <1>3 DEF DetectOk, DetectReturns, DropP
<1>4. CASE DetectFail
  <2>1. wd_reset' \in BOOLEAN
    BY <1>4, Zenon DEF DetectFail
  <2> QED BY <1>4, <2>1 DEF DetectFail, DropP
<1>5. ASSUME NEW l \in Loaders, RecoverStep(l) PROVE ControlType'
  <2>1. stale' \in BOOLEAN /\ device_ready' \in BOOLEAN
    BY <1>5, Zenon DEF RecoverStep, Recover, Resume, ShutdownLock
  <2> QED BY <1>5, <2>1 DEF RecoverStep, Recover, Resume, ShutdownLock
<1>6. CASE MetricsStart \/ MetricsMul
  BY <1>6 DEF MetricsStart, MetricsMul, TakeMul
<1>7. ASSUME NEW l \in Boots, Reboot(l) \/ Reset(l) \/ Shutdown(l) PROVE ControlType'
  BY <1>7 DEF Reboot, Reset, Shutdown, Begin
<1>8. ASSUME NEW u \in Debugfs, DebugfsStart(u) PROVE ControlType'
  BY <1>8 DEF DebugfsStart
<1> QED BY <1>1, <1>2, <1>3, <1>4, <1>5, <1>6, <1>7, <1>8 DEF OtherStep, DetectStep

-----------------------------------------------------------------------------
(* The inductive invariant.                                                *)

LEMMA LoadInitial == Init => LoadInv
<1> SUFFICES ASSUME Init PROVE LoadInv
  OBVIOUS
<1>1. TypeOK
  <2>1. ControlType
    <3>1. /\ device_ready \in BOOLEAN /\ wd_reset \in BOOLEAN
          /\ stale \in BOOLEAN /\ oops \in BOOLEAN
      BY Zenon DEF Init
    <3>2. pc \in [Procs -> Labels] /\ boots \in 0..MaxBoots /\ tries \in 0..MaxTries
      BY AdfLoadAssumption DEF Init, Labels
    <3> QED BY <3>1, <3>2 DEF Init, ControlType
  <2>2. ImageType /\ MemoryType /\ todo \in Seq(Reserved \X BOOLEAN)
    BY HeaderTypes DEF Init, ImageType, MemoryType
  <2> QED BY <2>1, <2>2, TypeParts
<1>2. LockInv
  BY ProcFacts DEF Init, LockInv, Roles, MulHeld, PLockHeld, AdfHeld, InLoad, InUse
<1>3. LoadVarsInv /\ TodoInv /\ FlagInv /\ PointersGood
  BY ProcFacts DEF Init, LoadVarsInv, TodoInv, FlagInv, PointersGood, InLoad
<1>4. MemoryInv
  BY ProcFacts DEF Init, MemoryInv, PtrsOwned, Whole, NoPtrs
<1> QED BY <1>1, <1>2, <1>3, <1>4 DEF LoadInv

LEMMA LoadInvariant == Spec => []LoadInv
<1>1. LoadInv /\ [Next]_vars => LoadInv'
  <2> SUFFICES ASSUME LoadInv, [Next]_vars PROVE LoadInv'
    OBVIOUS
  <2> USE DEF LoadInv
  <2>0. pc \in [Procs -> Labels] /\ ControlType /\ ImageType /\ MemoryType
        /\ todo \in Seq(Reserved \X BOOLEAN)
    BY TypeParts DEF ControlType
  <2>1. ASSUME NEW l \in Loaders, LoadStep(l), ~oops PROVE LoadInv'
    <3>1. LockInv' /\ LoadVarsInv' /\ TodoInv'
      BY <2>0, <2>1, LoadStepLocks, LoadStepVars, LoadStepTodo
    <3>2. MemoryInv' /\ FlagInv' /\ PointersGood'
      BY <2>1, LoadStepMemory, LoadStepFlags, LoadStepPointers
    <3>3. TypeOK'
      <4>1. ControlType' /\ ImageType' /\ MemoryType'
        BY <2>0, <2>1, LoadStepControlType, LoadStepImageType, LoadStepMemoryType
      <4>2. todo' = todo
        BY <2>1, LoadStepFrame
      <4> QED BY <2>0, <4>1, <4>2, TypeParts
    <3> QED BY <3>1, <3>2, <3>3
  <2>2. ASSUME NEW u \in Users, UserStep(u), ~oops PROVE LoadInv'
    <3>1. LockInv' /\ LoadVarsInv' /\ TodoInv' /\ MemoryInv' /\ FlagInv'
      BY <2>0, <2>2, UserStepLocks, UserStepLoad, UserStepTodo
    <3>2. PointersGood'
      BY <2>2, UserStepPointers DEF PointersGood
    <3>3. TypeOK'
      <4>1. ControlType' /\ todo' \in Seq(Reserved \X BOOLEAN)
        BY <2>0, <2>2, UserStepControlType, UserStepTodo
      <4>2. ImageType' /\ MemoryType'
        BY <2>0, <2>2, UserStepFrame DEF loadVars, memory, ImageType, MemoryType
      <4> QED BY <4>1, <4>2, TypeParts
    <3> QED BY <3>1, <3>2, <3>3
  <2>3. ASSUME OtherStep, ~oops PROVE LoadInv'
    <3>1. LockInv' /\ LoadVarsInv' /\ TodoInv' /\ MemoryInv' /\ FlagInv'
      BY <2>0, <2>3, OtherStepLocks, OtherStepLoad, OtherStepFlags DEF OtherStep
    <3>2. UNCHANGED <<memory, fw, i, todo, oops>>
      BY <2>3, OtherStepFrame
    <3>3. PointersGood'
      BY <2>3, <3>2 DEF PointersGood
    <3>4. TypeOK'
      <4>1. ControlType'
        BY <2>0, <2>3, OtherStepControlType
      <4>2. ImageType' /\ MemoryType' /\ todo' \in Seq(Reserved \X BOOLEAN)
        BY <2>0, <3>2 DEF memory, ImageType, MemoryType
      <4> QED BY <4>1, <4>2, TypeParts
    <3> QED BY <3>1, <3>3, <3>4
  <2>4. CASE UNCHANGED vars
    <3>1. UNCHANGED <<mul, p_lock, adfDspLock, pc, device_ready, wd_reset, stale, boots,
                      active_fw, active_fw_va_chip, recovering, tries, fw, i, dspHeader, ptr, heap, todo, oops>>
      BY <2>4 DEF vars, locks, flags, firmware, loadVars, memory
    <3>2. TypeOK'
      BY <2>0, <3>1, TypeParts DEF ControlType, ImageType, MemoryType
    <3>3. LockInv' /\ LoadVarsInv' /\ TodoInv' /\ FlagInv' /\ PointersGood'
      BY <3>1 DEF LockInv, Roles, MulHeld, PLockHeld, AdfHeld, LoadVarsInv, TodoInv,
                  FlagInv, PointersGood
    <3>4. MemoryInv'
      BY <3>1, StillStepMemory DEF StillStep, memory
    <3> QED BY <3>2, <3>3, <3>4
  <2> QED BY <2>1, <2>2, <2>3, <2>4, NextGoesOn DEF Next, OtherStep
<1> QED BY <1>1, LoadInitial, PTL DEF Spec

(***************************************************************************)
(* Types, for any images, threads and bounds: adfLoad_init stays inside    *)
(* the section table, a boot inside its attempts.                          *)
(***************************************************************************)
THEOREM LoadTypeCorrect == Spec => []TypeOK
<1>1. LoadInv => TypeOK
  BY DEF LoadInv
<1> QED BY <1>1, LoadInvariant, PTL

(***************************************************************************)
(* The two lock orders never meet: while the metrics query holds           *)
(* adfDspLock no loader is inside a load, because both took                *)
(* metrisUploadLock first.                                                 *)
(***************************************************************************)
THEOREM MetricsAndLoadApart == Spec => []MetricsApart
<1>1. LoadInv => MetricsApart
  BY ProcFacts DEF LoadInv, LockInv, MulHeld, AdfHeld, MetricsApart
<1> QED BY <1>1, LoadInvariant, PTL

(***************************************************************************)
(* Whenever no load is inside adfLoad_init, after any sequence of failed   *)
(* and successful loads, the header and the kept pointers are both absent  *)
(* or agree, each reserved section with a buffer of its own.               *)
(***************************************************************************)
THEOREM HeaderOwnsBuffers == Spec => []HeaderOwned
<1>1. LoadInv => HeaderOwned
  <2> SUFFICES ASSUME LoadInv, adfDspLock \notin Loaders \/ pc[adfDspLock] = "printing"
               PROVE  \/ dspHeader = <<>> /\ \A s \in Reserved : ptr[s] = NULL
                      \/ /\ \A s \in Reserved : \E k \in SecInfo(s) : dspHeader[k].data = ptr[s]
                         /\ \A s \in Reserved : ptr[s] \in heap /\ (\A t \in Reserved \ {s} : ptr[t] # ptr[s])
    BY DEF HeaderOwned
  <2>1. \A l \in Loaders : pc[l] \notin {"section", "error"}
    BY DEF LoadInv, LockInv, AdfHeld
  <2> QED BY <2>1 DEF LoadInv, MemoryInv, Whole, PtrsOwned, NoPtrs
<1> QED BY <1>1, LoadInvariant, PTL

(***************************************************************************)
(* No thread ever uses a NULL or freed section buffer, except the log dump *)
(* of a recovery that believed a stale device_ready.                       *)
(***************************************************************************)
THEOREM PointersAreGood == Spec => []PointersGood
<1>1. LoadInv => PointersGood
  BY DEF LoadInv
<1> QED BY <1>1, LoadInvariant, PTL

-----------------------------------------------------------------------------
(* What a failed load loses.                                               *)

LEMMA LoadErrorLoses ==
  ASSUME LoadInv, NEW l \in Loaders, LoadError(l), NEW b \in Leaked' \ Leaked
  PROVE  \E s \in Reserved : ptr[s] = b /\ \A k \in SecInfo(s) : k > i
<1> USE DEF LoadInv
<1>1. pc[l] = "error" /\ fw \in Firmwares
  BY DEF LoadError, Goto, LoadVarsInv
<1>2. CASE dspHeader = <<>>
  BY <1>2 DEF LoadError, Leaked, memory
<1>3. CASE dspHeader # <<>>
  <2>1. heap' = heap \ Data
    BY <1>3 DEF LoadError
  <2>2. Table /\ (Section \in Reserved => ptr[Section] = NULL)
    BY <1>1, <1>3 DEF MemoryInv
  <2>3. b \in heap /\ b \notin Data /\ b # NULL
    BY <2>1, NullIsNoBlock DEF Leaked, TypeOK
  <2>4. PICK s \in Reserved : ptr[s] = b
    BY <2>3 DEF Leaked
  <2>5. ASSUME NEW k \in SecInfo(s) PROVE k > i
    <3>1. k \in DOMAIN fw /\ fw[k] = s /\ k \in Nat /\ i \in Nat \ {0}
      BY <1>1, <2>2, <2>5, FirmwareFacts DEF Table, SecInfo
    <3>2. ~(k < i)
      BY <2>2, <2>3, <2>4, <3>1 DEF Table, Filled, Data
    <3>3. k # i
      BY <2>2, <2>3, <2>4, <3>1 DEF Section
    <3> QED BY <3>1, <3>2, <3>3
  <2> QED BY <2>4, <2>5
<1> QED BY <1>2, <1>3

(***************************************************************************)
(* The only step that loses a buffer is the error exit of adfLoad_init,    *)
(* and what it loses are buffers of sections behind the one it failed at,  *)
(* which the new header does not point to yet.                             *)
(***************************************************************************)
THEOREM OnlyUnreachedLost == Spec => LosesUnreached
<1>1. ASSUME LoadInv, [Next]_vars, NEW b \in Leaked' \ Leaked
      PROVE  \E s \in Reserved : ptr[s] = b /\ \A k \in SecInfo(s) : k > i
  <2>1. ASSUME UNCHANGED <<ptr, heap>> PROVE FALSE
    BY <1>1, <2>1 DEF Leaked
  <2>2. ASSUME NEW l \in Loaders, LoadStep(l)
        PROVE  UNCHANGED <<ptr, heap>> \/ SectionAlloc(l) \/ LoadError(l)
    BY <2>2 DEF LoadStep, LoadMul, LoadLock, LoadPower, LoadRelock, RequestFails, Request, Attempt, PrintLog,
       PrintDone, LoadBegin, LoadEnd, SectionBin, SectionReuse, Configure, Retry, LeaveLoad,
       memory
  <2>3. ASSUME NEW l \in Loaders, SectionAlloc(l) PROVE FALSE
    <3>1. CASE UNCHANGED memory
      BY <2>1, <3>1 DEF memory
    <3>2. CASE /\ heap' = heap \cup {Fresh}
               /\ ptr' = [ptr EXCEPT ![Section] = Fresh] /\ ptr[Section] = NULL
               /\ Section \in Reserved
      <4>1. ptr'[Section] = Fresh /\ \A s \in Reserved \ {Section} : ptr'[s] = ptr[s]
        BY <1>1, <3>2 DEF LoadInv, TypeOK
      <4>2. b \in heap /\ b # NULL /\ \A s \in Reserved : b # ptr'[s]
        BY <1>1, <3>2, <4>1, NullIsNoBlock DEF LoadInv, TypeOK, Leaked
      <4>3. \A s \in Reserved : b # ptr[s]
        BY <3>2, <4>1, <4>2
      <4> QED BY <1>1, <4>2, <4>3 DEF Leaked
    <3> QED BY <2>3, <3>1, <3>2 DEF SectionAlloc
  <2>4. ASSUME NEW u \in Users, UserStep(u) PROVE FALSE
    BY <1>1, <2>1, <2>4, UserStepFrame DEF LoadInv, memory
  <2>5. ASSUME OtherStep PROVE FALSE
    BY <1>1, <2>1, <2>5, OtherStepFrame DEF LoadInv, memory
  <2>6. ~UNCHANGED vars
    BY <2>1 DEF vars, memory
  <2>7. PICK l \in Loaders : LoadStep(l)
    BY <1>1, <2>4, <2>5, <2>6 DEF Next, OtherStep
  <2>8. LoadError(l)
    BY <2>1, <2>2, <2>3, <2>7
  <2> QED BY <1>1, <2>8, LoadErrorLoses
<1>2. LoadInv /\ [Next]_vars =>
      [\A b \in Leaked' \ Leaked :
         \E s \in Reserved : ptr[s] = b /\ \A k \in SecInfo(s) : k > i]_vars
  BY <1>1
<1> QED BY <1>2, LoadInvariant, PTL DEF Spec, LosesUnreached
=============================================================================
