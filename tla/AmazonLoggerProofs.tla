------------------------- MODULE AmazonLoggerProofs -------------------------
(***************************************************************************)
(* Proofs about AmazonLogger for any CPUs, readers, message lengths and    *)
(* buffer sizes, and any number of writes.                                 *)
(***************************************************************************)
EXTENDS AmazonLogger, SequenceTheorems, TLAPS

Critical == {"find", "consume", "copy"}

(* A reader past mutex_lock holds the mutex.                               *)
Holds == \A r \in Readers : pc[r] \in Critical => mutex = r

(* What ring_buffer_find_cpu found is still there to be consumed.          *)
Found == \A r \in Readers : pc[r] = "consume" => buf[cpu[r]] # <<>>

Safe == TypeOK /\ Holds /\ Found /\ NoEmptyRead

-----------------------------------------------------------------------------
(* Lengths.                                                                *)

LEMMA HeaderLenType == ASSUME NEW total \in Nat PROVE HeaderLen(total) \in Nat
BY DEF HeaderLen, AtMost, LOGGER_ENTRY_MAX_PAYLOAD

LEMMA CopyLenIs == ASSUME NEW e \in Entry PROVE CopyLen(e) = HEADER + e.len
BY DEF CopyLen, EventLength, AtMost, HEADER, Entry

LEMMA NoEntryType == NoEntry \in Entry
BY DEF NoEntry, Entry

(* What is left of a sequence from which a block was cut.                  *)
LEMMA CutType ==
  ASSUME NEW S, NEW s \in Seq(S), NEW j \in 0..Len(s), NEW k \in 1..Len(s)
  PROVE  SubSeq(s, 1, j) \o SubSeq(s, k + 1, Len(s)) \in Seq(S)
<1>1. \A i \in 1..Len(s) : s[i] \in S
  BY ElementOfSeq
<1>2. Len(s) \in Nat
  OBVIOUS
<1>3. SubSeq(s, 1, j) \in Seq(S)
  <2>1. \A i \in 1..j : s[i] \in S
    BY <1>1, <1>2
  <2> QED BY <2>1, <1>2, SubSeqProperties
<1>4. SubSeq(s, k + 1, Len(s)) \in Seq(S)
  <2>1. \A i \in (k + 1)..Len(s) : s[i] \in S
    BY <1>1, <1>2
  <2> QED BY <2>1, <1>2, SubSeqProperties
<1> QED BY <1>3, <1>4, ConcatProperties

-----------------------------------------------------------------------------
(* The steps, one lemma for each group of variables.                       *)

LEMMA RoomType ==
  ASSUME TypeOK, NEW c \in Cpus, MakeRoom(c)
  PROVE  /\ buf' \in [Cpus -> Seq(Entry)]
         /\ \A d \in Cpus : buf[d] # <<>> => buf'[d] # <<>>
<1>1. CASE UNCHANGED buf
  BY <1>1 DEF TypeOK
<1>2. CASE ~(Len(buf[c]) < Cap)
  <2>1. buf[c] \in Seq(Entry)
    BY DEF TypeOK
  <2>2. PICK j \in 0..Len(buf[c]), k \in 1..Len(buf[c]) :
          LET rest == SubSeq(buf[c], 1, j) \o SubSeq(buf[c], k + 1, Len(buf[c]))
          IN  rest # <<>> /\ buf' = [buf EXCEPT ![c] = rest]
    BY <1>2 DEF MakeRoom
  <2> DEFINE rest == SubSeq(buf[c], 1, j) \o SubSeq(buf[c], k + 1, Len(buf[c]))
  <2>3. rest \in Seq(Entry)
    BY <2>1, CutType
  <2>4. rest # <<>> /\ buf' = [buf EXCEPT ![c] = rest]
    BY <2>2
  <2> HIDE DEF rest
  <2> QED BY <2>3, <2>4 DEF TypeOK
<1> QED BY <1>1, <1>2 DEF MakeRoom

LEMMA ReserveSafe ==
  ASSUME Safe, NEW c \in Cpus, NEW total \in Lens, LogReserve(c, total)
  PROVE  Safe'
<1> USE DEF Safe
<1> DEFINE e == [id |-> n + 1, len |-> HeaderLen(total)]
<1>1. e \in Entry /\ n' \in Nat
  <2>1. HeaderLen(total) \in Nat
    BY HeaderLenType, LoggerAssumption
  <2> QED BY <2>1 DEF LogReserve, TypeOK, Entry
<1>2. MakeRoom(c) /\ pend' = [pend EXCEPT ![c] = e]
  BY DEF LogReserve
<1> HIDE DEF e
<1>3. pend' \in [Cpus -> Entry]
  BY <1>1, <1>2 DEF TypeOK
<1>4. UNCHANGED <<wret, waking, queued, pending, irq, mutex, pc, count, cpu, event, ret, out>>
  BY DEF LogReserve, waitVars
<1>5. TypeOK'
  BY <1>1, <1>2, <1>3, <1>4, RoomType DEF TypeOK
<1>6. Found'
  BY <1>2, <1>4, RoomType DEF Found, TypeOK
<1> QED BY <1>4, <1>5, <1>6 DEF Holds, NoEmptyRead

LEMMA RefusedSafe ==
  ASSUME Safe, NEW c \in Cpus, NEW total \in Lens, LogRefused(c, total)
  PROVE  Safe'
BY DEF Safe, LogRefused, waitVars, TypeOK, Holds, Found, NoEmptyRead

LEMMA CommitSafe ==
  ASSUME Safe, NEW c \in Cpus, LogCommit(c)
  PROVE  Safe'
<1> USE DEF Safe
<1> DEFINE s == Append(buf[c], pend[c])
<1>1. s \in Seq(Entry) /\ s # <<>>
  <2>1. buf[c] \in Seq(Entry) /\ pend[c] \in Entry
    BY DEF TypeOK
  <2> QED BY <2>1, AppendProperties
<1>2. /\ buf' = [buf EXCEPT ![c] = s] /\ pend' = [pend EXCEPT ![c] = NoEntry]
      /\ waking' = [waking EXCEPT ![c] = "test"]
      /\ UNCHANGED <<n, wret, queued, pending, irq, mutex, pc, count, cpu, event, ret, out>>
  BY DEF LogCommit
<1> HIDE DEF s
<1>3. TypeOK'
  BY <1>1, <1>2, NoEntryType DEF TypeOK
<1>4. Found'
  BY <1>1, <1>2 DEF Found, TypeOK
<1> QED BY <1>2, <1>3, <1>4 DEF Holds, NoEmptyRead

LEMMA WakeSafe ==
  ASSUME Safe, (\E c \in Cpus : LogWake(c)) \/ WakeUpWaiters
  PROVE  Safe'
<1> USE DEF Safe
<1>1. CASE WakeUpWaiters
  BY <1>1 DEF WakeUpWaiters, writeVars, TypeOK, Holds, Found, NoEmptyRead
<1>2. ASSUME NEW c \in Cpus, LogWake(c) PROVE Safe'
  <2>1. /\ \E l \in {"no", "clear"} : waking' = [waking EXCEPT ![c] = l]
        /\ wret' \in {wret, 0} /\ pending' \in {pending, FALSE} /\ irq' \in {irq, TRUE}
        /\ UNCHANGED <<buf, pend, n, queued, mutex, pc, count, cpu, event, ret, out>>
    BY <1>2 DEF LogWake, LogWakeTest, LogWakeClear
  <2>2. waking' \in [Cpus -> {"no", "test", "clear"}]
    BY <2>1 DEF TypeOK
  <2>3. TypeOK'
    BY <2>1, <2>2 DEF TypeOK
  <2> QED BY <2>1, <2>3 DEF Holds, Found, NoEmptyRead
<1> QED BY <1>1, <1>2

(* A look at the buffers starts at CPU 0 and stays on the CPUs there are.  *)
LEMMA ScanType ==
  ASSUME TypeOK, NEW r \in Readers,
         cpu' = cpu \/ cpu' = [cpu EXCEPT ![r] = 0] \/ NextCpu(r)
  PROVE  cpu' \in [Readers -> Cpus] /\ \A q \in Readers \ {r} : cpu'[q] = cpu[q]
<1>1. 0 \in Cpus
  BY LoggerAssumption DEF Cpus
<1>2. cpu \in [Readers -> Cpus]
  BY DEF TypeOK
<1>3. CASE NextCpu(r)
  <2>1. cpu' = [cpu EXCEPT ![r] = cpu[r] + 1] /\ cpu[r] < NCpus - 1 /\ cpu[r] \in 0..(NCpus - 1)
    BY <1>2, <1>3 DEF NextCpu, Cpus
  <2>2. cpu[r] + 1 \in Cpus
    BY <2>1, LoggerAssumption DEF Cpus
  <2> QED BY <1>2, <2>1, <2>2
<1> QED BY <1>1, <1>2, <1>3

LEMMA ReadBeginSafe ==
  ASSUME Safe, NEW r \in Readers, NEW size \in Counts, Read(r, size)
  PROVE  Safe'
<1> USE DEF Safe
<1>1. /\ pc' = [pc EXCEPT ![r] = "check"] /\ count' = [count EXCEPT ![r] = size]
      /\ cpu' = [cpu EXCEPT ![r] = 0] /\ ret' = [ret EXCEPT ![r] = EAGAIN]
      /\ UNCHANGED <<buf, pend, n, wret, waking, queued, pending, irq, mutex, event, out>>
  BY DEF Read, GotoScan, Goto, writeVars, waitVars
<1>2. cpu' \in [Readers -> Cpus] /\ \A q \in Readers \ {r} : cpu'[q] = cpu[q]
  BY <1>1, ScanType
<1>3. ret' \in [Readers -> Int] /\ NoEmptyRead'
  BY <1>1 DEF TypeOK, NoEmptyRead, EAGAIN
<1>4. TypeOK'
  BY <1>1, <1>2, <1>3, LoggerAssumption DEF TypeOK, Place
<1>5. Holds' /\ Found'
  BY <1>1, <1>2 DEF Holds, Found, Critical, TypeOK
<1> QED BY <1>3, <1>4, <1>5

(* The steps of a reader that does not have the mutex.                     *)
Waits(r) ==
  \/ ReadCheck(r) \/ ReadPrepare(r) \/ ReadFlag(r) \/ ReadRecheck(r) \/ ReadAwake(r)
  \/ ReadSignal(r)

LEMMA WaitsDoes ==
  ASSUME TypeOK, NEW r \in Readers, Waits(r)
  PROVE  /\ \E l \in Place \ Critical : pc' = [pc EXCEPT ![r] = l]
         /\ UNCHANGED <<buf, pend, n, wret, waking, irq, mutex, count, event, out>>
         /\ ret' = ret \/ \E v \in {EAGAIN, EINTR} : ret' = [ret EXCEPT ![r] = v]
         /\ cpu' = cpu \/ cpu' = [cpu EXCEPT ![r] = 0] \/ NextCpu(r)
         /\ queued' \in {queued, queued \cup {r}, queued \ {r}}
         /\ pending' \in {pending, TRUE}
<1> USE DEF writeVars, waitVars, GotoScan, Goto, Return, Place, Critical
<1>0. pc \in [Readers -> Place]
  BY DEF TypeOK
<1>1. CASE ReadCheck(r)
  <2>1. pc[r] = "check" /\ pc = [pc EXCEPT ![r] = "check"]
    BY <1>0, <1>1 DEF ReadCheck
  <2> QED BY <1>1, <2>1 DEF ReadCheck
<1>2. CASE ReadPrepare(r)
  BY <1>2 DEF ReadPrepare
<1>3. CASE ReadFlag(r)
  BY <1>3 DEF ReadFlag
<1>4. CASE ReadRecheck(r)
  <2>1. pc[r] = "recheck" /\ pc = [pc EXCEPT ![r] = "recheck"]
    BY <1>0, <1>4 DEF ReadRecheck
  <2> QED BY <1>4, <2>1 DEF ReadRecheck
<1>5. CASE ReadAwake(r)
  BY <1>5 DEF ReadAwake
<1>6. CASE ReadSignal(r)
  BY <1>6 DEF ReadSignal
<1> QED BY <1>1, <1>2, <1>3, <1>4, <1>5, <1>6 DEF Waits

LEMMA ReadWaitSafe ==
  ASSUME Safe, NEW r \in Readers, Waits(r)
  PROVE  Safe'
<1> USE DEF Safe
<1>1. PICK l \in Place \ Critical : pc' = [pc EXCEPT ![r] = l]
  BY WaitsDoes
<1>2. /\ UNCHANGED <<buf, pend, n, wret, waking, irq, mutex, count, event, out>>
      /\ ret' = ret \/ \E v \in {EAGAIN, EINTR} : ret' = [ret EXCEPT ![r] = v]
      /\ cpu' = cpu \/ cpu' = [cpu EXCEPT ![r] = 0] \/ NextCpu(r)
      /\ queued' \in {queued, queued \cup {r}, queued \ {r}}
      /\ pending' \in {pending, TRUE}
  BY WaitsDoes
<1>3. ret' \in [Readers -> Int] /\ NoEmptyRead'
  BY <1>2 DEF TypeOK, NoEmptyRead, EAGAIN, EINTR
<1>4. cpu' \in [Readers -> Cpus] /\ \A q \in Readers \ {r} : cpu'[q] = cpu[q]
  BY <1>2, ScanType
<1>5. queued' \subseteq Readers /\ pending' \in BOOLEAN
  BY <1>2 DEF TypeOK
<1>6. TypeOK'
  BY <1>1, <1>2, <1>3, <1>4, <1>5 DEF TypeOK
<1>7. Holds' /\ Found'
  BY <1>1, <1>2, <1>4 DEF Holds, Found, Critical, TypeOK
<1> QED BY <1>3, <1>6, <1>7

LEMMA ReadLockSafe ==
  ASSUME Safe, NEW r \in Readers, ReadLock(r)
  PROVE  Safe'
<1> USE DEF Safe
<1>1. /\ mutex = Nobody /\ mutex' = r
      /\ pc' = [pc EXCEPT ![r] = "find"] /\ cpu' = [cpu EXCEPT ![r] = 0]
      /\ UNCHANGED <<buf, pend, n, wret, waking, queued, pending, irq, count, event, ret, out>>
  BY DEF ReadLock, GotoScan, Goto, writeVars, waitVars
<1>2. cpu' \in [Readers -> Cpus] /\ \A q \in Readers \ {r} : cpu'[q] = cpu[q]
  BY <1>1, ScanType
<1>3. TypeOK'
  BY <1>1, <1>2 DEF TypeOK, Place
<1>4. Holds' /\ Found'
  BY <1>1, <1>2, LoggerAssumption DEF Holds, Found, Critical, TypeOK
<1> QED BY <1>1, <1>3, <1>4 DEF NoEmptyRead

LEMMA ReadFindSafe ==
  ASSUME Safe, NEW r \in Readers, ReadFind(r)
  PROVE  Safe'
<1> USE DEF Safe
<1>1. pc[r] = "find" /\ UNCHANGED <<buf, pend, n, wret, waking, queued, pending, irq, count, event, ret, out>>
  BY DEF ReadFind, writeVars, waitVars
<1>2. \A q \in Readers : q # r => pc[q] \notin Critical
  BY <1>1 DEF Holds, Critical
<1>3. cpu' \in [Readers -> Cpus] /\ \A q \in Readers \ {r} : cpu'[q] = cpu[q]
  <2>1. cpu' = cpu \/ cpu' = [cpu EXCEPT ![r] = 0] \/ NextCpu(r)
    BY DEF ReadFind, GotoScan
  <2> QED BY <2>1, ScanType
<1>4. CASE mutex' = Nobody /\ pc' = [pc EXCEPT ![r] = "check"]
  <2>1. TypeOK'
    BY <1>1, <1>3, <1>4 DEF TypeOK, Place
  <2>2. Holds' /\ Found'
    BY <1>1, <1>2, <1>4 DEF Holds, Found, Critical, TypeOK
  <2> QED BY <1>1, <2>1, <2>2 DEF NoEmptyRead
<1>5. CASE mutex' = mutex /\ pc' = pc
  <2>1. TypeOK'
    BY <1>1, <1>3, <1>5 DEF TypeOK
  <2>2. Holds' /\ Found'
    BY <1>1, <1>2, <1>5 DEF Holds, Found, Critical, TypeOK
  <2> QED BY <1>1, <2>1, <2>2 DEF NoEmptyRead
<1>6. CASE /\ buf[cpu[r]] # <<>> /\ cpu' = cpu /\ mutex' = mutex
           /\ pc' = [pc EXCEPT ![r] = "consume"]
  <2>1. TypeOK'
    BY <1>1, <1>3, <1>6 DEF TypeOK, Place
  <2>2. Holds'
    BY <1>1, <1>6 DEF Holds, Critical, TypeOK
  <2>3. Found'
    BY <1>1, <1>2, <1>6 DEF Found, Critical, TypeOK
  <2> QED BY <1>1, <2>1, <2>2, <2>3 DEF NoEmptyRead
<1> QED BY <1>4, <1>5, <1>6 DEF ReadFind, SeesEntry, GotoScan, Goto

LEMMA ReadConsumeSafe ==
  ASSUME Safe, NEW r \in Readers, ReadConsume(r)
  PROVE  Safe'
<1> USE DEF Safe
<1> DEFINE c == cpu[r]
           h == Head(buf[c])
           t == Tail(buf[c])
<1>1. c \in Cpus /\ buf[c] \in Seq(Entry) /\ buf[c] # <<>>
  BY DEF ReadConsume, TypeOK, Found
<1>2. h \in Entry /\ t \in Seq(Entry)
  BY <1>1, HeadTailProperties
<1>3. /\ event' = [event EXCEPT ![r] = h] /\ buf' = [buf EXCEPT ![c] = t]
      /\ pc' = [pc EXCEPT ![r] = "copy"] /\ pc[r] = "consume"
      /\ UNCHANGED <<pend, n, wret, waking, queued, pending, irq, mutex, count, cpu, ret, out>>
  BY <1>1 DEF ReadConsume, Goto, writeVars, waitVars
<1> HIDE DEF h, t
<1>4. TypeOK'
  BY <1>1, <1>2, <1>3 DEF TypeOK, Place
<1>5. Holds'
  BY <1>3 DEF Holds, Critical, TypeOK
<1>6. \A q \in Readers : pc'[q] # "consume"
  BY <1>3, LoggerAssumption DEF Holds, Critical, TypeOK
<1> QED BY <1>3, <1>4, <1>5, <1>6 DEF Found, NoEmptyRead

LEMMA ReadCopySafe ==
  ASSUME Safe, NEW r \in Readers, ReadCopy(r)
  PROVE  Safe'
<1> USE DEF Safe
<1> DEFINE l == CopyLen(event[r])
           o == [id |-> event[r].id, cpu |-> cpu[r], len |-> l, of |-> event[r].len]
<1>1. event[r] \in Entry /\ cpu[r] \in Cpus /\ l = 20 + event[r].len /\ l \in Int /\ l # 0
  <2>1. event[r] \in Entry /\ cpu[r] \in Cpus
    BY DEF TypeOK
  <2>2. l = 20 + event[r].len /\ event[r].len \in Nat
    BY <2>1, CopyLenIs DEF HEADER, Entry
  <2> QED BY <2>1, <2>2
<1>2. o \in Answer
  BY <1>1 DEF Entry, Answer
<1>3. /\ pc[r] = "copy" /\ pc' = [pc EXCEPT ![r] = "idle"] /\ mutex' = Nobody
      /\ event' = [event EXCEPT ![r] = NoEntry]
      /\ UNCHANGED <<buf, pend, n, wret, waking, queued, pending, irq, count, cpu>>
  BY DEF ReadCopy, Return, Goto, writeVars, waitVars
<1>4. \E v \in {EINVAL, EFAULT, l} : ret' = [ret EXCEPT ![r] = v]
  BY DEF ReadCopy, Return
<1>5. out' = out \/ out' = Append(out, o)
  BY DEF ReadCopy
<1> HIDE DEF l, o
<1>6. \E v \in Int \ {0} : ret' = [ret EXCEPT ![r] = v]
  <2>1. EINVAL \in Int \ {0} /\ EFAULT \in Int \ {0} /\ l \in Int \ {0}
    BY <1>1 DEF EINVAL, EFAULT
  <2> HIDE DEF Safe
  <2> QED BY <2>1, <1>4
<1>7. out' \in Seq(Answer)
  <2>1. out \in Seq(Answer)
    BY DEF TypeOK
  <2> QED BY <1>2, <1>5, <2>1, AppendProperties
<1>8. TypeOK'
  BY <1>3, <1>6, <1>7, NoEntryType DEF TypeOK, Place
<1>9. Holds' /\ Found'
  BY <1>3 DEF Holds, Found, Critical, TypeOK
<1> QED BY <1>6, <1>8, <1>9 DEF NoEmptyRead, TypeOK

LEMMA StepSafe == Safe /\ [Next]_vars => Safe'
<1> SUFFICES ASSUME Safe, [Next]_vars PROVE Safe'
  OBVIOUS
<1>1. CASE UNCHANGED vars
  BY <1>1 DEF vars, writeVars, waitVars, Safe, TypeOK, Holds, Found, NoEmptyRead
<1> QED BY <1>1, ReserveSafe, RefusedSafe, CommitSafe, WakeSafe, ReadBeginSafe, ReadWaitSafe,
           ReadLockSafe, ReadFindSafe, ReadConsumeSafe, ReadCopySafe
        DEF Next, ReadStep, Waits

LEMMA InitSafe == Init => Safe
<1> SUFFICES ASSUME Init PROVE Safe
  OBVIOUS
<1>1. 0 \in Cpus
  BY LoggerAssumption DEF Cpus
<1>2. TypeOK
  <2>1. /\ buf \in [Cpus -> Seq(Entry)] /\ pend \in [Cpus -> Entry]
        /\ event \in [Readers -> Entry]
    BY NoEntryType DEF Init
  <2>2. /\ n \in Nat /\ wret \in {0, ENOMEM} /\ mutex \in Readers \cup {Nobody}
        /\ waking \in [Cpus -> {"no", "test", "clear"}]
    BY DEF Init
  <2>3. /\ queued \subseteq Readers /\ pending \in BOOLEAN /\ irq \in BOOLEAN
        /\ pc \in [Readers -> Place]
    BY DEF Init, Place
  <2>4. /\ count \in [Readers -> Nat] /\ cpu \in [Readers -> Cpus]
        /\ ret \in [Readers -> Int]
    BY <1>1 DEF Init, EAGAIN
  <2>5. out \in Seq(Answer)
    BY DEF Init
  <2> QED BY <2>1, <2>2, <2>3, <2>4, <2>5 DEF TypeOK
<1> QED BY <1>2 DEF Safe, Init, Holds, Found, NoEmptyRead, Critical, EAGAIN

(* Every variable of the log keeps its type, for any CPUs and readers.     *)
THEOREM LoggerTypeCorrect == Spec => []TypeOK
<1>1. Safe => TypeOK
  BY DEF Safe
<1> QED BY <1>1, InitSafe, StepSafe, PTL DEF Spec

(***************************************************************************)
(* However many readers and writers race, no read() returns 0: between     *)
(* ring_buffer_find_cpu and ring_buffer_consume the entry found cannot     *)
(* go away, because readers hold logger->mutex and writers leave a full    *)
(* buffer non-empty.                                                       *)
(***************************************************************************)
THEOREM NoReadIsEmpty == Spec => []NoEmptyRead
<1>1. Safe => NoEmptyRead
  BY DEF Safe
<1> QED BY <1>1, InitSafe, StepSafe, PTL DEF Spec
-----------------------------------------------------------------------------
(* The order in which entries come out.                                    *)

(* v was taken from the buffer of c: it is older than all that is left.    *)
Older(v, c) ==
  /\ v <= n
  /\ \A i \in 1..Len(buf[c]) : v < buf[c][i].id
  /\ pend[c] # NoEntry => v < pend[c].id

(* The entries of a CPU are in the order of their reservation.             *)
Sorted(c) ==
  /\ \A i, j \in 1..Len(buf[c]) : i < j => buf[c][i].id < buf[c][j].id
  /\ \A i \in 1..Len(buf[c]) :
       buf[c][i].id <= n /\ (pend[c] # NoEntry => buf[c][i].id < pend[c].id)
  /\ pend[c].id <= n

(* The entry that a reader is copying is between what is out and the rest. *)
Copying(r) ==
  pc[r] = "copy" =>
    /\ Older(event[r].id, cpu[r])
    /\ \A i \in 1..Len(out) : out[i].cpu = cpu[r] => out[i].id < event[r].id

Ordered ==
  /\ \A c \in Cpus : Sorted(c)
  /\ \A r \in Readers : Copying(r)
  /\ \A i \in 1..Len(out) : Older(out[i].id, out[i].cpu)
  /\ ReadInOrder

(***************************************************************************)
(* A step that keeps out and the readers, and leaves in each buffer only   *)
(* entries that were there before or are newer than all others.            *)
(***************************************************************************)
LEMMA OlderKept ==
  ASSUME Safe, NEW c \in Cpus, NEW v \in Nat, Older(v, c),
         n' \in Nat, n <= n',
         \A i \in 1..Len(buf'[c]) :
            \/ \E j \in 1..Len(buf[c]) : buf'[c][i] = buf[c][j]
            \/ pend[c] # NoEntry /\ buf'[c][i] = pend[c],
         pend'[c] = pend[c] \/ pend'[c] = NoEntry \/ pend'[c].id = n + 1
  PROVE  Older(v, c)'
<1>1. n \in Nat
  BY DEF Safe, TypeOK
<1>2. v <= n'
  BY <1>1 DEF Older
<1>3. \A i \in 1..Len(buf'[c]) : v < buf'[c][i].id
  BY DEF Older
<1>4. pend'[c] # NoEntry => v < pend'[c].id
  BY <1>1 DEF Older
<1> QED BY <1>2, <1>3, <1>4 DEF Older

LEMMA CutIs ==
  ASSUME NEW S, NEW s \in Seq(S), NEW j \in 0..Len(s), NEW k \in 1..Len(s), j < k
  PROVE  LET rest == SubSeq(s, 1, j) \o SubSeq(s, k + 1, Len(s))
         IN  /\ Len(rest) = j + Len(s) - k
             /\ \A i \in 1..Len(rest) : rest[i] = s[IF i <= j THEN i ELSE i + (k - j)]
<1> DEFINE a == SubSeq(s, 1, j)
           b == SubSeq(s, k + 1, Len(s))
<1>1. \A i \in 1..Len(s) : s[i] \in S
  BY ElementOfSeq
<1>2. Len(s) \in Nat
  OBVIOUS
<1>3. a \in Seq(S) /\ Len(a) = j /\ \A i \in 1..j : a[i] = s[i]
  <2>1. \A i \in 1..j : s[i] \in S
    BY <1>1, <1>2
  <2>2. /\ a \in Seq(S) /\ Len(a) = IF 1 <= j THEN j - 1 + 1 ELSE 0
        /\ \A i \in 1..(j - 1 + 1) : a[i] = s[1 + i - 1]
    BY <2>1, <1>2, SubSeqProperties
  <2> QED BY <2>2
<1>4. /\ b \in Seq(S) /\ Len(b) = Len(s) - k
      /\ \A i \in 1..(Len(s) - k) : b[i] = s[k + i]
  <2>1. \A i \in (k + 1)..Len(s) : s[i] \in S
    BY <1>1, <1>2
  <2>2. /\ b \in Seq(S) /\ Len(b) = IF k + 1 <= Len(s) THEN Len(s) - (k + 1) + 1 ELSE 0
        /\ \A i \in 1..(Len(s) - (k + 1) + 1) : b[i] = s[k + 1 + i - 1]
    BY <2>1, <1>2, SubSeqProperties
  <2> QED BY <2>2, <1>2
<1> HIDE DEF a, b
<1>5. /\ Len(a \o b) = j + (Len(s) - k)
      /\ \A i \in 1..(j + (Len(s) - k)) : (a \o b)[i] = IF i <= j THEN a[i] ELSE b[i - j]
  <2>1. /\ Len(a \o b) = Len(a) + Len(b)
        /\ \A i \in 1..(Len(a) + Len(b)) :
              (a \o b)[i] = IF i <= Len(a) THEN a[i] ELSE b[i - Len(a)]
    BY <1>3, <1>4, ConcatProperties
  <2>2. Len(a) = j /\ Len(b) = Len(s) - k
    BY <1>3, <1>4
  <2> QED BY ONLY <2>1, <2>2
<1>6. ASSUME NEW i \in 1..(j + (Len(s) - k))
      PROVE  (a \o b)[i] = s[IF i <= j THEN i ELSE i + (k - j)]
  <2>1. CASE i <= j
    BY <2>1, <1>2, <1>3, <1>5
  <2>2. CASE ~(i <= j)
    <3>1. i - j \in 1..(Len(s) - k) /\ k + (i - j) = i + (k - j)
      BY <2>2, <1>2
    <3>2. b[i - j] = s[k + (i - j)]
      BY <3>1, <1>4
    <3> QED BY <2>2, <3>1, <3>2, <1>5
  <2> QED BY <2>1, <2>2
<1> QED BY <1>2, <1>5, <1>6 DEF a, b

(* t keeps some of s, in the same order; f says where each element was.    *)
Keeps(t, s, f) ==
  /\ \A i \in 1..Len(t) : f[i] \in 1..Len(s) /\ t[i] = s[f[i]]
  /\ \A i, j \in 1..Len(t) : i < j => f[i] < f[j]

LEMMA KeepsAll ==
  ASSUME NEW S, NEW s \in Seq(S) PROVE \E f : Keeps(s, s, f)
<1> DEFINE f == [i \in 1..Len(s) |-> i]
<1>1. Keeps(s, s, f)
  BY DEF Keeps
<1> QED BY <1>1

LEMMA CutKeeps ==
  ASSUME NEW S, NEW s \in Seq(S), NEW j \in 0..Len(s), NEW k \in 1..Len(s), j < k
  PROVE  \E f : Keeps(SubSeq(s, 1, j) \o SubSeq(s, k + 1, Len(s)), s, f)
<1> DEFINE rest == SubSeq(s, 1, j) \o SubSeq(s, k + 1, Len(s))
           m == Len(s)
           f == [i \in 1..(j + m - k) |-> IF i <= j THEN i ELSE i + (k - j)]
<1>1. m \in Nat /\ j \in 0..m /\ k \in 1..m
  OBVIOUS
<1>2. /\ Len(rest) = j + m - k
      /\ \A i \in 1..Len(rest) : rest[i] = s[IF i <= j THEN i ELSE i + (k - j)]
  BY CutIs
<1> HIDE DEF rest, m
<1>3. \A i \in 1..(j + m - k) : f[i] = IF i <= j THEN i ELSE i + (k - j)
  OBVIOUS
<1> HIDE DEF f
<1>4. \A i \in 1..(j + m - k) : f[i] \in 1..m
  BY <1>1, <1>3
<1>5. \A x, y \in 1..(j + m - k) : x < y => f[x] < f[y]
  BY <1>1, <1>3
<1>6. \A i \in 1..Len(rest) : rest[i] = s[f[i]]
  BY <1>2, <1>3
<1>7. Keeps(rest, s, f)
  BY <1>2, <1>4, <1>5, <1>6 DEF Keeps, m
<1> QED BY <1>7 DEF rest

(* Making room keeps entries of the buffer, in their order.                *)
LEMMA RoomKeeps ==
  ASSUME TypeOK, NEW c \in Cpus, MakeRoom(c), NEW d \in Cpus
  PROVE  \E f : Keeps(buf'[d], buf[d], f)
<1>1. buf[c] \in Seq(Entry) /\ buf[d] \in Seq(Entry)
  BY DEF TypeOK
<1>2. CASE buf'[d] = buf[d]
  BY <1>1, <1>2, KeepsAll
<1>3. CASE buf'[d] # buf[d]
  <2>1. PICK j \in 0..Len(buf[c]), k \in 1..Len(buf[c]) :
          /\ j < k
          /\ buf' = [buf EXCEPT ![c] = SubSeq(buf[c], 1, j) \o SubSeq(buf[c], k + 1, Len(buf[c]))]
    BY <1>3 DEF MakeRoom
  <2>2. d = c /\ buf'[c] = SubSeq(buf[c], 1, j) \o SubSeq(buf[c], k + 1, Len(buf[c]))
    BY <1>3, <2>1 DEF TypeOK
  <2>3. \E f : Keeps(SubSeq(buf[c], 1, j) \o SubSeq(buf[c], k + 1, Len(buf[c])), buf[c], f)
    BY <1>1, <2>1, CutKeeps
  <2> QED BY <2>2, <2>3
<1> QED BY <1>2, <1>3

LEMMA OutType ==
  ASSUME TypeOK, NEW i \in 1..Len(out)
  PROVE  out[i].id \in Nat /\ out[i].cpu \in Cpus
<1>1. out \in Seq(Answer)
  BY DEF TypeOK
<1>2. out[i] \in Answer
  BY <1>1, ElementOfSeq
<1> QED BY <1>2 DEF Answer

LEMMA BufType ==
  ASSUME TypeOK, NEW c \in Cpus, NEW i \in 1..Len(buf[c])
  PROVE  buf[c][i].id \in Nat
<1>1. buf[c] \in Seq(Entry)
  BY DEF TypeOK
<1>2. buf[c][i] \in Entry
  BY <1>1, ElementOfSeq
<1> QED BY <1>2 DEF Entry

LEMMA ReserveOrdered ==
  ASSUME Safe, Ordered, NEW c \in Cpus, NEW total \in Lens, LogReserve(c, total)
  PROVE  Ordered'
<1>1. /\ n \in Nat /\ n' = n + 1 /\ pend[c] = NoEntry /\ MakeRoom(c)
      /\ UNCHANGED <<pc, cpu, event, out>>
      /\ \A d \in Cpus : pend'[d] = pend[d] \/ (d = c /\ pend'[d].id = n + 1)
  BY DEF LogReserve, Safe, TypeOK
<1>2. TypeOK /\ TypeOK'
  BY ReserveSafe DEF Safe
<1>3. ASSUME NEW d \in Cpus PROVE Sorted(d)'
  <2>0. PICK f : Keeps(buf'[d], buf[d], f)
    BY <1>1, <1>2, RoomKeeps
  <2>1. /\ \A i \in 1..Len(buf'[d]) : f[i] \in 1..Len(buf[d]) /\ buf'[d][i] = buf[d][f[i]]
        /\ \A i, j \in 1..Len(buf'[d]) : i < j => f[i] < f[j]
    BY <2>0 DEF Keeps
  <2>2. Sorted(d) /\ \A i \in 1..Len(buf[d]) : buf[d][i].id \in Nat
    BY <1>2, BufType DEF Ordered
  <2>3. \A i, j \in 1..Len(buf'[d]) : i < j => buf'[d][i].id < buf'[d][j].id
    BY <2>1, <2>2 DEF Sorted
  <2>4. \A i \in 1..Len(buf'[d]) : buf'[d][i].id <= n /\ buf'[d][i].id \in Nat
    BY <2>1, <2>2 DEF Sorted
  <2>5. ASSUME NEW i \in 1..Len(buf'[d]), pend'[d] # NoEntry
        PROVE  buf'[d][i].id < pend'[d].id
    <3>1. CASE pend'[d] = pend[d]
      BY <2>1, <2>2, <2>5, <3>1 DEF Sorted
    <3>2. CASE pend'[d].id = n + 1
      BY <1>1, <2>4, <3>2
    <3> QED BY <1>1, <3>1, <3>2
  <2>6. pend'[d].id <= n'
    <3>1. pend[d].id \in Nat
      BY <1>2 DEF TypeOK, Entry
    <3> QED BY <1>1, <2>2, <3>1 DEF Sorted
  <2>7. \A i \in 1..Len(buf'[d]) : buf'[d][i].id <= n'
    BY <1>1, <2>4
  <2> QED BY <2>3, <2>5, <2>6, <2>7 DEF Sorted
<1>4. ASSUME NEW d \in Cpus, NEW v \in Nat, Older(v, d) PROVE Older(v, d)'
  <2>1. \A i \in 1..Len(buf'[d]) : \E j \in 1..Len(buf[d]) : buf'[d][i] = buf[d][j]
    BY <1>1, <1>2, RoomKeeps DEF Keeps
  <2> QED BY <1>1, <1>4, <2>1, OlderKept
<1>5. ASSUME NEW r \in Readers PROVE Copying(r)'
  <2>1. cpu[r] \in Cpus /\ event[r].id \in Nat
    BY <1>2 DEF TypeOK, Entry
  <2>2. Copying(r)
    BY DEF Ordered
  <2> QED BY <1>1, <1>4, <2>1, <2>2 DEF Copying
<1>6. ASSUME NEW i \in 1..Len(out) PROVE Older(out[i].id, out[i].cpu)'
  <2>1. out[i].id \in Nat /\ out[i].cpu \in Cpus
    BY <1>2, OutType
  <2> QED BY <1>1, <1>4, <2>1 DEF Ordered
<1> QED BY <1>1, <1>3, <1>5, <1>6 DEF Ordered, ReadInOrder

LEMMA CommitOrdered ==
  ASSUME Safe, Ordered, NEW c \in Cpus, LogCommit(c)
  PROVE  Ordered'
<1>1. /\ TypeOK /\ n \in Nat /\ n' = n /\ pend[c] # NoEntry
      /\ UNCHANGED <<pc, cpu, event, out>>
      /\ buf[c] \in Seq(Entry) /\ pend[c] \in Entry
      /\ buf' = [buf EXCEPT ![c] = Append(buf[c], pend[c])]
      /\ pend' = [pend EXCEPT ![c] = NoEntry]
  BY DEF LogCommit, Safe, TypeOK
<1>2. /\ buf'[c] = Append(buf[c], pend[c]) /\ pend'[c] = NoEntry
      /\ \A d \in Cpus \ {c} : buf'[d] = buf[d] /\ pend'[d] = pend[d]
  BY <1>1 DEF TypeOK
<1>3. /\ Len(buf[c]) \in Nat /\ Len(buf'[c]) = Len(buf[c]) + 1
      /\ \A i \in 1..Len(buf[c]) : buf'[c][i] = buf[c][i]
      /\ buf'[c][Len(buf[c]) + 1] = pend[c]
  BY <1>1, <1>2, AppendProperties
<1>4. Sorted(c) /\ pend[c].id \in Nat
  BY <1>1 DEF Ordered, Entry
<1>5. Sorted(c)'
  <2>1. \A i \in 1..Len(buf'[c]) : i \in 1..Len(buf[c]) \/ i = Len(buf[c]) + 1
    BY <1>3
  <2>2. \A i, j \in 1..Len(buf'[c]) : i < j => buf'[c][i].id < buf'[c][j].id
    BY <1>1, <1>3, <1>4, <2>1 DEF Sorted
  <2>3. \A i \in 1..Len(buf'[c]) : buf'[c][i].id <= n
    BY <1>3, <1>4, <2>1 DEF Sorted
  <2> QED BY <1>1, <1>2, <2>2, <2>3 DEF Sorted, NoEntry
<1>6. ASSUME NEW d \in Cpus PROVE Sorted(d)'
  <2>1. CASE d # c
    BY <1>1, <1>2, <2>1 DEF Ordered, Sorted
  <2> QED BY <1>5, <2>1
<1>7. ASSUME NEW d \in Cpus, NEW v \in Nat, Older(v, d) PROVE Older(v, d)'
  <2>1. CASE d # c
    BY <1>1, <1>2, <1>7, <2>1 DEF Older
  <2>2. CASE d = c
    BY <1>1, <1>2, <1>3, <1>7, <2>2, OlderKept
  <2> QED BY <2>1, <2>2
<1>8. ASSUME NEW r \in Readers PROVE Copying(r)'
  <2>1. cpu[r] \in Cpus /\ event[r].id \in Nat
    BY <1>1 DEF TypeOK, Entry
  <2>2. Copying(r)
    BY DEF Ordered
  <2> QED BY <1>1, <1>7, <2>1, <2>2 DEF Copying
<1>9. ASSUME NEW i \in 1..Len(out) PROVE Older(out[i].id, out[i].cpu)'
  BY <1>1, <1>7, OutType DEF Ordered
<1> QED BY <1>1, <1>6, <1>8, <1>9 DEF Ordered, ReadInOrder

LEMMA ConsumeOrdered ==
  ASSUME Safe, Ordered, NEW r \in Readers, ReadConsume(r)
  PROVE  Ordered'
<1>0. PICK c \in Cpus : c = cpu[r]
  BY DEF Safe, TypeOK
<1>1. /\ TypeOK /\ n \in Nat /\ UNCHANGED <<n, pend, cpu, out>>
      /\ c \in Cpus /\ buf[c] \in Seq(Entry) /\ buf[c] # <<>> /\ pc[r] = "consume"
  BY <1>0 DEF ReadConsume, writeVars, Safe, TypeOK, Found
<1>2. /\ buf' = [buf EXCEPT ![c] = Tail(buf[c])]
      /\ event' = [event EXCEPT ![r] = Head(buf[c])]
      /\ pc' = [pc EXCEPT ![r] = "copy"]
  BY <1>0, <1>1 DEF ReadConsume, Goto
<1>3. /\ buf'[c] = Tail(buf[c]) /\ event'[r] = Head(buf[c])
      /\ \A d \in Cpus \ {c} : buf'[d] = buf[d]
  BY <1>1, <1>2 DEF TypeOK
<1>4. /\ Len(buf[c]) \in Nat \ {0} /\ Len(buf'[c]) = Len(buf[c]) - 1
      /\ \A i \in 1..Len(buf'[c]) : buf'[c][i] = buf[c][i + 1]
      /\ event'[r] = buf[c][1]
  <2>1. /\ Len(Tail(buf[c])) = Len(buf[c]) - 1
        /\ \A i \in 1..Len(Tail(buf[c])) : Tail(buf[c])[i] = buf[c][i + 1]
    BY <1>1, HeadTailProperties
  <2>2. Len(buf[c]) \in Nat \ {0} /\ Head(buf[c]) = buf[c][1]
    BY <1>1
  <2> QED BY <1>3, <2>1, <2>2
<1>5. Sorted(c) /\ \A i \in 1..Len(buf[c]) : buf[c][i].id \in Nat
  BY <1>1, BufType DEF Ordered
<1>6. ASSUME NEW d \in Cpus PROVE Sorted(d)'
  <2>1. CASE d # c
    BY <1>1, <1>3, <2>1 DEF Ordered, Sorted
  <2>2. CASE d = c
    <3>1. \A i \in 1..Len(buf'[c]) : i + 1 \in 1..Len(buf[c])
      BY <1>4
    <3>2. ASSUME NEW i \in 1..Len(buf'[c]), NEW j \in 1..Len(buf'[c]), i < j
          PROVE  buf'[c][i].id < buf'[c][j].id
      <4>1. i + 1 \in 1..Len(buf[c]) /\ j + 1 \in 1..Len(buf[c]) /\ i + 1 < j + 1
        BY <3>1, <3>2
      <4>2. buf[c][i + 1].id < buf[c][j + 1].id
        BY <1>5, <4>1 DEF Sorted
      <4> QED BY <1>4, <4>2
    <3>3. \A i \in 1..Len(buf'[c]) :
            buf'[c][i].id <= n /\ (pend[c] # NoEntry => buf'[c][i].id < pend[c].id)
      BY <1>4, <1>5, <3>1 DEF Sorted
    <3> QED BY <1>1, <1>5, <2>2, <3>2, <3>3 DEF Sorted
  <2> QED BY <2>1, <2>2
<1>7. ASSUME NEW d \in Cpus, NEW v \in Nat, Older(v, d) PROVE Older(v, d)'
  <2>1. CASE d # c
    BY <1>1, <1>3, <1>7, <2>1 DEF Older
  <2>2. CASE d = c
    <3>1. \A i \in 1..Len(buf'[c]) : i + 1 \in 1..Len(buf[c])
      BY <1>4
    <3> QED BY <1>1, <1>4, <1>7, <2>2, <3>1 DEF Older
  <2> QED BY <2>1, <2>2
<1>8. Older(event[r].id, c)'
  <2>1. 1 \in 1..Len(buf[c]) /\ \A i \in 1..Len(buf'[c]) : i + 1 \in 1..Len(buf[c]) /\ 1 < i + 1
    BY <1>4
  <2>2. event'[r].id <= n
    BY <1>4, <1>5, <2>1 DEF Sorted
  <2>3. \A i \in 1..Len(buf'[c]) : event'[r].id < buf'[c][i].id
    BY <1>4, <1>5, <2>1 DEF Sorted
  <2>4. pend[c] # NoEntry => event'[r].id < pend[c].id
    BY <1>4, <1>5, <2>1 DEF Sorted
  <2> QED BY <1>1, <2>2, <2>3, <2>4 DEF Older
<1>9. ASSUME NEW i \in 1..Len(out), out[i].cpu = c PROVE out[i].id < event'[r].id
  BY <1>4, <1>9 DEF Ordered, Older
<1>10. ASSUME NEW q \in Readers PROVE Copying(q)'
  <2>1. CASE q = r
    BY <1>0, <1>1, <1>8, <1>9, <2>1 DEF Copying
  <2>2. CASE q # r
    <3>1. pc'[q] = pc[q] /\ pc[q] # "copy"
      BY <1>1, <1>2, <2>2 DEF Safe, TypeOK, Holds, Critical
    <3> QED BY <3>1 DEF Copying
  <2> QED BY <2>1, <2>2
<1>11. ASSUME NEW i \in 1..Len(out) PROVE Older(out[i].id, out[i].cpu)'
  BY <1>1, <1>7, OutType DEF Ordered
<1> QED BY <1>1, <1>6, <1>10, <1>11 DEF Ordered, ReadInOrder

LEMMA CopyOrdered ==
  ASSUME Safe, Ordered, NEW r \in Readers, ReadCopy(r)
  PROVE  Ordered'
<1> DEFINE o == [id |-> event[r].id, cpu |-> cpu[r],
                 len |-> CopyLen(event[r]), of |-> event[r].len]
<1>1. /\ TypeOK /\ UNCHANGED <<n, buf, pend, cpu>> /\ pc[r] = "copy"
      /\ pc' = [pc EXCEPT ![r] = "idle"]
      /\ out' = out \/ out' = Append(out, o)
  BY DEF ReadCopy, Return, Goto, writeVars, Safe
<1>2. o.id = event[r].id /\ o.cpu = cpu[r]
  OBVIOUS
<1>3. Older(o.id, o.cpu) /\ \A i \in 1..Len(out) : out[i].cpu = o.cpu => out[i].id < o.id
  BY <1>1, <1>2 DEF Ordered, Copying
<1> HIDE DEF o
<1>4. /\ Len(out) \in Nat /\ Len(out') \in {Len(out), Len(out) + 1}
      /\ \A i \in 1..Len(out) : out'[i] = out[i]
      /\ Len(out') = Len(out) + 1 => out'[Len(out) + 1] = o
  <2>1. out \in Seq(Answer)
    BY <1>1 DEF TypeOK
  <2> QED BY <1>1, <2>1
<1>5. \A i \in 1..Len(out') : i \in 1..Len(out) \/ (i = Len(out) + 1 /\ out'[i] = o)
  BY <1>4
<1>6. \A c \in Cpus : Sorted(c)'
  BY <1>1 DEF Ordered, Sorted
<1>7. \A q \in Readers : pc'[q] # "copy"
  BY <1>1 DEF Safe, Holds, Critical, TypeOK
<1>8. ASSUME NEW i \in 1..Len(out') PROVE Older(out[i].id, out[i].cpu)'
  <2>1. Older(out'[i].id, out'[i].cpu)
    BY <1>3, <1>4, <1>5 DEF Ordered
  <2> QED BY <1>1, <2>1 DEF Older
<1>9. ReadInOrder'
  <2> SUFFICES ASSUME NEW i \in 1..Len(out'), NEW j \in 1..Len(out'), i < j,
                      out'[i].cpu = out'[j].cpu
               PROVE  out'[i].id < out'[j].id
    BY DEF ReadInOrder
  <2>1. i \in 1..Len(out) /\ out'[i] = out[i]
    BY <1>4, <1>5
  <2>2. CASE j \in 1..Len(out)
    BY <1>4, <2>1, <2>2 DEF Ordered, ReadInOrder
  <2>3. CASE out'[j] = o
    BY <1>3, <2>1, <2>3
  <2> QED BY <1>5, <2>2, <2>3
<1> QED BY <1>6, <1>7, <1>8, <1>9 DEF Ordered, Copying

(* The other steps of a reader touch neither the entries nor a copy.       *)
LEMMA OtherOrdered ==
  ASSUME Safe, Ordered, UNCHANGED <<n, buf, pend, event, out>>,
         \A r \in Readers : pc'[r] = "copy" => pc[r] = "copy" /\ cpu'[r] = cpu[r]
  PROVE  Ordered'
<1>1. \A c \in Cpus : Sorted(c)'
  BY DEF Ordered, Sorted
<1>2. \A r \in Readers : Copying(r)'
  BY DEF Ordered, Copying, Older
<1>3. \A i \in 1..Len(out) : Older(out[i].id, out[i].cpu)'
  BY DEF Ordered, Older
<1> QED BY <1>1, <1>2, <1>3 DEF Ordered, ReadInOrder

LEMMA StepOrdered == Safe /\ Ordered /\ [Next]_vars => Ordered'
<1> SUFFICES ASSUME Safe, Ordered, [Next]_vars PROVE Ordered'
  OBVIOUS
<1>1. CASE UNCHANGED vars
  BY <1>1, OtherOrdered DEF vars, writeVars, waitVars
<1>2. ASSUME NEW c \in Cpus, NEW total \in Lens, LogRefused(c, total) PROVE Ordered'
  BY <1>2, OtherOrdered DEF LogRefused
<1>w. CASE (\E c \in Cpus : LogWake(c)) \/ WakeUpWaiters
  BY <1>w, OtherOrdered DEF LogWake, LogWakeTest, LogWakeClear, WakeUpWaiters, writeVars
<1>3. ASSUME NEW r \in Readers, NEW l \in Place \ {"copy"},
             pc' = [pc EXCEPT ![r] = l],
             cpu' = cpu \/ cpu' = [cpu EXCEPT ![r] = 0] \/ NextCpu(r),
             UNCHANGED <<n, buf, pend, event, out>>
      PROVE  Ordered'
  <2>1. \A q \in Readers \ {r} : cpu'[q] = cpu[q]
    BY <1>3, ScanType DEF Safe
  <2>2. \A q \in Readers : pc'[q] = "copy" => pc[q] = "copy" /\ cpu'[q] = cpu[q]
    BY <1>3, <2>1 DEF Safe, TypeOK
  <2> QED BY <1>3, <2>2, OtherOrdered
<1>4. ASSUME NEW r \in Readers, NEW size \in Counts, Read(r, size) PROVE Ordered'
  BY <1>3, <1>4 DEF Read, GotoScan, Goto, writeVars, Place
<1>5. ASSUME NEW r \in Readers, Waits(r) PROVE Ordered'
  <2>1. PICK l \in Place \ Critical : pc' = [pc EXCEPT ![r] = l]
    BY <1>5, WaitsDoes DEF Safe
  <2>2. l \in Place \ {"copy"}
    BY DEF Critical
  <2>3. /\ UNCHANGED <<n, buf, pend, event, out>>
        /\ cpu' = cpu \/ cpu' = [cpu EXCEPT ![r] = 0] \/ NextCpu(r)
    BY <1>5, WaitsDoes DEF Safe
  <2> QED BY <1>3, <2>1, <2>2, <2>3
<1>6. ASSUME NEW r \in Readers, ReadLock(r) PROVE Ordered'
  BY <1>3, <1>6 DEF ReadLock, GotoScan, Goto, writeVars, Place
<1>7. ASSUME NEW r \in Readers, ReadFind(r) PROVE Ordered'
  <2>1. pc = [pc EXCEPT ![r] = "find"]
    BY <1>7 DEF ReadFind, Safe, TypeOK
  <2> QED BY <1>3, <1>7, <2>1 DEF ReadFind, GotoScan, Goto, writeVars, Place
<1> QED BY <1>1, <1>2, <1>w, <1>4, <1>5, <1>6, <1>7, ReserveOrdered, CommitOrdered,
           ConsumeOrdered, CopyOrdered
        DEF Next, ReadStep, Waits

(***************************************************************************)
(* Whichever readers take the entries of a CPU, and whatever a full buffer *)
(* loses, the entries come out in the order of their reservation and none  *)
(* comes out twice.                                                        *)
(***************************************************************************)
THEOREM EntriesComeOutInOrder == Spec => []ReadInOrder
<1>1. Init => Ordered
  BY DEF Init, Ordered, Sorted, Copying, ReadInOrder, NoEntry
<1>2. Ordered => ReadInOrder
  BY DEF Ordered
<1> QED BY <1>1, <1>2, InitSafe, StepSafe, StepOrdered, PTL DEF Spec

-----------------------------------------------------------------------------
(***************************************************************************)
(* Every read that succeeds returns the header and the payload as written: *)
(* the padding of the ring buffer never reaches user space, and nothing is *)
(* cut off, whatever the length of the message.                            *)
(***************************************************************************)
THEOREM EntriesComeOutWhole == Spec => []WholeEntry
<1>1. Init => WholeEntry
  BY DEF Init, WholeEntry
<1>2. ASSUME Safe, WholeEntry, [Next]_vars PROVE WholeEntry'
  <2>1. ASSUME NEW r \in Readers, ReadCopy(r) PROVE WholeEntry'
    <3> DEFINE e == event[r]
               o == [id |-> e.id, cpu |-> cpu[r], len |-> CopyLen(e), of |-> e.len]
    <3>1. e \in Entry /\ out \in Seq(Answer)
      BY <1>2 DEF Safe, TypeOK
    <3>2. o.len = HEADER + o.of
      BY <3>1, CopyLenIs
    <3>3. out' = out \/ out' = Append(out, o)
      BY <2>1 DEF ReadCopy
    <3> HIDE DEF o
    <3>4. \A i \in 1..Len(out') : out'[i] = o \/ (i \in 1..Len(out) /\ out'[i] = out[i])
      BY <3>1, <3>3
    <3> QED BY <1>2, <3>2, <3>4 DEF WholeEntry
  <2>2. CASE UNCHANGED out
    BY <1>2, <2>2 DEF WholeEntry
  <2>3. ASSUME NEW r \in Readers, Waits(r) PROVE UNCHANGED out
    BY <1>2, <2>3, WaitsDoes DEF Safe
  <2> QED BY <1>2, <2>1, <2>2, <2>3
          DEF Next, vars, ReadStep, Waits, LogReserve, LogRefused, LogCommit, LogWake, LogWakeTest,
              LogWakeClear, WakeUpWaiters, Read, ReadLock, ReadFind, ReadConsume
<1> QED BY <1>1, <1>2, InitSafe, StepSafe, PTL DEF Spec
-----------------------------------------------------------------------------
(* The wait of ring_buffer_wait.                                           *)

(* A reader that is on the queue and has asked for a wake-up.              *)
Watching(r) == r \in queued /\ pc[r] \in {"recheck", "sleep"}

(* The buffers that such a reader has found empty.                         *)
Passed(r) == {c \in Cpus : pc[r] = "sleep" \/ c < cpu[r]}

(* Its request is known to writers, or somebody is about to wake it.       *)
Asked ==
  \A r \in Readers : Watching(r) => pending \/ irq \/ \E c \in Cpus : waking[c] = "clear"

(* An entry in a buffer that it has passed brings a wake-up with it.       *)
Answered ==
  \A r \in Readers : Watching(r) /\ (\E c \in Passed(r) : buf[c] # <<>>) => WakeUpComing

(* A writer is through with rb_wakeups before it reserves again.           *)
OneAtATime == \A c \in Cpus : pend[c] # NoEntry => waking[c] = "no"

Wakes == Asked /\ Answered /\ OneAtATime

(* Steps that neither consume a wake-up nor add an entry nor move a reader *)
(* that is watching.                                                       *)
LEMMA QuietWakes ==
  ASSUME Wakes, UNCHANGED <<waking, irq>>, pending => pending',
         \A r \in Readers : Watching(r)' => Watching(r) /\ pc'[r] = pc[r] /\ cpu'[r] = cpu[r],
         \A c \in Cpus : buf'[c] # <<>> => buf[c] # <<>>,
         OneAtATime'
  PROVE  Wakes'
<1>1. Asked'
  BY DEF Wakes, Asked
<1>2. WakeUpComing => WakeUpComing'
  BY DEF WakeUpComing
<1>3. ASSUME NEW r \in Readers, Watching(r)', NEW c \in Passed(r)', buf'[c] # <<>>
      PROVE  WakeUpComing'
  <2>1. Watching(r) /\ c \in Passed(r) /\ buf[c] # <<>>
    BY <1>3 DEF Passed
  <2> QED BY <1>2, <2>1 DEF Wakes, Answered
<1> QED BY <1>1, <1>3 DEF Wakes, Answered

LEMMA WritersWake ==
  ASSUME Safe, Wakes,
         NEW c \in Cpus, LogCommit(c) \/ LogWake(c)
  PROVE  Wakes'
<1>0. pend \in [Cpus -> Entry] /\ waking \in [Cpus -> {"no", "test", "clear"}]
  BY DEF Safe, TypeOK
<1>1. CASE LogCommit(c)
  <2>1. /\ pend[c] # NoEntry /\ pend' = [pend EXCEPT ![c] = NoEntry]
        /\ waking' = [waking EXCEPT ![c] = "test"]
        /\ UNCHANGED <<queued, pending, irq, pc, cpu>>
    BY <1>1 DEF LogCommit
  <2>2. waking[c] = "no"
    BY <2>1 DEF Wakes, OneAtATime
  <2>3. Asked'
    BY <1>0, <2>1, <2>2 DEF Wakes, Asked, Watching
  <2>4. Answered'
    <3> SUFFICES ASSUME NEW r \in Readers, Watching(r)' PROVE WakeUpComing'
      BY DEF Answered
    <3>1. pending \/ irq \/ \E d \in Cpus : waking[d] = "clear"
      BY <2>1 DEF Wakes, Asked, Watching
    <3>2. waking'[c] = "test" /\ \A d \in Cpus : waking[d] = "clear" => waking'[d] = "clear"
      BY <1>0, <2>1, <2>2
    <3> QED BY <2>1, <3>1, <3>2 DEF WakeUpComing
  <2>5. OneAtATime'
    BY <1>0, <2>1 DEF Wakes, OneAtATime
  <2> QED BY <2>3, <2>4, <2>5 DEF Wakes
<1>2. CASE LogWakeTest(c)
  <2>1. UNCHANGED <<buf, pend, queued, pending, irq, pc, cpu>> /\ waking[c] = "test"
    BY <1>2 DEF LogWakeTest
  <2>2. \/ pending /\ waking' = [waking EXCEPT ![c] = "clear"]
        \/ ~pending /\ waking' = [waking EXCEPT ![c] = "no"]
    BY <1>2 DEF LogWakeTest
  <2>3. \A d \in Cpus : waking[d] = "clear" => waking'[d] = "clear"
    BY <1>0, <2>1, <2>2
  <2>4. WakeUpComing => WakeUpComing'
    BY <1>0, <2>1, <2>2, <2>3 DEF WakeUpComing
  <2>5. Asked'
    BY <2>1, <2>3 DEF Wakes, Asked, Watching
  <2>6. Answered'
    BY <2>1, <2>4 DEF Wakes, Answered, Watching, Passed
  <2>7. OneAtATime'
    BY <1>0, <2>1, <2>2 DEF Wakes, OneAtATime
  <2> QED BY <2>5, <2>6, <2>7 DEF Wakes
<1>3. CASE LogWakeClear(c)
  <2>1. irq' = TRUE /\ pend' = pend /\ waking' = [waking EXCEPT ![c] = "no"]
    BY <1>3 DEF LogWakeClear
  <2>2. OneAtATime'
    BY <1>0, <2>1 DEF Wakes, OneAtATime
  <2> QED BY <2>1, <2>2 DEF Wakes, Asked, Answered, WakeUpComing
<1> QED BY <1>1, <1>2, <1>3 DEF LogWake

(* The second look at the buffers: what it passes was empty when passed.   *)
LEMMA RecheckWakes ==
  ASSUME Safe, Wakes, NEW r \in Readers, ReadRecheck(r)
  PROVE  Wakes'
<1>0. pc \in [Readers -> Place] /\ cpu \in [Readers -> Cpus] /\ pc[r] = "recheck"
  BY DEF Safe, TypeOK, ReadRecheck
<1>1. UNCHANGED <<buf, pend, waking, pending, irq>>
  BY DEF ReadRecheck, writeVars
<1>2. OneAtATime' /\ Asked'
  <2>1. OneAtATime'
    BY <1>1 DEF Wakes, OneAtATime
  <2>2. \A q \in Readers : Watching(q)' => Watching(q)
    BY <1>0 DEF ReadRecheck, Watching, Goto, GotoScan, Return
  <2> QED BY <1>1, <2>1, <2>2 DEF Wakes, Asked
<1>3. CASE r \notin queued'
  <2>1. ASSUME NEW q \in Readers, Watching(q)'
        PROVE  Watching(q) /\ pc'[q] = pc[q] /\ cpu'[q] = cpu[q]
    <3>1. q # r
      BY <1>3, <2>1 DEF Watching
    <3> QED BY <1>0, <2>1, <3>1
            DEF ReadRecheck, Watching, Goto, GotoScan, Return, NextCpu
  <2> QED BY <1>1, <1>2, <2>1, QuietWakes
<1>4. CASE /\ queued' = queued /\ buf[cpu[r]] = <<>>
           /\ \A c \in Passed(r)' : c \in Passed(r) \/ c = cpu[r]
           /\ \A q \in Readers \ {r} : pc'[q] = pc[q] /\ cpu'[q] = cpu[q]
  <2> SUFFICES ASSUME NEW q \in Readers, Watching(q)', NEW c \in Passed(q)', buf'[c] # <<>>
               PROVE  WakeUpComing'
    BY <1>2 DEF Wakes, Answered
  <2>1. Watching(q)
    BY <1>0, <1>4 DEF Watching
  <2>2. c \in Passed(q) /\ buf[c] # <<>>
    BY <1>1, <1>4 DEF Passed
  <2>3. WakeUpComing
    BY <2>1, <2>2 DEF Wakes, Answered
  <2> QED BY <1>1, <2>3 DEF WakeUpComing
<1>5. CASE NextCpu(r) /\ UNCHANGED <<pc, queued>>
  <2>1. buf[cpu[r]] = <<>> /\ cpu' = [cpu EXCEPT ![r] = cpu[r] + 1] /\ cpu[r] \in 0..(NCpus - 1)
    BY <1>0, <1>5 DEF NextCpu, Cpus
  <2>2. \A c \in Cpus : c < cpu[r] + 1 => c < cpu[r] \/ c = cpu[r]
    BY <2>1, LoggerAssumption DEF Cpus
  <2>3. cpu'[r] = cpu[r] + 1 /\ pc'[r] # "sleep"
    BY <1>0, <1>5, <2>1
  <2>4. \A c \in Passed(r)' : c \in Passed(r) \/ c = cpu[r]
    BY <2>2, <2>3 DEF Passed
  <2> QED BY <1>0, <1>4, <1>5, <2>1, <2>4
<1>6. CASE SeesNone(r) /\ Goto(r, "sleep") /\ UNCHANGED <<cpu, queued>>
  <2>1. buf[cpu[r]] = <<>> /\ cpu[r] = NCpus - 1 /\ pc' = [pc EXCEPT ![r] = "sleep"]
    BY <1>6 DEF SeesNone, Goto
  <2>2. \A c \in Cpus : c < cpu[r] \/ c = cpu[r]
    BY <2>1, LoggerAssumption DEF Cpus
  <2>3. \A c \in Passed(r)' : c \in Passed(r) \/ c = cpu[r]
    BY <2>2 DEF Passed
  <2> QED BY <1>0, <1>4, <1>6, <2>1, <2>3
<1> QED BY <1>3, <1>5, <1>6 DEF ReadRecheck

LEMMA StepWakes == Safe /\ Wakes /\ [Next]_vars => Wakes'
<1> SUFFICES ASSUME Safe, Wakes, [Next]_vars PROVE Wakes'
  OBVIOUS
<1>0. /\ pc \in [Readers -> Place] /\ cpu \in [Readers -> Cpus]
      /\ waking \in [Cpus -> {"no", "test", "clear"}] /\ pend \in [Cpus -> Entry]
  BY DEF Safe, TypeOK
<1>1. CASE UNCHANGED vars
  BY <1>1, QuietWakes DEF vars, writeVars, waitVars, Watching, Wakes, OneAtATime
<1>2. ASSUME NEW c \in Cpus, NEW total \in Lens, LogReserve(c, total) PROVE Wakes'
  <2>1. /\ waking[c] = "no" /\ MakeRoom(c)
        /\ UNCHANGED <<waking, queued, pending, irq, pc, cpu>>
        /\ \A d \in Cpus \ {c} : pend'[d] = pend[d]
    BY <1>0, <1>2 DEF LogReserve, waitVars
  <2>2. \A d \in Cpus : buf'[d] # <<>> => buf[d] # <<>>
    <3>1. CASE UNCHANGED buf
      BY <3>1
    <3>2. CASE ~(Len(buf[c]) < Cap)
      <4>1. buf[c] # <<>>
        BY <3>2, LoggerAssumption
      <4>2. \A d \in Cpus \ {c} : buf'[d] = buf[d]
        BY <2>1, <3>2 DEF MakeRoom, Safe, TypeOK
      <4> QED BY <4>1, <4>2
    <3> QED BY <2>1, <3>1, <3>2 DEF MakeRoom
  <2>3. OneAtATime'
    BY <2>1 DEF Wakes, OneAtATime
  <2> QED BY <2>1, <2>2, <2>3, QuietWakes DEF Watching
<1>3. ASSUME NEW c \in Cpus, NEW total \in Lens, LogRefused(c, total) PROVE Wakes'
  BY <1>3, QuietWakes DEF LogRefused, waitVars, Watching, Wakes, OneAtATime
<1>4. CASE WakeUpWaiters
  <2>1. queued' = {} /\ UNCHANGED <<pend, waking>>
    BY <1>4 DEF WakeUpWaiters, writeVars
  <2> QED BY <2>1 DEF Wakes, Asked, Answered, OneAtATime, Watching
(* A reader that is not watching afterwards, and asks for nothing less.    *)
<1>5. ASSUME NEW r \in Readers, NEW l \in Place,
             pc' = [pc EXCEPT ![r] = l],
             l \notin {"recheck", "sleep"} \/ (l = pc[r] /\ cpu'[r] = cpu[r]),
             \A q \in Readers \ {r} : cpu'[q] = cpu[q] /\ (q \in queued' => q \in queued),
             r \in queued' => r \in queued \/ l \notin {"recheck", "sleep"},
             UNCHANGED <<pend, waking, irq>>, pending => pending',
             \A c \in Cpus : buf'[c] # <<>> => buf[c] # <<>>
      PROVE  Wakes'
  <2>1. ASSUME NEW q \in Readers, Watching(q)'
        PROVE  Watching(q) /\ pc'[q] = pc[q] /\ cpu'[q] = cpu[q]
    BY <1>0, <1>5, <2>1 DEF Watching
  <2>2. OneAtATime'
    BY <1>5 DEF Wakes, OneAtATime
  <2> QED BY <1>5, <2>1, <2>2, QuietWakes
<1>6. ASSUME NEW r \in Readers, NEW size \in Counts, Read(r, size) PROVE Wakes'
  BY <1>0, <1>5, <1>6 DEF Read, GotoScan, Goto, writeVars, waitVars, Place
<1>7. ASSUME NEW r \in Readers, ReadCheck(r) PROVE Wakes'
  <2>1. pc = [pc EXCEPT ![r] = "check"]
    BY <1>0, <1>7 DEF ReadCheck
  <2>2. \E l \in Place \ {"recheck", "sleep"} : pc' = [pc EXCEPT ![r] = l]
    BY <1>7, <2>1 DEF ReadCheck, Return, Goto, Place
  <2>3. \A q \in Readers \ {r} : cpu'[q] = cpu[q]
    BY <1>0, <1>7 DEF ReadCheck, NextCpu
  <2> QED BY <1>5, <1>7, <2>2, <2>3 DEF ReadCheck, writeVars, waitVars
<1>8. ASSUME NEW r \in Readers, ReadPrepare(r) PROVE Wakes'
  BY <1>0, <1>5, <1>8 DEF ReadPrepare, Goto, writeVars, Place
<1>9. ASSUME NEW r \in Readers, ReadFlag(r) PROVE Wakes'
  <2>1. /\ pending' = TRUE /\ pc' = [pc EXCEPT ![r] = "recheck"] /\ cpu' = [cpu EXCEPT ![r] = 0]
        /\ UNCHANGED <<buf, pend, waking, queued, irq>>
    BY <1>9 DEF ReadFlag, GotoScan, Goto, writeVars
  <2>2. OneAtATime' /\ Asked'
    BY <2>1 DEF Wakes, OneAtATime, Asked
  <2>3. ASSUME NEW q \in Readers, Watching(q)', NEW c \in Passed(q)', buf'[c] # <<>>
        PROVE  WakeUpComing'
    <3>1. q # r
      <4>1. CASE q = r
        <5>1. c \in Cpus /\ c < 0
          BY <1>0, <2>1, <2>3, <4>1 DEF Passed
        <5> QED BY <5>1, LoggerAssumption DEF Cpus
      <4> QED BY <4>1
    <3>2. Watching(q) /\ c \in Passed(q) /\ buf[c] # <<>>
      BY <1>0, <2>1, <2>3, <3>1 DEF Watching, Passed
    <3>3. WakeUpComing
      BY <3>2 DEF Wakes, Answered
    <3> QED BY <2>1, <3>3 DEF WakeUpComing
  <2> QED BY <2>2, <2>3 DEF Wakes, Answered
<1>10. ASSUME NEW r \in Readers, ReadAwake(r) PROVE Wakes'
  BY <1>0, <1>5, <1>10 DEF ReadAwake, Goto, writeVars, waitVars, Place
<1>11. ASSUME NEW r \in Readers, ReadSignal(r) PROVE Wakes'
  BY <1>0, <1>5, <1>11 DEF ReadSignal, Return, Goto, writeVars, Place
<1>12. ASSUME NEW r \in Readers, ReadLock(r) PROVE Wakes'
  BY <1>0, <1>5, <1>12 DEF ReadLock, GotoScan, Goto, writeVars, waitVars, Place
<1>13. ASSUME NEW r \in Readers, ReadFind(r) PROVE Wakes'
  <2>1. pc = [pc EXCEPT ![r] = "find"]
    BY <1>0, <1>13 DEF ReadFind
  <2>2. \E l \in Place \ {"recheck", "sleep"} : pc' = [pc EXCEPT ![r] = l]
    BY <1>13, <2>1 DEF ReadFind, GotoScan, Goto, Place
  <2>3. \A q \in Readers \ {r} : cpu'[q] = cpu[q]
    BY <1>0, <1>13 DEF ReadFind, NextCpu, GotoScan
  <2> QED BY <1>5, <1>13, <2>2, <2>3 DEF ReadFind, writeVars, waitVars
<1>14. ASSUME NEW r \in Readers, ReadConsume(r) PROVE Wakes'
  <2>1. \E l \in Place \ {"recheck", "sleep"} : pc' = [pc EXCEPT ![r] = l]
    BY <1>14 DEF ReadConsume, Return, Goto, Place
  <2>2. \A c \in Cpus : buf'[c] # <<>> => buf[c] # <<>>
    BY <1>14 DEF ReadConsume, Safe, TypeOK
  <2> QED BY <1>5, <1>14, <2>1, <2>2 DEF ReadConsume, writeVars, waitVars
<1>15. ASSUME NEW r \in Readers, ReadCopy(r) PROVE Wakes'
  BY <1>0, <1>5, <1>15 DEF ReadCopy, Return, Goto, writeVars, waitVars, Place
<1> QED BY <1>1, <1>2, <1>3, <1>4, <1>6, <1>7, <1>8, <1>9, <1>10, <1>11, <1>12, <1>13,
           <1>14, <1>15, WritersWake, RecheckWakes
        DEF Next, ReadStep

(***************************************************************************)
(* For any readers and writers, a reader that sleeps in ring_buffer_wait   *)
(* while the log holds an entry is about to be woken: asking for the       *)
(* wake-up before looking at the buffers again loses none, although a      *)
(* writer that clears the request may clear that of another reader.        *)
(***************************************************************************)
THEOREM NoWakeUpIsLost == Spec => []NoLostWakeup
<1>1. Init => Wakes
  BY DEF Init, Wakes, Asked, Answered, OneAtATime, Watching
<1>2. Wakes => NoLostWakeup
  BY DEF Wakes, Answered, Watching, Passed, NoLostWakeup, Empty
<1> QED BY <1>1, <1>2, InitSafe, StepSafe, StepWakes, PTL DEF Spec
=============================================================================
