---------------------------- MODULE AmazonLogger ----------------------------
(***************************************************************************)
(* One log (/dev/metrics or /dev/vitals) of the Amazon logger driver:      *)
(* kernel code on every CPU writes entries into a trace ring buffer, which *)
(* overwrites old entries when it is full, and processes read them, one    *)
(* entry per read().  An entry is known by the order of its reservation.   *)
(***************************************************************************)
EXTENDS Integers, Sequences

CONSTANTS
  NCpus,       \* number of possible CPUs
  Readers,     \* open files being read
  Lens,        \* total payload lengths of messages
  Counts,      \* sizes of the buffers given to read()
  Cap,         \* entries that the buffer of a CPU holds
  MaxWrites,   \* bound on the entries written
  Nobody       \* the mutex is free

ASSUME LoggerAssumption ==
  /\ NCpus \in Nat \ {0}
  /\ Lens \subseteq Nat /\ Counts \subseteq Nat
  /\ Cap \in Nat /\ Cap > 1 /\ MaxWrites \in Nat
  /\ Nobody \notin Readers

Cpus == 0..(NCpus - 1)

LOGGER_ENTRY_MAX_PAYLOAD == 4076
HEADER == 20                       \* sizeof(struct logger_entry)
BUF_MAX_DATA_SIZE == 4072          \* the largest event of the ring buffer
EAGAIN == -11
EINTR == -4
EINVAL == -22
EFAULT == -14
ENOMEM == -12

AtMost(a, b) == IF a <= b THEN a ELSE b
NoEntry == [id |-> 0, len |-> 0]

VARIABLES
  buf,         \* per CPU: committed entries that nobody has consumed
  pend,        \* per CPU: the entry reserved and not committed, or NoEntry
  n,           \* entries reserved so far
  wret,        \* return value of the last write that ended
  waking,      \* per CPU: the place of a committed write in rb_wakeups, or "no"
  queued,      \* buffer->irq_work.waiters: the readers to be woken
  pending,     \* buffer->irq_work.waiters_pending
  irq,         \* buffer->irq_work is queued
  mutex,       \* logger->mutex
  pc, count, cpu, event,     \* per reader: the locals of amazon_logger_read
  ret,         \* per reader: return value of its last read()
  out          \* history: what reads have returned, in order
writeVars == <<pend, n, wret>>
waitVars == <<waking, queued, pending, irq>>
vars == <<buf, writeVars, waitVars, mutex, pc, count, cpu, event, ret, out>>

Empty == \A c \in Cpus : buf[c] = <<>>

Init ==
  /\ buf = [c \in Cpus |-> <<>>]
  /\ pend = [c \in Cpus |-> NoEntry]
  /\ n = 0 /\ wret = 0 /\ mutex = Nobody
  /\ waking = [c \in Cpus |-> "no"]
  /\ queued = {} /\ pending = FALSE /\ irq = FALSE
  /\ pc = [r \in Readers |-> "idle"]
  /\ count = [r \in Readers |-> 0]
  /\ cpu = [r \in Readers |-> 0]
  /\ event = [r \in Readers |-> NoEntry]
  /\ ret = [r \in Readers |-> EAGAIN]
  /\ out = <<>>

-----------------------------------------------------------------------------
(* Writers.  Preemption is off from the reservation to the commit, so one  *)
(* writer at a time has a reservation on a CPU.                            *)

HeaderLen(total) == AtMost(total, LOGGER_ENTRY_MAX_PAYLOAD)

(***************************************************************************)
(* A full buffer loses a page of entries.  The entries on the page that    *)
(* the readers have taken, the oldest ones, are not touched, and the       *)
(* buffer has more than one other page, so something is left.              *)
(***************************************************************************)
MakeRoom(c) ==
  IF Len(buf[c]) < Cap THEN UNCHANGED buf
  ELSE \E j \in 0..Len(buf[c]), k \in 1..Len(buf[c]) :
         LET rest == SubSeq(buf[c], 1, j) \o SubSeq(buf[c], k + 1, Len(buf[c]))
         IN  j < k /\ rest # <<>> /\ buf' = [buf EXCEPT ![c] = rest]

(* logger_kernel_write up to the reservation, which fails for an entry     *)
(* that does not fit in a page of the ring buffer.                         *)
LogReserve(c, total) ==
  /\ pend[c] = NoEntry /\ waking[c] = "no" /\ n < MaxWrites
  /\ HEADER + HeaderLen(total) <= BUF_MAX_DATA_SIZE
  /\ n' = n + 1
  /\ MakeRoom(c)
  /\ pend' = [pend EXCEPT ![c] = [id |-> n + 1, len |-> HeaderLen(total)]]
  /\ UNCHANGED <<wret, waitVars, mutex, pc, count, cpu, event, ret, out>>

LogRefused(c, total) ==
  /\ pend[c] = NoEntry /\ waking[c] = "no"
  /\ HEADER + HeaderLen(total) > BUF_MAX_DATA_SIZE
  /\ wret' = ENOMEM
  /\ UNCHANGED <<buf, pend, n, waitVars, mutex, pc, count, cpu, event, ret, out>>

(* The copy of the payload, and ring_buffer_unlock_commit up to rb_commit. *)
LogCommit(c) ==
  /\ pend[c] # NoEntry
  /\ buf' = [buf EXCEPT ![c] = Append(@, pend[c])]
  /\ pend' = [pend EXCEPT ![c] = NoEntry]
  /\ waking' = [waking EXCEPT ![c] = "test"]
  /\ UNCHANGED <<n, wret, queued, pending, irq, mutex, pc, count, cpu, event, ret, out>>

(* rb_wakeups tests waiters_pending, then clears it and queues the work.   *)
LogWakeTest(c) ==
  /\ waking[c] = "test"
  /\ \/ pending /\ waking' = [waking EXCEPT ![c] = "clear"] /\ UNCHANGED wret
     \/ ~pending /\ waking' = [waking EXCEPT ![c] = "no"] /\ wret' = 0
  /\ UNCHANGED <<buf, pend, n, queued, pending, irq, mutex, pc, count, cpu, event, ret, out>>

LogWakeClear(c) ==
  /\ waking[c] = "clear"
  /\ pending' = FALSE /\ irq' = TRUE
  /\ waking' = [waking EXCEPT ![c] = "no"]
  /\ wret' = 0
  /\ UNCHANGED <<buf, pend, n, queued, mutex, pc, count, cpu, event, ret, out>>

(* rb_wake_up_waiters, run as irq_work: every reader on the queue is woken *)
(* and taken off it.                                                       *)
WakeUpWaiters ==
  /\ irq /\ irq' = FALSE
  /\ queued' = {}
  /\ UNCHANGED <<buf, writeVars, waking, pending, mutex, pc, count, cpu, event, ret, out>>

-----------------------------------------------------------------------------
(* amazon_logger_read.                                                     *)

Goto(r, l) == pc' = [pc EXCEPT ![r] = l]
Return(r, v) == Goto(r, "idle") /\ ret' = [ret EXCEPT ![r] = v]
GotoScan(r, l) == Goto(r, l) /\ cpu' = [cpu EXCEPT ![r] = 0]

(* The value of the last read has been used by then.                       *)
Read(r, size) ==
  /\ pc[r] = "idle"
  /\ GotoScan(r, "check")
  /\ count' = [count EXCEPT ![r] = size]
  /\ ret' = [ret EXCEPT ![r] = EAGAIN]
  /\ UNCHANGED <<buf, writeVars, waitVars, mutex, event, out>>

(***************************************************************************)
(* A look at the buffers, one CPU after the other, while writers go on:    *)
(* the loop of ring_buffer_empty and of ring_buffer_find_cpu.              *)
(***************************************************************************)
SeesEntry(r) == buf[cpu[r]] # <<>>
NextCpuPast(r) == buf[cpu[r]] = <<>> /\ cpu[r] < NCpus /\ cpu' = [cpu EXCEPT ![r] = @ + 1]
NextCpu(r) == buf[cpu[r]] = <<>> /\ cpu[r] < NCpus - 1 /\ cpu' = [cpu EXCEPT ![r] = @ + 1]
SeesNone(r) == buf[cpu[r]] = <<>> /\ cpu[r] = NCpus - 1

(* Without an entry the read ends or waits, as O_NONBLOCK of the file is   *)
(* set or not; the flag may change between two looks.                      *)
ReadCheck(r) ==
  /\ pc[r] = "check"
  /\ \/ SeesEntry(r) /\ Goto(r, "lock") /\ UNCHANGED <<cpu, ret>>
     \/ NextCpu(r) /\ UNCHANGED <<pc, ret>>
     \/ SeesNone(r) /\ Return(r, EAGAIN) /\ UNCHANGED cpu
     \/ SeesNone(r) /\ Goto(r, "wait") /\ UNCHANGED <<cpu, ret>>
  /\ UNCHANGED <<buf, writeVars, waitVars, mutex, count, event, out>>

(***************************************************************************)
(* ring_buffer_wait: the reader puts itself on the queue, asks writers for *)
(* a wake-up, looks at the buffers again and only then sleeps until it has *)
(* been taken off the queue.  A signal ends the wait, also right after it. *)
(***************************************************************************)
ReadPrepare(r) ==
  /\ pc[r] = "wait"
  /\ queued' = queued \cup {r}
  /\ Goto(r, "flag")
  /\ UNCHANGED <<buf, writeVars, waking, pending, irq, mutex, count, cpu, event, ret, out>>

ReadFlagSleep(r) ==
  /\ pc[r] = "flag"
  /\ pending' = TRUE
  /\ GotoScan(r, "sleep")
  /\ UNCHANGED <<buf, writeVars, waking, queued, irq, mutex, count, event, ret, out>>
ReadFlag(r) ==
  /\ pc[r] = "flag"
  /\ pending' = TRUE
  /\ GotoScan(r, "recheck")
  /\ UNCHANGED <<buf, writeVars, waking, queued, irq, mutex, count, event, ret, out>>

ReadRecheck(r) ==
  /\ pc[r] = "recheck"
  /\ \/ /\ SeesEntry(r) /\ queued' = queued \ {r}
        /\ \/ GotoScan(r, "check") /\ UNCHANGED ret
           \/ Return(r, EINTR) /\ UNCHANGED cpu
     \/ NextCpu(r) /\ UNCHANGED <<pc, ret, queued>>
     \/ SeesNone(r) /\ Goto(r, "sleep") /\ UNCHANGED <<cpu, ret, queued>>
  /\ UNCHANGED <<buf, writeVars, waking, pending, irq, mutex, count, event, out>>

ReadAwake(r) ==
  /\ pc[r] = "sleep" /\ r \notin queued
  /\ Goto(r, "wait")
  /\ UNCHANGED <<buf, writeVars, waitVars, mutex, count, cpu, event, ret, out>>

ReadSignal(r) ==
  /\ pc[r] \in {"flag", "sleep"}
  /\ queued' = queued \ {r} /\ pending' = TRUE
  /\ Return(r, EINTR)
  /\ UNCHANGED <<buf, writeVars, waking, irq, mutex, count, cpu, event, out>>

ReadLockNone(r) ==
  /\ pc[r] = "lock"
  /\ GotoScan(r, "find")
  /\ UNCHANGED <<buf, writeVars, waitVars, mutex, count, event, ret, out>>
ReadLock(r) ==
  /\ pc[r] = "lock" /\ mutex = Nobody
  /\ mutex' = r
  /\ GotoScan(r, "find")
  /\ UNCHANGED <<buf, writeVars, waitVars, count, event, ret, out>>

(* ring_buffer_find_cpu; if others have read everything, back to the wait. *)
ReadFind(r) ==
  /\ pc[r] = "find"
  /\ \/ SeesEntry(r) /\ Goto(r, "consume") /\ UNCHANGED <<cpu, mutex>>
     \/ NextCpu(r) /\ UNCHANGED <<pc, mutex>>
     \/ SeesNone(r) /\ GotoScan(r, "check") /\ mutex' = Nobody
  /\ UNCHANGED <<buf, writeVars, waitVars, count, event, ret, out>>

(* ring_buffer_consume; without an event the read returns 0.               *)
ReadConsumeUnlock(r) ==
  /\ pc[r] = "consume"
  /\ buf[cpu[r]] # <<>>
  /\ event' = [event EXCEPT ![r] = Head(buf[cpu[r]])]
  /\ buf' = [buf EXCEPT ![cpu[r]] = Tail(@)]
  /\ Goto(r, "copy")
  /\ mutex' = Nobody
  /\ UNCHANGED <<ret, writeVars, waitVars, count, cpu, out>>
ReadConsume(r) ==
  /\ pc[r] = "consume"
  /\ IF buf[cpu[r]] = <<>>
     THEN /\ Return(r, 0)
          /\ mutex' = Nobody
          /\ UNCHANGED <<buf, event>>
     ELSE /\ event' = [event EXCEPT ![r] = Head(buf[cpu[r]])]
          /\ buf' = [buf EXCEPT ![cpu[r]] = Tail(@)]
          /\ Goto(r, "copy")
          /\ UNCHANGED <<mutex, ret>>
  /\ UNCHANGED <<writeVars, waitVars, count, cpu, out>>

(* The ring buffer rounds the length of an event up to four bytes.         *)
EventLength(e) == LET len == HEADER + e.len IN len + ((4 - (len % 4)) % 4)
CopyLenEvent(e) == EventLength(e)
CopyLen(e) == AtMost(EventLength(e), HEADER + e.len)

(* The checks on the buffer of the caller and the copy to user space: the  *)
(* entry is gone whatever they say.                                        *)
ReadCopy(r) ==
  LET e == event[r]
      fail(v) == Return(r, v) /\ UNCHANGED out
  IN /\ pc[r] = "copy"
     /\ \/ count[r] < CopyLen(e) /\ fail(EINVAL)
        \/ count[r] >= CopyLen(e) /\ fail(EFAULT)
        \/ /\ count[r] >= CopyLen(e)
           /\ Return(r, CopyLen(e))
           /\ out' = Append(out, [id |-> e.id, cpu |-> cpu[r], len |-> CopyLen(e), of |-> e.len])
     /\ mutex' = Nobody
     /\ event' = [event EXCEPT ![r] = NoEntry]
     /\ UNCHANGED <<buf, writeVars, waitVars, count, cpu>>

ReadStep(r) ==
  \/ ReadCheck(r) \/ ReadPrepare(r) \/ ReadFlag(r) \/ ReadRecheck(r) \/ ReadAwake(r)
  \/ ReadFind(r) \/ ReadConsume(r) \/ ReadCopy(r)

LogWake(c) == LogWakeTest(c) \/ LogWakeClear(c)

Next ==
  \/ \E c \in Cpus : \/ \E total \in Lens : LogReserve(c, total) \/ LogRefused(c, total)
                     \/ LogCommit(c) \/ LogWake(c)
  \/ WakeUpWaiters
  \/ \E r \in Readers : \/ \E size \in Counts : Read(r, size)
                        \/ ReadSignal(r) \/ ReadLock(r)
                        \/ ReadStep(r)

Spec == Init /\ [][Next]_vars

-----------------------------------------------------------------------------
Entry == [id : Nat, len : Nat]
Answer == [id : Nat, cpu : Cpus, len : Int, of : Nat]
Place == {"idle", "check", "wait", "flag", "recheck", "sleep",
          "lock", "find", "consume", "copy"}
TypeOK ==
  /\ buf \in [Cpus -> Seq(Entry)]
  /\ pend \in [Cpus -> Entry]
  /\ n \in Nat /\ wret \in {0, ENOMEM}
  /\ mutex \in Readers \cup {Nobody}
  /\ waking \in [Cpus -> {"no", "test", "clear"}]
  /\ queued \subseteq Readers /\ pending \in BOOLEAN /\ irq \in BOOLEAN
  /\ pc \in [Readers -> Place]
  /\ count \in [Readers -> Nat]
  /\ cpu \in [Readers -> Cpus]
  /\ event \in [Readers -> Entry]
  /\ ret \in [Readers -> Int]
  /\ out \in Seq(Answer)

(***************************************************************************)
(* A read never returns 0, which a process takes for the end of the log:   *)
(* between ring_buffer_find_cpu and ring_buffer_consume neither another    *)
(* reader nor an overwriting writer empties the buffer that was found.     *)
(***************************************************************************)
NoEmptyRead == \A r \in Readers : ret[r] # 0

(***************************************************************************)
(* What is read from the buffer of a CPU comes out in the order in which   *)
(* it was reserved and no entry twice, whichever readers take it and       *)
(* whatever is overwritten meanwhile.                                      *)
(***************************************************************************)
ReadInOrder ==
  \A i, j \in 1..Len(out) :
    i < j /\ out[i].cpu = out[j].cpu => out[i].id < out[j].id

(* A read that succeeds returns the header and the payload as written,     *)
(* without the padding that the ring buffer adds.                          *)
WholeEntry == \A i \in 1..Len(out) : out[i].len = HEADER + out[i].of

(***************************************************************************)
(* No wake-up is lost: a reader that sleeps although the log is not empty  *)
(* is about to be woken.  The work that wakes it is queued, or a writer    *)
(* that has committed is about to queue it.                                *)
(***************************************************************************)
WakeUpComing ==
  \/ irq
  \/ \E c \in Cpus : waking[c] = "clear" \/ (pending /\ waking[c] = "test")
NoLostWakeup ==
  \A r \in Readers : pc[r] = "sleep" /\ r \in queued /\ ~Empty => WakeUpComing
=============================================================================
