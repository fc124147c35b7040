# Models and proofs of Amazon's drivers in the Fire tablet kernel

The repository is the open-source release of a Fire tablet: a Linux 5.4 kernel
for the MediaTek mt8169 with Amazon's own drivers, and archives of third-party
packages. Nearly all of its 40 000 files are the mainline kernel, MediaTek's
drivers and vendored packages. This project models the code that is Amazon's
own logic: drivers that keep state across reboots, share it between contexts,
or move data between processors. Paths below are relative to
`src/platform/kernel/mediatek/mt8169/5.4/` unless they start with `src/`.

## 1. Inventory

| Component | Source | State | Operations |
|---|---|---|---|
| Sign of life | `drivers/staging/amazon/amzn_sign_of_life_v3.c`, `amzn_sign_of_life_rtc_impl.c`, `amzn_sign_of_life_platform.h` | four 3-bit reasons and a parity bit in the RTC registers SPAR0 and AL_DOW; the reason shown in `/proc/life_cycle_reason` | `dev_sol_init` (lookup, reset), `life_cycle_set_{boot,shutdown,thermal_shutdown,special_mode}`, the reboot notifier |
| RTC, reboot mode | `drivers/rtc/rtc-mt6397.c`, `drivers/power/reset/reboot-mode.c` | other bits of the same registers (quiescent, long press) | locked register accesses, `mtk_rtc_mark_sw_lprst`, `reboot_mode_register`, `reboot_mode_notify` |
| ADF ring buffer | `drivers/staging/amazon/dspframework/src/ringbuf.c`, `include/ringbuf.h` | read and write pointer, drop unit, bytes | init, read, flush, reserve, write, add, apply, reset |
| ADF log | `dspframework/src/{log,adf_debug}.c` | the application processor's copy of the DSP's log, the mark of the last clear | dump, query, clear, print |
| ADF firmware loader and its callers | `dspframework/src/{load,adf_debug}.c`, parts of `sound/soc/codecs/dbmdx/dbmdx.c` | section table and section buffers of one firmware, three mutexes, `device_ready`, `wd_reset`, `active_fw` | load, reload, clean-up after a failed load; recovery after a failed detection; reset, shutdown and reboot files; metrics query; debugfs files |
| ADF command line, state word | `dspframework/src/{cli,state}.c` | a command queue in a ring buffer, a state word | `adfCli_send`, state accesses |
| Metrics logger | `drivers/misc/amazon_logger.c`, `drivers/misc/metricslog.c` | a trace ring buffer per log and CPU, a mutex, the list of logs, a table of operations | `logger_kernel_write`, `amazon_logger_read`, open, `create_log`, module init and exit, formatting of vitals |
| Key combination | `drivers/staging/amazon/amzn_keycombo.c` | device-tree parameters, timers | probe, long-press and combination handlers |
| Memory dump | `drivers/misc/mdump.c` | dump state across a warm reset | probe, read, reset |
| Boot self-test | `drivers/misc/dsts/dstsblt.c` | test results | probe, proc files |
| Virtual sensors and coolers | `drivers/thermal/virtual_sensor_tablet/` | trip state, cooling levels | governor, bcct and backlight coolers, shutdown cooler |
| Liquid detection | `drivers/usb/typec/amzn_ld/amzn_ld.c` | the reported state of the port, a debounce count, the role and current limit of the port, the pointer `g_liquid` | `liquid_routine_work`, `liquid_vbus_detect`, the charger's notifier, probe, shutdown, thresholds in sysfs |
| acenna, idme, wireless power | `drivers/misc/amazon/`, `drivers/misc/idme.c`, `drivers/power/supply/` | hardware buffers, read-only tables | plumbing |

How they interact:

* Thermal coolers, the battery driver, the key combination driver and the
  reboot notifier chain call the sign-of-life driver, from different threads
  and without a common lock. `rtc_write_life_cycle_reason` locks and unlocks
  the RTC mutex eight times, so two calls, a call and the boot-time reset, or a
  call and the reboot-mode driver, which owns other bits of the same register,
  interleave. Only the RTC survives a power-down, and a power-down may come
  between any two register accesses.
* Drivers on every CPU write entries to the metrics and vitals logs; user
  processes read them, one entry per `read()`. Writers never block: a full
  per-CPU buffer loses its oldest unread page. Readers are serialised by
  `logger->mutex` only after they have seen the log not empty; one that finds it
  empty sleeps on the wait queue of the ring buffer, whose flag and irq_work are
  shared with the writers without a lock.
* The DSP writes its log in shared memory as a ring buffer; the application
  processor keeps the command line to the DSP in another one. The ring buffer
  has no lock: its users serialise the calls.
* The codec driver loads the firmware under `metrisUploadLock` and `p_lock` and
  calls the ADF loader, which takes `adfDspLock`. The debugfs files and the
  metrics query go the other way: they hold `adfDspLock` and take `p_lock` for
  each transfer. A failed detection makes a work item reload the firmware,
  after it has printed the log that the crashed DSP left.
* The two work items of the liquid detection read, compare and write one switch
  without a lock, on a workqueue that runs them side by side; the charger's
  notifier queues one of them at any time between probe and the end, and after:
  its notifier block is never unregistered and lies in the structure that
  shutdown frees.

What is hard here, and what the properties aim at (every instance, with its
line, is under `hazards` in `PROJECT.json`): interleavings of unlocked
read-modify-writes, stale register copies, power loss between the write of a
reason and of its parity, readers racing for the last entry against writers
that overwrite it, buffers at their limit, lengths that become negative,
copies that wrap, copies that are torn or that fail unnoticed, wake-ups that
could be lost, mutexes taken in both orders, reports made from a state that has changed since, memory that is
freed while a notifier still finds it.

What makes each component correct:

* sign of life: no reason is made up or misattributed, none is lost when
  calls do not overlap and no register access fails, a torn record is
  recognised;
* ring buffer: pointers stay in the buffer, what is read is the stream that
  was written without holes, full and empty are told apart;
* logger: no empty answer, entries in order and once, whole entries, no reader
  left asleep beside an entry;
* ADF log: what is shown is the newest part of the log or the part since the
  clear; loader: every pointer kept is to a buffer that is allocated and owned
  once, whatever step fails, and everybody who waits for a mutex comes back;
* liquid detection: the report, the protection of the port, VBUS and the
  debouncing agree; a wet or dry port is reported in the end; no freed memory.

## 2. Plan

Order of the modules, the most important behaviour first:

1. `SolReasons`, `SignOfLife`, abstract `LifeCycleRecord`, proofs: done.
2. `AdfRingbuf`, abstract `ByteFifo`, proofs: done.
3. `AmazonLogger`, proofs: done for writing and reading.
4. `LiquidDetection`, proofs: done.
5. `AdfLoad`: the loader with all who share its mutexes, proofs: done.
6. `AdfLog`: the copies of the DSP's log, proofs: done.
7. Life cycle of the logger module: `create_log`, init with one log failing,
   exit, open and the published operations table.
8. Thermal governor and shutdown cooler, key combination, memory dump, boot
   self-test.

Every safety property that a passing run checks has a theorem (section 5), the
two refinements included. What is left to prove comes with items 7 and 8.

## 3. Modules and code

### SolReasons, SignOfLife, LifeCycleRecord

`SolReasons` holds the tables that translate reasons to codes and back
(`search_rtc_by_lcr`, `search_lcr_by_rtc`), the parity of a code, and
`SelectReason`, the order in which `life_cycle_reason_idx` looks at the four
kinds. Strings of messages are left out.

`SignOfLife` has one action for each section between `lcr_rtc_lock` and
`lcr_rtc_unlock`. `rtc` is the two registers by field; `RegOf` says which
register a field shares, so a write of a whole register writes all its fields.

| Actions | Code |
|---|---|
| `InitDriver`, `InitNoMemory`, `LookupRead`, `LookupParity`, `LookupCheck`, `KeepForCharger`, `BeginClear`, `ClearReason`, `ClearParity` | `dev_sol_init`, the lookup of the four kinds and the reset |
| `SetReason`, `WriteReadReason`, `WriteReason`, `WriteReadParity`, `WriteComputeParity`, `WriteParity` | the `life_cycle_set_*` functions and `rtc_write_life_cycle_reason` |
| `mtk_rtc_mark_sw_lprst`, `RebootModeRegister`, `RebootModeClear` | the other users of the registers; `rtc_mark_quiescent` is the flag of a silent update |
| `AccessFails` (`LookupFails`, `ClearFails`, `WriterFails`) | a register access that fails: `mtk_rtc_read` returns 0 (`rtc-mt6397.c:209`), `mtk_rtc_write` changes nothing, and no caller looks |
| `RebootNotify`, `RebootModeNotify`, `MachineDown` | the reboot notifier chain, then the machine going down |
| `Crash` | panic, watchdog, battery: at any moment |

`pc`, `kind`, `code`, `tmp`, `i`, `x` are the locals of a call; `bpc`, `bk`,
`bi`, `bx`, `bcode`, `got` those of `dev_sol_init`. They are reset when they
die, which only saves states. `want`, `disturbed` and `torn` are history: what
was last asked for; whether two operations overlapped or an access failed since
the last clean reset; whether a power-down cut an operation.

`LifeCycleRecord` is what the driver promises while its operations do not
overlap and its accesses do not fail: record, commit, report, down.
`ImplementsRecord` says that every step of the driver from and to a state that
is not `disturbed` is one of these or a stutter.

Callers other than the notifier run only after `dev_sol_init`: they are modules
that need this module's symbols. The notifier may run during `dev_sol_init`,
which registers it first. A missing RTC proxy (a NULL pointer in `rtc-mt6397.c`)
is not modelled.

### AdfRingbuf, ByteFifo

`base` is 0 and `limit` is `Size`. `MOVE_PTR`, `CALC_RW_SIZE`, `CALC_WR_SIZE`
are the macros of `ringbuf.h` with their strict and non-strict comparisons;
`DropLen` and `ValidLen` are `_adfRingbuf_checkDrop`. A byte is its number in
the stream since the last reset, modulo `Stamps`, so `data` shows where each
byte of the stream is. `fault` says that a length has become negative; the code
passes it to `memcpy`, and the model stops.

The operations have the code's guards and no others: `adfRingbuf_reserve` does
not know what was flushed, and `adfRingbuf_apply` takes any pointer of the
buffer. History records what goes wrong then: `caught`, that a write has taken
`wp` up to `rp`, so that a full buffer reads as empty; `astray`, that more was
reserved than had been flushed since the last write (`taken`). A reset ends
both. `WholeUnits`: the code takes a remainder by `dropunit` without asking
whether it is 0; the arm64 division gives 0 and so the remainder is the dividend.

`ByteFifo` is a strict queue: without drops it takes a write whole or leaves the
free word, and loses nothing it took; with drops a write that does not fit
leaves the newest bytes, at most a unit short of the buffer, never none.
`ImplementsFifo` maps what a reader can read to it, for every step between
states that are neither `caught` nor `astray`. `RingAssumption` has, besides the
checks of `adfRingbuf_init`, one condition that the code leaves to its callers:
a buffer that drops gets no write as long as the buffer and no drop longer than
it, since such a copy would run past `limit`.

### AmazonLogger

One log. `buf` and `pend` are the trace ring buffer of each CPU: committed
entries and the reservation in progress; preemption is off in between. The page
structure is abstracted to what a full buffer does: it loses some block of
entries, never the ones on the reader's page and never all (`MakeRoom`). The
reads look at the CPUs one by one, as `ring_buffer_empty` and
`ring_buffer_find_cpu` do, while writers go on.

| Actions | Code |
|---|---|
| `LogReserve`, `LogRefused`, `LogCommit` | `logger_kernel_write` |
| `LogWakeTest`, `LogWakeClear`, `WakeUpWaiters` | `rb_wakeups` after a commit, and the irq_work `rb_wake_up_waiters` |
| `Read`, `ReadCheck` | `amazon_logger_read` up to the wait; `O_NONBLOCK` may be set or not |
| `ReadPrepare`, `ReadFlag`, `ReadRecheck`, `ReadAwake`, `ReadSignal` | `ring_buffer_wait`: join the queue, set `waiters_pending`, look at the buffers again, sleep, wake or be interrupted |
| `ReadLock`, `ReadFind`, `ReadConsume`, `ReadCopy` | the rest, under the mutex |

An entry is its number in the order of reservations and its length; `CopyLen`
models the padding to four bytes that `amazon_logger_read` takes off. Memory is
sequentially consistent: `set_current_state` and `irq_work_queue` have the
barriers that the wait protocol needs. A write
that an interrupt makes inside another write on the same CPU is left out, and
so is the ring buffer's own count of lost events, which the logger does not
read.

### LiquidDetection

`rpc` and `vpc` are the places of the two work items, `rstate`, `revent`,
`vstate`, `vevent` their locals, reset when they die; `life` is how far probe or
shutdown is. `liquid_report_event` is two steps, because it reads the switch,
compares and writes it without a lock. A measurement is a pair of voltages that
the code compares with its thresholds; a port that is "noisy" gives values on
both sides, an ADC that fails (-22) included. `PortChanges`, `VbusChanges` and
`SystemRunning` are the surroundings. `ThresholdStore` is a write of a threshold
file: any value will do, so it makes the measurements open again.

| Actions | Code |
|---|---|
| `RoutineStart`, `RoutineStep1`, `RoutineAgain`, `RoutineStep2`, `RoutineRequeue` | `liquid_routine_work`; `NothingFound` and `LiquidFound` are `debounce_report_event` |
| `WetProtect`, `WetVbus`, `WetGet`, `WetSet` | `liquid_is_wet` |
| `DryGet`, `DrySet`, `DryRelease` | `liquid_is_dry` |
| `VbusStart`, `VbusCheck`, `VbusGet`, `VbusSet` | `liquid_vbus_detect` |
| `NotifyEnter`, `NotifyQueue` | `liquid_dev_event`, `liquid_vbus_changed` |
| `ProbeRegister`, `ProbeFail`, `ProbePublish`, `ProbeQueue` | `liquid_probe` |
| `Shutdown`, `CancelRoutine`, `CancelVbus`, `FlushVbus`, `ShutdownFree`, `ShutdownClear` | `liquid_shutdown` |

`streak`, `stale`, `excuse`, `late` and `bad` are history; each property that
has an exception says in words which interleaving the history variable records.
A notification after the structure has been freed walks freed memory, whatever
`g_liquid` is, since the chain still holds `chg1_nb`: `NotifyEnter` is `bad` then.
After unusable memory has been touched the model stops.

### AdfLoad

Four kinds of threads: the loaders `Boots` (the thread that probe starts,
writers of the `reboot` and `reset` files) and `Irq` (the work that handles
detections and recovers), the `Metrics` work, and users of `Debugfs` files.
`active_fw` and `active_fw_va_chip` are the fields that the recovery looks at;
`recovering` is the loaders that load inside `dbmdx_perform_recovery`, which
loads nothing when `active_fw` is PRE_BOOT and sets `device_ready` all the same.
`mul`, `p_lock` and
`adfDspLock` are the holders of the mutexes. `adfLoad_init` goes through the
section table one section at a time and may fail at each; `heap` is what is
allocated, `ptr` the pointers `staData`, `cliData`, `logData`, and `dspHeader`
the kept table. A user is the list of the transfers it makes (`readLog`,
`writeCli`, `readState`, `writeState`, `query`); a transfer takes `p_lock`
unless it is a read while `wd_reset` is set. A transfer takes and drops `p_lock`
once for each chunk in the code and once in the model: holding nothing but
`adfDspLock` between chunks, it is where it was before the first.

| Actions | Code |
|---|---|
| `Detect`, `DetectLock`, `DetectOk`, `DetectReturns`, `DetectFail` | `dbmdx_uevent_work`, `dbmdx_process_detection_irq` |
| `Recover`, `Resume` | `dbmdx_perform_recovery` before and after its load |
| `Reboot`, `Reset`, `Shutdown`, `ShutdownLock` | `dbmdx_reboot_store` with all its words, `dbmdx_reset_store`, `dbmdx_shutdown` |
| `LoadMul`, `LoadLock`, `LoadPower`, `LoadRelock`, `RequestFails`, `Request`, `Attempt`, `Configure`, `Retry`, `LeaveLoad` | `dbmdx_request_and_load_fw_va_ve_mode`, `dbmdx_set_power_mode` (which drops `p_lock` to wait for a chip that is falling asleep), `dbmdx_switch_to_va_ve_firmware`, `dbmdx_va_ve_firmware_ready` |
| `PrintLog`, `PrintDone` | `adfDebug_printLog` after a crash |
| `LoadBegin`, `SectionBin`, `SectionAlloc`, `SectionReuse`, `LoadEnd`, `LoadError` | `adfLoad_init` |
| `MetricsStart`, `MetricsMul`, `DebugfsStart`, `UserLock`, `Transfer`, `TransferLock`, `TransferEnd`, `UserReturn` | `dbmdx_do_metrics_upload_work`, the debugfs handlers, `dbmdx_debug_read`, `dbmdx_debug_write` |

One core is modelled, the one with the ADF firmware: the image of a second chip
that the same attempt may load does not go through `adfLoad_init`, and its
failures are among those of `Attempt` and `Configure`. That an image has each
reserved section exactly once is an assumption on the image
(`AdfLoadAssumption`): `adfLoad_init` does not check it.

The build is the one of this tree, with `CONFIG_AMAZON_DSP_FRAMEWORK`;
`adfDebug_blockDbg`, called under `CONFIG_AMZN_DSP_FRAMEWORK`, is not defined in
the repository.

### AdfLog

`log` is everything the DSP has logged since the firmware started, `left` what
the ring held then (`ringbuf.c:318` does not clear it), and `Ring` what is in it
now.
An operation copies the write pointer and the bytes below `Split` first, and the
rest in a second step, with anything logged in between; the rest may also fail
to arrive, which `dbmdx_debug_read` reports as a success: then the buffer has
zeros there, or, for a clear, anything at all (`Stale`). `reCalcHeader`,
`TextFrom` and `MagicAt` are the functions of `log.c` on that copy. `Dump`,
`Query`, `Clear` and `PrintAll` are the operations, `shown` what the last one
showed and how its copy came about; `n`, `cleared` and `spoilt` are history. The
mark of a clear is the write pointer's distance from the ring's header in 16
bits (`LowHalf`), so in a ring of 64 KB or more it may be wrong: the properties
that need it say `MarksFit`. `OwnLog`: the ring started with zeros or has been
filled since.
`adfDspLock` excludes other operations meanwhile, so there is one at a time.

## 4. Runs

| Run | Checks | Shows |
|---|---|---|
| `sol_core` | `TypeOK`, `NoInventedReason`, `SerialRecordExact`, `SerialParityRight`, `ReportExact`, `ReportAsked`, `ImplementsRecord` | one caller, the notifier, `dev_sol_init`, crashes and failing accesses in every interleaving |
| `sol_lost` | `NoLostReason`, violated | two overlapping calls: one reason is lost though both return 0 |
| `ring_drop` | `TypeOK`, `ImplementsFifo` | a buffer that drops, all producers, every length |
| `ring_keep` | `NoCatchUp`, `ImplementsFifo` | a buffer that never drops, every length: nothing accepted is lost, up to the write that gets a negative length |
| `ring_full` | `NoCatchUp`, violated | a buffer that drops: a write of just the free space drops nothing, and the full buffer reads as empty |
| `ring_bytes` | `FreeWord`, violated | a buffer that never drops, single bytes: the reserved word is used up and a length becomes negative |
| `log_read` | `TypeOK`, `NoEmptyRead`, `ReadInOrder`, `WholeEntry`, `NoLostWakeup` | two readers, two CPUs, overflowing buffers, refused messages, buffers that are too small, readers that sleep while entries are committed |
| `liquid` | `TypeOK`, `ProtectedWhenWet`, `VbusAgrees`, `UsableMemory`, `Debounced`, `WetReported`, `DryReported`, `ShutdownEnds` | both work items, notifier, probe and shutdown in every order, with calls that fail; steady ports are reported in the end; shutdown ends |
| `adf_load` | `TypeOK`, `HeaderOwned`, `PointersGood`, `MetricsApart`, `LosesUnreached`, `LoadEnds`, `UserEnds` | loads, recoveries, resets and shutdowns that fail anywhere against the metrics query and debugfs |
| `adf_unlocked` | `CrashReadLocked`, violated | after a crash debugfs reads the DSP without `p_lock`, from the moment `wd_reset` is set |
| `adf_leak` | `AllFreed`, violated | a reload that fails early forgets the buffers of the sections behind the failure |
| `adf_log` | `TypeOK`, `ShowsNewest`, `TornDumpExact`, `TornQueryTail`, `FailedShowsStretch` | what dumps, queries and prints show of a ring that the DSP keeps writing and that held something before |

The properties are stated in words above their definitions. The violated ones
quote what a document or a comment of the repository says; the findings in
`PROJECT.json` give the lines.

What the passing runs say of weak points: the exceptions in the properties are
behaviours the code has, and TLC reaches each of them.

* `ImplementsFifo` stops at a write that takes `wp` up to `rp` (`ring_full`) and
  at a reserve of more than was flushed, until the next reset.
* `ProtectedWhenWet` excepts a VBUS work that writes over a newer dry report.
  `Debounced` excepts that report and the first one after it, if `wet_count`
  still holds rounds counted before. `VbusAgrees` excepts a voltage that could
  not be read, a VBUS work between the check and the report of `liquid_is_wet`,
  and one that writes over a newer report.
* `UsableMemory` excepts two periods in which the charger's notifier must keep
  away: in probe, from `g_liquid` to the initialisation of the work items; and
  for ever after the last cancellation of `liquid_shutdown`.
* `PointersGood` excepts the log dump, when a failed load has left no header and
  a detection, or a recovery that loaded nothing, has taken the DSP for ready.
* `LoadEnds` and `UserEnds` except a debugfs user and a load that wait for each
  other's mutex, and a detection that returned with `p_lock` held.
* `ShowsNewest` excepts new bytes that look like the magic and, without a clear,
  a ring that still shows bytes of an earlier firmware.

Observations that no run states, each of a single path of the code:

* After a critical-battery shutdown the power-off notifier records a software
  shutdown, which ranks above the special mode, so `/proc/life_cycle_reason`
  shows the low battery only when power fails before the notifier.
* `amazon_logger.c:675`: a read that fails with EINVAL or EFAULT has already
  consumed its entry (`Documentation/amazon_logger.txt:109`: "only one log entry
  is consumed and returned"). `amazon_logger.c:124`: a message of more than 4052
  bytes is refused by the ring buffer, not cut to the 4076 of line 51.
* `dbmdx.c:8683`: the error path looks at `va_ve_fw` and releases `va_fw`.
* `log.c:162` promises all the remaining log: when the ring has not been filled
  yet and the DSP writes two bytes or more between the header and the rest, the
  byte after the old write pointer is no longer zero, the text is taken to begin
  there, and its first byte, a NUL, ends it.
* `adf_debug.c:597`: the recent mode compares and keeps the write pointer of the
  copy before, so lines are printed twice; nobody calls it.
* `cli.c:54`: two blanks put one in front of the next word, and a last word
  without a separator is dropped.

Bounds and why they are enough:

* Sign of life: the registers are modelled in full (three-bit codes). One
  caller and the notifier are two contexts; with `dev_sol_init` that is every
  pair of operations that share a register. The caller marks a long press and
  records it, so the flag, two codes of the shutdown field and the boot field
  share a register and the parity bit is in the other; that the notifier's codes
  and the caller's have odd parity makes a torn write visible. `sol_lost` adds a
  second caller and a reason of the other register. Crashes, boots and failures
  are unbounded. The view leaves `want` and `torn` out once `disturbed` is set:
  no guard reads them, the properties ignore them then, and the step that ends
  the disturbance sets them.
* Ring buffer: sizes 12 and 16 let both pointers wrap in every relative
  position; `Unit` 3 does not divide the length of a word; lengths are 1 to 9,
  and every length below `Size` for `adfRingbuf_apply`. `ring_bytes` writes
  single bytes, as `adfCli_send` does. `Stamps` exceeds the size, so two bytes
  in the buffer never have the same number.
* Logger: `Cap` 2 makes buffers overflow on the third entry, `MaxWrites` 3
  lets one overflow, or gives both CPUs entries; two readers race, and both may
  sleep. `MaxWrites` is the only bound on behaviours. The view leaves out dead
  locals and return values that no property tells apart. That a read ends is not
  claimed: with writers that go on, a reader can lose every race, and only the
  bound would make the loop finite.
* Liquid detection: the thresholds of `amzn_ld.h`; two rounds to call a port wet
  tell a count that is kept from one that is reset. Nothing bounds behaviours:
  the port, VBUS and the notifier go on for ever. The calls that fail are those
  for the role and for the voltage; a failing current limit takes the same
  place as a failing role and is left to the proofs.
* `AdfLoad`: one image with the four kinds of sections, the one that is copied
  between reserved ones, so that a failure finds sections before and behind it;
  two attempts (the code has five) make a first and a later one; two loads or
  recoveries make a failed one and one after it, or two at a time, from sysfs and
  from the interrupt; one thread of each kind is every pair that shares a mutex.
  The two violations allow three. `Blocks` has three buffers for every attempt
  that these bounds allow, so memory never runs out on its own; `SectionAlloc`
  lets any `kmalloc` fail.
* `AdfLog`: four bytes of ring, of which two come with the write pointer, put
  the byte after `wp` and the two before the mark in either chunk and around the
  wrap; seven bytes fill the ring and go round past a mark; two values let new
  bytes look like the magic. The ring starts empty, full of an earlier log, or
  holding all but one byte of one. A reload begins a new log.

Deadlock is checked in all passing runs but `adf_load`, where the two ways of
stopping named above are real, and `ring_keep`, where a negative length stops the
model as it would stop the kernel.

Fairness. Kernel threads that can run do run. In `LiquidDetection` a queued work
item runs and goes on, the notifier does, and a shutdown that has begun goes on
(weak fairness); neither the port nor VBUS has to change or to rest, so the
liveness properties assume what they need of them. In `AdfLoad` each thread has
strong fairness of its steps, because a kernel mutex is handed to a waiter in the
end. The other modules state no liveness and assume no fairness.

## 5. Proofs

TLAPS proves these for every value of the constants that satisfies the modules'
assumptions.

| Theorem | Statement |
|---|---|
| `SignOfLifeProofs!TypeCorrect` | `Spec => []TypeOK` |
| `SignOfLifeProofs!NothingInvented` | `Spec => []NoInventedReason` |
| `SignOfLifeProofs!SerialOperationsKeepRecord` | `Spec => []SerialRecordExact` |
| `SignOfLifeReportProofs!ReportedWasAsked` | `Spec => []ReportAsked` |
| `SignOfLifeReportProofs!ParityRightWhenIdle` | `Spec => []SerialParityRight` |
| `SignOfLifeReportProofs!ReportIsExact` | `Spec => []ReportExact` |
| `SignOfLifeReportProofs!DriverImplementsRecord` | `Spec => ImplementsRecord` |
| `AdfRingbufProofs!PointersInBuffer` | `Spec => []TypeOK` |
| `AdfRingbufProofs!KeptBytesStayReadable` | `Unit = 0 /\ Spec => []NoCatchUp` |
| `AdfRingbufFifoProofs!RingbufIsFifo` | `Spec => ImplementsFifo` |
| `AmazonLoggerProofs!LoggerTypeCorrect` | `Spec => []TypeOK` |
| `AmazonLoggerProofs!NoReadIsEmpty` | `Spec => []NoEmptyRead` |
| `AmazonLoggerProofs!EntriesComeOutInOrder` | `Spec => []ReadInOrder` |
| `AmazonLoggerProofs!EntriesComeOutWhole` | `Spec => []WholeEntry` |
| `AmazonLoggerProofs!NoWakeUpIsLost` | `Spec => []NoLostWakeup` |
| `LiquidDetectionProofs!LiquidTypeCorrect` | `Spec => []TypeOK` |
| `LiquidDetectionProofs!MemoryUsable` | `Spec => []UsableMemory` |
| `LiquidDetectionProofs!WetPortProtected` | `Spec => []ProtectedWhenWet` |
| `LiquidDetectionProofs!WetReportAgrees` | `Spec => []VbusAgrees` |
| `LiquidDetectionProofs!WetIsDebounced` | `Spec => Debounced` |
| `AdfLoadProofs!LoadTypeCorrect` | `Spec => []TypeOK` |
| `AdfLoadProofs!MetricsAndLoadApart` | `Spec => []MetricsApart` |
| `AdfLoadProofs!HeaderOwnsBuffers` | `Spec => []HeaderOwned` |
| `AdfLoadProofs!PointersAreGood` | `Spec => []PointersGood` |
| `AdfLoadProofs!OnlyUnreachedLost` | `Spec => LosesUnreached` |
| `AdfLogProofs!LogTypeCorrect` | `Spec => []TypeOK` |
| `AdfLogProofs!NewestShown` | `Spec => []ShowsNewest` |
| `AdfLogProofs!TornDumpIsExact` | `Spec => []TornDumpExact` |
| `AdfLogProofs!TornQueryIsTail` | `Spec => []TornQueryTail` |
| `AdfLogProofs!FailureShowsStretch` | `Spec => []FailedShowsStretch` |

* `SolAssumption`: the notifier is not one of the callers, requests name one of
  the four kinds, boot reasons are ones the command line can give.
  `NothingInvented` needs `OnlyAsked`: not only the registers but every stale
  copy (`tmp`) and pending code holds, in each field, a code asked for in that
  kind; a failed read makes an empty copy, which is no exception.
  `SerialOperationsKeepRecord` needs `SerialInv`: unless `disturbed`, at
  most one context is inside an operation (`OneAtATime`, `WhoIsActive`), its
  copy of a register equals the register (`CopiesCurrent`), and a reset has
  cleared the kinds it has passed (`ClearedSoFar`).
  The report adds `ReportInv`: unless `disturbed`, an operation between its two
  writes has the parity of the rounds it has done (`ParitySoFar`), every
  finished operation left a record whose parity is right (`IntactWhenFinished`),
  and the lookup of `dev_sol_init` has read and summed up the record as it still
  is (`LookupCurrent`). These carry one another: the parity is right only if the
  operation before finished, and the lookup rejects nothing only if it is.
  `ReportedWasAsked` holds with overlaps and failures too and needs, on top of
  `OnlyAsked`,
  that what the lookup has read is a code in the record (`LookupAsked`). The
  refinement maps each write of a reason to `Record`, the last write of the
  parity to `Commit`, the end of the lookup to `Report` and a power-down after
  it to `Down`; the rest are stutters.
* `RingAssumption`: the checks of `adfRingbuf_init`, and the lengths of section 3.
  `KeptBytesStayReadable`: without drops a write is cut before it can fill the
  buffer, also when its length turns negative, so nothing that was accepted is
  ever taken for nothing. `RingbufIsFifo` needs `HoldsStream`: unless `caught` or
  `astray`, the bytes that can be taken back and the unread ones together fit
  (`TakenFits`), and going back from `wp` through the buffer, round its end, one
  meets the stream, newest byte first, through the unread bytes and on through
  the flushed ones that `adfRingbuf_reserve` may bring back (`Content`). A copy
  in two pieces is followed by position (`CopyInBack`), a drop by its length
  (`DropLeavesRoom`). There is no assumption on the lengths of a buffer that
  never drops, nor on what is reserved.
* `LoggerAssumption`: at least one CPU, `Cap` above one, no reader is the free
  mutex. `NoReadIsEmpty` needs `Holds` (a reader past `mutex_lock` holds the
  mutex) and `Found` (the buffer found by `ring_buffer_find_cpu` is not empty:
  readers are excluded by the mutex, and `MakeRoom` leaves something).
  `EntriesComeOutInOrder` needs `Ordered`: the entries of a CPU are sorted
  (`Sorted`), what has been returned is older than all that is left (`Older`),
  and what a reader is copying is between the two (`Copying`). That a cut
  leaves the rest in order is `CutKeeps`, via the map `Keeps` from new to old
  positions. `EntriesComeOutWhole` needs of the rest only the types: the event's
  length is the rounded one, and `CopyLen` undoes the rounding. `NoWakeUpIsLost`
  needs `Wakes`: a reader on the queue past its flag has asked (`Asked`: the flag
  is still set, or a writer has taken it and the irq_work is on its way), and an
  entry behind the place its second look has come to has an answer under way
  (`Answered`); one write at a time is in `rb_wakeups` on a CPU (`OneAtATime`).
* `LiquidAssumption`: a positive count threshold and natural thresholds.
  `MemoryUsable` needs `Memory`: a routine work that exists belongs to a
  structure that is set up and not yet freed (`RoutineAlive`), and once
  shutdown has flushed the VBUS work none is queued or running unless `late`
  (`VbusDead`). `WetPortProtected` needs `Protection`: what the routine work and
  the VBUS work are about to report is a wet state (`WetEvents`), the role and
  the limit are those of a sink from `WetProtect` to the report (`Protected`),
  and a port about to be released is reported dry (`Released`).
  `WetIsDebounced` needs `Count`: while `stale` is "no", to which it returns
  with the next wet report of the routine work or as soon as the stale report is
  withdrawn and `wet_count` is back at zero, `wet_count` is at most the number of rounds in a row that found liquid, it is
  zero while the port is wet or being reported, and the rounds have reached the
  threshold wherever a wet report is being made. `WetReportAgrees` needs
  `Agreement`: whatever a work item is about to report, and what is reported,
  agrees with VBUS, or the charger has yet to tell, or a notification or a queued
  VBUS work is on its way, or a VBUS work that has read the report has yet to
  compare it or to write over it. What holds in the quiet states alone is not
  inductive: it is the steps in between that make them right.
* `AdfLoadAssumption`: threads are told apart, and every image has each reserved
  section once. `LoadInv` joins the lock discipline (`LockInv`: who is where
  holds which mutex; `p_lock` in one direction only, because a detection can
  return with it), the section table (`MemoryInv`: `Table` while `adfLoad_init`
  fills it, up to the section it is at, `Whole` at all other times, and the
  buffers owned once), what the user inside has to transfer (`TodoInv`), the
  variables of a load (`LoadVarsInv`) and what `device_ready` and `wd_reset` can
  be relied upon for (`FlagInv`: a dump of the log finds a header, unless `stale`). `MetricsAndLoadApart` follows from the locks
  alone: both need `metrisUploadLock`. `PointersAreGood` needs all of it: a user
  has `adfDspLock`, so no load is inside `adfLoad_init`, so the table is whole.
  `OnlyUnreachedLost` is about steps; of them `LoadError` is the one that can
  lose a buffer, and there `Table` says which ones were reached.
* `AdfLogAssumption`: a ring of at least four bytes, a first chunk of any length
  and no NUL among what the DSP writes; nothing is
  assumed of what the ring held before. `Facts`: the write pointer and the mark
  are the counts modulo `Size` (`Counts`, `Marked`); the first chunk is the ring
  as it was when the write pointer was copied (`FirstChunk`); the magic is the
  two bytes before the clear as long as what came since leaves room for them
  (`MagicKept`). The main lemma is `RingBack`: going back from the place of byte
  `m + 1`, the ring holds byte `m`, `m - 1` and so on, as far as later bytes have
  not come round. With it, `CopyExact` says which bytes of a torn copy are
  still good, `TextIs` and `TextStretch` what the text up to the first NUL is,
  `OldestText` and `MagicFound` that `adfLog_reCalcHeader` finds where it begins.
  No induction over the log is needed: the ring is defined by the last
  position with a given remainder, and two such positions are `Size` apart.

Only model-checked: the liveness properties, because fairness is out of the
prover's reach: `WetReported`, `DryReported`, `ShutdownEnds`, `LoadEnds` and
`UserEnds`; and the five violations, which are counterexamples. The proofs say
nothing of deadlock either, which is `ENABLED`.

## 6. Not modelled

* The components with status `not_modelled` in `PROJECT.json`, with the reason
  for each; those of the plan above come next.
* Entry points built only with `CONFIG_AMAZON_DRV_TEST`, and
  `dev_sol_cleanup`, which dependent modules keep from running.
* Module life cycle and vitals formatting of the logger (plan, item 7); that
  `ring_buffer_find_cpu` always begins at CPU 0, so that a CPU that keeps
  writing hides the others, does not show in a model with bounded writes, and
  nothing in the repository promises otherwise.
* Weak memory: every module is sequentially consistent.
* The image of the second chip, and the callers of `dbmdx_perform_recovery` other
  than a failed detection and the sysfs files.
* Images of different layouts in `adfLoad_init`, whose sizes are not in the
  repository; the unlocked first call of `adfLoad_getDspPriv`; the recent mode
  of `adfDebug_printLog`; the splitting of a command line into words.
* The rest of the codec driver `dbmdx.c`: audio streaming, voice models, the
  other power modes. `DetectOk` and `Configure` stand for it where a load or a detection
  goes through it.
* Third-party code, except for what the modelled drivers use of it: the RTC
  accesses, the reboot path, the trace ring buffer.
