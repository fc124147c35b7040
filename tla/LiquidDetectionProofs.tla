----------------------- MODULE LiquidDetectionProofs ------------------------
(***************************************************************************)
(* Proofs about LiquidDetection for every wet_count_threshold, any ADC     *)
(* thresholds and any set of calls that may fail.                          *)
(***************************************************************************)
EXTENDS LiquidDetection, TLAPS

(* The three kinds of steps, by what they leave alone.                     *)
Outside ==
  \/ \E p \in {"dry", "wet", "noisy"} : PortChanges(p)
  \/ ThresholdStore
  \/ VbusChanges \/ SystemRunning \/ NotifyEnter \/ NotifyQueue
Probing ==
  \/ ProbeRegister \/ ProbeFail \/ ProbePublish \/ ProbeQueue
  \/ Shutdown \/ ShutdownStep

LEMMA Kinds ==
  ASSUME [Next]_vars
  PROVE  Outside \/ Probing \/ RoutineStep \/ VbusStep \/ UNCHANGED vars
BY DEF Next, Outside, Probing, Oops

-----------------------------------------------------------------------------
(* Types.                                                                  *)

LEMMA Threshold == WetCountThreshold \in Nat /\ WetCountThreshold >= 1
BY LiquidAssumption

LEMMA OutsideType == ASSUME TypeOK, Outside PROVE TypeOK'
<1> USE DEF TypeOK, lifeVars, portVars, routineVars, vbusVars, reportVars
<1>1. ASSUME NEW p \in {"dry", "wet", "noisy"}, PortChanges(p) PROVE TypeOK'
  BY <1>1 DEF PortChanges
<1>6. CASE ThresholdStore
  BY <1>6 DEF ThresholdStore
<1>2. CASE VbusChanges
  <2>1. vbus' \in BOOLEAN /\ due' \in BOOLEAN
    BY <1>2, Zenon DEF VbusChanges
  <2>2. UNCHANGED <<lifeVars, port, npc, routineVars, vbusVars, reportVars>>
    BY <1>2 DEF VbusChanges
  <2> QED BY <2>1, <2>2
<1>3. CASE SystemRunning
  BY <1>3 DEF SystemRunning
<1>4. CASE NotifyEnter
  <2>1. npc' \in {"idle", "queue"}
    BY <1>4 DEF NotifyEnter
  <2>4. Freed \in BOOLEAN
    BY DEF Freed
  <2>5. due' = FALSE /\ late' = (late \/ Freed) /\ bad' = Freed
    BY <1>4 DEF NotifyEnter
  <2>2. due' \in BOOLEAN /\ late' \in BOOLEAN /\ bad' \in BOOLEAN
    BY <2>4, <2>5, Zenon
  <2>3. UNCHANGED <<life, running, port, vbus, routineVars, vbusVars, reportVars>>
    BY <1>4 DEF NotifyEnter
  <2> QED BY <2>1, <2>2, <2>3
<1>5. CASE NotifyQueue
  <2>1. vqueued' \in BOOLEAN /\ late' \in BOOLEAN /\ bad' \in BOOLEAN
    BY <1>5, Zenon DEF NotifyQueue, Freed
  <2> QED BY <1>5, <2>1 DEF NotifyQueue
<1> QED BY <1>1, <1>2, <1>3, <1>4, <1>5, <1>6 DEF Outside

LEMMA ProbingType == ASSUME TypeOK, Probing PROVE TypeOK'
<1> USE DEF TypeOK, portVars, routineVars, vbusVars, reportVars, SetLife, Lives, RoutineLabels
<1>1. CASE ProbeRegister \/ ProbeFail \/ ProbePublish \/ ProbeQueue
  BY <1>1 DEF ProbeRegister, ProbeFail, ProbePublish, ProbeQueue
<1>2. CASE Shutdown \/ CancelRoutine \/ CancelVbus
  BY <1>2 DEF Shutdown, CancelRoutine, CancelVbus
<1>3. CASE FlushVbus \/ ShutdownFree \/ ShutdownClear
  BY <1>3 DEF FlushVbus, ShutdownFree, ShutdownClear
<1> QED BY <1>1, <1>2, <1>3 DEF Probing, ShutdownStep

LEMMA InWorkType ==
  ASSUME TypeOK, InWork
  PROVE  bad' \in BOOLEAN /\ UNCHANGED <<life, running, late, port, vbus, due, npc>>
<1>1. bad' \in BOOLEAN
  <2>1. Freed \in BOOLEAN
    BY DEF Freed
  <2> QED BY <2>1 DEF InWork
<1> QED BY <1>1 DEF InWork, portVars

(* The rounds of the routine work.                                         *)
LEMMA CountType ==
  ASSUME TypeOK, NothingFound \/ LiquidFound
  PROVE  /\ wet_count' \in 0..(WetCountThreshold - 1) /\ streak' \in 0..WetCountThreshold
         /\ rpc' \in {"requeue", "wet"} /\ stale' \in {"no", "now", "past"}
BY Threshold DEF TypeOK, NothingFound, LiquidFound

LEMMA MeasureType ==
  ASSUME TypeOK, RoutineStart \/ RoutineStep1 \/ RoutineAgain \/ RoutineStep2 \/ RoutineRequeue
  PROVE  TypeOK'
<1> USE DEF vbusVars, reportVars
<1>1. InWork
  BY DEF RoutineStart, RoutineStep1, RoutineAgain, RoutineStep2, RoutineRequeue
<1>2. bad' \in BOOLEAN /\ UNCHANGED <<life, running, late, port, vbus, due, npc>>
  BY <1>1, InWorkType
<1>3. CASE RoutineStart
  BY <1>2, <1>3 DEF RoutineStart, TypeOK, RoutineLabels
<1>4. CASE RoutineStep1
  <2>1. /\ wet_count' \in 0..(WetCountThreshold - 1) /\ streak' \in 0..WetCountThreshold
        /\ rpc' \in {"again", "requeue", "wet", "step2"} /\ stale' \in {"no", "now", "past"}
    BY <1>4, CountType DEF RoutineStep1, TypeOK
  <2>2. rstate' = DRY /\ UNCHANGED <<revent, role, limit, vqueued, vpc, vstate, vevent, sw, excuse>>
    BY <1>4 DEF RoutineStep1
  <2> QED BY <1>2, <2>1, <2>2 DEF TypeOK, RoutineLabels, Reports
<1>5. CASE RoutineAgain
  <2>1. /\ wet_count' \in 0..(WetCountThreshold - 1) /\ streak' \in 0..WetCountThreshold
        /\ rpc' \in {"requeue", "wet"} /\ stale' \in {"no", "now", "past"}
    BY <1>5, CountType DEF RoutineAgain
  <2>2. UNCHANGED <<rstate, revent, role, limit, vqueued, vpc, vstate, vevent, sw, excuse>>
    BY <1>5 DEF RoutineAgain
  <2> QED BY <1>2, <2>1, <2>2 DEF TypeOK, RoutineLabels
<1>6. CASE RoutineStep2
  <2>1. rpc' \in {"dry_get", "requeue"}
    BY <1>6 DEF RoutineStep2
  <2> QED BY <1>2, <1>6, <2>1 DEF RoutineStep2, TypeOK, RoutineLabels
<1>7. CASE RoutineRequeue
  BY <1>2, <1>7 DEF RoutineRequeue, TypeOK, RoutineLabels
<1> QED BY <1>3, <1>4, <1>5, <1>6, <1>7

LEMMA ReportType ==
  ASSUME TypeOK,
         \/ WetProtect \/ WetVbus \/ WetGet \/ WetSet \/ DryGet \/ DrySet \/ DryRelease
  PROVE  TypeOK'
<1> USE DEF vbusVars, reportVars
<1>1. InWork
  BY DEF WetProtect, WetVbus, WetGet, WetSet, DryGet, DrySet, DryRelease
<1>2. bad' \in BOOLEAN /\ UNCHANGED <<life, running, late, port, vbus, due, npc>>
  BY <1>1, InWorkType
<1>3. CASE WetProtect
  BY <1>2, <1>3 DEF WetProtect, ChangeRole, LimitCurrent, TypeOK, RoutineLabels
<1>4. CASE WetVbus
  <2>1. excuse' \in BOOLEAN
    BY <1>4, Zenon DEF WetVbus
  <2>2. revent' \in Reports
    BY <1>4 DEF WetVbus, Reports
  <2> QED BY <1>2, <1>4, <2>1, <2>2 DEF WetVbus, TypeOK, RoutineLabels
<1>5. CASE WetGet \/ WetSet
  BY <1>2, <1>5 DEF WetGet, WetSet, TypeOK, RoutineLabels, Reports
<1>6. CASE DryGet \/ DryRelease
  BY <1>2, <1>6 DEF DryGet, DryRelease, ChangeRole, LimitCurrent, TypeOK, RoutineLabels
<1>7. CASE DrySet
  <2>1. excuse' \in BOOLEAN
    BY <1>7, Zenon DEF DrySet
  <2>2. streak' \in 0..WetCountThreshold
    BY <1>7, Threshold DEF DrySet
  <2> QED BY <1>2, <1>7, <2>1, <2>2 DEF DrySet, TypeOK, RoutineLabels, Reports
<1> QED BY <1>3, <1>4, <1>5, <1>6, <1>7

LEMMA VbusType == ASSUME TypeOK, VbusStep PROVE TypeOK'
<1> USE DEF routineVars, reportVars, VbusDone
<1>1. InWork
  BY DEF VbusStep, VbusStart, VbusCheck, VbusGet, VbusSet
<1>2. bad' \in BOOLEAN /\ UNCHANGED <<life, running, late, port, vbus, due, npc>>
  BY <1>1, InWorkType
<1>3. CASE VbusStart
  <2>1. excuse' \in BOOLEAN
    BY <1>3, Zenon DEF VbusStart
  <2>2. vqueued' \in BOOLEAN
    BY <1>3, Zenon DEF VbusStart
  <2>3. vpc' = "check" /\ vstate' = sw /\ UNCHANGED <<routineVars, vevent, sw, stale>>
    BY <1>3 DEF VbusStart
  <2> QED BY <1>2, <2>1, <2>2, <2>3 DEF TypeOK
<1>4. CASE VbusCheck
  <2>1. excuse' \in BOOLEAN
    BY <1>4, Zenon DEF VbusCheck
  <2>2. vpc' \in {"idle", "get"} /\ vstate' \in Reports /\ vevent' \in Reports
    BY <1>4 DEF VbusCheck, TypeOK, Reports
  <2> QED BY <1>2, <1>4, <2>1, <2>2 DEF VbusCheck, TypeOK
<1>5. CASE VbusGet
  BY <1>2, <1>5 DEF VbusGet, TypeOK, Reports
<1>6. CASE VbusSet
  <2>1. excuse' \in BOOLEAN
    BY <1>6, Zenon DEF VbusSet
  <2> QED BY <1>2, <1>6, <2>1 DEF VbusSet, TypeOK, Reports
<1> QED BY <1>3, <1>4, <1>5, <1>6 DEF VbusStep

LEMMA StepType == TypeOK /\ [Next]_vars => TypeOK'
<1> SUFFICES ASSUME TypeOK, [Next]_vars PROVE TypeOK'
  OBVIOUS
<1>1. CASE UNCHANGED vars
  BY <1>1 DEF TypeOK, vars, lifeVars, portVars, routineVars, vbusVars, reportVars
<1>2. CASE RoutineStep
  BY <1>2, MeasureType, ReportType DEF RoutineStep
<1> QED BY <1>1, <1>2, Kinds, OutsideType, ProbingType, VbusType

LEMMA InitType == Init => TypeOK
<1>1. 0 \in 0..(WetCountThreshold - 1) /\ 0 \in 0..WetCountThreshold
  BY Threshold
<1> QED BY <1>1 DEF Init, TypeOK, Lives, RoutineLabels, Reports

(***************************************************************************)
(* Every variable of the driver keeps its type; wet_count stays below its  *)
(* threshold, whatever the threshold is.                                   *)
(***************************************************************************)
THEOREM LiquidTypeCorrect == Spec => []TypeOK
BY InitType, StepType, PTL DEF Spec

-----------------------------------------------------------------------------
(* Memory.                                                                 *)

(* The routine work is queued or running only between the end of probe and *)
(* its cancellation; once both works are cancelled, only a notifier that   *)
(* comes late leaves the VBUS work queued or running.                      *)
RoutineAlive == rpc # "off" => life \in {"up", "cancel_routine"}
VbusDead ==
  ~late =>
    /\ life \in {"flush_vbus", "free", "freed", "gone"} => ~vqueued
    /\ life \in {"free", "freed", "gone"} => vpc = "idle"
Memory == RoutineAlive /\ VbusDead /\ UsableMemory

LEMMA RoutineMemory ==
  ASSUME TypeOK, Memory, RoutineStep
  PROVE  Memory'
<1>1. InWork /\ rpc # "off" /\ UNCHANGED <<vqueued, vpc>>
  BY DEF RoutineStep, RoutineStart, RoutineStep1, RoutineAgain, RoutineStep2, RoutineRequeue,
         WetProtect, WetVbus, WetGet, WetSet, DryGet, DrySet, DryRelease, vbusVars
<1>2. life \in {"up", "cancel_routine"} /\ life' = life /\ late' = late
  BY <1>1 DEF Memory, RoutineAlive, InWork
<1>3. ~bad'
  BY <1>1, <1>2 DEF InWork, Freed
<1> QED BY <1>1, <1>2, <1>3 DEF Memory, RoutineAlive, VbusDead, UsableMemory

LEMMA VbusMemory ==
  ASSUME TypeOK, Memory, VbusStep
  PROVE  Memory'
<1>1. InWork /\ rpc' = rpc
  BY DEF VbusStep, VbusStart, VbusCheck, VbusGet, VbusSet, routineVars
<1>2. life' = life /\ late' = late
  BY <1>1 DEF InWork
<1>3. vqueued \/ vpc # "idle"
  BY DEF VbusStep, VbusStart, VbusCheck, VbusGet, VbusSet
<1>4. ~vqueued => ~vqueued' /\ vpc # "idle"
  BY <1>3 DEF VbusStep, VbusStart, VbusCheck, VbusGet, VbusSet
<1>5. CASE late
  BY <1>1, <1>2, <1>5 DEF Memory, RoutineAlive, VbusDead, UsableMemory
<1>6. CASE ~late
  <2>1. life \notin {"free", "freed", "gone"}
    BY <1>3, <1>6 DEF Memory, VbusDead
  <2>2. ~bad'
    BY <1>1, <2>1 DEF InWork, Freed
  <2> QED BY <1>1, <1>2, <1>4, <1>6, <2>1, <2>2 DEF Memory, RoutineAlive, VbusDead, UsableMemory
<1> QED BY <1>5, <1>6

LEMMA ProbingMemory ==
  ASSUME TypeOK, Memory, Probing
  PROVE  Memory'
<1> USE DEF Memory, RoutineAlive, VbusDead, UsableMemory, SetLife, routineVars, vbusVars
<1>1. CASE ProbeRegister \/ ProbeFail \/ ProbePublish \/ ProbeQueue
  BY <1>1 DEF ProbeRegister, ProbeFail, ProbePublish, ProbeQueue
<1>2. CASE Shutdown \/ CancelRoutine \/ CancelVbus
  BY <1>2 DEF Shutdown, CancelRoutine, CancelVbus
<1>3. CASE FlushVbus \/ ShutdownFree \/ ShutdownClear
  BY <1>3 DEF FlushVbus, ShutdownFree, ShutdownClear
<1> QED BY <1>1, <1>2, <1>3 DEF Probing, ShutdownStep

LEMMA OutsideMemory ==
  ASSUME TypeOK, Memory, Outside
  PROVE  Memory'
<1> USE DEF lifeVars, portVars, routineVars, vbusVars
<1>1. CASE NotifyQueue
  <2>1. UNCHANGED <<life, rpc, vpc>> /\ ~bad
    BY <1>1 DEF NotifyQueue
  <2>2. late' <=> late \/ life \notin {"up", "cancel_routine", "cancel_vbus", "flush_vbus"}
    BY <1>1 DEF NotifyQueue
  <2>3. bad' <=> life \in {"freed", "gone", "published"}
    BY <1>1 DEF NotifyQueue, Freed
  <2>4. vqueued' <=> life # "flush_vbus"
    BY <1>1 DEF NotifyQueue
  <2> QED BY <2>1, <2>2, <2>3, <2>4 DEF Memory, RoutineAlive, VbusDead, UsableMemory
<1>3. CASE NotifyEnter
  <2>1. UNCHANGED <<life, rpc, vqueued, vpc>>
    BY <1>3 DEF NotifyEnter
  <2>2. (late' <=> late \/ Freed) /\ (bad' <=> Freed)
    BY <1>3 DEF NotifyEnter
  <2> QED BY <2>1, <2>2 DEF Memory, RoutineAlive, VbusDead, UsableMemory
<1>2. CASE ~NotifyQueue /\ ~NotifyEnter
  <2>1. UNCHANGED <<life, late, bad, rpc, vqueued, vpc>>
    BY <1>2 DEF Outside, PortChanges, ThresholdStore, VbusChanges, SystemRunning
  <2> QED BY <2>1 DEF Memory, RoutineAlive, VbusDead, UsableMemory
<1> QED BY <1>1, <1>2, <1>3

LEMMA StepMemory == TypeOK /\ Memory /\ [Next]_vars => Memory'
<1> SUFFICES ASSUME TypeOK, Memory, [Next]_vars PROVE Memory'
  OBVIOUS
<1>1. CASE UNCHANGED vars
  BY <1>1 DEF vars, lifeVars, routineVars, vbusVars, Memory, RoutineAlive, VbusDead, UsableMemory
<1> QED BY <1>1, Kinds, OutsideMemory, ProbingMemory, RoutineMemory, VbusMemory

LEMMA InitMemory == Init => Memory
BY DEF Init, Memory, RoutineAlive, VbusDead, UsableMemory

(***************************************************************************)
(* However the works, the notifier, probe and shutdown interleave, the     *)
(* work items run in usable memory: if memory that is not set up or has    *)
(* been freed is touched at all, the charger's notifier was called while   *)
(* probe had published g_liquid and not set the works up, or after         *)
(* shutdown had cancelled both.                                            *)
(***************************************************************************)
THEOREM MemoryUsable == Spec => []UsableMemory
<1>1. Memory => UsableMemory
  BY DEF Memory
<1> QED BY <1>1, InitType, StepType, InitMemory, StepMemory, PTL DEF Spec

-----------------------------------------------------------------------------
(* Protection.                                                             *)

(* What is about to be reported is wet, and the port is protected by then; *)
(* before the protection is lifted the port is reported dry, unless the    *)
(* VBUS work has just written over that report.                            *)
WetEvents ==
  /\ rpc \in {"wet_get", "wet_set"} => revent # DRY
  /\ vpc \in {"get", "set"} => vevent # DRY
Protected ==
  rpc \in {"wet_vbus", "wet_get", "wet_set"} =>
    role \in {"SNK", "unknown"} /\ limit \in {"on", "unknown"}
Released == rpc = "dry_release" /\ stale # "now" => sw = DRY
Protection == WetEvents /\ Protected /\ Released /\ ProtectedWhenWet

(* A step that leaves the reports, the port's role and the routine alone.  *)
LEMMA ProtectionKept ==
  ASSUME Protection,
         UNCHANGED <<revent, role, limit, sw, vpc, vevent>>, stale' = "now" <=> stale = "now",
         rpc' = rpc \/ (rpc' \notin Switching /\ rpc \notin Switching) \/ rpc' = "wet"
  PROVE  Protection'
BY DEF Protection, WetEvents, Protected, Released, ProtectedWhenWet, Switching

LEMMA RoutineProtection ==
  ASSUME TypeOK, Protection, RoutineStep
  PROVE  Protection'
<1> USE DEF vbusVars, reportVars
<1>1. CASE RoutineStart \/ RoutineStep2 \/ RoutineRequeue
  <2>1. /\ rpc \notin Switching /\ rpc' \notin Switching
        /\ UNCHANGED <<revent, role, limit, sw, stale, vpc, vevent>>
    BY <1>1 DEF RoutineStart, RoutineStep2, RoutineRequeue, Switching
  <2> QED BY <2>1, ProtectionKept
<1>2. CASE RoutineStep1 \/ RoutineAgain
  <2>1. /\ rpc \notin Switching /\ (rpc' \notin Switching \/ rpc' = "wet")
        /\ UNCHANGED <<revent, role, limit, sw, vpc, vevent>> /\ (stale' = "now" <=> stale = "now")
    BY <1>2 DEF RoutineStep1, RoutineAgain, NothingFound, LiquidFound, Switching
  <2> QED BY <2>1, ProtectionKept
<1> USE DEF Protection, WetEvents, Protected, Released, ProtectedWhenWet, Switching
<1>3. CASE WetProtect
  BY <1>3 DEF WetProtect, ChangeRole, LimitCurrent
<1>4. CASE WetVbus
  <2>1. /\ rpc = "wet_vbus" /\ rpc' = "wet_get" /\ revent' # DRY
        /\ UNCHANGED <<role, limit, sw, stale, vpc, vevent>>
    BY <1>4 DEF WetVbus, WET, WET_VBUS, DRY
  <2> QED BY <2>1
<1>5. CASE WetGet
  BY <1>5 DEF WetGet
<1>6. CASE WetSet
  BY <1>6 DEF WetSet
<1>7. CASE DryGet
  BY <1>7 DEF DryGet
<1>8. CASE DrySet
  <2>1. /\ rpc = "dry_set" /\ rpc' = "dry_release" /\ sw' = DRY
        /\ UNCHANGED <<revent, role, limit, vpc, vevent>>
    BY <1>8 DEF DrySet
  <2> QED BY <2>1
<1>9. CASE DryRelease
  BY <1>9 DEF DryRelease, ChangeRole, LimitCurrent
<1> QED BY <1>1, <1>2, <1>3, <1>4, <1>5, <1>6, <1>7, <1>8, <1>9 DEF RoutineStep

LEMMA VbusProtection ==
  ASSUME TypeOK, Protection, VbusStep
  PROVE  Protection'
<1> USE DEF routineVars, VbusDone
<1> USE DEF Protection, WetEvents, Protected, Released, ProtectedWhenWet, Switching
<1>1. CASE VbusStart
  <2>1. vpc' = "check" /\ UNCHANGED <<routineVars, sw, stale>>
    BY <1>1 DEF VbusStart
  <2> QED BY <2>1
<1>2. CASE VbusCheck
  <2>1. vpc' = "get" => vevent' # DRY
    BY <1>2 DEF VbusCheck, DRY, WET, WET_VBUS
  <2>2. vpc' \in {"idle", "get"} /\ UNCHANGED <<routineVars, sw, stale>>
    BY <1>2 DEF VbusCheck
  <2> QED BY <2>1, <2>2
<1>3. CASE VbusGet
  BY <1>3 DEF VbusGet, reportVars
<1>4. CASE VbusSet
  <2>1. /\ vpc = "set" /\ vpc' = "idle" /\ sw' = vevent /\ UNCHANGED routineVars
        /\ stale' = IF sw = DRY THEN "now" ELSE stale
    BY <1>4 DEF VbusSet
  <2> QED BY <2>1
<1> QED BY <1>1, <1>2, <1>3, <1>4 DEF VbusStep

LEMMA StepProtection == TypeOK /\ Memory /\ Protection /\ [Next]_vars => Protection'
<1> SUFFICES ASSUME TypeOK, Memory, Protection, [Next]_vars PROVE Protection'
  OBVIOUS
<1> USE DEF routineVars, vbusVars, reportVars
<1>1. CASE Outside
  <2>1. UNCHANGED <<rpc, revent, role, limit, sw, stale, vpc, vevent>>
    BY <1>1 DEF Outside, PortChanges, ThresholdStore, VbusChanges, SystemRunning, NotifyEnter, NotifyQueue
  <2> QED BY <2>1, ProtectionKept
<1>2. CASE Probing
  <2>1. /\ UNCHANGED <<revent, role, limit, sw, stale, vpc, vevent>>
        /\ rpc' = rpc \/ (rpc \in {"off", "queued"} /\ rpc' \in {"off", "queued"})
    BY <1>2 DEF Memory, RoutineAlive, Probing, ProbeRegister, ProbeFail, ProbePublish, ProbeQueue, Shutdown,
                ShutdownStep, CancelRoutine, CancelVbus, FlushVbus, ShutdownFree,
                ShutdownClear, SetLife
  <2> QED BY <2>1, ProtectionKept DEF Switching
<1>3. CASE UNCHANGED vars
  BY <1>3, ProtectionKept DEF vars
<1> QED BY <1>1, <1>2, <1>3, Kinds, RoutineProtection, VbusProtection

(***************************************************************************)
(* Whichever way the two work items interleave and whichever calls fail, a *)
(* port reported wet is a sink with limited current and one reported dry   *)
(* is not, as far as the calls succeeded: the one exception is a VBUS work *)
(* that writes over a dry report made since it read the state.             *)
(***************************************************************************)
THEOREM WetPortProtected == Spec => []ProtectedWhenWet
<1>1. Init => Protection
  BY DEF Init, Protection, WetEvents, Protected, Released, ProtectedWhenWet, DRY
<1>2. Protection => ProtectedWhenWet
  BY DEF Protection
<1> QED BY <1>1, <1>2, InitType, StepType, InitMemory, StepMemory, StepProtection, PTL DEF Spec

-----------------------------------------------------------------------------
(* The debounce.                                                           *)

(***************************************************************************)
(* Unless a report of the VBUS work over a dry report still has its        *)
(* effects: wet_count counts rounds of the streak, it is 0 from the report *)
(* of wet to the report of dry, and a round that began with the port       *)
(* reported dry keeps it so until it reports, with a whole streak.  Always *)
(* wet_count is 0 while a wet report is made.                              *)
(***************************************************************************)
Reporting == {"wet", "wet_vbus", "wet_get", "wet_set"}
Drying == {"step2", "dry_get", "dry_set"}
Counted ==
  /\ wet_count <= streak
  /\ sw # DRY => wet_count = 0
  /\ rpc \in Drying => wet_count = 0
  /\ rpc = "step1" => (IF rstate = DRY THEN sw = DRY ELSE wet_count = 0)
  /\ rpc = "again" => sw = DRY
  /\ rpc \in Reporting => streak = WetCountThreshold
Count == (stale = "no" => Counted) /\ (rpc \in Reporting => wet_count = 0)

LEMMA CountKept ==
  ASSUME Count, UNCHANGED <<wet_count, streak, sw, stale, rstate>>,
         rpc' = rpc \/ rpc' \in {"off", "queued", "requeue", "dry_release"}
  PROVE  Count'
BY DEF Count, Counted, Reporting, Drying

LEMMA NothingCounts ==
  ASSUME TypeOK, NothingFound
  PROVE  Count'
<1>1. wet_count' = 0 /\ streak' = 0 /\ rpc' = "requeue"
  BY Threshold DEF TypeOK, NothingFound
<1> QED BY <1>1 DEF Count, Counted, Reporting, Drying

LEMMA LiquidCounts ==
  ASSUME TypeOK, Count, LiquidFound, rpc = "again", sw' = sw
  PROVE  Count'
<1>1. stale' = stale
  BY DEF LiquidFound
<1>2. wet_count \in Nat /\ streak \in 0..WetCountThreshold
  BY Threshold DEF TypeOK
<1>3. stale = "no" => wet_count <= streak /\ sw = DRY
  BY DEF Count, Counted
<1>4. CASE wet_count + 1 >= WetCountThreshold
  <2>1. wet_count' = 0 /\ rpc' = "wet" /\ streak' \in 0..WetCountThreshold
    BY <1>2, <1>4, Threshold DEF LiquidFound
  <2>2. stale = "no" => streak' = WetCountThreshold
    BY <1>2, <1>3, <1>4, Threshold DEF LiquidFound
  <2> QED BY <1>1, <2>1, <2>2, Threshold DEF Count, Counted, Reporting, Drying
<1>5. CASE ~(wet_count + 1 >= WetCountThreshold)
  <2>1. wet_count' = wet_count + 1 /\ rpc' = "requeue"
    BY <1>5 DEF LiquidFound
  <2>2. stale = "no" => wet_count' <= streak'
    BY <1>2, <1>3, <1>5, Threshold DEF LiquidFound
  <2> QED BY <1>1, <1>3, <2>1, <2>2 DEF Count, Counted, Reporting, Drying
<1> QED BY <1>4, <1>5

LEMMA RoutineCount ==
  ASSUME TypeOK, Protection, Count, RoutineStep
  PROVE  Count'
<1> USE DEF vbusVars, reportVars
<1>1. CASE RoutineStart
  BY <1>1 DEF RoutineStart, Count, Counted, Reporting, Drying
<1>2. CASE RoutineStep1
  <2>1. sw' = sw /\ rpc = "step1"
    BY <1>2 DEF RoutineStep1
  <2>2. CASE NothingFound
    BY <2>2, NothingCounts
  <2>3. CASE rstate = DRY /\ rpc' = "again" /\ UNCHANGED <<wet_count, streak, stale>>
    BY <2>1, <2>3 DEF Count, Counted, Reporting, Drying
  <2>4. CASE rstate # DRY /\ rpc' \in {"requeue", "step2"} /\ UNCHANGED <<wet_count, streak, stale>>
    BY <2>1, <2>4 DEF Count, Counted, Reporting, Drying
  <2> QED BY <1>2, <2>2, <2>3, <2>4 DEF RoutineStep1
<1>3. CASE RoutineAgain
  BY <1>3, NothingCounts, LiquidCounts DEF RoutineAgain
<1>4. CASE RoutineStep2
  BY <1>4 DEF RoutineStep2, Count, Counted, Reporting, Drying
<1>5. CASE RoutineRequeue
  BY <1>5, CountKept DEF RoutineRequeue
<1>6. CASE WetProtect
  BY <1>6 DEF WetProtect, Count, Counted, Reporting, Drying
<1>7. CASE WetVbus
  <2>1. /\ rpc = "wet_vbus" /\ rpc' = "wet_get"
        /\ UNCHANGED <<wet_count, streak, sw, stale, rstate>>
    BY <1>7 DEF WetVbus
  <2> QED BY <2>1 DEF Count, Counted, Reporting, Drying
<1>8. CASE WetGet \/ WetSet
  <2>1. UNCHANGED <<wet_count, streak, rstate>>
    BY <1>8 DEF WetGet, WetSet
  <2>2. streak \in Nat
    BY Threshold DEF TypeOK
  <2>3. rpc \in Reporting /\ wet_count = 0
    BY <1>8 DEF WetGet, WetSet, Count, Reporting
  <2>4. rpc' = "requeue" \/ (rpc' = "wet_set" /\ UNCHANGED <<sw, stale>>)
    BY <1>8 DEF WetGet, WetSet
  <2> QED BY <2>1, <2>2, <2>3, <2>4 DEF Count, Counted, Reporting, Drying
<1>9. CASE DryGet
  BY <1>9 DEF DryGet, Count, Counted, Reporting, Drying
<1>10. CASE DrySet
  <2>1. /\ rpc = "dry_set" /\ rpc' = "dry_release" /\ streak' = 0
        /\ wet_count' = wet_count /\ (stale' = "no" => stale = "no" \/ wet_count = 0)
    BY <1>10 DEF DrySet
  <2> QED BY <2>1 DEF Count, Counted, Reporting, Drying
<1>11. CASE DryRelease
  BY <1>11, CountKept DEF DryRelease
<1> QED BY <1>1, <1>2, <1>3, <1>4, <1>5, <1>6, <1>7, <1>8, <1>9, <1>10, <1>11 DEF RoutineStep

LEMMA StepCount == TypeOK /\ Memory /\ Protection /\ Count /\ [Next]_vars => Count'
<1> SUFFICES ASSUME TypeOK, Memory, Protection, Count, [Next]_vars PROVE Count'
  OBVIOUS
<1> USE DEF routineVars, vbusVars, reportVars
<1>1. CASE Outside
  <2>1. UNCHANGED <<rpc, wet_count, streak, sw, stale, rstate>>
    BY <1>1 DEF Outside, PortChanges, ThresholdStore, VbusChanges, SystemRunning, NotifyEnter, NotifyQueue
  <2> QED BY <2>1, CountKept
<1>2. CASE Probing
  <2>1. UNCHANGED <<wet_count, streak, sw, stale, rstate>> /\ (rpc' = rpc \/ rpc' \in {"off", "queued"})
    BY <1>2 DEF Probing, ProbeRegister, ProbeFail, ProbePublish, ProbeQueue, Shutdown,
                ShutdownStep, CancelRoutine, CancelVbus, FlushVbus, ShutdownFree,
                ShutdownClear, SetLife
  <2> QED BY <2>1, CountKept
<1>3. CASE VbusStep
  <2>1. CASE VbusSet
    <3>1. /\ sw' # DRY /\ stale' = (IF sw = DRY THEN "now" ELSE stale)
          /\ UNCHANGED <<rpc, wet_count, streak, rstate>>
      BY <2>1 DEF VbusSet, Protection, WetEvents
    <3> QED BY <3>1 DEF Count, Counted
  <2>2. CASE VbusStart \/ VbusCheck \/ VbusGet
    <3>1. UNCHANGED <<rpc, wet_count, streak, sw, stale, rstate>>
      BY <2>2 DEF VbusStart, VbusCheck, VbusGet
    <3> QED BY <3>1, CountKept
  <2> QED BY <1>3, <2>1, <2>2 DEF VbusStep
<1>4. CASE UNCHANGED vars
  BY <1>4, CountKept DEF vars
<1> QED BY <1>1, <1>2, <1>3, <1>4, Kinds, RoutineCount

LEMMA StepDebounced ==
  ASSUME TypeOK, Count, [Next]_vars, sw = DRY, sw' # DRY, stale = "no", stale' = "no"
  PROVE  streak = WetCountThreshold
<1> USE DEF routineVars, vbusVars, reportVars
<1>1. WetSet \/ DrySet \/ VbusSet
  BY DEF Next, PortChanges, ThresholdStore, VbusChanges, SystemRunning, NotifyEnter, NotifyQueue, ProbeRegister,
         ProbeFail, ProbePublish, ProbeQueue, Shutdown, ShutdownStep, CancelRoutine, CancelVbus,
         FlushVbus, ShutdownFree, ShutdownClear, SetLife, RoutineStep, RoutineStart, RoutineStep1,
         RoutineAgain, RoutineStep2, RoutineRequeue, WetProtect, WetVbus, WetGet, DryGet,
         DryRelease, VbusStep, VbusStart, VbusCheck, VbusGet, Oops, vars
<1>2. WetSet
  BY <1>1 DEF DrySet, VbusSet
<1>3. stale = "no" /\ rpc = "wet_set"
  BY <1>2 DEF WetSet
<1> QED BY <1>3 DEF Count, Counted, Reporting

(***************************************************************************)
(* For every wet_count_threshold, the step that turns a dry report into a  *)
(* wet one comes after so many rounds in a row that found liquid since the *)
(* last dry report, except for the stale report of a VBUS work and for the *)
(* report after it that still counts rounds of before its withdrawal.      *)
(***************************************************************************)
THEOREM WetIsDebounced == Spec => Debounced
<1>1. Init => Protection /\ Count
  BY Threshold DEF Init, Protection, WetEvents, Protected, Released, ProtectedWhenWet,
         Count, Counted, Reporting, Drying, DRY
<1>2. TypeOK /\ Count /\ [Next]_vars =>
        [sw = DRY /\ sw' # DRY /\ stale = "no" /\ stale' = "no" => streak = WetCountThreshold]_vars
  BY StepDebounced
<1> QED BY <1>1, <1>2, InitType, StepType, InitMemory, StepMemory, StepProtection, StepCount, PTL
        DEF Spec, Debounced

-----------------------------------------------------------------------------
(* The VBUS part of a wet report.                                          *)

(***************************************************************************)
(* Until probe ends the port is reported dry and the VBUS work has not run.*)
(* After it, what is about to be reported and what is reported agree with  *)
(* VBUS, or a notification is on its way to a VBUS work that has yet to    *)
(* start; what is reported may also disagree while the VBUS work that read *)
(* it has yet to check or to report VBUS.                                  *)
(***************************************************************************)
Early ==
  /\ life \in {"none", "registered"} => npc = "idle"
  /\ life \in {"none", "registered", "published"} =>
       sw = DRY /\ vpc = "idle" /\ (vqueued => bad)
Coming == due \/ npc = "queue" \/ vqueued
Serving == life \in {"up", "cancel_routine"}
Agrees(event) == (event = WET_VBUS) <=> vbus
RoutineEventAgrees == rpc \in {"wet_get", "wet_set"} => Coming \/ Agrees(revent)
VbusEventAgrees == Serving /\ vpc \in {"get", "set"} => Coming \/ Agrees(vevent)
ReportAgrees ==
  Serving /\ sw # DRY =>
    Coming \/ Agrees(sw) \/ (vpc = "check" /\ vstate = sw) \/ vpc \in {"get", "set"}
Agreement ==
  Early /\ (~excuse => RoutineEventAgrees /\ VbusEventAgrees /\ ReportAgrees)

(* A step that leaves alone what is reported, about to be reported and to  *)
(* come, and takes the routine work into no report.                        *)
LEMMA AgreementKept ==
  ASSUME Agreement,
         UNCHANGED <<life, vbus, due, npc, sw, vqueued, vpc, vstate, vevent, excuse>>, ~bad,
         rpc' \in {"wet_get", "wet_set"} => rpc' = rpc /\ revent' = revent
  PROVE  Agreement'
<1>1. Early'
  BY DEF Agreement, Early
<1>2. ~excuse => (RoutineEventAgrees /\ VbusEventAgrees /\ ReportAgrees)'
  BY DEF Agreement, RoutineEventAgrees, VbusEventAgrees, ReportAgrees, Agrees, Coming, Serving
<1> QED BY <1>1, <1>2 DEF Agreement

LEMMA RoutineAgreement ==
  ASSUME TypeOK, Memory, Agreement, RoutineStep
  PROVE  Agreement'
<1> USE DEF vbusVars, reportVars
<1>1. InWork /\ rpc # "off" /\ UNCHANGED <<vqueued, vpc, vstate, vevent>>
  BY DEF RoutineStep, RoutineStart, RoutineStep1, RoutineAgain, RoutineStep2, RoutineRequeue,
         WetProtect, WetVbus, WetGet, WetSet, DryGet, DrySet, DryRelease
<1>2. ~bad /\ UNCHANGED <<life, vbus, due, npc>>
  BY <1>1 DEF InWork, portVars
<1>3. life \in {"up", "cancel_routine"} /\ Early'
  BY <1>1, <1>2 DEF Memory, RoutineAlive, Early
<1>4. CASE RoutineStart \/ RoutineStep1 \/ RoutineAgain \/ RoutineStep2 \/ RoutineRequeue
  <2>1. rpc' \notin {"wet_get", "wet_set"} /\ UNCHANGED <<sw, excuse>>
    BY <1>4 DEF RoutineStart, RoutineStep1, RoutineAgain, RoutineStep2, RoutineRequeue,
                NothingFound, LiquidFound
  <2> QED BY <1>1, <1>2, <2>1, AgreementKept
<1>5. CASE WetProtect \/ DryGet \/ DryRelease
  <2>1. rpc' \notin {"wet_get", "wet_set"} /\ UNCHANGED <<sw, excuse>>
    BY <1>5 DEF WetProtect, DryGet, DryRelease
  <2> QED BY <1>1, <1>2, <2>1, AgreementKept
<1>6. CASE WetGet
  <2>1. /\ UNCHANGED <<sw, excuse>> /\ rpc = "wet_get"
        /\ rpc' = "requeue" \/ (rpc' = "wet_set" /\ revent' = revent)
    BY <1>6 DEF WetGet
  <2>2. ~excuse => (RoutineEventAgrees /\ VbusEventAgrees /\ ReportAgrees)'
    BY <1>1, <1>2, <2>1 DEF Agreement, RoutineEventAgrees, VbusEventAgrees, ReportAgrees,
                            Agrees, Coming, Serving
  <2> QED BY <1>3, <2>1, <2>2 DEF Agreement
<1>7. CASE WetVbus
  <2>1. rpc' = "wet_get" /\ sw' = sw
    BY <1>7 DEF WetVbus
  <2>2. ~excuse' => ~excuse /\ Agrees(revent)'
    <3>1. PICK valid \in VbusReadings :
            revent' = (IF valid THEN WET_VBUS ELSE WET) /\ excuse' = (excuse \/ valid # vbus)
      BY <1>7 DEF WetVbus
    <3>2. ~excuse' => ~excuse /\ valid = vbus
      BY <3>1
    <3> QED BY <1>2, <3>1, <3>2 DEF Agrees, WET, WET_VBUS, TypeOK
  <2>3. ~excuse' => (RoutineEventAgrees /\ VbusEventAgrees /\ ReportAgrees)'
    BY <1>1, <1>2, <2>1, <2>2 DEF Agreement, RoutineEventAgrees, VbusEventAgrees, ReportAgrees,
                                  Agrees, Coming, Serving
  <2> QED BY <1>3, <2>3 DEF Agreement
<1>8. CASE WetSet
  <2>1. rpc = "wet_set" /\ rpc' = "requeue" /\ sw' = revent /\ excuse' = excuse
    BY <1>8 DEF WetSet
  <2>2. ~excuse => (RoutineEventAgrees /\ VbusEventAgrees /\ ReportAgrees)'
    BY <1>1, <1>2, <2>1 DEF Agreement, RoutineEventAgrees, VbusEventAgrees, ReportAgrees,
                            Agrees, Coming, Serving
  <2> QED BY <1>3, <2>1, <2>2 DEF Agreement
<1>9. CASE DrySet
  <2>1. rpc' = "dry_release" /\ sw' = DRY /\ (~excuse' => ~excuse \/ vpc = "idle")
    BY <1>9 DEF DrySet
  <2>2. ~excuse' => (RoutineEventAgrees /\ VbusEventAgrees /\ ReportAgrees)'
    BY <1>1, <1>2, <2>1 DEF Agreement, RoutineEventAgrees, VbusEventAgrees, ReportAgrees,
                            Agrees, Coming, Serving
  <2> QED BY <1>3, <2>2 DEF Agreement
<1> QED BY <1>4, <1>5, <1>6, <1>7, <1>8, <1>9 DEF RoutineStep

LEMMA VbusAgreement ==
  ASSUME TypeOK, Memory, Agreement, VbusStep
  PROVE  Agreement'
<1> USE DEF routineVars, reportVars, VbusDone
<1>1. InWork /\ UNCHANGED <<rpc, revent>>
  BY DEF VbusStep, VbusStart, VbusCheck, VbusGet, VbusSet
<1>2. ~bad /\ UNCHANGED <<life, vbus, due, npc>>
  BY <1>1 DEF InWork, portVars
<1>3. life \notin {"none", "registered", "published"}
  BY <1>2 DEF VbusStep, VbusStart, VbusCheck, VbusGet, VbusSet, Agreement, Early
<1>4. Early'
  BY <1>2, <1>3 DEF Early
<1>5. CASE VbusStart
  <2>1. /\ vpc' = "check" /\ vstate' = sw /\ sw' = sw
        /\ ~excuse' => ~excuse /\ rpc \notin {"wet_get", "wet_set"}
    BY <1>5 DEF VbusStart
  <2>2. ~excuse' => (RoutineEventAgrees /\ VbusEventAgrees /\ ReportAgrees)'
    BY <1>1, <1>2, <2>1 DEF RoutineEventAgrees, VbusEventAgrees, ReportAgrees
  <2> QED BY <1>4, <2>2 DEF Agreement
<1>6. CASE VbusCheck
  <2>1. vpc = "check" /\ UNCHANGED <<vqueued, sw>>
    BY <1>6 DEF VbusCheck
  <2>2. PICK valid \in VbusReadings :
          /\ \/ /\ vstate = WET /\ valid
                /\ vpc' = "get" /\ vevent' = WET_VBUS /\ UNCHANGED vstate
             \/ /\ vstate = WET_VBUS /\ ~valid
                /\ vpc' = "get" /\ vevent' = WET /\ UNCHANGED vstate
             \/ /\ vstate # (IF valid THEN WET ELSE WET_VBUS)
                /\ vpc' = "idle" /\ vstate' = DRY /\ vevent' = DRY
          /\ excuse' = (excuse \/ valid # vbus)
    BY <1>6 DEF VbusCheck
  <2>3. ~excuse' => ~excuse /\ valid = vbus
    BY <2>2
  <2>4. ~excuse' => (vpc' = "get" /\ Agrees(vevent)')
                      \/ (vpc' = "idle" /\ vstate # (IF vbus THEN WET ELSE WET_VBUS))
    BY <1>2, <2>2, <2>3 DEF Agrees, WET, WET_VBUS, TypeOK
  <2>5. sw # DRY /\ sw # (IF vbus THEN WET ELSE WET_VBUS) => Agrees(sw)
    BY DEF Agrees, WET, WET_VBUS, DRY, TypeOK, Reports
  <2>6. ~excuse' => (RoutineEventAgrees /\ VbusEventAgrees /\ ReportAgrees)'
    BY <1>1, <1>2, <2>1, <2>3, <2>4, <2>5
       DEF Agreement, RoutineEventAgrees, VbusEventAgrees, ReportAgrees, Agrees, Coming, Serving
  <2> QED BY <1>4, <2>6 DEF Agreement
<1>7. CASE VbusGet
  <2>1. /\ vpc = "get" /\ UNCHANGED <<vqueued, sw, excuse>>
        /\ \/ sw = vevent /\ vpc' = "idle"
           \/ vpc' = "set" /\ vevent' = vevent
    BY <1>7 DEF VbusGet
  <2>2. ~excuse => (RoutineEventAgrees /\ VbusEventAgrees /\ ReportAgrees)'
    BY <1>1, <1>2, <2>1
       DEF Agreement, RoutineEventAgrees, VbusEventAgrees, ReportAgrees, Agrees, Coming, Serving
  <2> QED BY <1>4, <2>1, <2>2 DEF Agreement
<1>8. CASE VbusSet
  <2>1. vpc = "set" /\ vpc' = "idle" /\ sw' = vevent /\ vqueued' = vqueued /\ (~excuse' => ~excuse)
    BY <1>8 DEF VbusSet
  <2>2. ~excuse' => (RoutineEventAgrees /\ VbusEventAgrees /\ ReportAgrees)'
    BY <1>1, <1>2, <2>1
       DEF Agreement, RoutineEventAgrees, VbusEventAgrees, ReportAgrees, Agrees, Coming, Serving
  <2> QED BY <1>4, <2>2 DEF Agreement
<1> QED BY <1>5, <1>6, <1>7, <1>8 DEF VbusStep

LEMMA OutsideAgreement ==
  ASSUME TypeOK, Memory, Agreement, Outside
  PROVE  Agreement'
<1> USE DEF lifeVars, portVars, routineVars, vbusVars, reportVars
<1>1. ~bad /\ UNCHANGED <<life, rpc, revent, sw, vpc, vstate, vevent, excuse>>
  BY DEF Outside, PortChanges, ThresholdStore, VbusChanges, SystemRunning, NotifyEnter, NotifyQueue
<1>2. ASSUME NEW p \in {"dry", "wet", "noisy"}, PortChanges(p) PROVE Agreement'
  <2>1. UNCHANGED <<vbus, due, npc, vqueued>>
    BY <1>2 DEF PortChanges
  <2> QED BY <1>1, <2>1, AgreementKept
<1>7. CASE ThresholdStore
  <2>1. UNCHANGED <<vbus, due, npc, vqueued>>
    BY <1>7 DEF ThresholdStore
  <2> QED BY <1>1, <2>1, AgreementKept
<1>3. CASE SystemRunning
  <2>1. UNCHANGED <<vbus, due, npc, vqueued>>
    BY <1>3 DEF SystemRunning
  <2> QED BY <1>1, <2>1, AgreementKept
<1>4. CASE VbusChanges
  <2>1. due' /\ UNCHANGED <<npc, vqueued>>
    BY <1>4 DEF VbusChanges
  <2>2. Early'
    BY <1>1, <2>1 DEF Agreement, Early
  <2>3. (RoutineEventAgrees /\ VbusEventAgrees /\ ReportAgrees)'
    BY <2>1 DEF RoutineEventAgrees, VbusEventAgrees, ReportAgrees, Coming
  <2> QED BY <2>2, <2>3 DEF Agreement
<1>5. CASE NotifyEnter
  <2>1. npc = "idle" /\ npc' = (IF Published THEN "queue" ELSE "idle") /\ vqueued' = vqueued
    BY <1>5 DEF NotifyEnter
  <2>2. Early'
    BY <1>1, <2>1 DEF Agreement, Early, Published
  <2>3. Serving => Coming'
    BY <2>1 DEF Serving, Published, Coming
  <2>4. ~excuse => (RoutineEventAgrees /\ VbusEventAgrees /\ ReportAgrees)'
    BY <1>1, <2>3 DEF RoutineEventAgrees, VbusEventAgrees, ReportAgrees, Serving,
                      Memory, RoutineAlive
  <2> QED BY <1>1, <2>2, <2>4 DEF Agreement
<1>6. CASE NotifyQueue
  <2>1. npc = "queue" /\ npc' = "idle" /\ (life # "flush_vbus" => vqueued')
    BY <1>6 DEF NotifyQueue
  <2>2. life = "published" => bad'
    BY <1>6 DEF NotifyQueue
  <2>3. Early'
    BY <1>1, <2>1, <2>2 DEF Agreement, Early
  <2>4. Serving => Coming'
    BY <2>1 DEF Serving, Coming
  <2>5. ~excuse => (RoutineEventAgrees /\ VbusEventAgrees /\ ReportAgrees)'
    BY <1>1, <2>4 DEF RoutineEventAgrees, VbusEventAgrees, ReportAgrees, Serving,
                      Memory, RoutineAlive
  <2> QED BY <1>1, <2>3, <2>5 DEF Agreement
<1> QED BY <1>2, <1>3, <1>4, <1>5, <1>6, <1>7 DEF Outside

LEMMA ProbingAgreement ==
  ASSUME TypeOK, Memory, Agreement, Probing
  PROVE  Agreement'
<1> USE DEF SetLife, portVars, routineVars, vbusVars, reportVars
<1>1. ~bad /\ bad' = bad /\ UNCHANGED <<vbus, due, npc, sw, excuse, revent, vpc, vstate, vevent>>
  BY DEF Probing, ProbeRegister, ProbeFail, ProbePublish, ProbeQueue, Shutdown, ShutdownStep,
         CancelRoutine, CancelVbus, FlushVbus, ShutdownFree, ShutdownClear
<1>2. Early'
  <2>1. CASE ProbeRegister \/ ProbeFail \/ ProbePublish \/ ProbeQueue
    BY <1>1, <2>1 DEF Agreement, Early, ProbeRegister, ProbeFail, ProbePublish, ProbeQueue
  <2>2. CASE Shutdown \/ ShutdownStep
    BY <2>2 DEF Early, Shutdown, ShutdownStep, CancelRoutine, CancelVbus, FlushVbus,
                ShutdownFree, ShutdownClear
  <2> QED BY <2>1, <2>2 DEF Probing
<1>3. rpc' \in {"wet_get", "wet_set"} => rpc' = rpc
  BY DEF Probing, ProbeRegister, ProbeFail, ProbePublish, ProbeQueue, Shutdown, ShutdownStep,
         CancelRoutine, CancelVbus, FlushVbus, ShutdownFree, ShutdownClear
<1>4. CASE ProbeQueue
  <2>1. life = "published" /\ rpc' = "queued"
    BY <1>4 DEF ProbeQueue
  <2>2. (RoutineEventAgrees /\ VbusEventAgrees /\ ReportAgrees)'
    BY <1>1, <2>1 DEF Agreement, Early, RoutineEventAgrees, VbusEventAgrees, ReportAgrees
  <2> QED BY <1>2, <2>2 DEF Agreement
<1>5. CASE Shutdown
  <2>1. UNCHANGED <<rpc, vqueued>> /\ life = "up"
    BY <1>5 DEF Shutdown
  <2>2. ~excuse => (RoutineEventAgrees /\ VbusEventAgrees /\ ReportAgrees)'
    BY <1>1, <2>1 DEF Agreement, RoutineEventAgrees, VbusEventAgrees, ReportAgrees,
                      Agrees, Coming, Serving
  <2> QED BY <1>1, <1>2, <2>2 DEF Agreement
<1>6. CASE ProbeRegister \/ ProbeFail \/ ProbePublish \/ ShutdownStep
  <2>1. ~Serving'
    BY <1>6 DEF Serving, ProbeRegister, ProbeFail, ProbePublish, ShutdownStep,
                CancelRoutine, CancelVbus, FlushVbus, ShutdownFree, ShutdownClear
  <2>2. rpc' \notin {"wet_get", "wet_set"}
    BY <1>6 DEF Memory, RoutineAlive, ProbeRegister, ProbeFail, ProbePublish, ShutdownStep,
                CancelRoutine, CancelVbus, FlushVbus, ShutdownFree, ShutdownClear
  <2>3. (RoutineEventAgrees /\ VbusEventAgrees /\ ReportAgrees)'
    BY <2>1, <2>2 DEF RoutineEventAgrees, VbusEventAgrees, ReportAgrees
  <2> QED BY <1>2, <2>3 DEF Agreement
<1> QED BY <1>4, <1>5, <1>6 DEF Probing

LEMMA StepAgreement == TypeOK /\ Memory /\ Agreement /\ [Next]_vars => Agreement'
<1> SUFFICES ASSUME TypeOK, Memory, Agreement, [Next]_vars PROVE Agreement'
  OBVIOUS
<1>1. CASE UNCHANGED vars
  <2>1. Early'
    BY <1>1 DEF vars, lifeVars, vbusVars, reportVars, Agreement, Early
  <2>2. ~excuse => (RoutineEventAgrees /\ VbusEventAgrees /\ ReportAgrees)'
    BY <1>1 DEF vars, lifeVars, portVars, routineVars, vbusVars, reportVars, Agreement,
                RoutineEventAgrees, VbusEventAgrees, ReportAgrees, Agrees, Coming, Serving
  <2> QED BY <1>1, <2>1, <2>2 DEF vars, reportVars, Agreement
<1> QED BY <1>1, Kinds, OutsideAgreement, ProbingAgreement, RoutineAgreement, VbusAgreement

(***************************************************************************)
(* However VBUS, the notifier and the two work items interleave, a port    *)
(* reported wet is reported with VBUS exactly when VBUS is there once no   *)
(* work is under way and no notification is due, with the exceptions that  *)
(* VbusAgrees names: a voltage that could not be read, a VBUS work that    *)
(* started between the check and the report of liquid_is_wet, and a VBUS   *)
(* work that wrote over a newer report.                                    *)
(***************************************************************************)
THEOREM WetReportAgrees == Spec => []VbusAgrees
<1>1. Init => Agreement
  BY DEF Init, Agreement, Early, RoutineEventAgrees, VbusEventAgrees, ReportAgrees, Serving
<1>2. Agreement => VbusAgrees
  BY DEF Agreement, ReportAgrees, Serving, Coming, Agrees, VbusAgrees, Quiet
<1> QED BY <1>1, <1>2, InitType, StepType, InitMemory, StepMemory, StepAgreement, PTL DEF Spec
=============================================================================
