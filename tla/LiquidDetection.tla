-------------------------- MODULE LiquidDetection ---------------------------
(***************************************************************************)
(* The driver that looks for liquid in the USB port.  A routine work item  *)
(* measures the SBU pins and reports dry or wet; a second work item, which *)
(* the charger's notifier queues, reports whether a wet port has VBUS.     *)
(* Both write the same switch and share no lock.  Probe, shutdown, the     *)
(* port itself and VBUS are actors too.  Delays are not modelled: any work *)
(* item may take any time.                                                 *)
(***************************************************************************)
EXTENDS Integers

CONSTANTS
  WetCountThreshold,   \* liquid->wet_count_threshold
  ThresholdL,          \* liquid->threshold[THRESHOLD_L], in mV
  ThresholdH,          \* liquid->threshold[THRESHOLD_H], in mV
  MayFail              \* the calls that may fail: "role", "limit", "voltage"

ASSUME LiquidAssumption ==
  /\ WetCountThreshold \in Nat \ {0}
  /\ ThresholdL \in Nat /\ ThresholdH \in Nat
  /\ MayFail \subseteq {"role", "limit", "voltage"}

DRY == 0
WET == 1
WET_VBUS == 2
ADC_MAX_MV == 1500
EINVAL == -22

VARIABLES
  life,        \* how far probe or shutdown is
  running,     \* system_state has reached SYSTEM_RUNNING
  port,        \* what is in the port: "dry", "wet"; "noisy": no telling
  vbus, due,   \* VBUS is present; the charger has yet to notify a change
  npc,         \* the charger's notifier, in liquid_vbus_changed
  sw,          \* liquid->st_switch
  wet_count,   \* liquid->wet_count
  rpc, rstate, revent,          \* liquid_routine_work and its locals
  vqueued, vpc, vstate, vevent, \* liquid_vbus_detect, queued and running
  role, limit, \* role of the port, limit of its current; "unknown" after a failure
  streak,      \* history: rounds in a row that found liquid
  stale,       \* history: the VBUS work wrote over a dry report ("now"), and the
               \* rounds counted before the next one are still in wet_count ("past")
  excuse,      \* history: the VBUS part of the report may be wrong
  late, bad    \* history: the notifier came too early or too late; unusable
               \* memory touched

lifeVars == <<life, running, late, bad>>
portVars == <<port, vbus, due>>
routineVars == <<wet_count, rpc, rstate, revent, role, limit, streak>>
vbusVars == <<vqueued, vpc, vstate, vevent>>
reportVars == <<sw, stale, excuse>>
vars == <<lifeVars, portVars, npc, routineVars, vbusVars, reportVars>>

Init ==
  /\ life = "none" /\ running = FALSE
  /\ port = "dry" /\ vbus = FALSE /\ due = FALSE /\ npc = "idle"
  /\ sw = DRY /\ wet_count = 0
  /\ rpc = "off" /\ rstate = DRY /\ revent = DRY
  /\ vqueued = FALSE /\ vpc = "idle" /\ vstate = DRY /\ vevent = DRY
  /\ role = "default" /\ limit = "off"
  /\ streak = 0 /\ stale = "no" /\ excuse = FALSE
  /\ late = FALSE /\ bad = FALSE

-----------------------------------------------------------------------------
(* The surroundings: the port, the charger, the system, sysfs.             *)

(* Water comes and goes.                                                   *)
PortChanges(p) ==
  /\ ~bad /\ port # p
  /\ port' = p
  /\ UNCHANGED <<lifeVars, vbus, due, npc, routineVars, vbusVars, reportVars>>

(* threshod_l_store and threshod_h_store: the file exists.  Any threshold  *)
(* will do: what the measurements of an unchanged port mean is open until  *)
(* the thresholds, or the port, are right again.                           *)
ThresholdStore ==
  /\ ~bad /\ life \in {"registered", "published", "up", "cancel_routine",
                       "cancel_vbus", "flush_vbus", "free"}
  /\ port' = "noisy"
  /\ UNCHANGED <<lifeVars, vbus, due, npc, routineVars, vbusVars, reportVars>>

VbusChanges ==
  /\ ~bad
  /\ vbus' = ~vbus /\ due' = TRUE
  /\ UNCHANGED <<lifeVars, port, npc, routineVars, vbusVars, reportVars>>

SystemRunning ==
  /\ ~bad /\ ~running
  /\ running' = TRUE
  /\ UNCHANGED <<life, late, bad, portVars, npc, routineVars, vbusVars, reportVars>>

(* What the two measurements of an SBU pin can give, in mV; any pair.      *)
Step1Values ==
  CASE port = "dry" -> {<<0, ThresholdL - 1>>}
    [] port = "wet" -> {<<ThresholdL, 0>>, <<0, ADC_MAX_MV>>}
    [] port = "noisy" -> {EINVAL, ThresholdL, ADC_MAX_MV + 1} \X {EINVAL, 0}
Step2Values ==
  CASE port = "dry" -> {<<ThresholdH, ADC_MAX_MV>>}
    [] port = "wet" -> {<<ThresholdH - 1, ThresholdH>>}
    [] port = "noisy" -> {EINVAL, ThresholdH, ADC_MAX_MV + 1} \X {EINVAL, ThresholdH}

-----------------------------------------------------------------------------
(* liquid_vbus_changed, called by the charger's notifier.                  *)

Published == life \in {"published", "up", "cancel_routine", "cancel_vbus", "flush_vbus", "free", "freed"}
Freed == life \in {"freed", "gone"}

(* The notifier block is part of the structure that shutdown frees, and it *)
(* stays on the charger's chain.                                           *)
NotifyEnter ==
  /\ ~bad /\ due /\ npc = "idle"
  /\ due' = FALSE
  /\ npc' = IF Published THEN "queue" ELSE "idle"
  /\ late' = (late \/ Freed)
  /\ bad' = Freed
  /\ UNCHANGED <<life, running, port, vbus, routineVars, vbusVars, reportVars>>

(* cancel_delayed_work and queue_delayed_work.                             *)
NotifyQueue ==
  /\ ~bad /\ npc = "queue"
  /\ npc' = "idle"
  /\ vqueued' = (life # "flush_vbus")
  /\ late' = (late \/ life \notin {"up", "cancel_routine", "cancel_vbus", "flush_vbus"})
  /\ bad' = (Freed \/ life = "published")
  /\ UNCHANGED <<life, running, portVars, routineVars, vpc, vstate, vevent, reportVars>>

-----------------------------------------------------------------------------
(* liquid_probe and liquid_shutdown.                                       *)

SetLife(from, to) ==
  /\ ~bad /\ life = from /\ life' = to
  /\ UNCHANGED <<running, late, bad, portVars, npc, reportVars>>

(* Up to the registration of the notifier, then what can fail after it.    *)
ProbeRegister == SetLife("none", "registered") /\ UNCHANGED <<routineVars, vbusVars>>
ProbeFail == SetLife("registered", "none") /\ UNCHANGED <<routineVars, vbusVars>>
ProbePublish == SetLife("registered", "published") /\ UNCHANGED <<routineVars, vbusVars>>
ProbeQueue ==
  /\ SetLife("published", "up")
  /\ rpc' = "queued"
  /\ UNCHANGED <<wet_count, rstate, revent, role, limit, streak, vbusVars>>

Shutdown == SetLife("up", "cancel_routine") /\ UNCHANGED <<routineVars, vbusVars>>

(* cancel_delayed_work_sync takes the work off the queue and waits for it; *)
(* meanwhile the work cannot be queued.                                    *)
CancelRoutine ==
  /\ SetLife("cancel_routine", "cancel_vbus")
  /\ rpc \in {"off", "queued"} /\ rpc' = "off"
  /\ UNCHANGED <<wet_count, rstate, revent, role, limit, streak, vbusVars>>
CancelVbus ==
  /\ SetLife("cancel_vbus", "flush_vbus")
  /\ vqueued' = FALSE
  /\ UNCHANGED <<routineVars, vpc, vstate, vevent>>
FlushVbusNot == SetLife("flush_vbus", "free") /\ UNCHANGED <<routineVars, vbusVars>>
FlushVbus == SetLife("flush_vbus", "free") /\ vpc = "idle" /\ UNCHANGED <<routineVars, vbusVars>>
ShutdownFree == SetLife("free", "freed") /\ UNCHANGED <<routineVars, vbusVars>>
ShutdownClear == SetLife("freed", "gone") /\ UNCHANGED <<routineVars, vbusVars>>

ShutdownStep == CancelRoutine \/ CancelVbus \/ FlushVbus \/ ShutdownFree \/ ShutdownClear

-----------------------------------------------------------------------------
(* liquid_routine_work.  Work items run in a structure that shutdown frees. *)

InWork ==
  /\ ~bad /\ bad' = Freed
  /\ UNCHANGED <<life, running, late, portVars, npc>>

liquid_is_in_range(mv, range_l, range_h) == range_l <= mv /\ mv <= range_h
SeesLiquidSbu1(v) == liquid_is_in_range(v[1], ThresholdL, ADC_MAX_MV)
SeesLiquid(v) == \E k \in {1, 2} : liquid_is_in_range(v[k], ThresholdL, ADC_MAX_MV)
SeesOpen(v) == \A k \in {1, 2} : liquid_is_in_range(v[k], ThresholdH, ADC_MAX_MV)

RoutineStart ==
  /\ InWork /\ rpc = "queued"
  /\ rpc' = IF running THEN "step1" ELSE "requeue"
  /\ rstate' = IF running THEN sw ELSE rstate
  /\ UNCHANGED <<wet_count, revent, role, limit, streak, vbusVars, reportVars>>

(* debounce_report_event(STATE_DRY): a round that found nothing.           *)
NothingFoundKeep ==
  /\ rpc' = "requeue"
  /\ wet_count' = wet_count
  /\ streak' = 0
  /\ UNCHANGED stale
NothingFound ==
  /\ rpc' = "requeue"
  /\ wet_count' = IF wet_count < WetCountThreshold THEN 0 ELSE wet_count
  /\ streak' = 0
  /\ stale' = IF stale = "past" /\ wet_count' = 0 THEN "no" ELSE stale

(* debounce_report_event(STATE_DRY_TO_WET).                                *)
LiquidFoundAfter ==
  /\ streak' = IF streak < WetCountThreshold THEN streak + 1 ELSE streak
  /\ UNCHANGED stale
  /\ IF wet_count >= WetCountThreshold
     THEN wet_count' = 0 /\ rpc' = "wet"
     ELSE wet_count' = wet_count + 1 /\ rpc' = "requeue"
LiquidFound ==
  /\ streak' = IF streak < WetCountThreshold THEN streak + 1 ELSE streak
  /\ UNCHANGED stale
  /\ IF wet_count + 1 >= WetCountThreshold
     THEN wet_count' = 0 /\ rpc' = "wet"
     ELSE wet_count' = wet_count + 1 /\ rpc' = "requeue"

RoutineStep1 ==
  /\ InWork /\ rpc = "step1"
  /\ \E v \in Step1Values :
       \/ /\ rstate = DRY /\ SeesLiquid(v)
          /\ rpc' = "again" /\ UNCHANGED <<wet_count, streak, stale>>
       \/ rstate = DRY /\ ~SeesLiquid(v) /\ NothingFound
       \/ /\ rstate # DRY
          /\ rpc' = IF SeesLiquid(v) THEN "requeue" ELSE "step2"
          /\ UNCHANGED <<wet_count, streak, stale>>
  /\ rstate' = DRY
  /\ UNCHANGED <<revent, role, limit, vbusVars, sw, excuse>>

(* The second look after DETECT_TWICE_MS.                                  *)
RoutineAgain ==
  /\ InWork /\ rpc = "again"
  /\ \E v \in Step1Values : IF SeesLiquid(v) THEN LiquidFound ELSE NothingFound
  /\ UNCHANGED <<rstate, revent, role, limit, vbusVars, sw, excuse>>

RoutineStep2 ==
  /\ InWork /\ rpc = "step2"
  /\ \E v \in Step2Values : rpc' = IF SeesOpen(v) THEN "dry_get" ELSE "requeue"
  /\ UNCHANGED <<wet_count, rstate, revent, role, limit, streak, vbusVars, reportVars>>

(* tcpm_typec_change_role and liquid_limit_charging_current: nobody looks  *)
(* at what they return.                                                    *)
ChangeRole(r) == role' = r \/ ("role" \in MayFail /\ role' = "unknown")
LimitCurrent(on) == limit' = on \/ ("limit" \in MayFail /\ limit' = "unknown")
(* liquid_check_vbus_valid: a voltage that cannot be read counts as none.  *)
VbusReadings == {vbus} \cup (IF "voltage" \in MayFail THEN {FALSE} ELSE {})

(* liquid_is_wet.                                                          *)
WetProtect ==
  /\ InWork /\ rpc = "wet"
  /\ ChangeRole("SNK") /\ LimitCurrent("on") /\ rpc' = "wet_vbus"
  /\ UNCHANGED <<wet_count, rstate, revent, streak, vbusVars, reportVars>>
WetVbus ==
  /\ InWork /\ rpc = "wet_vbus"
  /\ \E valid \in VbusReadings :
       /\ revent' = IF valid THEN WET_VBUS ELSE WET
       /\ excuse' = (excuse \/ valid # vbus)
  /\ rpc' = "wet_get"
  /\ UNCHANGED <<wet_count, rstate, role, limit, streak, vbusVars, sw, stale>>

(* liquid_report_event: the state is read, compared and, later, written.   *)
WetGet ==
  /\ InWork /\ rpc = "wet_get"
  /\ IF sw = revent
     THEN rpc' = "requeue" /\ revent' = DRY /\ stale' = "no"
     ELSE rpc' = "wet_set" /\ UNCHANGED <<revent, stale>>
  /\ UNCHANGED <<wet_count, rstate, role, limit, streak, vbusVars, sw, excuse>>
WetSet ==
  /\ InWork /\ rpc = "wet_set"
  /\ sw' = revent /\ revent' = DRY /\ rpc' = "requeue" /\ stale' = "no"
  /\ UNCHANGED <<wet_count, rstate, role, limit, streak, vbusVars, excuse>>

(* liquid_is_dry.                                                          *)
DryGet ==
  /\ InWork /\ rpc = "dry_get"
  /\ rpc' = IF sw = DRY THEN "dry_release" ELSE "dry_set"
  /\ UNCHANGED <<wet_count, rstate, revent, role, limit, streak, vbusVars, reportVars>>
DrySet ==
  /\ InWork /\ rpc = "dry_set"
  /\ sw' = DRY /\ rpc' = "dry_release" /\ streak' = 0
  /\ stale' = IF stale # "no" /\ wet_count # 0 THEN "past" ELSE "no"
  /\ excuse' = (excuse /\ vpc # "idle")
  /\ UNCHANGED <<wet_count, rstate, revent, role, limit, vbusVars>>
DryReleaseOn ==
  /\ InWork /\ rpc = "dry_release"
  /\ ChangeRole("TRY_SNK") /\ LimitCurrent("on") /\ rpc' = "requeue"
  /\ UNCHANGED <<wet_count, rstate, revent, streak, vbusVars, reportVars>>
DryRelease ==
  /\ InWork /\ rpc = "dry_release"
  /\ ChangeRole("TRY_SNK") /\ LimitCurrent("off") /\ rpc' = "requeue"
  /\ UNCHANGED <<wet_count, rstate, revent, streak, vbusVars, reportVars>>

(* queue_delayed_work, refused while the work is being cancelled.          *)
RoutineRequeueNever ==
  /\ InWork /\ rpc = "requeue"
  /\ rpc' = IF life = "up" /\ sw = DRY THEN "queued" ELSE "off"
  /\ UNCHANGED <<wet_count, rstate, revent, role, limit, streak, vbusVars, reportVars>>
RoutineRequeueAlways ==
  /\ InWork /\ rpc = "requeue"
  /\ rpc' = "queued"
  /\ UNCHANGED <<wet_count, rstate, revent, role, limit, streak, vbusVars, reportVars>>
RoutineRequeue ==
  /\ InWork /\ rpc = "requeue"
  /\ rpc' = IF life = "up" THEN "queued" ELSE "off"
  /\ UNCHANGED <<wet_count, rstate, revent, role, limit, streak, vbusVars, reportVars>>

RoutineStep ==
  \/ RoutineStart \/ RoutineStep1 \/ RoutineAgain \/ RoutineStep2 \/ RoutineRequeue
  \/ WetProtect \/ WetVbus \/ WetGet \/ WetSet
  \/ DryGet \/ DrySet \/ DryRelease

-----------------------------------------------------------------------------
(* liquid_vbus_detect.                                                     *)

VbusStart ==
  /\ InWork /\ vqueued /\ vpc = "idle"
  /\ vqueued' = FALSE /\ vpc' = "check" /\ vstate' = sw
  /\ excuse' = (excuse \/ rpc \in {"wet_get", "wet_set"})
  /\ UNCHANGED <<routineVars, vevent, sw, stale>>

VbusDone == vpc' = "idle" /\ vstate' = DRY /\ vevent' = DRY

VbusCheckPlug ==
  /\ InWork /\ vpc = "check"
  /\ \E valid \in VbusReadings :
       /\ IF vstate = WET /\ valid
          THEN vpc' = "get" /\ vevent' = WET_VBUS /\ UNCHANGED vstate
          ELSE VbusDone
       /\ excuse' = (excuse \/ valid # vbus)
  /\ UNCHANGED <<routineVars, vqueued, sw, stale>>
VbusCheck ==
  /\ InWork /\ vpc = "check"
  /\ \E valid \in VbusReadings :
       /\ \/ /\ vstate = WET /\ valid
             /\ vpc' = "get" /\ vevent' = WET_VBUS /\ UNCHANGED vstate
          \/ /\ vstate = WET_VBUS /\ ~valid
             /\ vpc' = "get" /\ vevent' = WET /\ UNCHANGED vstate
          \/ /\ vstate # (IF valid THEN WET ELSE WET_VBUS)
             /\ VbusDone
       /\ excuse' = (excuse \/ valid # vbus)
  /\ UNCHANGED <<routineVars, vqueued, sw, stale>>

VbusGet ==
  /\ InWork /\ vpc = "get"
  /\ IF sw = vevent THEN VbusDone ELSE vpc' = "set" /\ UNCHANGED <<vstate, vevent>>
  /\ UNCHANGED <<routineVars, vqueued, reportVars>>

VbusSet ==
  /\ InWork /\ vpc = "set"
  /\ sw' = vevent
  /\ stale' = IF sw = DRY THEN "now" ELSE stale
  /\ excuse' = (excuse \/ sw # vstate)
  /\ VbusDone
  /\ UNCHANGED <<routineVars, vqueued>>

VbusStep == VbusStart \/ VbusCheck \/ VbusGet \/ VbusSet

(* After unusable memory has been touched anything may happen; we stop.    *)
Oops == bad /\ UNCHANGED vars

Next ==
  \/ \E p \in {"dry", "wet", "noisy"} : PortChanges(p)
  \/ ThresholdStore
  \/ VbusChanges \/ SystemRunning
  \/ NotifyEnter \/ NotifyQueue
  \/ ProbeRegister \/ ProbeFail \/ ProbePublish \/ ProbeQueue
  \/ Shutdown \/ ShutdownStep
  \/ RoutineStep \/ VbusStep
  \/ Oops

Spec == Init /\ [][Next]_vars

(***************************************************************************)
(* Work items that are queued run and go on, the notifier does too, and a  *)
(* shutdown that has begun goes on.  Nothing makes the port or VBUS change.*)
(***************************************************************************)
FairSpec ==
  /\ Spec
  /\ WF_vars(RoutineStep) /\ WF_vars(VbusStep)
  /\ WF_vars(NotifyEnter \/ NotifyQueue) /\ WF_vars(ShutdownStep)

-----------------------------------------------------------------------------
RoutineLabels ==
  {"off", "queued", "step1", "again", "step2", "requeue", "wet", "wet_vbus",
   "wet_get", "wet_set", "dry_get", "dry_set", "dry_release"}
Lives ==
  {"none", "registered", "published", "up",
   "cancel_routine", "cancel_vbus", "flush_vbus", "free", "freed", "gone"}
Reports == {DRY, WET, WET_VBUS}

(* wet_count never reaches its threshold.                                  *)
TypeOK ==
  /\ life \in Lives /\ npc \in {"idle", "queue"}
  /\ port \in {"dry", "wet", "noisy"}
  /\ running \in BOOLEAN /\ vbus \in BOOLEAN /\ due \in BOOLEAN
  /\ sw \in Reports /\ rstate \in Reports /\ revent \in Reports
  /\ vstate \in Reports /\ vevent \in Reports
  /\ wet_count \in 0..(WetCountThreshold - 1)
  /\ rpc \in RoutineLabels /\ vpc \in {"idle", "check", "get", "set"}
  /\ vqueued \in BOOLEAN
  /\ role \in {"default", "SNK", "TRY_SNK", "unknown"}
  /\ limit \in {"on", "off", "unknown"}
  /\ streak \in 0..WetCountThreshold
  /\ stale \in {"no", "now", "past"}
  /\ excuse \in BOOLEAN /\ late \in BOOLEAN /\ bad \in BOOLEAN

(***************************************************************************)
(* Outside liquid_is_wet and liquid_is_dry, a port reported wet is a sink  *)
(* with its current limited, and a port reported dry is neither, as far as *)
(* the calls succeeded: unless the VBUS work has just written over a dry   *)
(* report that came after it had read the state.                           *)
(***************************************************************************)
Switching ==
  {"wet", "wet_vbus", "wet_get", "wet_set", "dry_release"}
ProtectedWhenWet ==
  rpc \notin Switching /\ stale # "now" =>
    /\ role # "unknown" => (sw # DRY <=> role = "SNK")
    /\ limit # "unknown" => (sw # DRY <=> limit = "on")

(***************************************************************************)
(* A port is reported wet only after wet_count_threshold rounds in a row   *)
(* since the last dry report that all found liquid twice.  There are two   *)
(* exceptions: the report of a VBUS work that had read the state before    *)
(* the port was reported dry; and, after it, the next report of the        *)
(* routine work, if that report was withdrawn while wet_count held rounds  *)
(* of before it and no round has found nothing since.                      *)
(***************************************************************************)
Debounced ==
  [][sw = DRY /\ sw' # DRY /\ stale = "no" /\ stale' = "no"
       => streak = WetCountThreshold]_vars

(***************************************************************************)
(* When no work is queued or running and the charger has nothing to tell,  *)
(* a wet report says whether VBUS is there, however VBUS changed while the *)
(* reports were made: unless the voltage could not be read, the VBUS work  *)
(* ran between the check and the report of liquid_is_wet, or it wrote over *)
(* a newer report.                                                         *)
(***************************************************************************)
Quiet == life = "up" /\ rpc = "queued" /\ vpc = "idle" /\ ~vqueued /\ ~due /\ npc = "idle"
VbusAgrees == Quiet /\ sw # DRY /\ ~excuse => (sw = WET_VBUS <=> vbus)

(***************************************************************************)
(* The two work items, however they queue themselves and are queued, never *)
(* run in freed memory and are not queued before they are set up, as long  *)
(* as the charger's notifier keeps away from two periods: from g_liquid to *)
(* the initialisation of the works in liquid_probe, and for ever from the  *)
(* last cancellation in liquid_shutdown, which leaves the notifier block   *)
(* registered in the structure it frees.                                   *)
(***************************************************************************)
UsableMemory == bad => late

(* A port that stays wet is reported wet and stays so.                     *)
Steady == life = "up" /\ running
WetReported == <>[](Steady /\ port = "wet") => <>[](sw # DRY)

(* A port that stays dry is reported dry again and again, whatever the     *)
(* VBUS work reports meanwhile; for good, once VBUS is stable.             *)
DryReported ==
  /\ <>[](Steady /\ port = "dry") => []<>(sw = DRY)
  /\ <>[](Steady /\ port = "dry" /\ ~due) => <>[](sw = DRY)

(* liquid_shutdown, which waits for both work items, ends.                 *)
ShutdownEnds == (life = "cancel_routine") ~> (life = "gone" \/ bad)
=============================================================================
