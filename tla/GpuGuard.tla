------------------------------ MODULE GpuGuard ------------------------------
(***************************************************************************)
(* What class Scheduler (gpuq/scheduler.py) remembers to decide whether    *)
(* the NVIDIA stack may be queried and whether a job may be admitted:      *)
(* telemetry health and its backoff, the fatal-fault latch, the workload   *)
(* reboot boundary, the post-job transition gate with its no-touch window, *)
(* and the three files under .runtime that make them survive the daemon.   *)
(* Operators are methods: they change this state and nothing else; module  *)
(* Scheduler calls them from the loop thread and the HTTP threads.         *)
(*                                                                         *)
(* Deadlines are kept as the ticks left until they pass.  A file write is  *)
(* write_fault_state: a temporary file renamed over the old one, so either *)
(* the new value is there (written = TRUE) or the old one and an OSError   *)
(* is raised (written = FALSE).                                            *)
(***************************************************************************)
EXTENDS Integers

CONSTANTS
  MaxBoots,         \* Windows boots 1..MaxBoots are explored
  NoTouch,          \* post_job_no_touch_seconds
  HighNoTouch,      \* post_high_load_no_touch_seconds
  ProbeInterval,    \* post_high_load_probe_interval_seconds
  ActiveInterval,   \* active_gpu_probe_interval_seconds
  Pause,            \* post_job_cooldown_seconds
  Backoff1, Backoff2, Backoff3,   \* delays after a failed query (5, 15, 60)
  RecoverySamples,  \* gpu_health_recovery_samples
  StableSamples,    \* post_high_load_stable_samples
  StableScans,      \* post_high_load_process_stable_scans
  Forever           \* float("inf"): a deadline that never passes

ASSUME GuardAssumption ==
  /\ MaxBoots \in Nat \ {0} /\ RecoverySamples \in Nat \ {0}
  /\ StableSamples \in Nat \ {0} /\ StableScans \in Nat \ {0}
  /\ Forever \in Nat \ {0}
  /\ NoTouch \in 0..(Forever - 1) /\ HighNoTouch \in 0..(Forever - 1)
  /\ ProbeInterval \in 0..(Forever - 1) /\ ActiveInterval \in 0..(Forever - 1)
  /\ Pause \in 0..(Forever - 1) /\ Backoff1 \in 0..(Forever - 1)
  /\ Backoff2 \in 0..(Forever - 1) /\ Backoff3 \in 0..(Forever - 1)

VARIABLES
  boot,          \* windows_boot_epoch(): which boot this is
  faultFile,     \* gpu-fault-state.json: latched for which boot, or cleared
  boundaryFile,  \* gpu-workload-reboot-boundary.json: boot armed, 0 if none
  gateFile,      \* gpu-transition-state.json: active for which boot, ticks left
  healthy,       \* gpu_healthy
  fault,         \* gpu_fault_status
  persisted,     \* persisted_fault["windows_boot_epoch"], 0 for None
  wins,          \* gpu_health_recovery_successes
  backoff,       \* transient_failure_backoff_index + 1
  boundary,      \* workload_reboot_boundary is not None
  gate,          \* high_load_transition_gate
  noTouch,       \* no_touch_until_monotonic
  nextProbe,     \* next_gpu_probe_monotonic
  admit          \* admission_not_before_monotonic

files     == <<faultFile, boundaryFile, gateFile>>
health    == <<healthy, fault, persisted, wins, backoff>>
deadlines == <<noTouch, nextProbe, admit>>
guardVars == <<boot, files, health, boundary, gate, deadlines>>

Boots   == 1..MaxBoots
Ticks   == 0..Forever
Latched == {"reboot_required", "rearm_required"}
\* "unprobed" also stands for "starting": no code tells the two apart.
FaultStatuses == Latched \cup {"unprobed", "healthy", "transient_failure"}

Gate(left, samples, scans) ==
  [on |-> TRUE, left |-> left, samples |-> samples, scans |-> scans]
NoGate == [on |-> FALSE, left |-> 0, samples |-> 0, scans |-> 0]

Later(a, b)   == IF a < b THEN b ELSE a
Sooner(a, b)  == IF a < b THEN a ELSE b
MutantBackoffDelay == Forever

BackoffDelay  == IF backoff = 1 THEN Backoff1
                 ELSE IF backoff = 2 THEN Backoff2 ELSE Backoff3

FilesTypeOK ==
  /\ boot \in Boots
  /\ faultFile \in [latched : BOOLEAN, boot : 0..MaxBoots]
  /\ boundaryFile \in 0..MaxBoots
  /\ gateFile \in [boot : 0..MaxBoots, left : Ticks]

FlagTypeOK == healthy \in BOOLEAN /\ boundary \in BOOLEAN

HealthTypeOK ==
  /\ fault \in FaultStatuses
  /\ persisted \in 0..MaxBoots
  /\ wins \in 0..RecoverySamples
  /\ backoff \in 1..3

GateTypeOK ==
  gate \in [on : BOOLEAN, left : Ticks, samples : 0..StableSamples, scans : 0..StableScans]

DeadlineTypeOK == noTouch \in Ticks /\ nextProbe \in Ticks /\ admit \in Ticks

GuardTypeOK ==
  FilesTypeOK /\ FlagTypeOK /\ HealthTypeOK /\ GateTypeOK /\ DeadlineTypeOK

-----------------------------------------------------------------------------
(* Start of a daemon, crash, reboot, time.                                 *)

GuardInit ==
  /\ boot = 1
  /\ faultFile = [latched |-> FALSE, boot |-> 0]
  /\ boundaryFile = 0
  /\ gateFile = [boot |-> 0, left |-> 0]
  /\ healthy = FALSE /\ fault = "unprobed" /\ persisted = 0
  /\ wins = 0 /\ backoff = 1 /\ boundary = FALSE /\ gate = NoGate
  /\ noTouch = 0 /\ nextProbe = 0 /\ admit = 0

\* The process is gone and its memory with it.
Forget ==
  /\ healthy' = FALSE /\ fault' = "unprobed" /\ persisted' = 0
  /\ wins' = 0 /\ backoff' = 1 /\ boundary' = FALSE /\ gate' = NoGate
  /\ noTouch' = 0 /\ nextProbe' = 0 /\ admit' = 0

\* __init__: each file counts only if it was written in the boot running now,
\* except that a fatal fault of an older boot still asks for a manual rearm.
\* (Operators called Mutant... are faulty variants of the definition after them,
\* see README.md.)
MutantRestoredFault ==
  IF faultFile.latched /\ faultFile.boot = boot THEN "reboot_required" ELSE "unprobed"

RestoredFault == IF ~faultFile.latched THEN "unprobed"
                 ELSE IF faultFile.boot = boot THEN "reboot_required" ELSE "rearm_required"

MutantRestoredBoundary == FALSE

RestoredBoundary == boundaryFile = boot

MutantRestoredGate == NoGate

RestoredGate == IF gateFile.boot = boot THEN Gate(gateFile.left, 0, 0) ELSE NoGate

MutantRestoredWindow == 0

RestoredWindow == IF gateFile.boot = boot THEN gateFile.left ELSE 0

\* The files of __init__.
FileNames == {"fault", "boundary", "gate"}

\* read_fault_state takes a file it cannot read or parse for one that does not
\* exist; read is the set of files it can.
Reload(read) ==
  LET window == IF "gate" \in read THEN RestoredWindow ELSE 0 IN
  /\ persisted' = IF "fault" \in read THEN faultFile.boot ELSE 0
  /\ fault' = IF "fault" \in read THEN RestoredFault ELSE "unprobed"
  /\ boundary' = ("boundary" \in read /\ RestoredBoundary)
  /\ gate' = IF "gate" \in read THEN RestoredGate ELSE NoGate
  /\ noTouch' = window /\ nextProbe' = window /\ admit' = window
  /\ healthy' = FALSE /\ wins' = 0 /\ backoff' = 1
  /\ UNCHANGED <<boot, files>>

GuardReboot ==
  /\ boot < MaxBoots
  /\ boot' = boot + 1
  /\ Forget
  /\ UNCHANGED files

Less(t) == IF t \in {0, Forever} THEN t ELSE t - 1

GuardTick ==
  /\ gateFile' = [boot |-> gateFile.boot, left |-> Less(gateFile.left)]
  /\ gate' = [on |-> gate.on, left |-> Less(gate.left),
              samples |-> gate.samples, scans |-> gate.scans]
  /\ noTouch' = Less(noTouch) /\ nextProbe' = Less(nextProbe) /\ admit' = Less(admit)
  /\ UNCHANGED <<boot, faultFile, boundaryFile, health, boundary>>

-----------------------------------------------------------------------------
(* Telemetry circuit breaker.                                              *)

\* _gpu_probe_block_reason, with telemetry enabled.
ProbeBlocked == fault \in Latched \/ boundary \/ noTouch > 0 \/ nextProbe > 0

MutantRecordGpuFailure(fatal, written) ==   \* the file first
  /\ healthy' = FALSE /\ wins' = 0
  /\ fault' = IF fatal /\ written THEN "reboot_required" ELSE "transient_failure"
  /\ gate' = IF gate.on THEN Gate(gate.left, 0, 0) ELSE gate
  /\ faultFile' = IF fatal /\ written THEN [latched |-> TRUE, boot |-> boot] ELSE faultFile
  /\ persisted' = IF fatal /\ written THEN boot ELSE persisted
  /\ nextProbe' = IF fatal THEN (IF written THEN Forever ELSE nextProbe) ELSE BackoffDelay
  /\ backoff' = IF fatal THEN backoff ELSE Sooner(backoff + 1, 3)
  /\ UNCHANGED <<boot, boundaryFile, gateFile, boundary, noTouch, admit>>

\* _record_gpu_failure.  The latch is in memory before it is on disk; when the
\* write raises, the statements after it do not run.
RecordGpuFailure(fatal, written) ==
  /\ healthy' = FALSE /\ wins' = 0
  /\ fault' = IF fatal THEN "reboot_required" ELSE "transient_failure"
  /\ gate' = IF gate.on THEN Gate(gate.left, 0, 0) ELSE gate
  /\ IF fatal
     THEN /\ faultFile' = IF written THEN [latched |-> TRUE, boot |-> boot]
                          ELSE faultFile
          /\ persisted' = IF written THEN boot ELSE persisted
          /\ nextProbe' = IF written THEN Forever ELSE nextProbe
          /\ UNCHANGED backoff
     ELSE /\ nextProbe' = BackoffDelay
          /\ backoff' = Sooner(backoff + 1, 3)
          /\ UNCHANGED <<faultFile, persisted>>
  /\ UNCHANGED <<boot, boundaryFile, gateFile, boundary, noTouch, admit>>

\* The sample that makes _record_gpu_success return True.
Recovers == ~healthy /\ wins + 1 >= RecoverySamples

MutantRecordGpuSuccess ==
  /\ healthy' = (healthy \/ Recovers)
  /\ fault' = IF Recovers THEN "healthy" ELSE fault
  /\ backoff' = IF Recovers THEN 1 ELSE backoff
  /\ wins' = IF Recovers THEN 0 ELSE wins + 1
  /\ UNCHANGED <<boot, files, persisted, boundary, gate, deadlines>>

\* _record_gpu_success.
RecordGpuSuccess ==
  /\ healthy' = (healthy \/ Recovers)
  /\ fault' = IF Recovers THEN "healthy" ELSE fault
  /\ backoff' = IF Recovers THEN 1 ELSE backoff
  /\ wins' = IF healthy THEN wins ELSE IF Recovers THEN 0 ELSE wins + 1
  /\ UNCHANGED <<boot, files, persisted, boundary, gate, deadlines>>

\* The success branch of start() with probe_gpu_on_startup.
StartHealthy ==
  /\ healthy' = TRUE /\ fault' = "healthy"
  /\ UNCHANGED <<boot, files, persisted, wins, backoff, boundary, gate, deadlines>>

MutantMayRearm == fault \in Latched

\* rearm_gpu up to its query: refused unless latched by another boot.
MayRearm == fault \in Latched /\ persisted # boot

\* rearm_gpu after its query succeeded; a failed write raises before memory
\* changes.
CommitRearm ==
  /\ faultFile' = [latched |-> FALSE, boot |-> boot]
  /\ persisted' = boot
  /\ healthy' = TRUE /\ fault' = "healthy" /\ wins' = 0 /\ nextProbe' = 0
  /\ UNCHANGED <<boot, boundaryFile, gateFile, backoff, boundary, gate, noTouch, admit>>

-----------------------------------------------------------------------------
(* Workload reboot boundary.                                               *)

\* _arm_workload_reboot_boundary: memory first, then the file.
ArmBoundary(written) ==
  /\ boundary' = TRUE /\ nextProbe' = Forever
  /\ boundaryFile' = IF written THEN boot ELSE boundaryFile
  /\ UNCHANGED <<boot, faultFile, gateFile, health, gate, noTouch, admit>>

\* _arm_workload_boundary_before_launch: the file alone ("armed").
ArmBoundaryBeforeLaunch ==
  /\ boundaryFile' = boot
  /\ UNCHANGED <<boot, faultFile, gateFile, health, boundary, gate, deadlines>>

\* _clear_unlaunched_workload_boundary and, when its write raises, the handler
\* in _launch that blocks the current daemon instead.
ClearUnlaunchedBoundary(written) ==
  /\ boundaryFile' = IF written THEN 0 ELSE boundaryFile
  /\ boundary' = (boundary \/ ~written)
  /\ nextProbe' = IF written THEN nextProbe ELSE Forever
  /\ UNCHANGED <<boot, faultFile, gateFile, health, gate, noTouch, admit>>

-----------------------------------------------------------------------------
(* Transition gate.                                                        *)

MutantArmTransitionGate(period, written) ==
  /\ gate' = Gate(Later(period, gate.left), 0, 0)
  /\ gateFile' = IF written THEN [boot |-> boot, left |-> Later(period, gate.left)] ELSE gateFile
  /\ UNCHANGED <<boot, faultFile, boundaryFile, health, boundary, deadlines>>

\* _arm_high_load_transition_gate: a second terminal job extends the window
\* and starts the evidence over.
ArmTransitionGate(period, written) ==
  LET left == Later(period, gate.left) IN
  /\ gate' = Gate(left, 0, 0)
  /\ noTouch' = Later(noTouch, left)
  /\ nextProbe' = Later(nextProbe, left)
  /\ admit' = Later(admit, left)
  /\ gateFile' = IF written THEN [boot |-> boot, left |-> left] ELSE gateFile
  /\ UNCHANGED <<boot, faultFile, boundaryFile, health, boundary>>

\* Consecutive process censuses with the same signature, after this one.
ScansWith(census) ==
  IF census = "same" THEN Sooner(gate.scans + 1, StableScans) ELSE 1

SamplesWith(idle) == IF idle THEN Sooner(gate.samples + 1, StableSamples) ELSE 0

\* _evaluate_high_load_transition_gate returns True: no gate, or evidence
\* complete with this sample (idle: VRAM and utilization below their limits).
GatePasses(idle, census) ==
  gate.on => /\ gate.left = 0 /\ census # "error" /\ idle
             /\ SamplesWith(idle) >= StableSamples
             /\ ScansWith(census) >= StableScans

\* ... and returns False: the loop probes again after ProbeInterval.
HoldGate(idle, census) ==
  /\ gate' = IF gate.left > 0 \/ census = "error" THEN Gate(gate.left, 0, 0)
             ELSE Gate(gate.left, SamplesWith(idle), ScansWith(census))
  /\ nextProbe' = ProbeInterval
  /\ UNCHANGED <<boot, files, health, boundary, noTouch, admit>>

\* ... and returns True: the gate and the windows it set are dropped, and the
\* loop clears its probe deadline and pauses admission after a recovery.
PassGate(recovered) ==
  LET floor == IF gate.on THEN 0 ELSE admit IN
  /\ gate' = NoGate
  /\ noTouch' = IF gate.on THEN 0 ELSE noTouch
  /\ admit' = IF recovered THEN Later(floor, Pause) ELSE floor
  /\ nextProbe' = 0
  /\ gateFile' = IF gate.on THEN [boot |-> 0, left |-> 0] ELSE gateFile
  /\ UNCHANGED <<boot, faultFile, boundaryFile, health, boundary>>

\* ... or raises from its write: memory is cleared, the file still says active.
PassGateUnwritten ==
  /\ gate.on
  /\ gate' = NoGate /\ noTouch' = 0 /\ admit' = 0
  /\ UNCHANGED <<boot, files, health, boundary, nextProbe>>

\* The loop after an unhealthy sample: five seconds to the next one, but only
\* in a transient failure.
KeepRecovering ==
  /\ nextProbe' = IF fault = "transient_failure" THEN Backoff1 ELSE nextProbe
  /\ UNCHANGED <<boot, files, health, boundary, gate, noTouch, admit>>

\* The loop after _schedule_once returned.
AfterSchedule(busy) ==
  /\ nextProbe' = IF busy THEN ActiveInterval ELSE nextProbe
  /\ UNCHANGED <<boot, files, health, boundary, gate, noTouch, admit>>
=============================================================================
