------------------------------- MODULE Handoff --------------------------------
(***************************************************************************)
(* The handoff from one job to the next in the detail GpuGuard leaves out: *)
(* what a telemetry sample and a process census of the card say, which of  *)
(* them _evaluate_high_load_transition_gate compares with which, and what  *)
(* is left of them when a query fails or the daemon is restarted.  The     *)
(* card is shared with programs that come and go as they like and with     *)
(* workers that outlive the job that started them.                         *)
(*                                                                         *)
(* GuardImplemented shows that GpuGuard, which Scheduler and the proofs    *)
(* rest on, abstracts this correctly.  The daemon keeps one boot, neither  *)
(* a fatal fault nor a reboot boundary is met, every file write succeeds:  *)
(* those are Scheduler's.  Every job is chosen at most once and any queued *)
(* job may be chosen: the order is Policy's.                               *)
(***************************************************************************)
EXTENDS Integers, FiniteSets

CONSTANTS
  Jobs, WslJobs,     \* managed jobs; those started through wsl.exe
  Tenants,           \* other processes that use the card, each at most once
  Conflicting,       \* processes called comfyui or python.exe
  Used,              \* Used[S]: memory.used while the processes S are on the card
  Tolerance,         \* post_high_load_vram_tolerance_mb
  MaxParallel,       \* max_parallel_jobs
  ScanInterval,      \* process_scan_interval_seconds
  MaxMishaps,        \* failed queries, busy samples and crashes explored
  NoTouch, ProbeInterval, ActiveInterval, Pause, Backoff1, Backoff2, Backoff3,
  RecoverySamples, StableSamples, StableScans, Forever   \* as in GpuGuard

ASSUME HandoffAssumption ==
  /\ WslJobs \subseteq Jobs /\ Conflicting \subseteq (Jobs \cup Tenants)
  /\ IsFiniteSet(Jobs) /\ Jobs \cap Tenants = {}
  /\ Used \in [SUBSET (Jobs \cup Tenants) -> Nat]
  /\ {Tolerance, MaxMishaps} \subseteq Nat
  /\ {MaxParallel, ScanInterval, RecoverySamples, StableSamples, StableScans, Forever}
       \subseteq Nat \ {0}
  /\ {NoTouch, ProbeInterval, ActiveInterval, Pause, Backoff1, Backoff2, Backoff3}
       \subseteq 0..(Forever - 1)

VARIABLES
  card,       \* processes on the card, seen by nvidia-smi
  came,       \* history: those that ever were
  age,        \* history: age[c], ticks since c, a conflicting one, came, up to ScanInterval
  settled,    \* history: those that had been there that long at the last census decision
  running,    \* keys of self.running
  exited,     \* those whose process has exited
  base,       \* base[j]: baseline_used_mb of its record
  floor,      \* history: base of the jobs that ended since the last handoff
  healthy, fault, wins, backoff, noTouch, nextProbe, admit, gateFile,  \* as in GpuGuard
  gate,       \* high_load_transition_gate with its baseline and signature
  fileBase,   \* baseline_used_mb in gpu-transition-state.json
  baseline,   \* baseline_used_mb of the scheduler
  procs,      \* gpu_processes
  verdict,    \* history: the last census against the one before it
  scanError,  \* process_scan_error is not None
  scanAge,    \* ticks since last_process_scan_monotonic, up to ScanInterval
  newer,      \* gpu_process_scan_generation > gate.last_process_generation
  pc,         \* where the loop is
  sample,     \* used_mb and utilization of this pass, and whether it ended a failure
  mishaps

world    == <<card, came, age, settled>>
records  == <<running, exited, base, floor>>
health   == <<healthy, fault, wins, backoff>>
times    == <<noTouch, nextProbe, admit>>
census   == <<procs, verdict, scanError, scanAge, newer>>
handoffVars == <<world, records, health, times, gateFile, gate, fileBase, baseline,
                 census, pc, sample, mishaps>>

NoEvidence == [samples |-> 0, scans |-> 0, signature |-> {}]
NoGate == [on |-> FALSE, left |-> 0, base |-> 0, evidence |-> NoEvidence]
NoSample == [used |-> 0, quiet |-> TRUE, recovered |-> FALSE]

\* What GpuGuard sees of this module.
Guard == INSTANCE GpuGuard WITH
  MaxBoots <- 1, HighNoTouch <- NoTouch, boot <- 1, persisted <- 0, boundary <- FALSE,
  faultFile <- [latched |-> FALSE, boot |-> 0], boundaryFile <- 0,
  gate <- [on |-> gate.on, left |-> gate.left,
           samples |-> gate.evidence.samples, scans |-> gate.evidence.scans]

Processes == Jobs \cup Tenants
Amounts   == {Used[S] : S \in SUBSET Processes} \cup {0}
Alive     == running \ exited

HandoffTypeOK ==
  /\ card \in SUBSET came /\ came \in SUBSET Processes
  /\ Alive \subseteq card /\ exited \in SUBSET running /\ running \in SUBSET (Jobs \cap came)
  /\ Cardinality(running) <= MaxParallel
  /\ age \in [Processes -> 0..ScanInterval] /\ settled \in SUBSET came
  /\ base \in [Jobs -> Amounts] /\ \A j \in Jobs \ running : base[j] = 0
  /\ floor \in SUBSET Amounts /\ (floor # {} => gate.on \/ pc = "down")
  /\ gate \in [on : BOOLEAN, left : Guard!Ticks, base : Amounts,
               evidence : [samples : 0..StableSamples, scans : 0..StableScans,
                           signature : SUBSET Processes]]
  /\ Guard!GuardTypeOK
  /\ (gate.on => noTouch >= gate.left)      \* the window covers the gate's
  /\ fileBase \in Amounts /\ baseline \in Amounts
  /\ procs \in SUBSET Processes /\ verdict \in {"same", "changed"}
  /\ scanError \in BOOLEAN /\ newer \in BOOLEAN /\ scanAge \in 0..ScanInterval
  /\ pc \in {"down", "wait", "sampled", "evaluate", "select"}
  /\ sample \in [used : Amounts, quiet : BOOLEAN, recovered : BOOLEAN]
  /\ mishaps \in 0..MaxMishaps

HandoffInit ==
  /\ card = {} /\ came = {} /\ age = [p \in Processes |-> 0] /\ settled = {}
  /\ running = {} /\ exited = {} /\ base = [j \in Jobs |-> 0] /\ floor = {}
  /\ healthy = FALSE /\ fault = "unprobed" /\ wins = 0 /\ backoff = 1
  /\ noTouch = 0 /\ nextProbe = 0 /\ admit = 0 /\ gateFile = [boot |-> 0, left |-> 0]
  /\ gate = NoGate /\ fileBase = 0 /\ baseline = 0
  /\ procs = {} /\ verdict = "same" /\ scanError = FALSE /\ scanAge = ScanInterval /\ newer = FALSE
  /\ pc = "down" /\ sample = NoSample /\ mishaps = 0

Mishap == mishaps < MaxMishaps /\ mishaps' = mishaps + 1
Fine   == UNCHANGED mishaps

-----------------------------------------------------------------------------
(* The card.                                                               *)

Come(p) == /\ card' = card \cup {p} /\ came' = came \cup {p}
           /\ UNCHANGED age
Go(p)   == /\ card' = card \ {p} /\ UNCHANGED <<came, settled>>
           /\ age' = [age EXCEPT ![p] = 0]

TenantComes(t) ==
  /\ t \in Tenants \ came
  /\ Come(t)
  /\ UNCHANGED <<settled, records, health, times, gateFile, gate, fileBase, baseline, census, pc,
                 sample, mishaps>>

\* A tenant, or a job of a daemon that died, leaves the card.
ProcessLeaves(p) ==
  /\ p \in card \ Alive
  /\ Go(p)
  /\ UNCHANGED <<records, health, times, gateFile, gate, fileBase, baseline,
                 census, pc, sample, mishaps>>

\* The process of a job exits.  A worker it leaves behind on the card (a Docker
\* helper, a Linux process whose wsl.exe is gone) is a tenant that came earlier.
JobExits(j) ==
  /\ j \in Alive
  /\ exited' = exited \cup {j}
  /\ Go(j)
  /\ UNCHANGED <<running, base, floor, health, times, gateFile, gate, fileBase,
                 baseline, census, pc, sample, mishaps>>

\* Time passes while the loop sleeps, and in a pass before the sample and before the
\* launch.  (In between, in RefreshCensus and the evaluation, nothing depends on
\* when: the gate's window is over in a pass that has not reaped, so what the census
\* and the evaluation take is time before the launch.)
HandoffTick ==
  /\ pc \in {"down", "wait", "select"}
  /\ gate' = [gate EXCEPT !.left = Guard!Less(@)]
  /\ gateFile' = [gateFile EXCEPT !.left = Guard!Less(@)]
  /\ noTouch' = Guard!Less(noTouch) /\ nextProbe' = Guard!Less(nextProbe)
  /\ admit' = Guard!Less(admit)
  /\ age' = [p \in Processes |->
               IF p \in card \cap Conflicting THEN Guard!Sooner(age[p] + 1, ScanInterval) ELSE 0]
  /\ scanAge' = Guard!Sooner(scanAge + 1, ScanInterval)
  /\ UNCHANGED <<card, came, settled, records, health, fileBase, baseline, procs, verdict, scanError,
                 newer, pc, sample, mishaps>>

-----------------------------------------------------------------------------
(* _loop: reap, sample, census.  (Mutant...: see README.md.)               *)

MutantMergedBase(j) == base[j]

\* The baseline of the gate that the end of j arms.
MergedBase(j) == IF gate.on THEN Guard!Sooner(base[j], gate.base) ELSE base[j]

MutantCloseRecord(j) ==
  /\ running' = running \ {j} /\ exited' = exited \ {j}
  /\ UNCHANGED base

CloseRecord(j) ==
  /\ running' = running \ {j} /\ exited' = exited \ {j}
  /\ base' = [base EXCEPT ![j] = 0]

\* _reap_and_cancel closes the record of j and arms the gate; the pass ends
\* without a query, or without using the one it has just made.
ReapJob(j) ==
  /\ pc \in {"wait", "sampled"} /\ j \in exited
  /\ CloseRecord(j)
  /\ floor' = floor \cup {base[j]}
  /\ LET left == Guard!Later(NoTouch, gate.left) IN
       /\ gate' = [on |-> TRUE, left |-> left, base |-> MergedBase(j), evidence |-> NoEvidence]
       /\ admit' = Guard!Later(admit, left) /\ noTouch' = Guard!Later(noTouch, left)
       /\ nextProbe' = Guard!Later(nextProbe, left)
       /\ gateFile' = [boot |-> 1, left |-> left] /\ fileBase' = MergedBase(j)
  /\ newer' = FALSE
  /\ pc' = "wait" /\ sample' = NoSample
  /\ Fine
  /\ UNCHANGED <<world, health, baseline, procs, verdict, scanError, scanAge>>

\* The pass goes on to read_gpu: allowed, and there is demand.
Queries == /\ pc = "wait" /\ exited = {} /\ ~Guard!ProbeBlocked
           /\ running # {} \/ gate.on \/ Jobs \ came # {}

TakeSample ==
  /\ Queries
  /\ \E quiet \in BOOLEAN :
       /\ IF quiet THEN Fine ELSE Mishap
       /\ sample' = [used |-> Used[card], quiet |-> quiet,
                     recovered |-> ~healthy /\ wins + 1 >= RecoverySamples]
  /\ wins' = IF healthy THEN wins ELSE IF sample'.recovered THEN 0 ELSE wins + 1
  /\ healthy' = (healthy \/ sample'.recovered)
  /\ fault' = IF sample'.recovered THEN "healthy" ELSE fault
  /\ backoff' = IF sample'.recovered THEN 1 ELSE backoff
  /\ pc' = "sampled"
  /\ UNCHANGED <<world, records, times, gateFile, gate, fileBase, baseline, census>>

\* No evidence, but the signature stays.
Spoiled == [gate.evidence EXCEPT !.samples = 0, !.scans = 0]

\* It raises, and not fatally.
LoseSample ==
  /\ Queries /\ Mishap
  /\ gate' = [gate EXCEPT !.evidence = Spoiled]
  /\ healthy' = FALSE /\ wins' = 0 /\ fault' = "transient_failure"
  /\ nextProbe' = Guard!BackoffDelay /\ backoff' = Guard!Sooner(backoff + 1, 3)
  /\ UNCHANGED <<world, records, noTouch, admit, gateFile, fileBase, baseline, census, pc,
                 sample>>

MutantScanDue == gate.on /\ gate.left = 0

\* A census is due when the gate's window is over, or after the interval.
ScanDue == (gate.on /\ gate.left = 0) \/ scanAge >= ScanInterval

\* _refresh_gpu_processes: an error keeps the processes of the census before.
Refresh ==
  \/ ~ScanDue /\ Fine /\ UNCHANGED census
  \/ /\ ScanDue /\ Fine
     /\ procs' = card /\ verdict' = IF card = procs THEN "same" ELSE "changed"
     /\ scanError' = FALSE /\ scanAge' = 0 /\ newer' = TRUE
  \/ /\ ScanDue /\ Mishap
     /\ scanError' = TRUE /\ scanAge' = 0
     /\ UNCHANGED <<procs, verdict, newer>>

\* A healthy sample after which nothing was reaped.
RefreshCensus ==
  /\ pc = "sampled" /\ exited = {} /\ healthy
  /\ Refresh
  /\ settled' = {c \in card \cap Conflicting : age[c] = ScanInterval}
  /\ baseline' = IF running = {} /\ ~gate.on THEN sample.used ELSE baseline
  /\ pc' = "evaluate"
  /\ UNCHANGED <<card, came, age, records, health, times, gateFile, gate, fileBase, sample>>

\* One of the samples that end a failure.
AwaitHealth ==
  /\ pc = "sampled" /\ exited = {} /\ ~healthy
  /\ baseline' = IF running = {} /\ ~gate.on THEN sample.used ELSE baseline
  /\ nextProbe' = IF fault = "transient_failure" THEN Backoff1 ELSE nextProbe
  /\ pc' = "wait" /\ sample' = NoSample
  /\ Fine
  /\ UNCHANGED <<world, records, health, noTouch, admit, gateFile, gate, fileBase, census>>

-----------------------------------------------------------------------------
(* _evaluate_high_load_transition_gate and _schedule_once.                 *)

MutantCompared(e) ==
  IF ~newer THEN e
  ELSE [e EXCEPT !.scans = IF procs = e.signature THEN Guard!Sooner(@ + 1, StableScans) ELSE 1]

\* The census is compared with the one before it, if it is a new one.
Compared(e) ==
  IF ~newer THEN e
  ELSE IF procs = e.signature
  THEN [e EXCEPT !.scans = Guard!Sooner(@ + 1, StableScans)]
  ELSE [e EXCEPT !.scans = 1, !.signature = procs]

MutantQuiet == sample.used <= gate.base /\ sample.quiet

Quiet == sample.used <= gate.base + Tolerance /\ sample.quiet

\* The evidence after this pass: nothing counts inside the window or beside a
\* census that failed.
Weighed ==
  LET e == Compared(gate.evidence) IN
  IF gate.left > 0 \/ scanError THEN Spoiled
  ELSE [e EXCEPT !.samples = IF Quiet THEN Guard!Sooner(@ + 1, StableSamples) ELSE 0]

Complete == /\ gate.left = 0 /\ ~scanError /\ Quiet
            /\ Weighed.samples >= StableSamples /\ Weighed.scans >= StableScans

\* Not enough: sample again after the probe interval.
Hold ==
  /\ pc = "evaluate" /\ gate.on /\ ~Complete
  /\ gate' = [gate EXCEPT !.evidence = Weighed]
  /\ newer' = (newer /\ (gate.left > 0 \/ scanError))
  /\ nextProbe' = ProbeInterval
  /\ pc' = "wait" /\ sample' = NoSample /\ settled' = {}
  /\ Fine
  /\ UNCHANGED <<card, came, age, records, health, noTouch, admit, gateFile, fileBase, baseline,
                 procs, verdict, scanError, scanAge>>

\* The handoff is complete, or there was none.
Open ==
  /\ pc = "evaluate" /\ (gate.on => Complete)
  /\ LET pause == IF sample.recovered THEN Pause ELSE 0 IN
       IF gate.on
       THEN /\ gate' = NoGate /\ noTouch' = 0 /\ admit' = pause
            /\ gateFile' = [boot |-> 0, left |-> 0] /\ fileBase' = 0
            /\ baseline' = sample.used
       ELSE /\ admit' = Guard!Later(admit, pause)
            /\ UNCHANGED <<gate, noTouch, gateFile, fileBase, baseline>>
  /\ nextProbe' = 0 /\ newer' = FALSE /\ floor' = {}
  /\ pc' = "select"
  /\ Fine
  /\ UNCHANGED <<world, running, exited, base, health, procs, verdict, scanError, scanAge, sample>>

\* _schedule_once launches no job: the pause after a recovery, no candidate, the
\* parallel limit, or a WSL job beside a Windows CUDA process.
LaunchNothing ==
  /\ pc = "select"
  /\ nextProbe' = IF running # {} THEN ActiveInterval ELSE nextProbe
  /\ pc' = "wait" /\ sample' = NoSample /\ settled' = {}
  /\ Fine
  /\ UNCHANGED <<card, came, age, records, health, noTouch, admit, gateFile, gate, fileBase,
                 baseline, census>>

\* ... launches j.
LaunchJob(j) ==
  /\ pc = "select" /\ admit = 0 /\ j \in Jobs \ came
  /\ Cardinality(running) < MaxParallel
  /\ j \in WslJobs => procs \cap Conflicting = {}
  /\ Come(j)
  /\ running' = running \cup {j} /\ base' = [base EXCEPT ![j] = baseline]
  /\ nextProbe' = ActiveInterval
  /\ pc' = "wait" /\ sample' = NoSample /\ settled' = {}
  /\ Fine
  /\ UNCHANGED <<exited, floor, health, noTouch, admit, gateFile, gate, fileBase, baseline,
                 census>>

-----------------------------------------------------------------------------
(* The daemon dies, its processes live on, and it is started again.        *)

DaemonDies ==
  /\ pc # "down" /\ Mishap
  /\ running' = {} /\ exited' = {} /\ base' = [j \in Jobs |-> 0]
  /\ floor' = IF gateFile.boot = 1 THEN floor ELSE {}
  /\ gate' = NoGate /\ noTouch' = 0 /\ nextProbe' = 0 /\ admit' = 0
  /\ healthy' = FALSE /\ fault' = "unprobed" /\ wins' = 0 /\ backoff' = 1
  /\ baseline' = 0 /\ procs' = {} /\ verdict' = "same" /\ scanError' = FALSE
  /\ scanAge' = ScanInterval /\ newer' = FALSE
  /\ pc' = "down" /\ sample' = NoSample /\ settled' = {}
  /\ UNCHANGED <<card, came, age, gateFile, fileBase>>

\* __init__ finds the gate in its file, with its baseline and without evidence.
Restored ==
  IF gateFile.boot = 1
  THEN [on |-> TRUE, left |-> gateFile.left, base |-> fileBase, evidence |-> NoEvidence]
  ELSE NoGate

DaemonStarts ==
  /\ pc = "down"
  /\ gate' = Restored
  /\ noTouch' = Restored.left /\ nextProbe' = Restored.left /\ admit' = Restored.left
  /\ pc' = "wait"
  /\ Fine
  /\ UNCHANGED <<world, records, health, gateFile, fileBase, baseline, census, sample>>

Pass ==
  \/ \E j \in Jobs : ReapJob(j) \/ LaunchJob(j)
  \/ TakeSample \/ LoseSample \/ RefreshCensus \/ AwaitHealth
  \/ Hold \/ Open \/ LaunchNothing

HandoffNext ==
  \/ Pass \/ HandoffTick \/ DaemonDies \/ DaemonStarts
  \/ \E t \in Tenants : TenantComes(t)
  \/ \E p \in Processes : ProcessLeaves(p)
  \/ \E j \in Jobs : JobExits(j)

HandoffSpec == HandoffInit /\ [][HandoffNext]_handoffVars

\* The loop thread runs, time passes, the supervisor starts the daemon.  Nothing
\* makes a tenant leave or a job end.
HandoffFairness ==
  WF_handoffVars(Pass \/ DaemonStarts) /\ WF_handoffVars(HandoffTick)

HandoffFairSpec == HandoffSpec /\ HandoffFairness

-----------------------------------------------------------------------------
(* Properties.                                                             *)

\* What the last two censuses of this daemon say, as GpuGuard names it.
Verdict == IF scanError THEN "error" ELSE verdict

\* A step of the abstract guard: the result of an evaluation is what GpuGuard
\* computes from the sample and from the last two censuses alone.
GuardStep ==
  \/ pc = "evaluate" /\ ~Guard!GatePasses(Quiet, Verdict) /\ Guard!HoldGate(Quiet, Verdict)
  \/ pc = "evaluate" /\ Guard!GatePasses(Quiet, Verdict) /\ Guard!PassGate(sample.recovered)
  \/ pc = "wait" /\ (Guard!RecordGpuSuccess \/ Guard!RecordGpuFailure(FALSE, TRUE))
  \/ pc = "sampled" /\ Guard!KeepRecovering
  \/ \E busy \in BOOLEAN : pc = "select" /\ Guard!AfterSchedule(busy)
  \/ pc \in {"wait", "sampled"} /\ Guard!ArmTransitionGate(NoTouch, TRUE)
  \/ Guard!GuardTick \/ (Guard!Forget /\ UNCHANGED Guard!files) \/ Guard!Reload(Guard!FileNames)

\* GpuGuard is implemented: signatures, generations and forced censuses, over
\* failed queries, restarts and jobs that end while a handoff is under way, give
\* the evidence GpuGuard counts, and every other step leaves the guard alone.
GuardImplemented == [][GuardStep]_(Guard!guardVars)

\* README.md: excess resident VRAM keeps the gate closed.  When a handoff is
\* complete the card holds no more than the tolerance above the baseline of each
\* of the jobs it covers, also when they ended one after the other, beside a third,
\* or under an earlier daemon.
VramReturned ==
  [][pc = "evaluate" /\ pc' = "select" => \A b \in floor : sample.used <= b + Tolerance]_handoffVars

\* A WSL job is started beside a Windows CUDA process, managed or not, only if
\* that process came less than a scan interval before the loop last decided whether
\* to take a census, in the same pass, or if the last census failed.  (However long
\* the rest of the pass takes.)
ConflictNoticed ==
  [][\A j \in (running' \ running) \cap WslJobs : ~scanError =>
       card \cap settled = {}]_handoffVars

\* A job or a tenant keeps more on the card than the gate tolerates.
Excess == gate.on /\ \E b \in floor : Used[card] > b + Tolerance

\* A handoff ends when nothing keeps the card loaded, whoever sits on it within
\* the tolerance and whatever failed before: five seconds at a time, also after
\* a restart.
HandoffEnds == <>[]~Excess => (gate.on ~> ~gate.on)
=============================================================================
