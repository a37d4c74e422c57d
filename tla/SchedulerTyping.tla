--------------------------- MODULE SchedulerTyping ---------------------------
(* The variables of the daemon keep their types, for any set of jobs, any    *)
(* durations, limits, boots, mishaps and rearm requests: a lemma per action. *)
EXTENDS Scheduler, TLAPS

-----------------------------------------------------------------------------
(* The operations of GpuGuard keep its types.                              *)

LEMMA LifeTypes ==
  ASSUME GuardTypeOK
  PROVE  /\ Forget /\ UNCHANGED <<boot, files>> => GuardTypeOK'
         /\ \A read : Reload(read) => GuardTypeOK'
         /\ GuardReboot => GuardTypeOK'
         /\ GuardTick => GuardTypeOK'
         /\ UNCHANGED guardVars => GuardTypeOK'
<1> USE GuardAssumption DEF GuardTypeOK, FlagTypeOK, FilesTypeOK, HealthTypeOK, GateTypeOK,
                        DeadlineTypeOK, files, health, deadlines, NoGate, Gate, Ticks,
                            Boots, FaultStatuses, Latched
<1>1. Forget /\ UNCHANGED <<boot, files>> => GuardTypeOK'
  <2> SUFFICES ASSUME Forget /\ UNCHANGED <<boot, files>> PROVE GuardTypeOK'
    OBVIOUS
  <2>1. FilesTypeOK'
    BY DEF Forget
  <2>2. HealthTypeOK'
    BY DEF Forget
  <2>3. GateTypeOK'
    BY DEF Forget
  <2>4. FlagTypeOK'
    BY DEF Forget
  <2>5. DeadlineTypeOK'
    BY DEF Forget
  <2> QED
    BY <2>1, <2>2, <2>3, <2>4, <2>5
<1>2. \A read : Reload(read) => GuardTypeOK'
  <2> SUFFICES ASSUME NEW read, Reload(read) PROVE GuardTypeOK'
    OBVIOUS
  <2>1. FilesTypeOK'
    BY DEF Reload, RestoredFault, RestoredBoundary, RestoredGate, RestoredWindow
  <2>2. HealthTypeOK'
    BY DEF Reload, RestoredFault, RestoredBoundary, RestoredGate, RestoredWindow
  <2>3. GateTypeOK'
    BY DEF Reload, RestoredFault, RestoredBoundary, RestoredGate, RestoredWindow
  <2>4. FlagTypeOK'
    BY DEF Reload, RestoredFault, RestoredBoundary, RestoredGate, RestoredWindow
  <2>5. DeadlineTypeOK'
    BY DEF Reload, RestoredFault, RestoredBoundary, RestoredGate, RestoredWindow
  <2> QED
    BY <2>1, <2>2, <2>3, <2>4, <2>5
<1>3. GuardReboot => GuardTypeOK'
  <2> SUFFICES ASSUME GuardReboot PROVE GuardTypeOK'
    OBVIOUS
  <2>1. FilesTypeOK'
    BY DEF GuardReboot, Forget
  <2>2. HealthTypeOK'
    BY DEF GuardReboot, Forget
  <2>3. GateTypeOK'
    BY DEF GuardReboot, Forget
  <2>4. FlagTypeOK'
    BY DEF GuardReboot, Forget
  <2>5. DeadlineTypeOK'
    BY DEF GuardReboot, Forget
  <2> QED
    BY <2>1, <2>2, <2>3, <2>4, <2>5
<1>4. GuardTick => GuardTypeOK'
  BY DEF GuardTick, Less
<1>5. UNCHANGED guardVars => GuardTypeOK'
  BY DEF guardVars
<1> QED
  BY <1>1, <1>2, <1>3, <1>4, <1>5

LEMMA HealthTypes ==
  ASSUME GuardTypeOK, NEW fatal, NEW w \in BOOLEAN
  PROVE  /\ RecordGpuFailure(fatal, w) => GuardTypeOK'
         /\ RecordGpuSuccess => GuardTypeOK'
         /\ StartHealthy => GuardTypeOK'
         /\ CommitRearm => GuardTypeOK'
         /\ KeepRecovering => GuardTypeOK'
         /\ AfterSchedule(fatal) => GuardTypeOK'
<1> USE GuardAssumption DEF GuardTypeOK, FlagTypeOK, FilesTypeOK, HealthTypeOK, GateTypeOK,
                        DeadlineTypeOK, files, health, deadlines, NoGate, Gate, Ticks,
                            Boots, FaultStatuses, Latched
<1>1. RecordGpuFailure(fatal, w) => GuardTypeOK'
  <2> SUFFICES ASSUME RecordGpuFailure(fatal, w) PROVE GuardTypeOK'
    OBVIOUS
  <2>1. FilesTypeOK'
    <3>1. faultFile' = faultFile \/ faultFile' = [latched |-> TRUE, boot |-> boot]
      BY DEF RecordGpuFailure
    <3>2. [latched |-> TRUE, boot |-> boot] \in [latched : BOOLEAN, boot : 0..MaxBoots]
      OBVIOUS
    <3> QED
      BY <3>1, <3>2 DEF RecordGpuFailure
  <2>2. HealthTypeOK'
    BY DEF RecordGpuFailure, BackoffDelay, Sooner
  <2>3. GateTypeOK'
    BY DEF RecordGpuFailure, BackoffDelay, Sooner
  <2>4. FlagTypeOK'
    BY DEF RecordGpuFailure, BackoffDelay, Sooner
  <2>5. DeadlineTypeOK'
    BY DEF RecordGpuFailure, BackoffDelay, Sooner
  <2> QED
    BY <2>1, <2>2, <2>3, <2>4, <2>5
<1>2. RecordGpuSuccess => GuardTypeOK'
  BY DEF RecordGpuSuccess, Recovers
<1>3. StartHealthy => GuardTypeOK'
  BY DEF StartHealthy
<1>4. CommitRearm => GuardTypeOK'
  BY DEF CommitRearm
<1>5. KeepRecovering => GuardTypeOK'
  BY DEF KeepRecovering
<1>6. AfterSchedule(fatal) => GuardTypeOK'
  BY DEF AfterSchedule
<1> QED
  BY <1>1, <1>2, <1>3, <1>4, <1>5, <1>6

LEMMA BoundaryTypes ==
  ASSUME GuardTypeOK, NEW w \in BOOLEAN
  PROVE  /\ ArmBoundary(w) => GuardTypeOK'
         /\ ArmBoundaryBeforeLaunch => GuardTypeOK'
         /\ ClearUnlaunchedBoundary(w) => GuardTypeOK'
<1> USE GuardAssumption DEF GuardTypeOK, FlagTypeOK, FilesTypeOK, HealthTypeOK, GateTypeOK,
                        DeadlineTypeOK, files, health, deadlines, Ticks, Boots
<1>1. ArmBoundary(w) => GuardTypeOK'
  BY DEF ArmBoundary
<1>2. ArmBoundaryBeforeLaunch => GuardTypeOK'
  BY DEF ArmBoundaryBeforeLaunch
<1>3. ClearUnlaunchedBoundary(w) => GuardTypeOK'
  BY DEF ClearUnlaunchedBoundary
<1> QED
  BY <1>1, <1>2, <1>3

LEMMA GateTypes ==
  ASSUME GuardTypeOK, NEW w, NEW idle, NEW census
  PROVE  /\ \A period \in {NoTouch, HighNoTouch} :
              ArmTransitionGate(period, w) => GuardTypeOK'
         /\ HoldGate(idle, census) => GuardTypeOK'
         /\ PassGate(w) => GuardTypeOK'
         /\ PassGateUnwritten => GuardTypeOK'
<1> USE GuardAssumption DEF GuardTypeOK, FlagTypeOK, FilesTypeOK, HealthTypeOK, GateTypeOK,
                        DeadlineTypeOK, files, health, deadlines, NoGate, Gate, Ticks, Boots
<1>1. ASSUME NEW period \in {NoTouch, HighNoTouch}, ArmTransitionGate(period, w)
      PROVE  GuardTypeOK'
  <2> USE <1>1
  <2>1. FilesTypeOK'
    BY DEF ArmTransitionGate, Later
  <2>2. HealthTypeOK'
    BY DEF ArmTransitionGate, Later
  <2>3. GateTypeOK'
    BY DEF ArmTransitionGate, Later
  <2>4. FlagTypeOK'
    BY DEF ArmTransitionGate, Later
  <2>5. DeadlineTypeOK'
    BY DEF ArmTransitionGate, Later
  <2> QED
    BY <2>1, <2>2, <2>3, <2>4, <2>5
<1>2. HoldGate(idle, census) => GuardTypeOK'
  <2> SUFFICES ASSUME HoldGate(idle, census) PROVE GuardTypeOK'
    OBVIOUS
  <2>1. FilesTypeOK'
    BY DEF HoldGate, SamplesWith, ScansWith, Sooner
  <2>2. HealthTypeOK'
    BY DEF HoldGate, SamplesWith, ScansWith, Sooner
  <2>3. GateTypeOK'
    BY DEF HoldGate, SamplesWith, ScansWith, Sooner
  <2>4. FlagTypeOK'
    BY DEF HoldGate, SamplesWith, ScansWith, Sooner
  <2>5. DeadlineTypeOK'
    BY DEF HoldGate, SamplesWith, ScansWith, Sooner
  <2> QED
    BY <2>1, <2>2, <2>3, <2>4, <2>5
<1>3. PassGate(w) => GuardTypeOK'
  <2> SUFFICES ASSUME PassGate(w) PROVE GuardTypeOK'
    OBVIOUS
  <2>1. FilesTypeOK'
    BY DEF PassGate, Later
  <2>2. HealthTypeOK'
    BY DEF PassGate, Later
  <2>3. GateTypeOK'
    BY DEF PassGate, Later
  <2>4. FlagTypeOK'
    BY DEF PassGate, Later
  <2>5. DeadlineTypeOK'
    BY DEF PassGate, Later
  <2> QED
    BY <2>1, <2>2, <2>3, <2>4, <2>5
<1>4. PassGateUnwritten => GuardTypeOK'
  <2> SUFFICES ASSUME PassGateUnwritten PROVE GuardTypeOK'
    OBVIOUS
  <2>1. FilesTypeOK'
    BY DEF PassGateUnwritten
  <2>2. HealthTypeOK'
    BY DEF PassGateUnwritten
  <2>3. GateTypeOK'
    BY DEF PassGateUnwritten
  <2>4. FlagTypeOK'
    BY DEF PassGateUnwritten
  <2>5. DeadlineTypeOK'
    BY DEF PassGateUnwritten
  <2> QED
    BY <2>1, <2>2, <2>3, <2>4, <2>5
<1> QED
  BY <1>1, <1>2, <1>3, <1>4

-----------------------------------------------------------------------------
(* The statements of JobTable keep its types.                              *)

LEMMA TableTypes ==
  ASSUME TableTypeOK
  PROVE  /\ \A j \in Jobs : SubmitJob(j) => TableTypeOK'
         /\ \A j \in Jobs : MarkRunning(j) => TableTypeOK'
         /\ \A j \in Jobs : \A s \in Ended : MarkFinished(j, s) => TableTypeOK'
         /\ \A j \in Jobs : RequestCancel(j) => TableTypeOK'
         /\ OrphanInterruptedJobs => TableTypeOK'
<1> USE DEF TableTypeOK, Statuses, Ended
<1>1. \A j \in Jobs : SubmitJob(j) => TableTypeOK'
  BY DEF SubmitJob
<1>2. \A j \in Jobs : MarkRunning(j) => TableTypeOK'
  BY DEF MarkRunning
<1>3. \A j \in Jobs : \A s \in Ended : MarkFinished(j, s) => TableTypeOK'
  BY DEF MarkFinished
<1>4. \A j \in Jobs : RequestCancel(j) => TableTypeOK'
  BY DEF RequestCancel
<1>5. OrphanInterruptedJobs => TableTypeOK'
  BY DEF OrphanInterruptedJobs
<1> QED
  BY <1>1, <1>2, <1>3, <1>4, <1>5

-----------------------------------------------------------------------------
(* Typing.                                                                 *)

LEMMA Idle ==
  /\ TableTypeOK /\ UNCHANGED tableVars => TableTypeOK'
  /\ GuardTypeOK /\ UNCHANGED guardVars => GuardTypeOK'
<1>1. TableTypeOK /\ UNCHANGED tableVars => TableTypeOK'
  BY DEF TableTypeOK, tableVars
<1>2. GuardTypeOK /\ UNCHANGED guardVars => GuardTypeOK'
  BY LifeTypes
<1> QED
  BY <1>1, <1>2

\* Capped counters stay capped.
LEMMA Capped ==
  ASSUME NEW f \in [Jobs -> 0..2], NEW j \in Jobs
  PROVE  /\ OneMore(f[j]) \in 0..2
         /\ [f EXCEPT ![j] = OneMore(@)] \in [Jobs -> 0..2]
         /\ f[j] > 0 => [f EXCEPT ![j] = @ - 1] \in [Jobs -> 0..2]
<1>1. f[j] \in 0..2
  OBVIOUS
<1>2. OneMore(f[j]) \in 0..2
  BY <1>1 DEF OneMore, Sooner
<1>3. f[j] > 0 => f[j] - 1 \in 0..2
  BY <1>1
<1> QED
  BY <1>2, <1>3

LEMMA BeginPassTypes ==
  ASSUME TypeOK, BeginPass PROVE TypeOK'
<1> USE DEF TypeOK, BeginPass, Fine, CallReap
<1>1. TableTypeOK'
  BY Idle
<1>2. GuardTypeOK'
  BY Idle
<1>3. ProcTypeOK'
  BY DEF ProcTypeOK, procVars
<1>4. PassTypeOK'
  BY DEF PassTypeOK, passVars, Working, Steps, Sites, ProcTypeOK
<1>5. DaemonTypeOK'
  BY SchedulerAssumption DEF DaemonTypeOK, daemonVars
<1>6. HistoryTypeOK'
  BY DEF HistoryTypeOK, historyVars
<1> QED
  BY <1>1, <1>2, <1>3, <1>4, <1>5, <1>6

LEMMA ReapAliveTypes ==
  ASSUME TypeOK, NEW j \in Jobs, ReapAlive(j) PROVE TypeOK'
<1> USE DEF TypeOK, ReapAlive, Fine
<1>1. TableTypeOK'
  BY Idle
<1>2. GuardTypeOK'
  BY Idle
<1>3. ProcTypeOK'
  BY DEF ProcTypeOK, procVars
<1>4. PassTypeOK'
  BY DEF PassTypeOK, passVars, Working, Steps, Sites
<1>5. DaemonTypeOK'
  BY SchedulerAssumption DEF DaemonTypeOK, daemonVars
<1>6. HistoryTypeOK'
  BY DEF HistoryTypeOK, historyVars
<1> QED
  BY <1>1, <1>2, <1>3, <1>4, <1>5, <1>6

LEMMA RequestStopTypes ==
  ASSUME TypeOK, NEW j \in Jobs, RequestStop(j) PROVE TypeOK'
<1> USE DEF TypeOK, RequestStop, Fine, ReapStop
<1>1. TableTypeOK'
  BY Idle
<1>2. GuardTypeOK'
  BY Idle
<1>3. ProcTypeOK'
  BY DEF ProcTypeOK, procVars
<1>4. PassTypeOK'
  BY DEF PassTypeOK, passVars, Working, Steps, Sites
<1>5. DaemonTypeOK'
  BY SchedulerAssumption DEF DaemonTypeOK, daemonVars
<1>6. HistoryTypeOK'
  BY DEF HistoryTypeOK, historyVars
<1> QED
  BY <1>1, <1>2, <1>3, <1>4, <1>5, <1>6

LEMMA AwaitStopTypes ==
  ASSUME TypeOK, NEW j \in Jobs, AwaitStop(j) PROVE TypeOK'
<1> USE DEF TypeOK, AwaitStop, Fine, ReapStop
<1>1. TableTypeOK'
  BY Idle
<1>2. GuardTypeOK'
  BY Idle
<1>3. ProcTypeOK'
  BY DEF ProcTypeOK, procVars
<1>4. PassTypeOK'
  BY DEF PassTypeOK, passVars, Working, Steps, Sites
<1>5. DaemonTypeOK'
  BY SchedulerAssumption DEF DaemonTypeOK, daemonVars
<1>6. HistoryTypeOK'
  BY DEF HistoryTypeOK, historyVars
<1> QED
  BY <1>1, <1>2, <1>3, <1>4, <1>5, <1>6

LEMMA ForceStopTypes ==
  ASSUME TypeOK, NEW j \in Jobs, ForceStop(j) PROVE TypeOK'
<1> USE DEF TypeOK, ForceStop, Fine, RunCleanupOnce, ReapStop
<1>1. TableTypeOK'
  BY Idle
<1>2. GuardTypeOK'
  BY Idle
<1>3. ProcTypeOK'
  BY DEF ProcTypeOK, procVars
<1>4. PassTypeOK'
  BY DEF PassTypeOK, passVars, Working, Steps, Sites
<1>5. DaemonTypeOK'
  BY SchedulerAssumption DEF DaemonTypeOK, daemonVars
<1>6. HistoryTypeOK'
  <2>1. cleanups' = cleanups \/ cleanups' = [cleanups EXCEPT ![j] = OneMore(@)]
    OBVIOUS
  <2>2. (cleanups \in [Jobs -> 0..2])'
    BY <2>1, Capped DEF HistoryTypeOK
  <2> QED
    BY <2>2 DEF HistoryTypeOK, historyVars
<1> QED
  BY <1>1, <1>2, <1>3, <1>4, <1>5, <1>6

LEMMA ReapFailsTypes ==
  ASSUME TypeOK, ReapFails PROVE TypeOK'
<1> USE DEF TypeOK, ReapFails, Mishap, Blank, Raise, RunCleanupOnce
<1>1. TableTypeOK'
  BY Idle
<1>2. GuardTypeOK'
  BY Idle
<1>3. ProcTypeOK'
  BY DEF ProcTypeOK, procVars
<1>4. PassTypeOK'
  BY DEF PassTypeOK, passVars, Working, Steps, Sites
<1>5. DaemonTypeOK'
  BY SchedulerAssumption DEF DaemonTypeOK, daemonVars
<1>6. HistoryTypeOK'
  BY Capped DEF HistoryTypeOK, historyVars
<1> QED
  BY <1>1, <1>2, <1>3, <1>4, <1>5, <1>6

LEMMA ReapExitTypes ==
  ASSUME TypeOK, NEW j \in Jobs, ReapExit(j) PROVE TypeOK'
<1> USE DEF TypeOK, ReapExit, Fine
<1> DEFINE outcome == IF stop[j] # "none" THEN stop[j]
                    ELSE IF proc[j] = "ok" THEN "succeeded" ELSE "failed"
<1>1. TableTypeOK'
  <2>1. outcome \in Ended
    BY DEF ProcTypeOK, Ended
  <2>2. MarkFinished(j, outcome)
    OBVIOUS
  <2> HIDE DEF outcome
  <2> QED
    BY <2>1, <2>2, TableTypes
<1>2. GuardTypeOK'
  BY Idle
<1>3. ProcTypeOK'
  BY DEF ProcTypeOK, procVars
<1>4. PassTypeOK'
  BY DEF PassTypeOK, passVars, Working, Steps, Sites
<1>5. DaemonTypeOK'
  BY SchedulerAssumption DEF DaemonTypeOK, daemonVars
<1>6. HistoryTypeOK'
  BY GuardAssumption, Capped DEF HistoryTypeOK, historyVars, Ticks
<1> QED
  BY <1>1, <1>2, <1>3, <1>4, <1>5, <1>6

LEMMA ArmGateTypes ==
  ASSUME TypeOK, ArmGate PROVE TypeOK'
<1> USE DEF TypeOK, ArmGate, Fine, Mishap, Written, Blank, Raise
<1>1. TableTypeOK'
  BY Idle
<1>2. GuardTypeOK'
  BY Idle, GateTypes
<1>3. ProcTypeOK'
  BY DEF ProcTypeOK, procVars
<1>4. PassTypeOK'
  BY DEF PassTypeOK, passVars, Working, Steps, Sites
<1>5. DaemonTypeOK'
  BY SchedulerAssumption DEF DaemonTypeOK, daemonVars
<1>6. HistoryTypeOK'
  BY DEF HistoryTypeOK, historyVars
<1> QED
  BY <1>1, <1>2, <1>3, <1>4, <1>5, <1>6

LEMMA ArmWorkloadBoundaryTypes ==
  ASSUME TypeOK, ArmWorkloadBoundary PROVE TypeOK'
<1> USE DEF TypeOK, ArmWorkloadBoundary, Fine, Mishap, Written, Blank, Raise
<1>1. TableTypeOK'
  BY Idle
<1>2. GuardTypeOK'
  BY Idle, BoundaryTypes
<1>3. ProcTypeOK'
  BY DEF ProcTypeOK, procVars
<1>4. PassTypeOK'
  BY DEF PassTypeOK, passVars, Working, Steps, Sites
<1>5. DaemonTypeOK'
  BY SchedulerAssumption DEF DaemonTypeOK, daemonVars
<1>6. HistoryTypeOK'
  BY DEF HistoryTypeOK, historyVars
<1> QED
  BY <1>1, <1>2, <1>3, <1>4, <1>5, <1>6

LEMMA EndReapTypes ==
  ASSUME TypeOK, EndReap PROVE TypeOK'
<1> USE DEF TypeOK, EndReap, Fine, Blank, Sleep
<1>1. TableTypeOK'
  BY Idle
<1>2. GuardTypeOK'
  BY Idle
<1>3. ProcTypeOK'
  BY DEF ProcTypeOK, procVars
<1>4. PassTypeOK'
  BY DEF PassTypeOK, passVars, Working, Steps, Sites
<1>5. DaemonTypeOK'
  BY SchedulerAssumption DEF DaemonTypeOK, daemonVars
<1>6. HistoryTypeOK'
  BY DEF HistoryTypeOK, historyVars
<1> QED
  BY <1>1, <1>2, <1>3, <1>4, <1>5, <1>6

LEMMA CheckBlockedTypes ==
  ASSUME TypeOK, CheckBlocked PROVE TypeOK'
<1> USE DEF TypeOK, CheckBlocked, Fine, CallReap
<1>1. TableTypeOK'
  BY Idle
<1>2. GuardTypeOK'
  BY Idle
<1>3. ProcTypeOK'
  BY DEF ProcTypeOK, procVars
<1>4. PassTypeOK'
  BY DEF PassTypeOK, passVars, Working, Steps, Sites, ProcTypeOK
<1>5. DaemonTypeOK'
  BY SchedulerAssumption DEF DaemonTypeOK, daemonVars
<1>6. HistoryTypeOK'
  BY DEF HistoryTypeOK, historyVars
<1> QED
  BY <1>1, <1>2, <1>3, <1>4, <1>5, <1>6

LEMMA CheckDemandTypes ==
  ASSUME TypeOK, CheckDemand PROVE TypeOK'
<1> USE DEF TypeOK, CheckDemand, Fine, Mishap, Blank, Sleep
<1>1. TableTypeOK'
  BY Idle
<1>2. GuardTypeOK'
  BY Idle
<1>3. ProcTypeOK'
  BY DEF ProcTypeOK, procVars
<1>4. PassTypeOK'
  BY DEF PassTypeOK, passVars, Working, Steps, Sites, Active
<1>5. DaemonTypeOK'
  BY SchedulerAssumption DEF DaemonTypeOK, daemonVars
<1>6. HistoryTypeOK'
  BY DEF HistoryTypeOK, historyVars
<1> QED
  BY <1>1, <1>2, <1>3, <1>4, <1>5, <1>6

LEMMA ProbeOkTypes ==
  ASSUME TypeOK, ProbeOk PROVE TypeOK'
<1> USE DEF TypeOK, ProbeOk, Fine, CallReap
<1>1. TableTypeOK'
  BY Idle
<1>2. GuardTypeOK'
  BY Idle, HealthTypes
<1>3. ProcTypeOK'
  BY DEF ProcTypeOK, procVars
<1>4. PassTypeOK'
  BY DEF PassTypeOK, passVars, Working, Steps, Sites, ProcTypeOK,
         Recovers
<1>5. DaemonTypeOK'
  BY SchedulerAssumption DEF DaemonTypeOK, daemonVars
<1>6. HistoryTypeOK'
  BY DEF HistoryTypeOK, historyVars
<1> QED
  BY <1>1, <1>2, <1>3, <1>4, <1>5, <1>6

LEMMA ProbeFailsTypes ==
  ASSUME TypeOK, ProbeFails PROVE TypeOK'
<1> USE DEF TypeOK, ProbeFails, Mishap, Blank, CallReap, QueryFails
<1>1. TableTypeOK'
  BY Idle
<1>2. GuardTypeOK'
  BY Idle, HealthTypes
<1>3. ProcTypeOK'
  BY DEF ProcTypeOK, procVars
<1>4. PassTypeOK'
  BY DEF PassTypeOK, passVars, Working, Steps, Sites, ProcTypeOK
<1>5. DaemonTypeOK'
  BY SchedulerAssumption DEF DaemonTypeOK, daemonVars
<1>6. HistoryTypeOK'
  BY DEF HistoryTypeOK, historyVars
<1> QED
  BY <1>1, <1>2, <1>3, <1>4, <1>5, <1>6

LEMMA AssessLaterTypes ==
  ASSUME TypeOK, AssessLater PROVE TypeOK'
<1> USE DEF TypeOK, AssessLater, Fine, Blank, Sleep
<1>1. TableTypeOK'
  BY Idle
<1>2. GuardTypeOK'
  BY Idle, HealthTypes
<1>3. ProcTypeOK'
  BY DEF ProcTypeOK, procVars
<1>4. PassTypeOK'
  BY DEF PassTypeOK, passVars, Working, Steps, Sites
<1>5. DaemonTypeOK'
  BY SchedulerAssumption DEF DaemonTypeOK, daemonVars
<1>6. HistoryTypeOK'
  BY DEF HistoryTypeOK, historyVars
<1> QED
  BY <1>1, <1>2, <1>3, <1>4, <1>5, <1>6

LEMMA AssessGateTypes ==
  ASSUME TypeOK, AssessGate PROVE TypeOK'
<1> USE DEF TypeOK, AssessGate, Fine, Blank, Sleep, Observe
<1>1. TableTypeOK'
  BY Idle
<1>2. GuardTypeOK'
  BY Idle, GateTypes
<1>3. ProcTypeOK'
  BY DEF ProcTypeOK, procVars
<1>4. PassTypeOK'
  BY DEF PassTypeOK, passVars, Working, Steps, Sites
<1>5. DaemonTypeOK'
  BY SchedulerAssumption DEF DaemonTypeOK, daemonVars
<1>6. HistoryTypeOK'
  BY DEF HistoryTypeOK, historyVars
<1> QED
  BY <1>1, <1>2, <1>3, <1>4, <1>5, <1>6

LEMMA AssessFatalTypes ==
  ASSUME TypeOK, AssessFatal PROVE TypeOK'
<1> USE DEF TypeOK, AssessFatal, Mishap, Blank, Sleep, QueryFails
<1>1. TableTypeOK'
  BY Idle
<1>2. GuardTypeOK'
  BY Idle, HealthTypes
<1>3. ProcTypeOK'
  BY DEF ProcTypeOK, procVars
<1>4. PassTypeOK'
  BY DEF PassTypeOK, passVars, Working, Steps, Sites
<1>5. DaemonTypeOK'
  BY SchedulerAssumption DEF DaemonTypeOK, daemonVars
<1>6. HistoryTypeOK'
  BY DEF HistoryTypeOK, historyVars
<1> QED
  BY <1>1, <1>2, <1>3, <1>4, <1>5, <1>6

LEMMA SelectNoneTypes ==
  ASSUME TypeOK, SelectNone PROVE TypeOK'
<1> USE DEF TypeOK, SelectNone, Fine, Blank, Sleep, Finish
<1>1. TableTypeOK'
  BY Idle
<1>2. GuardTypeOK'
  BY Idle, HealthTypes
<1>3. ProcTypeOK'
  BY DEF ProcTypeOK, procVars
<1>4. PassTypeOK'
  BY DEF PassTypeOK, passVars, Working, Steps, Sites
<1>5. DaemonTypeOK'
  BY SchedulerAssumption DEF DaemonTypeOK, daemonVars
<1>6. HistoryTypeOK'
  BY DEF HistoryTypeOK, historyVars
<1> QED
  BY <1>1, <1>2, <1>3, <1>4, <1>5, <1>6

LEMMA SelectJobTypes ==
  ASSUME TypeOK, SelectJob PROVE TypeOK'
<1> USE DEF TypeOK, SelectJob, Fine
<1>1. TableTypeOK'
  BY Idle
<1>2. GuardTypeOK'
  BY Idle
<1>3. ProcTypeOK'
  BY DEF ProcTypeOK, procVars
<1>4. PassTypeOK'
  BY DEF PassTypeOK, passVars, Working, Steps, Sites, Queued
<1>5. DaemonTypeOK'
  BY SchedulerAssumption DEF DaemonTypeOK, daemonVars
<1>6. HistoryTypeOK'
  BY DEF HistoryTypeOK, historyVars
<1> QED
  BY <1>1, <1>2, <1>3, <1>4, <1>5, <1>6

LEMMA ScheduleRaisesTypes ==
  ASSUME TypeOK, ScheduleRaises PROVE TypeOK'
<1> USE DEF TypeOK, ScheduleRaises, Mishap, Blank, Sleep
<1>1. TableTypeOK'
  BY Idle
<1>2. GuardTypeOK'
  BY Idle
<1>3. ProcTypeOK'
  BY DEF ProcTypeOK, procVars
<1>4. PassTypeOK'
  BY DEF PassTypeOK, passVars, Working, Steps, Sites
<1>5. DaemonTypeOK'
  BY SchedulerAssumption DEF DaemonTypeOK, daemonVars
<1>6. HistoryTypeOK'
  BY DEF HistoryTypeOK, historyVars
<1> QED
  BY <1>1, <1>2, <1>3, <1>4, <1>5, <1>6

LEMMA PrepareFailsTypes ==
  ASSUME TypeOK, PrepareFails PROVE TypeOK'
<1> USE DEF TypeOK, PrepareFails, Mishap
<1>1. TableTypeOK'
  BY Idle
<1>2. GuardTypeOK'
  BY Idle
<1>3. ProcTypeOK'
  BY DEF ProcTypeOK, procVars
<1>4. PassTypeOK'
  BY DEF PassTypeOK, passVars, Working, Steps, Sites
<1>5. DaemonTypeOK'
  BY SchedulerAssumption DEF DaemonTypeOK, daemonVars
<1>6. HistoryTypeOK'
  BY DEF HistoryTypeOK, historyVars
<1> QED
  BY <1>1, <1>2, <1>3, <1>4, <1>5, <1>6

LEMMA PrepareTypes ==
  ASSUME TypeOK, Prepare PROVE TypeOK'
<1> USE DEF TypeOK, Prepare, Fine
<1>1. TableTypeOK'
  BY Idle
<1>2. GuardTypeOK'
  BY Idle, BoundaryTypes
<1>3. ProcTypeOK'
  BY DEF ProcTypeOK, procVars
<1>4. PassTypeOK'
  BY DEF PassTypeOK, passVars, Working, Steps, Sites
<1>5. DaemonTypeOK'
  BY SchedulerAssumption DEF DaemonTypeOK, daemonVars
<1>6. HistoryTypeOK'
  BY DEF HistoryTypeOK, historyVars
<1> QED
  BY <1>1, <1>2, <1>3, <1>4, <1>5, <1>6

LEMMA SpawnFailsTypes ==
  ASSUME TypeOK, SpawnFails PROVE TypeOK'
<1> USE DEF TypeOK, SpawnFails, Mishap
<1>1. TableTypeOK'
  BY Idle
<1>2. GuardTypeOK'
  BY Idle, BoundaryTypes
<1>3. ProcTypeOK'
  BY DEF ProcTypeOK, procVars
<1>4. PassTypeOK'
  BY DEF PassTypeOK, passVars, Working, Steps, Sites
<1>5. DaemonTypeOK'
  BY SchedulerAssumption DEF DaemonTypeOK, daemonVars
<1>6. HistoryTypeOK'
  BY DEF HistoryTypeOK, historyVars
<1> QED
  BY <1>1, <1>2, <1>3, <1>4, <1>5, <1>6

LEMMA GiveUpTypes ==
  ASSUME TypeOK, GiveUp PROVE TypeOK'
<1> USE DEF TypeOK, GiveUp, Fine, Mishap, Blank, Sleep, Finish
<1>1. TableTypeOK'
  BY TableTypes, Idle DEF PassTypeOK, Working, Ended
<1>2. GuardTypeOK'
  BY Idle, HealthTypes
<1>3. ProcTypeOK'
  BY DEF ProcTypeOK, procVars
<1>4. PassTypeOK'
  BY DEF PassTypeOK, passVars, Working, Steps, Sites
<1>5. DaemonTypeOK'
  BY SchedulerAssumption DEF DaemonTypeOK, daemonVars
<1>6. HistoryTypeOK'
  BY DEF HistoryTypeOK, historyVars
<1> QED
  BY <1>1, <1>2, <1>3, <1>4, <1>5, <1>6

LEMMA SpawnOkTypes ==
  ASSUME TypeOK, SpawnOk PROVE TypeOK'
<1> USE DEF TypeOK, SpawnOk, Fine
<1>1. TableTypeOK'
  BY Idle
<1>2. GuardTypeOK'
  BY Idle
<1>3. ProcTypeOK'
  BY Capped DEF ProcTypeOK, procVars, PassTypeOK, Working
<1>4. PassTypeOK'
  BY DEF PassTypeOK, passVars, Working, Steps, Sites
<1>5. DaemonTypeOK'
  BY SchedulerAssumption DEF DaemonTypeOK, daemonVars
<1> job \in Jobs
  BY DEF PassTypeOK, Working
<1>6. HistoryTypeOK'
  <2>1. (starts \in [Jobs -> 0..2])'
    BY Capped DEF HistoryTypeOK
  <2>2. (cleanups \in [Jobs -> 0..2])'
    BY DEF HistoryTypeOK
  <2>3. (sinceEnd \in Ticks)'
    BY DEF HistoryTypeOK
  <2>4. (spent \in BOOLEAN)'
    BY DEF HistoryTypeOK
  <2>5. (latch \in {"no", "now", "past"})'
    BY DEF HistoryTypeOK
  <2> QED
    BY <2>1, <2>2, <2>3, <2>4, <2>5 DEF HistoryTypeOK
<1> QED
  BY <1>1, <1>2, <1>3, <1>4, <1>5, <1>6

LEMMA MarkTypes ==
  ASSUME TypeOK, Mark PROVE TypeOK'
<1> USE DEF TypeOK, Mark, Fine, Mishap, Blank, Sleep, Finish
<1>1. TableTypeOK'
  BY TableTypes, Idle DEF PassTypeOK, Working
<1>2. GuardTypeOK'
  BY Idle, HealthTypes
<1>3. ProcTypeOK'
  BY DEF ProcTypeOK, procVars
<1>4. PassTypeOK'
  BY DEF PassTypeOK, passVars, Working, Steps, Sites
<1>5. DaemonTypeOK'
  BY SchedulerAssumption DEF DaemonTypeOK, daemonVars
<1>6. HistoryTypeOK'
  BY DEF HistoryTypeOK, historyVars
<1> QED
  BY <1>1, <1>2, <1>3, <1>4, <1>5, <1>6

LEMMA ProcessExitTypes ==
  ASSUME TypeOK, NEW j \in Jobs, ProcessExit(j) PROVE TypeOK'
<1> USE DEF TypeOK, ProcessExit, Fine
<1>1. TableTypeOK'
  BY Idle
<1>2. GuardTypeOK'
  BY Idle
<1>3. ProcTypeOK'
  BY DEF ProcTypeOK, procVars
<1>4. PassTypeOK'
  BY DEF PassTypeOK, passVars, Working, Steps, Sites
<1>5. DaemonTypeOK'
  BY SchedulerAssumption DEF DaemonTypeOK, daemonVars
<1>6. HistoryTypeOK'
  BY DEF HistoryTypeOK, historyVars
<1> QED
  BY <1>1, <1>2, <1>3, <1>4, <1>5, <1>6

LEMMA StrayExitTypes ==
  ASSUME TypeOK, NEW j \in Jobs, StrayExit(j) PROVE TypeOK'
<1> USE DEF TypeOK, StrayExit, Fine
<1>1. TableTypeOK'
  BY Idle
<1>2. GuardTypeOK'
  BY Idle
<1>3. ProcTypeOK'
  BY Capped DEF ProcTypeOK, procVars
<1>4. PassTypeOK'
  BY DEF PassTypeOK, passVars, Working, Steps, Sites
<1>5. DaemonTypeOK'
  BY SchedulerAssumption DEF DaemonTypeOK, daemonVars
<1>6. HistoryTypeOK'
  BY DEF HistoryTypeOK, historyVars
<1> QED
  BY <1>1, <1>2, <1>3, <1>4, <1>5, <1>6

LEMMA TickTypes ==
  ASSUME TypeOK, Tick PROVE TypeOK'
<1> USE DEF TypeOK, Tick, Fine
<1>1. TableTypeOK'
  BY Idle
<1>2. GuardTypeOK'
  BY Idle, LifeTypes
<1>3. ProcTypeOK'
  BY DEF ProcTypeOK, procVars
<1>4. PassTypeOK'
  BY DEF PassTypeOK, passVars, Working, Steps, Sites
<1>5. DaemonTypeOK'
  BY SchedulerAssumption DEF DaemonTypeOK, daemonVars
<1>6. HistoryTypeOK'
  BY GuardAssumption DEF HistoryTypeOK, historyVars, Ticks, Sooner
<1> QED
  BY <1>1, <1>2, <1>3, <1>4, <1>5, <1>6

LEMMA SubmitRequestTypes ==
  ASSUME TypeOK, NEW j \in Jobs, SubmitRequest(j) PROVE TypeOK'
<1> USE DEF TypeOK, SubmitRequest, Fine, Table
<1>1. TableTypeOK'
  BY TableTypes
<1>2. GuardTypeOK'
  BY Idle
<1>3. ProcTypeOK'
  BY DEF ProcTypeOK, procVars
<1>4. PassTypeOK'
  BY DEF PassTypeOK, passVars, Working, Steps, Sites
<1>5. DaemonTypeOK'
  BY SchedulerAssumption DEF DaemonTypeOK, daemonVars
<1>6. HistoryTypeOK'
  BY DEF HistoryTypeOK, historyVars
<1> QED
  BY <1>1, <1>2, <1>3, <1>4, <1>5, <1>6

LEMMA CancelRequestTypes ==
  ASSUME TypeOK, NEW j \in Jobs, CancelRequest(j) PROVE TypeOK'
<1> USE DEF TypeOK, CancelRequest, Fine, Table
<1>1. TableTypeOK'
  BY TableTypes
<1>2. GuardTypeOK'
  BY Idle
<1>3. ProcTypeOK'
  BY DEF ProcTypeOK, procVars
<1>4. PassTypeOK'
  BY DEF PassTypeOK, passVars, Working, Steps, Sites
<1>5. DaemonTypeOK'
  BY SchedulerAssumption DEF DaemonTypeOK, daemonVars
<1>6. HistoryTypeOK'
  BY DEF HistoryTypeOK, historyVars
<1> QED
  BY <1>1, <1>2, <1>3, <1>4, <1>5, <1>6

LEMMA StopRequestTypes ==
  ASSUME TypeOK, StopRequest PROVE TypeOK'
<1> USE DEF TypeOK, StopRequest, Mishap
<1>1. TableTypeOK'
  BY Idle
<1>2. GuardTypeOK'
  BY Idle
<1>3. ProcTypeOK'
  BY DEF ProcTypeOK, procVars
<1>4. PassTypeOK'
  BY DEF PassTypeOK, passVars, Working, Steps, Sites
<1>5. DaemonTypeOK'
  BY SchedulerAssumption DEF DaemonTypeOK, daemonVars
<1>6. HistoryTypeOK'
  BY DEF HistoryTypeOK, historyVars
<1> QED
  BY <1>1, <1>2, <1>3, <1>4, <1>5, <1>6

LEMMA RearmMayTypes ==
  ASSUME TypeOK, NEW r \in Rearmers, RearmMay(r) PROVE TypeOK'
<1> USE DEF TypeOK, RearmMay, Fine
<1>1. TableTypeOK'
  BY Idle
<1>2. GuardTypeOK'
  BY Idle
<1>3. ProcTypeOK'
  BY DEF ProcTypeOK, procVars
<1>4. PassTypeOK'
  BY DEF PassTypeOK, passVars, Working, Steps, Sites
<1>5. DaemonTypeOK'
  BY SchedulerAssumption DEF DaemonTypeOK, daemonVars
<1>6. HistoryTypeOK'
  BY DEF HistoryTypeOK, historyVars
<1> QED
  BY <1>1, <1>2, <1>3, <1>4, <1>5, <1>6

LEMMA RearmProbeTypes ==
  ASSUME TypeOK, NEW r \in Rearmers, RearmProbe(r) PROVE TypeOK'
<1> USE DEF TypeOK, RearmProbe, Fine, Mishap, QueryFails
<1>1. TableTypeOK'
  BY Idle
<1>2. GuardTypeOK'
  BY Idle, HealthTypes
<1>3. ProcTypeOK'
  BY DEF ProcTypeOK, procVars
<1>4. PassTypeOK'
  BY DEF PassTypeOK, passVars, Working, Steps, Sites
<1>5. DaemonTypeOK'
  <2>1. mishaps' = mishaps \/ (mishaps < MaxMishaps /\ mishaps' = mishaps + 1)
    OBVIOUS
  <2>2. (mishaps \in 0..MaxMishaps)'
    BY <2>1, SchedulerAssumption DEF DaemonTypeOK
  <2>3. (rearm \in [Rearmers -> {"idle", "probe", "commit"}])'
    BY DEF DaemonTypeOK
  <2>4. (stopping \in BOOLEAN)'
    BY DEF DaemonTypeOK
  <2> QED
    BY <2>2, <2>3, <2>4 DEF DaemonTypeOK
<1>6. HistoryTypeOK'
  BY DEF HistoryTypeOK, historyVars
<1> QED
  BY <1>1, <1>2, <1>3, <1>4, <1>5, <1>6

LEMMA RearmCommitTypes ==
  ASSUME TypeOK, NEW r \in Rearmers, RearmCommit(r) PROVE TypeOK'
<1> USE DEF TypeOK, RearmCommit, Fine, Mishap
<1>1. TableTypeOK'
  BY Idle
<1>2. GuardTypeOK'
  BY Idle, HealthTypes
<1>3. ProcTypeOK'
  BY DEF ProcTypeOK, procVars
<1>4. PassTypeOK'
  BY DEF PassTypeOK, passVars, Working, Steps, Sites
<1>5. DaemonTypeOK'
  BY SchedulerAssumption DEF DaemonTypeOK, daemonVars
<1>6. HistoryTypeOK'
  BY DEF HistoryTypeOK, historyVars
<1> QED
  BY <1>1, <1>2, <1>3, <1>4, <1>5, <1>6

LEMMA CrashTypes ==
  ASSUME TypeOK, Crash PROVE TypeOK'
<1> USE DEF TypeOK, Crash, Mishap, Blank, Vanish
<1>1. TableTypeOK'
  BY Idle
<1>2. GuardTypeOK'
  BY Idle, LifeTypes
<1>3. ProcTypeOK'
  <2>1. (running \in SUBSET Jobs)'
    BY DEF ProcTypeOK
  <2>2. (proc \in [Jobs -> {"none", "alive", "ok", "bad"}])'
    BY DEF ProcTypeOK
  <2>3. (stop \in [Jobs -> {"none", "canceled", "timed_out"}])'
    BY DEF ProcTypeOK
  <2>4. (sent \in [Jobs -> {"no", "signal", "terminate", "kill"}])'
    BY DEF ProcTypeOK
  <2>5. (cleaned \in [Jobs -> BOOLEAN])'
    BY DEF ProcTypeOK
  <2>6. (strays \in [Jobs -> 0..2])'
    BY Capped DEF ProcTypeOK
  <2> QED
    BY <2>1, <2>2, <2>3, <2>4, <2>5, <2>6 DEF ProcTypeOK
<1>4. PassTypeOK'
  BY DEF PassTypeOK, passVars, Working, Steps, Sites
<1>5. DaemonTypeOK'
  <2>1. (rearm \in [Rearmers -> {"idle", "probe", "commit"}])'
    BY DEF DaemonTypeOK
  <2>2. (stopping \in BOOLEAN)'
    BY DEF DaemonTypeOK
  <2>3. (mishaps \in 0..MaxMishaps)'
    BY SchedulerAssumption DEF DaemonTypeOK
  <2> QED
    BY <2>1, <2>2, <2>3 DEF DaemonTypeOK
<1>6. HistoryTypeOK'
  BY DEF HistoryTypeOK, historyVars
<1> QED
  BY <1>1, <1>2, <1>3, <1>4, <1>5, <1>6

LEMMA ExitTypes ==
  ASSUME TypeOK, Exit PROVE TypeOK'
<1> USE DEF TypeOK, Exit, Fine, Blank, Vanish
<1>1. TableTypeOK'
  BY Idle
<1>2. GuardTypeOK'
  BY Idle, LifeTypes
<1>3. ProcTypeOK'
  <2>1. (running \in SUBSET Jobs)'
    BY DEF ProcTypeOK
  <2>2. (proc \in [Jobs -> {"none", "alive", "ok", "bad"}])'
    BY DEF ProcTypeOK
  <2>3. (stop \in [Jobs -> {"none", "canceled", "timed_out"}])'
    BY DEF ProcTypeOK
  <2>4. (sent \in [Jobs -> {"no", "signal", "terminate", "kill"}])'
    BY DEF ProcTypeOK
  <2>5. (cleaned \in [Jobs -> BOOLEAN])'
    BY DEF ProcTypeOK
  <2>6. (strays \in [Jobs -> 0..2])'
    BY Capped DEF ProcTypeOK
  <2> QED
    BY <2>1, <2>2, <2>3, <2>4, <2>5, <2>6 DEF ProcTypeOK
<1>4. PassTypeOK'
  BY DEF PassTypeOK, passVars, Working, Steps, Sites
<1>5. DaemonTypeOK'
  <2>1. (rearm \in [Rearmers -> {"idle", "probe", "commit"}])'
    BY DEF DaemonTypeOK
  <2>2. (stopping \in BOOLEAN)'
    BY DEF DaemonTypeOK
  <2>3. (mishaps \in 0..MaxMishaps)'
    BY SchedulerAssumption DEF DaemonTypeOK
  <2> QED
    BY <2>1, <2>2, <2>3 DEF DaemonTypeOK
<1>6. HistoryTypeOK'
  BY DEF HistoryTypeOK, historyVars
<1> QED
  BY <1>1, <1>2, <1>3, <1>4, <1>5, <1>6

LEMMA RebootTypes ==
  ASSUME TypeOK, Reboot PROVE TypeOK'
<1> USE DEF TypeOK, Reboot, Mishap, Blank
<1>1. TableTypeOK'
  BY Idle
<1>2. GuardTypeOK'
  BY Idle, LifeTypes
<1>3. ProcTypeOK'
  <2>1. (running \in SUBSET Jobs)'
    BY DEF ProcTypeOK
  <2>2. (proc \in [Jobs -> {"none", "alive", "ok", "bad"}])'
    BY DEF ProcTypeOK
  <2>3. (stop \in [Jobs -> {"none", "canceled", "timed_out"}])'
    BY DEF ProcTypeOK
  <2>4. (sent \in [Jobs -> {"no", "signal", "terminate", "kill"}])'
    BY DEF ProcTypeOK
  <2>5. (cleaned \in [Jobs -> BOOLEAN])'
    BY DEF ProcTypeOK
  <2>6. (strays \in [Jobs -> 0..2])'
    BY DEF ProcTypeOK
  <2> QED
    BY <2>1, <2>2, <2>3, <2>4, <2>5, <2>6 DEF ProcTypeOK
<1>4. PassTypeOK'
  BY DEF PassTypeOK, passVars, Working, Steps, Sites
<1>5. DaemonTypeOK'
  <2>1. (rearm \in [Rearmers -> {"idle", "probe", "commit"}])'
    BY DEF DaemonTypeOK
  <2>2. (stopping \in BOOLEAN)'
    BY DEF DaemonTypeOK
  <2>3. (mishaps \in 0..MaxMishaps)'
    BY SchedulerAssumption DEF DaemonTypeOK
  <2> QED
    BY <2>1, <2>2, <2>3 DEF DaemonTypeOK
<1>6. HistoryTypeOK'
  BY DEF HistoryTypeOK, historyVars
<1> QED
  BY <1>1, <1>2, <1>3, <1>4, <1>5, <1>6

LEMMA RestartTypes ==
  ASSUME TypeOK, Restart PROVE TypeOK'
<1> USE DEF TypeOK, Restart, Fine, Mishap
<1>1. TableTypeOK'
  BY TableTypes
<1>2. GuardTypeOK'
  BY Idle, LifeTypes
<1>3. ProcTypeOK'
  BY DEF ProcTypeOK, procVars
<1>4. PassTypeOK'
  BY DEF PassTypeOK, passVars, Working, Steps, Sites
<1>5. DaemonTypeOK'
  BY SchedulerAssumption DEF DaemonTypeOK, daemonVars
<1>6. HistoryTypeOK'
  BY GuardAssumption DEF HistoryTypeOK, historyVars, Ticks
<1> QED
  BY <1>1, <1>2, <1>3, <1>4, <1>5, <1>6

LEMMA StartupProbeOkTypes ==
  ASSUME TypeOK, StartupProbeOk PROVE TypeOK'
<1> USE DEF TypeOK, StartupProbeOk, Fine
<1>1. TableTypeOK'
  BY Idle
<1>2. GuardTypeOK'
  BY Idle, HealthTypes
<1>3. ProcTypeOK'
  BY DEF ProcTypeOK, procVars
<1>4. PassTypeOK'
  BY DEF PassTypeOK, passVars, Working, Steps, Sites
<1>5. DaemonTypeOK'
  BY SchedulerAssumption DEF DaemonTypeOK, daemonVars
<1>6. HistoryTypeOK'
  BY DEF HistoryTypeOK, historyVars
<1> QED
  BY <1>1, <1>2, <1>3, <1>4, <1>5, <1>6

LEMMA StartupProbeFailsTypes ==
  ASSUME TypeOK, StartupProbeFails PROVE TypeOK'
<1> USE DEF TypeOK, StartupProbeFails, Mishap, QueryFails
<1>1. TableTypeOK'
  BY Idle
<1>2. GuardTypeOK'
  BY Idle, HealthTypes
<1>3. ProcTypeOK'
  BY DEF ProcTypeOK, procVars
<1>4. PassTypeOK'
  BY DEF PassTypeOK, passVars, Working, Steps, Sites
<1>5. DaemonTypeOK'
  BY SchedulerAssumption DEF DaemonTypeOK, daemonVars
<1>6. HistoryTypeOK'
  BY DEF HistoryTypeOK, historyVars
<1> QED
  BY <1>1, <1>2, <1>3, <1>4, <1>5, <1>6

LEMMA StartupDiesTypes ==
  ASSUME TypeOK, StartupDies PROVE TypeOK'
<1> USE DEF TypeOK, StartupDies, Mishap
<1>1. TableTypeOK'
  BY Idle
<1>2. GuardTypeOK'
  BY Idle, LifeTypes
<1>3. ProcTypeOK'
  BY DEF ProcTypeOK, procVars
<1>4. PassTypeOK'
  BY DEF PassTypeOK, passVars, Working, Steps, Sites
<1>5. DaemonTypeOK'
  BY SchedulerAssumption DEF DaemonTypeOK, daemonVars
<1>6. HistoryTypeOK'
  BY DEF HistoryTypeOK
<1> QED
  BY <1>1, <1>2, <1>3, <1>4, <1>5, <1>6

-----------------------------------------------------------------------------

\* Every variable of the daemon keeps its type, in every interleaving of the
\* loop, the requests, the processes, the clock and the mishaps: in particular
\* the loop holds a job exactly while it reaps or launches one, and deadlines
\* and evidence counters stay within their limits.
THEOREM Typing == Spec => []TypeOK
<1>0. HighNoTouch \in 0..Forever
  BY GuardAssumption
<1>1. Init => TypeOK
  <2> SUFFICES ASSUME Init PROVE TypeOK
    OBVIOUS
  <2> USE DEF Init
  <2>1. TableTypeOK
    BY DEF TableInit, TableTypeOK, Statuses
  <2>2. GuardTypeOK
    <3> USE GuardAssumption DEF GuardInit, Boots, Ticks
    <3>1. FilesTypeOK
      BY DEF FilesTypeOK
    <3>2. FlagTypeOK
      BY DEF FlagTypeOK
    <3>3. HealthTypeOK
      BY DEF HealthTypeOK, FaultStatuses
    <3>4. GateTypeOK
      BY DEF GateTypeOK, NoGate
    <3>5. DeadlineTypeOK
      BY DEF DeadlineTypeOK
    <3> QED
      BY <3>1, <3>2, <3>3, <3>4, <3>5 DEF GuardTypeOK
  <2>3. ProcTypeOK
    BY DEF ProcTypeOK
  <2>4. PassTypeOK
    <3>1. pc \in Steps /\ site \in Sites /\ pc \notin Working
      BY DEF Steps, Sites, Working
    <3> QED
      BY <3>1 DEF PassTypeOK
  <2>5. DaemonTypeOK
    <3>1. mishaps = 0 /\ 0 \in 0..MaxMishaps
      BY SchedulerAssumption
    <3>2. rearm \in [Rearmers -> {"idle", "probe", "commit"}] /\ stopping \in BOOLEAN
      OBVIOUS
    <3> QED
      BY <3>1, <3>2 DEF DaemonTypeOK
  <2>6. HistoryTypeOK
    <3>1. sinceEnd = HighNoTouch
      OBVIOUS
    <3>2. HighNoTouch \in 0..Forever
      BY <1>0
    <3>3. starts \in [Jobs -> 0..2] /\ cleanups \in [Jobs -> 0..2]
      OBVIOUS
    <3>4. spent \in BOOLEAN /\ latch \in {"no", "now", "past"}
      OBVIOUS
    <3>5. sinceEnd \in Ticks
      BY <3>1, <3>2 DEF Ticks
    <3> HIDE DEF Init
    <3> QED
      BY <3>3, <3>4, <3>5 DEF HistoryTypeOK
  <2> QED
    BY <2>1, <2>2, <2>3, <2>4, <2>5, <2>6 DEF TypeOK
<1>2. TypeOK /\ [Next]_vars => TypeOK'
  <2> SUFFICES ASSUME TypeOK, [Next]_vars PROVE TypeOK'
    OBVIOUS
  <2>1. CASE Loop
    <3>1. CASE Reap
      BY <3>1, ReapExitTypes, ReapAliveTypes, RequestStopTypes, AwaitStopTypes, ForceStopTypes
         DEF Reap
    <3>2. CASE Check \/ Probe \/ Assess
      BY <3>2, CheckBlockedTypes, CheckDemandTypes, ProbeOkTypes, ProbeFailsTypes,
         AssessLaterTypes, AssessGateTypes, AssessFatalTypes DEF Check, Probe, Assess
    <3>3. CASE Select \/ Launch
      BY <3>3, SelectNoneTypes, SelectJobTypes, ScheduleRaisesTypes, PrepareFailsTypes,
         PrepareTypes, SpawnFailsTypes, SpawnOkTypes, GiveUpTypes, MarkTypes DEF Select, Launch
    <3> QED
      BY <2>1, <3>1, <3>2, <3>3, BeginPassTypes, ReapFailsTypes, ArmGateTypes,
         ArmWorkloadBoundaryTypes, EndReapTypes DEF Loop
  <2>2. CASE Processes
    BY <2>2, ProcessExitTypes, StrayExitTypes DEF Processes
  <2>3. CASE Tick
    BY <2>3, TickTypes
  <2>4. CASE Clients
    <3>1. Cancelable \subseteq Jobs
      BY SchedulerAssumption
    <3> QED
      BY <2>4, <3>1, SubmitRequestTypes, CancelRequestTypes, StopRequestTypes DEF Clients
  <2>5. CASE Rearm
    BY <2>5, RearmMayTypes, RearmProbeTypes, RearmCommitTypes DEF Rearm
  <2>6. CASE Life
    BY <2>6, CrashTypes, ExitTypes, RebootTypes, RestartTypes, StartupProbeOkTypes,
       StartupProbeFailsTypes, StartupDiesTypes DEF Life, Startup
  <2>7. CASE UNCHANGED vars
    <3>1. TableTypeOK' /\ GuardTypeOK'
      BY <2>7, Idle DEF vars, TypeOK
    <3> QED
      BY <2>7, <3>1 DEF vars, procVars, passVars, daemonVars, historyVars, TypeOK, ProcTypeOK,
         PassTypeOK, DaemonTypeOK, HistoryTypeOK
  <2> QED
    BY <2>1, <2>2, <2>3, <2>4, <2>5, <2>6, <2>7 DEF Next
<1> QED
  BY <1>1, <1>2, PTL DEF Spec
=============================================================================
