--------------------------- MODULE SchedulerProofs ---------------------------
(* Theorems about the daemon, for any set of jobs, any durations, limits and *)
(* sample counts, any number of boots and of mishaps of every kind.          *)
EXTENDS SchedulerTyping, SumLemmas

-----------------------------------------------------------------------------
(* The jobs table alone.                                                   *)

\* The table's rows keep their schema under every statement: the theorem behind
\* the type invariant TableTypeOK.
THEOREM TableTyping == TableSpec => []TableTypeOK
<1>1. TableInit => TableTypeOK
  BY DEF TableInit, TableTypeOK, Statuses
<1>2. TableTypeOK /\ [TableNext]_tableVars => TableTypeOK'
  <2> SUFFICES ASSUME TableTypeOK, [TableNext]_tableVars PROVE TableTypeOK'
    OBVIOUS
  <2> USE DEF TableTypeOK
  <2>1. CASE Submit
    BY <2>1 DEF Submit, SubmitJob, Statuses
  <2>2. CASE StartRow
    BY <2>2 DEF StartRow, MarkRunning, Statuses
  <2>3. CASE FinishRow
    BY <2>3 DEF FinishRow, MarkFinished, Statuses
  <2>4. CASE Cancel
    BY <2>4 DEF Cancel, RequestCancel, Statuses, Ended
  <2>5. CASE Orphan
    BY <2>5 DEF Orphan, OrphanInterruptedJobs, Active, Statuses, Ended
  <2>6. CASE UNCHANGED tableVars
    BY <2>6 DEF tableVars
  <2> QED
    BY <2>1, <2>2, <2>3, <2>4, <2>5, <2>6 DEF TableNext
<1> QED
  BY <1>1, <1>2, PTL DEF TableSpec

\* No statement brings an ended job back (NoResurrection), for every client
\* and every number of jobs.
THEOREM EndedStaysEnded == TableSpec => NoResurrection
<1> DEFINE Keeps == \A j \in Jobs : status[j] \in Ended => status'[j] \in Ended
<1>1. TableTypeOK /\ [TableNext]_tableVars => [Keeps]_tableVars
  <2> SUFFICES ASSUME TableTypeOK, TableNext, NEW j \in Jobs, status[j] \in Ended
               PROVE  status'[j] \in Ended
    OBVIOUS
  <2> USE DEF TableTypeOK, Ended
  <2>1. CASE Submit
    BY <2>1 DEF Submit, SubmitJob
  <2>2. CASE StartRow
    BY <2>2 DEF StartRow, MarkRunning
  <2>3. CASE FinishRow
    BY <2>3 DEF FinishRow, MarkFinished
  <2>4. CASE Cancel
    BY <2>4 DEF Cancel, RequestCancel
  <2>5. CASE Orphan
    BY <2>5 DEF Orphan, OrphanInterruptedJobs
  <2> QED
    BY <2>1, <2>2, <2>3, <2>4, <2>5 DEF TableNext
<1> QED
  BY <1>1, TableTyping, PTL DEF TableSpec, NoResurrection

-----------------------------------------------------------------------------
(* The daemon changes rows only as the table alone allows.                 *)

Launches == {"prepare", "spawn", "giveUp", "mark"}

\* The rows of the jobs the daemon works on exist.
RowsExist ==
  /\ \A j \in running : status[j] # "absent"
  /\ pc \in Launches => status[job] # "absent"

\* No statement removes a row.
LEMMA RowsStay ==
  ASSUME TypeOK, RowsExist, [Next]_vars
  PROVE  /\ [TableNext]_tableVars
         /\ \A j \in Jobs : status[j] # "absent" => status'[j] # "absent"
<1> DEFINE Kept == UNCHANGED tableVars
           Allowed == TableNext /\ \A j \in Jobs : status[j] # "absent" => status'[j] # "absent"
<1>1. ASSUME NEW j \in Jobs, SubmitJob(j) PROVE Allowed
  BY <1>1 DEF TableNext, Submit, SubmitJob, TypeOK, TableTypeOK
<1>2. ASSUME NEW j \in Jobs, RequestCancel(j) PROVE Allowed
  BY <1>2 DEF TableNext, Cancel, RequestCancel, TypeOK, TableTypeOK
<1>3. ASSUME OrphanInterruptedJobs PROVE Allowed
  BY <1>3 DEF TableNext, Orphan, OrphanInterruptedJobs, TypeOK, TableTypeOK
<1>4. ASSUME NEW j \in Jobs, MarkRunning(j) PROVE Kept \/ Allowed
  <2>1. CASE status[j] = "queued"
    BY <1>4, <2>1 DEF TableNext, StartRow, Queued, MarkRunning, TypeOK, TableTypeOK
  <2>2. CASE status[j] # "queued"
    BY <1>4, <2>2 DEF MarkRunning, tableVars
  <2> QED
    BY <2>1, <2>2
<1>5. ASSUME NEW j \in Jobs, status[j] # "absent", NEW s \in Ended \ {"orphaned"},
             MarkFinished(j, s)
      PROVE  Allowed
  BY <1>5 DEF TableNext, FinishRow, MarkFinished, TypeOK, TableTypeOK, Ended
<1>6. Kept \/ Allowed
  <2> HIDE DEF Kept, Allowed
  <2>1. CASE Loop
    <3>1. ASSUME NEW j \in Jobs, ReapExit(j) PROVE Allowed
      <4> DEFINE s == IF stop[j] # "none" THEN stop[j]
                      ELSE IF proc[j] = "ok" THEN "succeeded" ELSE "failed"
      <4>1. status[j] # "absent" /\ MarkFinished(j, s)
        BY <3>1 DEF ReapExit, RowsExist
      <4>2. s \in Ended \ {"orphaned"}
        BY DEF TypeOK, ProcTypeOK, Ended
      <4> HIDE DEF s
      <4> QED
        BY <4>1, <4>2, <1>5
    <3>2. ASSUME NEW j \in Jobs, ReapAlive(j) \/ RequestStop(j) \/ AwaitStop(j) \/ ForceStop(j)
          PROVE  Kept
      BY <3>2 DEF Kept, ReapAlive, RequestStop, AwaitStop, ForceStop, ReapStop
    <3>3. CASE BeginPass \/ ReapFails \/ ArmGate \/ ArmWorkloadBoundary \/ EndReap
      BY <3>3 DEF Kept, BeginPass, ReapFails, ArmGate, ArmWorkloadBoundary, EndReap
    <3>4. CASE Check \/ Probe \/ Assess
      BY <3>4 DEF Kept, Check, CheckBlocked, CheckDemand, Probe, ProbeOk, ProbeFails, Assess,
                  AssessLater, AssessGate, AssessFatal
    <3>5. CASE Select \/ PrepareFails \/ Prepare \/ SpawnFails \/ SpawnOk
      BY <3>5 DEF Kept, Select, SelectNone, SelectJob, ScheduleRaises, PrepareFails, Prepare,
                  SpawnFails, SpawnOk
    <3>6. CASE GiveUp
      <4>1. job \in Jobs /\ status[job] # "absent"
        BY <3>6 DEF GiveUp, TypeOK, PassTypeOK, Working, RowsExist, Launches
      <4>2. MarkFinished(job, "failed") \/ Kept
        BY <3>6 DEF GiveUp, Kept
      <4> QED
        BY <4>1, <4>2, <1>5 DEF Ended
    <3>7. CASE Mark
      <4>1. job \in Jobs
        BY <3>7 DEF Mark, TypeOK, PassTypeOK, Working
      <4>2. MarkRunning(job) \/ Kept
        BY <3>7 DEF Mark, Kept
      <4> QED
        BY <4>1, <4>2, <1>4
    <3> QED
      BY <2>1, <3>1, <3>2, <3>3, <3>4, <3>5, <3>6, <3>7 DEF Loop, Reap, Launch
  <2>2. CASE Processes \/ Tick \/ Rearm
    BY <2>2 DEF Kept, Processes, ProcessExit, StrayExit, Tick, Rearm, RearmMay, RearmProbe,
                RearmCommit
  <2>3. CASE Clients
    <3>1. Cancelable \subseteq Jobs
      BY SchedulerAssumption
    <3>2. CASE StopRequest
      BY <3>2 DEF Kept, StopRequest
    <3> QED
      BY <2>3, <3>1, <3>2, <1>1, <1>2 DEF Clients, SubmitRequest, CancelRequest, Table
  <2>4. CASE Restart
    BY <2>4, <1>3 DEF Restart
  <2>5. CASE StartupProbeOk \/ StartupProbeFails \/ StartupDies \/ Crash \/ Exit \/ Reboot
    BY <2>5 DEF Kept, StartupProbeOk, StartupProbeFails, StartupDies, Crash, Exit, Vanish, Reboot
  <2>6. CASE UNCHANGED vars
    BY <2>6 DEF Kept, vars
  <2> QED
    BY <2>1, <2>2, <2>3, <2>4, <2>5, <2>6 DEF Next, Life, Startup
<1> QED
  BY <1>6 DEF tableVars

\* A process is tracked, and a launch goes on, only for a job taken from the queue.
LEMMA OnlyQueuedLaunched ==
  ASSUME TypeOK, [Next]_vars
  PROVE  /\ running' \subseteq running \cup (IF pc \in Launches THEN {job} ELSE {})
         /\ pc' \in Launches => \/ pc \in Launches /\ job' = job
                                \/ job' \in Queued
<1> USE DEF Launches, procVars, passVars, Blank, Sleep
<1>1. CASE Loop
  <2>1. CASE Reap
    BY <2>1 DEF Reap, ReapExit, ReapAlive, RequestStop, AwaitStop, ForceStop, ReapStop
  <2>2. CASE BeginPass \/ ReapFails \/ ArmGate \/ ArmWorkloadBoundary \/ EndReap
    BY <2>2 DEF BeginPass, ReapFails, ArmGate, ArmWorkloadBoundary, EndReap, CallReap, Raise
  <2>3. CASE Check \/ Probe \/ Assess
    BY <2>3 DEF Check, CheckBlocked, CheckDemand, Probe, ProbeOk, ProbeFails, Assess,
                AssessLater, AssessGate, AssessFatal, CallReap
  <2>4. CASE Select
    BY <2>4 DEF Select, SelectNone, SelectJob, ScheduleRaises, Finish
  <2>5. CASE Launch
    BY <2>5 DEF Launch, PrepareFails, Prepare, SpawnFails, SpawnOk, GiveUp, Mark, Finish
  <2> QED
    BY <1>1, <2>1, <2>2, <2>3, <2>4, <2>5 DEF Loop
<1>2. CASE Processes \/ Tick \/ Rearm
  BY <1>2 DEF Processes, ProcessExit, StrayExit, Tick, Rearm, RearmMay, RearmProbe, RearmCommit
<1>3. CASE Clients
  BY <1>3 DEF Clients, SubmitRequest, CancelRequest, StopRequest, Table
<1>4. CASE Life
  BY <1>4 DEF Life, Startup, Restart, StartupProbeOk, StartupProbeFails, StartupDies, Crash,
              Exit, Vanish, Reboot
<1>5. CASE UNCHANGED vars
  BY <1>5 DEF vars
<1> QED
  BY <1>1, <1>2, <1>3, <1>4, <1>5 DEF Next

LEMMA RowsInduction == Spec => []RowsExist
<1>1. Init => RowsExist
  BY DEF Init, RowsExist, Launches
<1>2. TypeOK /\ TypeOK' /\ RowsExist /\ [Next]_vars => RowsExist'
  <2> SUFFICES ASSUME TypeOK, TypeOK', RowsExist, [Next]_vars PROVE RowsExist'
    OBVIOUS
  <2>1. \A j \in Jobs : status[j] # "absent" => status'[j] # "absent"
    BY RowsStay
  <2>2. running' \subseteq Jobs /\ (pc' \in Launches => job' \in Jobs)
    BY DEF TypeOK, ProcTypeOK, PassTypeOK, Launches, Working
  <2>3. pc' \in Launches => status[job'] # "absent"
    BY OnlyQueuedLaunched DEF RowsExist, Queued
  <2>4. \A j \in running' : status[j] # "absent"
    BY OnlyQueuedLaunched DEF RowsExist
  <2> QED
    BY <2>1, <2>2, <2>3, <2>4 DEF RowsExist
<1> QED
  BY <1>1, <1>2, Typing, PTL DEF Spec

\* The daemon, its restarts and its clients together change the rows only as
\* the statements of db.py allow with any client issuing them at any time: the
\* rows that are finished exist, because only a queued row is ever launched.
THEOREM Refinement == Spec => RowsFollowTable
<1>1. Init => TableInit
  BY DEF Init
<1>2. TypeOK /\ RowsExist /\ [Next]_vars => [TableNext]_tableVars
  BY RowsStay
<1> QED
  BY <1>1, <1>2, Typing, RowsInduction, PTL DEF Spec, RowsFollowTable, TableSpec

\* So what is proved of the table alone holds of the daemon: no row returns to the
\* queue once it has ended.
THEOREM NoRelaunch == Spec => NoResurrection
  BY Refinement, EndedStaysEnded DEF RowsFollowTable

-----------------------------------------------------------------------------
(* What a step does to the jobs.                                           *)

\* The part of a pass between active_jobs and the end of its launch.
Covering ==
  \/ pc \in {"probe", "assess", "select", "prepare", "spawn", "mark"}
  \/ pc \in {"reap", "armGate", "armBoundary"} /\ site = "sampled"

\* A step that starts and ends no job and moves no row: the loop may go on to a
\* later point of its pass, commands of jobs may exit, cleanups may run.
Still ==
  /\ UNCHANGED <<status, running, starts>>
  /\ \A j \in Jobs : proc'[j] = "none" <=> proc[j] = "none"
  /\ \/ UNCHANGED <<cleaned, cleanups>>
     \/ \E j \in Jobs : (j \in running \/ proc[j] = "alive") /\ RunCleanupOnce(j)
  /\ pc' \in {"prepare", "spawn", "mark"} => pc' = pc \/ (pc = "prepare" /\ pc' = "spawn")
  /\ pc' = "giveUp" => pc \in {"prepare", "spawn", "giveUp"}
  /\ pc' \in Launches => job' = job
  /\ pc = "mark" => pc' = "mark"
  /\ pc' \in {"down", "startup"} => pc \in {"down", "startup"}
  /\ Covering' => (Covering /\ active' = active) \/ active' = Active
  /\ pc' \in {"prepare", "spawn", "mark"} => active' = active
  /\ stopping' => stopping \/ {"signal", "shutdown"} \cap Mishaps # {}

\* Every step is still or one of those that start, end, forget or change jobs.
LEMMA StepKinds ==
  ASSUME TypeOK, [Next]_vars
  PROVE  \/ Still
         \/ \E j \in Jobs : ReapExit(j) \/ SubmitRequest(j) \/ CancelRequest(j)
         \/ SelectJob \/ SpawnOk \/ GiveUp \/ Mark
         \/ Crash \/ Exit \/ Reboot \/ Restart
<1> DEFINE Rows  == UNCHANGED <<status, running, starts, stopping>>
           Tidy  == UNCHANGED <<proc, cleaned, cleanups>>
           Kept  == Rows /\ Tidy
           Place == UNCHANGED <<pc, job, site, active>>
           Away  == /\ pc # "mark"
                    /\ \/ pc' \in {"wait", "check", "dead"}
                       \/ pc' \in {"reap", "armGate", "armBoundary"} /\ site' # "sampled"
           On    == /\ pc # "mark" /\ Covering /\ active' = active
                    /\ \/ pc' \in {"reap", "armGate", "armBoundary", "assess", "select"}
                       \/ pc' \in {"spawn", "giveUp"} /\ pc \in {"prepare", "spawn"} /\ job' = job
<1>1. Kept /\ (Place \/ Away) => Still
  BY DEF Still, Covering, Launches
<1>2. Kept /\ On /\ (pc' = "spawn" => pc = "prepare") => Still
  BY DEF Still, Covering, Launches
<1>3. ASSUME NEW j \in Jobs, Rows, UNCHANGED <<proc>>, j \in running \/ proc[j] = "alive",
             RunCleanupOnce(j), Place \/ Away
      PROVE  Still
  BY <1>3 DEF Still, Covering, Launches
<1>4. CASE Loop
  <2> USE DEF tableVars, procVars, passVars, daemonVars, historyVars, CallReap, Sleep, Raise, Blank
  <2> HIDE DEF Tidy, Rows
  <2>1. ASSUME NEW j \in Jobs, ReapAlive(j) \/ RequestStop(j) \/ AwaitStop(j) \/ ForceStop(j)
        PROVE  Still
    <3>1. Rows /\ Place /\ UNCHANGED proc
      BY <2>1 DEF Rows, ReapAlive, RequestStop, AwaitStop, ForceStop, ReapStop
    <3>2. Tidy \/ (RunCleanupOnce(j) /\ proc[j] = "alive")
      BY <2>1 DEF Tidy, ReapAlive, RequestStop, AwaitStop, ForceStop, ReapStop
    <3> QED
      BY <1>1, <1>3, <3>1, <3>2
  <2>2. CASE ReapFails
    <3>1. Rows /\ Away /\ UNCHANGED proc
      BY <2>2 DEF Rows, ReapFails
    <3>2. Tidy \/ \E j \in Jobs : j \in running /\ RunCleanupOnce(j)
      BY <2>2 DEF Tidy, ReapFails, TypeOK, ProcTypeOK
    <3> QED
      BY <1>1, <1>3, <3>1, <3>2
  <2>3. CASE BeginPass
    BY <1>1, <2>3 DEF Rows, Tidy, BeginPass
  <2>4. CASE ArmGate \/ ArmWorkloadBoundary
    <3>1. Kept
      BY <2>4 DEF Rows, Tidy, ArmGate, ArmWorkloadBoundary
    <3>2. Away \/ /\ pc \in {"armGate", "armBoundary"} /\ pc' \in {"reap", "armBoundary"}
                  /\ UNCHANGED <<site, active>>
      BY <2>4 DEF ArmGate, ArmWorkloadBoundary
    <3> QED
      BY <1>1, <1>2, <3>1, <3>2 DEF Covering
  <2>5. CASE EndReap
    <3>1. Kept
      BY <2>5 DEF Rows, Tidy, EndReap
    <3>2. Away \/ (pc = "reap" /\ site = "sampled" /\ pc' = "assess" /\ active' = active)
      BY <2>5 DEF EndReap
    <3> QED
      BY <1>1, <1>2, <3>1, <3>2 DEF Covering
  <2>6. CASE Check
    <3>1. Kept
      BY <2>6 DEF Rows, Tidy, Check, CheckBlocked, CheckDemand
    <3>2. Away \/ (pc = "check" /\ pc' = "probe" /\ active' = Active)
      BY <2>6 DEF Check, CheckBlocked, CheckDemand
    <3>3. Kept /\ pc = "check" /\ pc' = "probe" /\ active' = Active => Still
      BY DEF Still, Covering, Launches, Rows, Tidy
    <3> QED
      BY <1>1, <3>1, <3>2, <3>3
  <2>7. CASE Probe \/ Assess
    <3>1. Kept
      BY <2>7 DEF Rows, Tidy, Probe, ProbeOk, ProbeFails, Assess, AssessLater, AssessGate, Observe,
                  AssessFatal, QueryFails
    <3>2. pc \in {"probe", "assess"}
          /\ (Away \/ (pc' \in {"reap", "select"} /\ active' = active))
      BY <2>7 DEF Probe, ProbeOk, ProbeFails, Assess, AssessLater, AssessGate, AssessFatal
    <3> QED
      BY <1>1, <1>2, <3>1, <3>2 DEF Covering
  <2>8. CASE SelectNone \/ ScheduleRaises
    BY <1>1, <2>8 DEF Rows, Tidy, SelectNone, ScheduleRaises, Finish
  <2>9. CASE PrepareFails \/ Prepare \/ SpawnFails
    BY <1>2, <2>9 DEF Rows, Tidy, PrepareFails, Prepare, SpawnFails, Covering
  <2>10. CASE Reap
    BY <2>1, <2>10 DEF Reap
  <2>11. CASE Select \/ Launch
    BY <2>8, <2>9, <2>11 DEF Select, Launch
  <2> QED
    BY <1>4, <2>2, <2>3, <2>4, <2>5, <2>6, <2>7, <2>10, <2>11 DEF Loop
<1>5. CASE Processes
  <2>1. ASSUME NEW j \in Jobs, ProcessExit(j) PROVE Still
    BY <2>1 DEF ProcessExit, Still, Covering, Launches, tableVars, passVars, daemonVars,
                historyVars, TypeOK, ProcTypeOK
  <2>2. ASSUME NEW j \in Jobs, StrayExit(j) PROVE Still
    BY <1>1, <2>2 DEF StrayExit, tableVars, passVars, daemonVars, historyVars
  <2> QED
    BY <1>5, <2>1, <2>2 DEF Processes
<1>6. CASE Tick \/ Rearm
  BY <1>1, <1>6 DEF Tick, Rearm, RearmMay, RearmProbe, RearmCommit, QueryFails, tableVars,
                    procVars, passVars, historyVars, daemonVars
<1>7. CASE Clients
  <2>1. CASE StopRequest
    BY <2>1 DEF StopRequest, Mishap, Still, Covering, Launches, tableVars, procVars, passVars,
                historyVars
  <2> QED
    BY <1>7, <2>1, SchedulerAssumption DEF Clients
<1>8. CASE Life
  <2>1. CASE StartupProbeOk
    BY <1>1, <2>1 DEF StartupProbeOk, tableVars, procVars, passVars, daemonVars, historyVars
  <2>2. CASE StartupProbeFails
    BY <1>1, <2>2 DEF StartupProbeFails, QueryFails, tableVars, procVars, passVars, daemonVars
  <2>3. CASE StartupDies
    BY <2>3 DEF StartupDies, tableVars, procVars, passVars, daemonVars, Still, Covering, Launches
  <2> QED
    BY <1>8, <2>1, <2>2, <2>3 DEF Life, Startup
<1>9. CASE UNCHANGED vars
  BY <1>1, <1>9 DEF vars, tableVars, procVars, passVars, daemonVars, historyVars
<1> QED
  BY <1>4, <1>5, <1>6, <1>7, <1>8, <1>9 DEF Next

\* Where the tracked jobs stand in the table: the row of a tracked process says
\* "running", or "canceled" when the request came between Popen and the UPDATE
\* after it; a job being launched is in the queue or was canceled there.
Placed ==
  /\ \A j \in running : \/ status[j] \in {"running", "canceled"}
                        \/ status[j] = "queued" /\ pc = "mark" /\ job = j
  /\ pc \in {"prepare", "spawn", "giveUp"} => job \notin running
  /\ pc = "mark" => job \in running
  /\ pc \in Launches => status[job] \in {"queued", "canceled"}
  /\ pc \in {"down", "startup"} => running = {}

LEMMA PlacedStep ==
  ASSUME "dbMark" \notin Mishaps, TypeOK, Placed, [Next]_vars PROVE Placed'
<1> USE DEF Placed, Launches
<1>0. pc \in Launches => job \in Jobs
  BY DEF TypeOK, PassTypeOK, Working
<1> USE DEF tableVars, procVars, passVars, Sleep, Blank, Finish, TypeOK, TableTypeOK, ProcTypeOK
<1>1. CASE Still
  BY <1>1 DEF Still
<1>2. ASSUME NEW j \in Jobs, ReapExit(j) PROVE Placed'
  BY <1>2 DEF ReapExit, MarkFinished
<1>3. ASSUME NEW j \in Jobs, SubmitRequest(j) PROVE Placed'
  BY <1>0, <1>3 DEF SubmitRequest, Table, SubmitJob
<1>4. ASSUME NEW j \in Jobs, CancelRequest(j) PROVE Placed'
  BY <1>0, <1>4 DEF CancelRequest, Table, RequestCancel
<1>5. CASE SelectJob
  BY <1>5 DEF SelectJob, Queued
<1>6. CASE SpawnOk
  BY <1>6 DEF SpawnOk
<1>7. CASE GiveUp
  BY <1>0, <1>7 DEF GiveUp, MarkFinished
<1>8. CASE Mark
  <2>1. MarkRunning(job) /\ Finish
    BY <1>8 DEF Mark, Mishap
  <2> QED
    BY <1>0, <1>8, <2>1 DEF Mark, MarkRunning
<1>9. CASE Crash \/ Exit \/ Reboot
  BY <1>9 DEF Crash, Exit, Reboot, Vanish
<1>10. CASE Restart
  BY <1>10 DEF Restart
<1> QED
  BY <1>1, <1>2, <1>3, <1>4, <1>5, <1>6, <1>7, <1>8, <1>9, <1>10, StepKinds

LEMMA PlacedInduction == ASSUME "dbMark" \notin Mishaps PROVE Spec => []Placed
<1>1. Init => Placed
  BY DEF Init, Placed, Launches
<1> QED
  BY <1>1, PlacedStep, Typing, PTL DEF Spec

\* Only a job that is queued, running, or was canceled before its process was
\* marked, is ever given an outcome: an outcome once recorded stays, whatever
\* reaps, launch failures, cancel requests and restarts follow, provided the
\* UPDATE after Popen does not fail.
THEOREM OutcomesFinal == "dbMark" \notin Mishaps => (Spec => OutcomeFinal)
<1> SUFFICES ASSUME "dbMark" \notin Mishaps PROVE Spec => OutcomeFinal
  OBVIOUS
<1>1. ASSUME TypeOK, Placed, [Next]_vars, NEW j \in Jobs, status[j] \in Ended \ {"canceled"}
      PROVE  status'[j] = status[j]
  <2> USE <1>1 DEF Placed, Ended, TypeOK, TableTypeOK, ProcTypeOK
  <2>0. pc \in Launches => job \in Jobs
    BY DEF PassTypeOK, Working, Launches
  <2>1. CASE Still \/ SelectJob \/ SpawnOk \/ Crash \/ Exit \/ Reboot
    BY <2>1 DEF Still, SelectJob, SpawnOk, Crash, Exit, Reboot, Vanish, tableVars
  <2>2. ASSUME NEW i \in Jobs, ReapExit(i) PROVE status'[j] = status[j]
    BY <2>2 DEF ReapExit, MarkFinished
  <2>3. ASSUME NEW i \in Jobs, SubmitRequest(i) \/ CancelRequest(i) PROVE status'[j] = status[j]
    BY <2>3 DEF SubmitRequest, CancelRequest, Table, SubmitJob, RequestCancel
  <2>4. CASE GiveUp
    BY <2>0, <2>4 DEF GiveUp, MarkFinished, Launches, tableVars
  <2>5. CASE Mark
    BY <2>0, <2>5 DEF Mark, MarkRunning, Launches, tableVars
  <2>6. CASE Restart
    BY <2>6 DEF Restart, OrphanInterruptedJobs, Active
  <2> QED
    BY <2>1, <2>2, <2>3, <2>4, <2>5, <2>6, StepKinds
<1>2. TypeOK /\ Placed /\ [Next]_vars
        => [\A j \in Jobs : status[j] \in Ended \ {"canceled"} => status'[j] = status[j]]_vars
  BY <1>1
<1> QED
  BY <1>2, Typing, PlacedInduction, PTL DEF Spec, OutcomeFinal

-----------------------------------------------------------------------------
(* How many jobs run together.                                             *)

\* The rows a pass has read before its query still are all the running ones
\* when it launches, and the limit it compares them with leaves room for one.
Limited ==
  /\ Cardinality(Active) <= MaxParallel
  /\ Covering => Active \subseteq active
  /\ pc \in {"prepare", "spawn", "mark"} => Cardinality(active) < MaxParallel

\* Rows enter "running" only in the step after Popen, for the job of that step.
LEMMA ActiveGrows ==
  ASSUME TypeOK, [Next]_vars
  PROVE  /\ Active' \subseteq Active \cup (IF pc = "mark" THEN {job} ELSE {})
         /\ pc = "mark" /\ Active' # Active => pc' = "wait"
<1> USE DEF Active, TypeOK, TableTypeOK, tableVars
<1>1. CASE Still \/ SelectJob \/ SpawnOk \/ Crash \/ Exit \/ Reboot
  BY <1>1 DEF Still, SelectJob, SpawnOk, Crash, Exit, Reboot, Vanish
<1>2. ASSUME NEW j \in Jobs, ReapExit(j) PROVE Active' \subseteq Active /\ pc # "mark"
  BY <1>2 DEF ReapExit, MarkFinished, ProcTypeOK
<1>3. ASSUME NEW j \in Jobs, SubmitRequest(j) \/ CancelRequest(j) PROVE Active' = Active
  BY <1>3 DEF SubmitRequest, CancelRequest, Table, SubmitJob, RequestCancel
<1>4. CASE GiveUp
  BY <1>4 DEF GiveUp, MarkFinished
<1>5. CASE Mark
  BY <1>5 DEF Mark, MarkRunning, Finish, Sleep
<1>6. CASE Restart
  BY <1>6 DEF Restart, OrphanInterruptedJobs
<1> QED
  BY <1>1, <1>2, <1>3, <1>4, <1>5, <1>6, StepKinds

\* What covers a pass stays: only the first step of the pass reads active_jobs.
LEMMA ActiveKept ==
  ASSUME TypeOK, [Next]_vars
  PROVE  /\ Covering' => (Covering /\ active' = active) \/ active' = Active
         /\ pc' \in {"prepare", "spawn", "mark"} =>
              /\ active' = active
              /\ \/ pc \in {"prepare", "spawn", "mark"} /\ job' = job
                 \/ SelectJob
<1> USE DEF Covering, passVars, Sleep, Blank, Finish
<1>1. CASE Still
  BY <1>1 DEF Still, Launches
<1>2. ASSUME NEW j \in Jobs, ReapExit(j) \/ SubmitRequest(j) \/ CancelRequest(j)
      PROVE  /\ pc' \in {"prepare", "spawn", "mark"} => UNCHANGED <<pc, job>>
             /\ active' = active /\ (Covering' => Covering)
  BY <1>2 DEF ReapExit, SubmitRequest, CancelRequest, Table
<1>3. CASE SelectJob
  BY <1>3 DEF SelectJob
<1>4. CASE SpawnOk
  BY <1>4 DEF SpawnOk
<1>5. CASE GiveUp \/ Mark
  BY <1>5 DEF GiveUp, Mark
<1>6. CASE Crash \/ Exit \/ Reboot
  BY <1>6 DEF Crash, Exit, Reboot, Vanish
<1>7. CASE Restart
  BY <1>7 DEF Restart
<1> QED
  BY <1>1, <1>2, <1>3, <1>4, <1>5, <1>6, <1>7, StepKinds

LEMMA LimitedStep ==
  ASSUME TypeOK, TypeOK', Limited, [Next]_vars PROVE Limited'
<1>1. Active \subseteq Jobs /\ Active' \subseteq Jobs /\ active \subseteq Jobs
  BY DEF Active, TypeOK, PassTypeOK
<1>2. ASSUME NEW S, NEW T, S \subseteq T, T \subseteq Jobs
      PROVE  Cardinality(S) \in Nat /\ Cardinality(T) \in Nat /\ Cardinality(S) <= Cardinality(T)
  <2>1. IsFiniteSet(T)
    BY <1>2, JobsAssumption, FS_Subset
  <2> QED
    BY <1>2, <2>1, FS_Subset, FS_CardinalityType
<1>3. Cardinality(Active') <= MaxParallel
  <2>1. CASE Active' \subseteq Active
    BY <1>1, <1>2, <2>1, SchedulerAssumption DEF Limited
  <2>2. CASE ~(Active' \subseteq Active)
    <3>1. pc = "mark" /\ Active' \subseteq active \cup {job}
      BY <2>2, ActiveGrows DEF Limited, Covering
    <3>2. IsFiniteSet(active)
      BY <1>1, JobsAssumption, FS_Subset
    <3>3. Cardinality(active) < MaxParallel
      BY <3>1 DEF Limited
    <3>4. job \in Jobs
      BY <3>1 DEF TypeOK, PassTypeOK, Working
    <3>5. Cardinality(active \cup {job}) <= Cardinality(active) + 1
      BY <3>2, <1>1, <1>2, FS_AddElement
    <3>6. Cardinality(Active') <= Cardinality(active \cup {job})
      BY <1>1, <1>2, <3>1, <3>4
    <3>7. Cardinality(Active') \in Nat /\ Cardinality(active \cup {job}) \in Nat
          /\ Cardinality(active) \in Nat
      BY <1>1, <1>2, <3>4
    <3> QED
      BY <3>3, <3>5, <3>6, <3>7, SchedulerAssumption
  <2> QED
    BY <2>1, <2>2
<1>4. Covering' => Active' \subseteq active'
  <2>1. Covering' => pc' # "wait"
    BY DEF Covering
  <2>2. Covering' => Active' \subseteq Active
    BY <2>1, ActiveGrows
  <2> QED
    BY <2>2, ActiveKept DEF Limited
<1>5. pc' \in {"prepare", "spawn", "mark"} => Cardinality(active') < MaxParallel
  BY ActiveKept DEF Limited, SelectJob, Chosen
<1> QED
  BY <1>3, <1>4, <1>5 DEF Limited

\* The daemon never tracks more than max_parallel_jobs live processes whose rows are not
\* "canceled", whenever clients cancel and launches fail, provided the UPDATE after
\* Popen does not fail (else a live process keeps a row "queued").  That is all: a
\* process whose row was canceled before mark_running runs on uncounted, and so do
\* the processes a daemon that died has left (AllCount, CancelRace).
THEOREM LimitKept == "dbMark" \notin Mishaps => (Spec => []WithinLimit)
<1> SUFFICES ASSUME "dbMark" \notin Mishaps PROVE Spec => []WithinLimit
  OBVIOUS
<1>1. Init => Limited
  <2> SUFFICES ASSUME Init PROVE Limited
    OBVIOUS
  <2>1. Active = {}
    BY DEF Init, TableInit, Active
  <2> QED
    BY <2>1, FS_EmptySet, SchedulerAssumption DEF Init, Limited, Covering
<1>2. TypeOK /\ TypeOK' /\ Limited /\ [Next]_vars => Limited'
  BY LimitedStep
<1>3. TypeOK /\ Placed /\ Limited => WithinLimit
  <2> SUFFICES ASSUME TypeOK, Placed, Limited PROVE WithinLimit
    OBVIOUS
  <2> DEFINE Held == IF pc = "mark" THEN active \cup {job} ELSE Active
  <2>1. Managed \subseteq Held
    BY DEF Managed, Alive, Placed, Active, Limited, Covering, TypeOK, ProcTypeOK
  <2>2. IsFiniteSet(Held) /\ Cardinality(Held) <= MaxParallel
    <3>1. CASE pc = "mark"
      <4>1. IsFiniteSet(active)
        BY JobsAssumption, FS_Subset DEF TypeOK, PassTypeOK
      <4>2. Cardinality(active) < MaxParallel /\ Cardinality(active) \in Nat
        BY <3>1, <4>1, FS_CardinalityType DEF Limited
      <4>3. /\ IsFiniteSet(active \cup {job})
            /\ Cardinality(active \cup {job})
                 = IF job \in active THEN Cardinality(active) ELSE Cardinality(active) + 1
        BY <4>1, FS_AddElement
      <4>4. Cardinality(active \cup {job}) <= MaxParallel
        BY <4>2, <4>3, SchedulerAssumption
      <4> QED
        BY <3>1, <4>3, <4>4
    <3>2. CASE pc # "mark"
      <4>1. Active \subseteq Jobs
        BY DEF Active
      <4> QED
        BY <3>2, <4>1, JobsAssumption, FS_Subset DEF Limited
    <3> QED
      BY <3>1, <3>2
  <2> HIDE DEF Held
  <2>3. Cardinality(Managed) <= Cardinality(Held) /\ IsFiniteSet(Managed)
    BY <2>1, <2>2, FS_Subset
  <2>4. Cardinality(Managed) \in Nat /\ Cardinality(Held) \in Nat
    BY <2>2, <2>3, FS_CardinalityType
  <2> QED
    BY <2>2, <2>3, <2>4, SchedulerAssumption DEF WithinLimit
<1> QED
  BY <1>1, <1>2, <1>3, Typing, PlacedInduction, PTL DEF Spec

\* No row is canceled and none is asked to be.
Uncanceled ==
  \A j \in Jobs : status[j] # "canceled" /\ ~cancel[j] /\ stop[j] # "canceled"

LEMMA UncanceledStep ==
  ASSUME Cancelable = {}, TypeOK, Uncanceled, [Next]_vars PROVE Uncanceled'
<1> USE DEF Uncanceled
<1>0. /\ status \in [Jobs -> Statuses] /\ cancel \in [Jobs -> BOOLEAN]
      /\ stop \in [Jobs -> {"none", "canceled", "timed_out"}]
  BY DEF TypeOK, TableTypeOK, ProcTypeOK
<1>1. ASSUME UNCHANGED <<status, cancel, stop>> PROVE Uncanceled'
  BY <1>1
<1>2. ASSUME NEW j \in Jobs, NEW s \in {"succeeded", "failed", "timed_out"}, MarkFinished(j, s),
             UNCHANGED stop \/ stop' = [stop EXCEPT ![j] = "none"]
      PROVE  Uncanceled'
  BY <1>0, <1>2 DEF MarkFinished
<1>3. CASE Loop
  <2>1. ASSUME NEW j \in Jobs, ReapExit(j) PROVE Uncanceled'
    <3> DEFINE s == IF stop[j] # "none" THEN stop[j]
                    ELSE IF proc[j] = "ok" THEN "succeeded" ELSE "failed"
    <3>1. s \in {"succeeded", "failed", "timed_out"}
      BY <1>0
    <3>2. MarkFinished(j, s) /\ stop' = [stop EXCEPT ![j] = "none"]
      BY <2>1 DEF ReapExit
    <3> HIDE DEF s
    <3> QED
      BY <1>2, <3>1, <3>2
  <2>2. ASSUME NEW j \in Jobs, RequestStop(j) PROVE Uncanceled'
    BY <1>0, <2>2 DEF RequestStop, ReapStop, tableVars
  <2>3. CASE GiveUp
    <3>1. job \in Jobs
      BY <2>3 DEF GiveUp, TypeOK, PassTypeOK, Working
    <3>2. MarkFinished(job, "failed") \/ UNCHANGED <<status, cancel>>
      BY <2>3 DEF GiveUp, tableVars
    <3>3. UNCHANGED stop
      BY <2>3 DEF GiveUp, procVars
    <3> QED
      BY <1>1, <1>2, <3>1, <3>2, <3>3
  <2>4. CASE Mark
    BY <1>0, <2>4 DEF Mark, MarkRunning, tableVars, procVars
  <2>5. ASSUME NEW j \in Jobs, ReapAlive(j) \/ AwaitStop(j) \/ ForceStop(j) PROVE Uncanceled'
    BY <1>1, <2>5 DEF ReapAlive, AwaitStop, ForceStop, ReapStop, tableVars, procVars
  <2>6. CASE \/ BeginPass \/ ReapFails \/ ArmGate \/ ArmWorkloadBoundary \/ EndReap \/ Check
             \/ Probe \/ Assess \/ Select
    BY <1>1, <2>6 DEF BeginPass, ReapFails, ArmGate, ArmWorkloadBoundary, EndReap, Check,
      CheckBlocked, CheckDemand, Probe, ProbeOk, ProbeFails, Assess, AssessLater, AssessGate,
      AssessFatal, Select, SelectNone, SelectJob, ScheduleRaises, tableVars, procVars
  <2>7. CASE PrepareFails \/ Prepare \/ SpawnFails
    BY <1>1, <2>7 DEF PrepareFails, Prepare, SpawnFails, tableVars, procVars
  <2>8. CASE SpawnOk
    BY <1>0, <2>8 DEF SpawnOk, tableVars
  <2> QED
    BY <1>3, <2>1, <2>2, <2>3, <2>4, <2>5, <2>6, <2>7, <2>8 DEF Loop, Reap, Launch
<1>4. CASE Processes \/ Tick \/ Rearm
  BY <1>1, <1>4 DEF Processes, ProcessExit, StrayExit, Tick, Rearm, RearmMay, RearmProbe,
    RearmCommit, tableVars, procVars
<1>5. CASE Clients
  <2>1. ASSUME NEW j \in Jobs, SubmitRequest(j) PROVE Uncanceled'
    BY <1>0, <2>1 DEF SubmitRequest, Table, SubmitJob, procVars
  <2>2. CASE StopRequest
    BY <1>1, <2>2 DEF StopRequest, tableVars, procVars
  <2> QED
    BY <1>5, <2>1, <2>2 DEF Clients
<1>6. CASE Life
  <2>1. CASE Restart
    BY <1>0, <2>1 DEF Restart, OrphanInterruptedJobs, procVars
  <2>2. CASE StartupProbeOk \/ StartupProbeFails
    BY <1>1, <2>2 DEF StartupProbeOk, StartupProbeFails, tableVars, procVars
  <2>3. CASE StartupDies \/ Crash \/ Exit \/ Reboot
    BY <2>3 DEF StartupDies, Crash, Exit, Reboot, Vanish, tableVars, procVars
  <2> QED
    BY <1>6, <2>1, <2>2, <2>3 DEF Life, Startup
<1>7. CASE UNCHANGED vars
  BY <1>1, <1>7 DEF vars, tableVars, procVars
<1> QED
  BY <1>3, <1>4, <1>5, <1>6, <1>7 DEF Next

\* Nothing but a cancel request takes a process out of the count: where no client
\* cancels, LimitKept and ReservationsKept speak of every live process the daemon
\* tracks.  (They never speak of those an earlier daemon left.)
THEOREM AllCount == Cancelable = {} => (Spec => [](Managed = Alive))
<1> SUFFICES ASSUME Cancelable = {} PROVE Spec => [](Managed = Alive)
  OBVIOUS
<1>1. Init => Uncanceled
  BY DEF Init, TableInit, Uncanceled
<1>2. TypeOK /\ Uncanceled /\ [Next]_vars => Uncanceled'
  BY UncanceledStep
<1>3. TypeOK /\ Uncanceled => Managed = Alive
  BY DEF Managed, Alive, Uncanceled, TypeOK, ProcTypeOK
<1> QED
  BY <1>1, <1>2, <1>3, Typing, PTL DEF Spec

-----------------------------------------------------------------------------
(* How much the jobs that run together reserve.                            *)

\* The reservations of the running rows, those a pass has read, and those
\* together with the job it launches, stay below the guarded capacity.
Fitting ==
  /\ SumOf(Need, Active) <= Capacity
  /\ Covering => SumOf(Need, active) <= Capacity
  /\ pc \in {"prepare", "spawn", "mark"} => SumOf(Need, active) + Need[job] <= Capacity

LEMMA NeedSums ==
  ASSUME NEW S, S \subseteq Jobs
  PROVE  /\ SumOf(Need, S) \in Nat
         /\ \A T : T \subseteq S => SumOf(Need, T) \in Nat /\ SumOf(Need, T) <= SumOf(Need, S)
         /\ \A j \in Jobs : SumOf(Need, S \cup {j}) <= SumOf(Need, S) + Need[j]
<1>1. IsFiniteSet(Jobs) /\ Need \in [Jobs -> Nat]
  BY JobsAssumption, SchedulerAssumption
<1>2. ASSUME NEW T, T \subseteq S
      PROVE  SumOf(Need, T) \in Nat /\ SumOf(Need, T) <= SumOf(Need, S)
  BY <1>1, <1>2, SumType, SumMonotonic
<1>3. ASSUME NEW j \in Jobs PROVE SumOf(Need, S \cup {j}) <= SumOf(Need, S) + Need[j]
  BY <1>1, SumPutIn
<1> QED
  BY <1>1, <1>2, <1>3, SumType

\* A job is chosen only if it fits beside the rows the pass has read.
LEMMA ChosenFits ==
  ASSUME TypeOK, SumOf(Need, active) <= Capacity, SelectJob
  PROVE  job' \in Jobs /\ SumOf(Need, active) + Need[job'] <= Capacity
<1>1. PICK h \in Queued, j \in Queued, fit \in Fits : Chosen(j, h, fit) /\ job' = j
  BY DEF SelectJob
<1>2. j \in Jobs /\ Need[j] <= fit
  BY <1>1 DEF Queued, Chosen
<1>3. Reserved = SumOf(Need, active)
  BY DEF Reserved, SumOf
<1>4. SumOf(Need, active) \in Nat
  BY NeedSums DEF TypeOK, PassTypeOK
<1>5. Free = Capacity - SumOf(Need, active) /\ Free \in Nat
  BY <1>3, <1>4, SchedulerAssumption DEF Free, Later
<1>6. fit \in Nat /\ fit <= Free
  BY <1>1, <1>5 DEF Fits
<1>7. Need[j] \in Nat /\ Capacity \in Nat
  BY <1>2, SchedulerAssumption
<1> HIDE DEF Free
<1>8. SumOf(Need, active) + Need[j] <= Capacity
  BY <1>2, <1>4, <1>5, <1>6, <1>7
<1> QED
  BY <1>1, <1>2, <1>8

LEMMA FittingStep ==
  ASSUME TypeOK, TypeOK', Limited, Fitting, [Next]_vars PROVE Fitting'
<1>1. Active \subseteq Jobs /\ Active' \subseteq Jobs /\ active \subseteq Jobs
  BY DEF Active, TypeOK, PassTypeOK
<1>2. SumOf(Need, Active') <= Capacity
  <2>1. CASE Active' \subseteq Active
    <3>1. SumOf(Need, Active') <= SumOf(Need, Active) /\ SumOf(Need, Active) \in Nat
          /\ SumOf(Need, Active') \in Nat
      BY <1>1, <2>1, NeedSums
    <3> QED
      BY <3>1, SchedulerAssumption DEF Fitting
  <2>2. CASE ~(Active' \subseteq Active)
    <3>1. pc = "mark" /\ Active' \subseteq active \cup {job}
      BY <2>2, ActiveGrows DEF Limited, Covering
    <3>2. job \in Jobs /\ SumOf(Need, active) + Need[job] <= Capacity
      BY <3>1 DEF Fitting, TypeOK, PassTypeOK, Working
    <3>3. SumOf(Need, active \cup {job}) <= SumOf(Need, active) + Need[job]
      BY <1>1, <3>2, NeedSums
    <3>4. active \cup {job} \subseteq Jobs
      BY <1>1, <3>2
    <3>5. SumOf(Need, Active') <= SumOf(Need, active \cup {job})
          /\ SumOf(Need, Active') \in Nat /\ SumOf(Need, active \cup {job}) \in Nat
      BY <3>1, <3>4, NeedSums
    <3>6. SumOf(Need, active) \in Nat /\ Need[job] \in Nat
      BY <1>1, <3>2, NeedSums, SchedulerAssumption
    <3> QED
      BY <3>2, <3>3, <3>5, <3>6, SchedulerAssumption
  <2> QED
    BY <2>1, <2>2
<1>3. Covering' => SumOf(Need, active') <= Capacity
  <2> SUFFICES ASSUME Covering' PROVE SumOf(Need, active') <= Capacity
    OBVIOUS
  <2>1. CASE Covering /\ active' = active
    BY <2>1 DEF Fitting
  <2>2. CASE active' = Active
    BY <2>2 DEF Fitting
  <2> QED
    BY <2>1, <2>2, ActiveKept
<1>4. pc' \in {"prepare", "spawn", "mark"} => SumOf(Need, active') + Need[job'] <= Capacity
  <2> SUFFICES ASSUME pc' \in {"prepare", "spawn", "mark"}
               PROVE  SumOf(Need, active') + Need[job'] <= Capacity
    OBVIOUS
  <2>1. active' = active
    BY ActiveKept
  <2>2. CASE pc \in {"prepare", "spawn", "mark"} /\ job' = job
    BY <2>1, <2>2 DEF Fitting
  <2>3. CASE SelectJob
    <3>1. SumOf(Need, active) <= Capacity
      BY <2>3 DEF SelectJob, Fitting, Covering
    <3> QED
      BY <2>1, <2>3, <3>1, ChosenFits
  <2> QED
    BY <2>2, <2>3, ActiveKept
<1> QED
  BY <1>2, <1>3, <1>4 DEF Fitting

\* The live processes the daemon tracks whose rows are not "canceled", of heads and of
\* backfilled jobs, never reserve more VRAM together than the guarded capacity, although
\* that is computed from rows read before the GPU query, provided the UPDATE after
\* Popen does not fail.  What LimitKept does not count is not counted here either.
THEOREM ReservationsKept == "dbMark" \notin Mishaps => (Spec => []ReservationsFit)
<1> SUFFICES ASSUME "dbMark" \notin Mishaps PROVE Spec => []ReservationsFit
  OBVIOUS
<1>1. Init => Limited /\ Fitting
  <2> SUFFICES ASSUME Init PROVE Limited /\ Fitting
    OBVIOUS
  <2>1. Active = {}
    BY DEF Init, TableInit, Active
  <2>2. SumOf(Need, {}) = 0
    BY SumStep, FS_EmptySet
  <2>3. Fitting
    BY <2>1, <2>2, SchedulerAssumption DEF Init, Fitting, Covering
  <2>4. Limited
    BY <2>1, FS_EmptySet, SchedulerAssumption DEF Init, Limited, Covering
  <2> QED
    BY <2>3, <2>4
<1>2. TypeOK /\ TypeOK' /\ Limited /\ Fitting /\ [Next]_vars => Limited' /\ Fitting'
  BY LimitedStep, FittingStep
<1>3. TypeOK /\ Placed /\ Limited /\ Fitting => ReservationsFit
  <2> SUFFICES ASSUME TypeOK, Placed, Limited, Fitting PROVE SumOf(Need, Managed) <= Capacity
    BY DEF ReservationsFit, SumOf
  <2>1. SumOf(Need, Managed) \in Nat
    BY NeedSums DEF Managed, Alive, TypeOK, ProcTypeOK
  <2>2. CASE pc # "mark"
    <3>1. Managed \subseteq Active /\ Active \subseteq Jobs
      BY <2>2 DEF Managed, Alive, Placed, Active, TypeOK, ProcTypeOK
    <3>2. SumOf(Need, Managed) <= SumOf(Need, Active) /\ SumOf(Need, Active) \in Nat
      BY <3>1, NeedSums
    <3> QED
      BY <2>1, <3>2, SchedulerAssumption DEF Fitting
  <2>3. CASE pc = "mark"
    <3>1. job \in Jobs /\ active \subseteq Jobs
      BY <2>3 DEF TypeOK, PassTypeOK, Working
    <3>2. Managed \subseteq active \cup {job}
      BY <2>3 DEF Managed, Alive, Placed, Active, Limited, Covering, TypeOK, ProcTypeOK
    <3>3. SumOf(Need, active \cup {job}) <= SumOf(Need, active) + Need[job]
      BY <3>1, NeedSums
    <3>4. active \cup {job} \subseteq Jobs
      BY <3>1
    <3>5. SumOf(Need, Managed) <= SumOf(Need, active \cup {job})
          /\ SumOf(Need, active \cup {job}) \in Nat
      BY <3>2, <3>4, NeedSums
    <3>6. SumOf(Need, active) \in Nat /\ Need[job] \in Nat
      BY <3>1, NeedSums, SchedulerAssumption
    <3>7. SumOf(Need, active) + Need[job] <= Capacity
      BY <2>3 DEF Fitting
    <3> QED
      BY <2>1, <3>3, <3>5, <3>6, <3>7, SchedulerAssumption
  <2> QED
    BY <2>2, <2>3
<1> QED
  BY <1>1, <1>2, <1>3, Typing, PlacedInduction, PTL DEF Spec

-----------------------------------------------------------------------------
(* Starts and cleanups.                                                    *)

\* Nobody asks the daemon to stop, and neither it nor Windows goes down.
StaysUp == {"crash", "reboot", "signal", "shutdown"} \cap Mishaps = {}

\* A job that was started has left the queue, but for the step after Popen; a
\* job being launched has not been started.
Once ==
  /\ \A j \in Jobs :
       /\ starts[j] <= 1
       /\ starts[j] > 0 => \/ status[j] \notin {"absent", "queued"}
                           \/ pc = "mark" /\ job = j
  /\ pc \in {"prepare", "spawn", "giveUp"} => starts[job] = 0
  /\ ~stopping

LEMMA OnceStep ==
  ASSUME StaysUp, "dbMark" \notin Mishaps, TypeOK, RowsExist, Once, [Next]_vars PROVE Once'
<1> USE DEF Once, Launches
<1>0. pc \in Launches => job \in Jobs
  BY DEF TypeOK, PassTypeOK, Working
<1> USE DEF tableVars, procVars, passVars, daemonVars, historyVars, Sleep, Blank, Finish, TypeOK,
            TableTypeOK, HistoryTypeOK
<1>1. CASE Still
  BY <1>1 DEF Still, StaysUp
<1>2. ASSUME NEW j \in Jobs, ReapExit(j) PROVE Once'
  <2>1. status' = [status EXCEPT ![j] = status'[j]] /\ status'[j] \notin {"absent", "queued"}
    BY <1>2 DEF ReapExit, MarkFinished, ProcTypeOK
  <2> QED
    BY <1>2, <2>1 DEF ReapExit
<1>3. ASSUME NEW j \in Jobs, SubmitRequest(j) PROVE Once'
  BY <1>3 DEF SubmitRequest, Table, SubmitJob
<1>4. ASSUME NEW j \in Jobs, CancelRequest(j) PROVE Once'
  BY <1>4 DEF CancelRequest, Table, RequestCancel
<1>5. CASE SelectJob
  BY <1>5 DEF SelectJob, Queued
<1>6. CASE SpawnOk
  BY <1>0, <1>6 DEF SpawnOk, OneMore, Sooner
<1>7. CASE GiveUp
  BY <1>0, <1>7 DEF GiveUp, MarkFinished
<1>8. CASE Mark
  <2>1. MarkRunning(job) /\ Finish
    BY <1>8 DEF Mark, Mishap
  <2>2. status'[job] \notin {"absent", "queued"}
    BY <1>0, <1>8, <2>1 DEF Mark, MarkRunning, RowsExist
  <2> QED
    BY <1>0, <1>8, <2>1, <2>2 DEF Mark, MarkRunning
<1>9. ~Crash /\ ~Exit /\ ~Reboot
  BY DEF Crash, Exit, Reboot, Mishap, StaysUp
<1>10. CASE Restart
  BY <1>10 DEF Restart, OrphanInterruptedJobs
<1> QED
  BY <1>1, <1>2, <1>3, <1>4, <1>5, <1>6, <1>7, <1>8, <1>9, <1>10, StepKinds

\* A job's command is started at most once, whatever the order of reads of the
\* queue, cancel requests, reorders and launch failures, provided that the daemon
\* stays up and the UPDATE after Popen does not fail: between the two the row
\* still says "queued", and what ends the daemon there makes it start the job
\* again.
THEOREM StartsOnce ==
  StaysUp /\ "dbMark" \notin Mishaps => (Spec => []StartedOnce)
<1> SUFFICES ASSUME StaysUp, "dbMark" \notin Mishaps PROVE Spec => []StartedOnce
  OBVIOUS
<1>1. Init => Once
  BY DEF Init, Once
<1>2. TypeOK /\ RowsExist /\ Once /\ [Next]_vars => Once'
  BY OnceStep
<1>3. Once => StartedOnce
  BY DEF Once, StartedOnce
<1> QED
  BY <1>1, <1>2, <1>3, Typing, RowsInduction, PTL DEF Spec

\* Each tracked process has a state, and cleanup_attempted counts its cleanups.
Counted ==
  /\ \A j \in Jobs : proc[j] = "none" <=> j \notin running
  /\ \A j \in CleanupJobs : /\ cleanups[j] <= 1
                            /\ j \in running => cleanups[j] = IF cleaned[j] THEN 1 ELSE 0

LEMMA CountedStep ==
  ASSUME TypeOK, Counted, [Next]_vars PROVE Counted'
<1> USE DEF Counted
<1>0. (pc \in Launches => job \in Jobs) /\ CleanupJobs \subseteq Jobs
  BY SchedulerAssumption DEF TypeOK, PassTypeOK, Working, Launches
<1> USE DEF procVars, historyVars, TypeOK, ProcTypeOK, HistoryTypeOK
<1>1. CASE Still
  <2>1. \A j \in Jobs : proc'[j] = "none" <=> j \notin running'
    BY <1>1 DEF Still
  <2>2. CASE UNCHANGED <<cleaned, cleanups>>
    BY <1>0, <1>1, <2>1, <2>2 DEF Still
  <2>3. ASSUME NEW i \in Jobs, i \in running, RunCleanupOnce(i) PROVE Counted'
    <3>1. \A j \in CleanupJobs \ {i} : cleanups'[j] = cleanups[j] /\ cleaned'[j] = cleaned[j]
      BY <1>0, <2>3 DEF RunCleanupOnce
    <3>2. i \in CleanupJobs => cleanups'[i] = 1 /\ cleaned'[i] = TRUE
      BY <2>3 DEF RunCleanupOnce, OneMore, Sooner
    <3> QED
      BY <1>1, <2>1, <3>1, <3>2 DEF Still
  <2> QED
    BY <1>1, <2>2, <2>3 DEF Still
<1>2. ASSUME NEW j \in Jobs, ReapExit(j) PROVE Counted'
  <2>1. \A i \in Jobs \ {j} : /\ cleanups'[i] = cleanups[i] /\ cleaned'[i] = cleaned[i]
                             /\ proc'[i] = proc[i]
    BY <1>2 DEF ReapExit
  <2>2. j \in CleanupJobs => cleanups'[j] <= 1
    BY <1>2 DEF ReapExit, OneMore, Sooner
  <2>3. running' = running \ {j} /\ proc'[j] = "none"
    BY <1>2 DEF ReapExit
  <2> QED
    BY <1>0, <2>1, <2>2, <2>3
<1>3. CASE SpawnOk
  <2>1. \A i \in Jobs \ {job} : /\ cleanups'[i] = cleanups[i] /\ cleaned'[i] = cleaned[i]
                                /\ proc'[i] = proc[i]
    BY <1>3 DEF SpawnOk
  <2>2. job \in Jobs /\ cleanups'[job] = 0 /\ cleaned'[job] = FALSE /\ proc'[job] = "alive"
        /\ running' = running \cup {job}
    BY <1>0, <1>3 DEF SpawnOk, Launches
  <2> QED
    BY <1>0, <2>1, <2>2
<1>4. CASE Crash \/ Exit \/ Reboot
  BY <1>0, <1>4 DEF Crash, Exit, Reboot, Vanish
<1>5. ASSUME NEW j \in Jobs, SubmitRequest(j) \/ CancelRequest(j) PROVE Counted'
  BY <1>0, <1>5 DEF SubmitRequest, CancelRequest, Table
<1>6. CASE SelectJob \/ GiveUp \/ Mark \/ Restart
  BY <1>0, <1>6 DEF SelectJob, GiveUp, Mark, Restart
<1> QED
  BY <1>1, <1>2, <1>3, <1>4, <1>5, <1>6, StepKinds

\* The cleanup of a started job that is not tracked any more has run if its end
\* asks for one; a job being launched has not been started, or is tracked.
CleanedUp ==
  /\ \A j \in CleanupJobs : starts[j] > 0 /\ j \notin running =>
       /\ status[j] \in Ended
       /\ status[j] \in {"failed", "timed_out", "canceled"} => cleanups[j] = 1
  /\ pc \in Launches /\ job \in CleanupJobs => job \in running \/ starts[job] = 0
  /\ ~stopping

LEMMA CleanedUpStep ==
  ASSUME StaysUp, TypeOK, Counted, CleanedUp, [Next]_vars PROVE CleanedUp'
<1> USE DEF CleanedUp
<1>0. (pc \in Launches => job \in Jobs) /\ CleanupJobs \subseteq Jobs
  BY SchedulerAssumption DEF TypeOK, PassTypeOK, Working, Launches
<1> USE DEF tableVars, procVars, passVars, daemonVars, historyVars, Sleep, Blank, Finish, TypeOK,
            TableTypeOK, ProcTypeOK, HistoryTypeOK
<1>1. CASE Still
  <2>1. \A j \in CleanupJobs : j \notin running => cleanups'[j] = cleanups[j]
    BY <1>0, <1>1 DEF Still, RunCleanupOnce, Counted
  <2>2. pc' \in Launches => pc \in Launches /\ job' = job
    BY <1>1 DEF Still, Launches
  <2> QED
    BY <1>0, <1>1, <2>1, <2>2 DEF Still, StaysUp
<1>2. ASSUME NEW j \in Jobs, ReapExit(j) PROVE CleanedUp'
  <2>1. \A i \in Jobs \ {j} : status'[i] = status[i] /\ cleanups'[i] = cleanups[i]
    BY <1>2 DEF ReapExit, MarkFinished
  <2>2. status'[j] \in Ended
    BY <1>2 DEF ReapExit, MarkFinished, Ended
  <2>3. j \in CleanupJobs /\ status'[j] # "succeeded" => cleanups'[j] = 1
    <3>1. status'[j] # "succeeded" /\ j \in CleanupJobs
            => cleanups'[j] = IF cleaned[j] THEN cleanups[j] ELSE OneMore(cleanups[j])
      BY <1>2 DEF ReapExit, MarkFinished
    <3>2. j \in CleanupJobs => cleanups[j] = IF cleaned[j] THEN 1 ELSE 0
      BY <1>2 DEF ReapExit, Counted
    <3>3. OneMore(0) = 1
      BY DEF OneMore, Sooner
    <3> QED
      BY <3>1, <3>2, <3>3
  <2>4. pc' \notin Launches /\ running' = running \ {j} /\ UNCHANGED <<starts, stopping>>
    BY <1>2 DEF ReapExit, Launches
  <2> QED
    BY <1>0, <2>1, <2>2, <2>3, <2>4
<1>3. ASSUME NEW j \in Jobs, SubmitRequest(j) PROVE CleanedUp'
  BY <1>0, <1>3 DEF SubmitRequest, Table, SubmitJob, Ended
<1>4. ASSUME NEW j \in Jobs, CancelRequest(j) PROVE CleanedUp'
  BY <1>0, <1>4 DEF CancelRequest, Table, RequestCancel, Ended
<1>5. CASE SelectJob
  BY <1>0, <1>5 DEF SelectJob, Queued, Ended
<1>6. CASE SpawnOk
  BY <1>0, <1>6 DEF SpawnOk, Launches
<1>7. CASE GiveUp
  BY <1>0, <1>7 DEF GiveUp, MarkFinished, Launches, Ended
<1>8. CASE Mark
  BY <1>0, <1>8 DEF Mark, MarkRunning, Launches, Ended
<1>9. ~Crash /\ ~Exit /\ ~Reboot
  BY DEF Crash, Exit, Reboot, Mishap, StaysUp
<1>10. CASE Restart
  BY <1>0, <1>10 DEF Restart, OrphanInterruptedJobs, Active, Launches, Ended
<1> QED
  BY <1>1, <1>2, <1>3, <1>4, <1>5, <1>6, <1>7, <1>8, <1>9, <1>10, StepKinds

LEMMA CountedInduction == Spec => []Counted
<1>1. Init => Counted
  BY SchedulerAssumption DEF Init, Counted
<1> QED
  BY <1>1, CountedStep, Typing, PTL DEF Spec

\* A cleanup command never runs twice for one process, although the escalation of
\* a stop and the reaper both call it, a reap may be retried and the daemon may
\* die between any two steps.
THEOREM CleanupsBounded == Spec => [](\A j \in CleanupJobs : cleanups[j] <= 1)
<1>1. Counted => \A j \in CleanupJobs : cleanups[j] <= 1
  BY DEF Counted
<1> QED
  BY <1>1, CountedInduction, PTL

\* ... and exactly once when a started job ended otherwise than with success,
\* provided the daemon stays up (it forgets its processes when it dies).
THEOREM CleanupsOnce == StaysUp => (Spec => []CleanupOnce)
<1> SUFFICES ASSUME StaysUp PROVE Spec => []CleanupOnce
  OBVIOUS
<1>1. Init => CleanedUp
  BY SchedulerAssumption DEF Init, CleanedUp, Launches
<1>2. TypeOK /\ Counted /\ CleanedUp /\ [Next]_vars => CleanedUp'
  BY CleanedUpStep
<1>3. Counted /\ CleanedUp => CleanupOnce
  BY DEF Counted, CleanedUp, CleanupOnce
<1> QED
  BY <1>1, <1>2, <1>3, Typing, CountedInduction, PTL DEF Spec

-----------------------------------------------------------------------------
(* The no-touch window and the transition gate.                            *)

\* The part of a pass that a query opened and no end of a job has closed.
Sampling ==
  \/ pc \in {"probe", "select", "prepare", "spawn"}
  \/ pc = "assess" /\ ~ended
  \/ pc = "reap" /\ site = "sampled" /\ ~ended

\* What a pass has established about the windows, whoever rearms meanwhile.
Opened ==
  /\ pc \in {"armGate", "armBoundary"} => ended
  /\ Sampling => noTouch = 0
  /\ Launching => ~gate.on

\* A step that leaves window and gate alone; the end of a job is left to ArmGate.
GateStill ==
  /\ UNCHANGED <<boot, gateFile, noTouch>>
  /\ gate'.on = gate.on /\ gate'.left = gate.left
  /\ (pc' = "down") = (pc = "down")
  /\ pc' = "startup" => pc = "startup"
  /\ pc = "armGate" => pc' = "armGate"
  /\ sinceEnd' = sinceEnd \/ (sinceEnd' = 0 /\ pc' = "armGate")
  /\ pc = "down" => UNCHANGED status

\* A failed query takes the evidence back and leaves window and gate alone.
LEMMA FailureKeepsGate ==
  ASSUME NEW fatal, NEW w, RecordGpuFailure(fatal, w)
  PROVE  UNCHANGED <<boot, gateFile, noTouch>> /\ gate'.on = gate.on /\ gate'.left = gate.left
<1>1. CASE gate.on
  BY <1>1 DEF RecordGpuFailure, Gate
<1>2. CASE ~gate.on
  BY <1>2 DEF RecordGpuFailure
<1> QED
  BY <1>1, <1>2

\* Every other step arms the gate, lets time pass, closes the gate, or is part
\* of the end and start of a daemon.
LEMMA GateKinds ==
  ASSUME TypeOK, [Next]_vars
  PROVE  \/ GateStill
         \/ ArmGate \/ Tick \/ AssessGate
         \/ Restart \/ StartupDies \/ Crash \/ Exit \/ Reboot
<1> USE DEF GateStill, guardVars, files, deadlines, historyVars, tableVars
<1>f. ASSUME NEW kind, NEW fatal, NEW w, QueryFails(kind, fatal, w)
      PROVE  /\ UNCHANGED <<boot, gateFile, noTouch, sinceEnd>>
             /\ gate'.on = gate.on /\ gate'.left = gate.left
  BY <1>f, FailureKeepsGate DEF QueryFails
<1>1. CASE Loop
  <2> USE DEF Sleep, Raise, CallReap
  <2>1. CASE Reap
    BY <2>1 DEF Reap, ReapExit, ReapAlive, RequestStop, AwaitStop, ForceStop, ReapStop
  <2>2. CASE BeginPass \/ ReapFails \/ ArmWorkloadBoundary \/ EndReap
    BY <2>2 DEF BeginPass, ReapFails, ArmWorkloadBoundary, EndReap, ArmBoundary
  <2>3. CASE Check
    BY <2>3 DEF Check, CheckBlocked, CheckDemand
  <2>4. CASE Probe \/ AssessFatal
    <3>1. CASE ProbeOk
      BY <3>1 DEF ProbeOk, RecordGpuSuccess
    <3>2. CASE ProbeFails \/ AssessFatal
      BY <3>2, <1>f DEF ProbeFails, AssessFatal
    <3> QED
      BY <2>4, <3>1, <3>2 DEF Probe
  <2>5. CASE AssessLater
    BY <2>5 DEF AssessLater, KeepRecovering
  <2>6. CASE Select
    BY <2>6 DEF Select, SelectNone, SelectJob, ScheduleRaises, Finish, AfterSchedule
  <2>7. CASE Launch
    BY <2>7 DEF Launch, PrepareFails, Prepare, ArmBoundaryBeforeLaunch, SpawnFails,
                ClearUnlaunchedBoundary, SpawnOk, GiveUp, Mark, Finish, AfterSchedule
  <2> QED
    BY <1>1, <2>1, <2>2, <2>3, <2>4, <2>5, <2>6, <2>7 DEF Loop, Assess
<1>2. CASE Processes \/ Clients
  BY <1>2 DEF Processes, ProcessExit, StrayExit, Clients, SubmitRequest, CancelRequest,
              StopRequest, Table, Up
<1>3. CASE Rearm
  <2>1. PICK r \in Rearmers : RearmMay(r) \/ RearmProbe(r) \/ RearmCommit(r)
    BY <1>3 DEF Rearm
  <2>2. CASE RearmMay(r) \/ RearmCommit(r)
    BY <2>2 DEF RearmMay, RearmCommit, CommitRearm
  <2>3. CASE RearmProbe(r)
    <3>1. pc' = pc /\ UNCHANGED status
      BY <2>3 DEF RearmProbe
    <3>2. \/ UNCHANGED <<guardVars, sinceEnd>>
          \/ \E w \in BOOLEAN : QueryFails("fatal", TRUE, w)
      BY <2>3 DEF RearmProbe
    <3> QED
      BY <3>1, <3>2, <1>f
  <2> QED
    BY <2>1, <2>2, <2>3
<1>4. CASE StartupProbeOk \/ StartupProbeFails
  <2>1. CASE StartupProbeOk
    BY <2>1 DEF StartupProbeOk, StartHealthy
  <2>2. CASE StartupProbeFails
    BY <2>2, <1>f DEF StartupProbeFails
  <2> QED
    BY <1>4, <2>1, <2>2
<1>5. CASE UNCHANGED vars
  BY <1>5 DEF vars
<1> QED
  BY <1>1, <1>2, <1>3, <1>4, <1>5 DEF Next, Life, Startup

LEMMA OpenedStep == ASSUME TypeOK, Opened, [Next]_vars PROVE Opened'
<1> USE DEF Opened, Sampling, Launching
<1> DEFINE Closed == pc' \in {"down", "startup", "wait", "check", "giveUp", "mark", "dead"}
           Kept   == UNCHANGED <<noTouch, ended>> /\ gate'.on = gate.on
           Place  == UNCHANGED <<pc, site, ended>>
<1>1. Closed => Opened'
  OBVIOUS
<1>2. Kept /\ Place => Opened'
  OBVIOUS
<1>3. CASE Loop
  <2> USE DEF guardVars, deadlines, passVars, Sleep, Raise, Blank, CallReap
  <2>1. ASSUME NEW j \in Jobs, ReapExit(j) PROVE Opened'
    BY <2>1 DEF ReapExit
  <2>2. ASSUME NEW j \in Jobs, ReapAlive(j) \/ RequestStop(j) \/ AwaitStop(j) \/ ForceStop(j)
        PROVE  Opened'
    BY <2>2 DEF ReapAlive, RequestStop, AwaitStop, ForceStop, ReapStop
  <2>3. CASE ArmGate \/ ArmWorkloadBoundary
    BY <2>3 DEF ArmGate, ArmWorkloadBoundary
  <2>4. CASE BeginPass \/ ReapFails \/ EndReap
    BY <2>4 DEF BeginPass, ReapFails, EndReap
  <2>5. CASE Check
    BY <2>5 DEF Check, CheckBlocked, CheckDemand, ProbeBlocked, TypeOK, GuardTypeOK,
                DeadlineTypeOK, Ticks
  <2>6. CASE Probe
    BY <2>6 DEF Probe, ProbeOk, RecordGpuSuccess, ProbeFails
  <2>7. CASE Assess
    <3>1. CASE pc' = "wait"
      BY <1>1, <3>1
    <3>2. CASE pc' # "wait"
      <4>1. /\ ~ended /\ pc = "assess" /\ pc' = "select"
            /\ noTouch' = IF gate.on THEN 0 ELSE noTouch
        BY <2>7, <3>2 DEF Assess, AssessLater, AssessGate, PassGate, AssessFatal
      <4> QED
        BY <4>1
    <3> QED
      BY <3>1, <3>2
  <2>8. CASE Select
    BY <2>8 DEF Select, SelectNone, SelectJob, ScheduleRaises, Finish, AfterSchedule,
                MaySchedule
  <2>9. CASE Launch
    BY <2>9 DEF Launch, PrepareFails, Prepare, ArmBoundaryBeforeLaunch, SpawnFails, SpawnOk,
                GiveUp, Mark, Finish, AfterSchedule
  <2> QED
    BY <1>3, <2>1, <2>2, <2>3, <2>4, <2>5, <2>6, <2>7, <2>8, <2>9 DEF Loop, Reap
<1>4. CASE Tick
  <2>1. gate'.on = gate.on
    BY <1>4 DEF Tick, GuardTick
  <2>2. noTouch = 0 => noTouch' = 0
    BY <1>4 DEF Tick, GuardTick, Less
  <2> QED
    BY <1>4, <2>1, <2>2 DEF Tick, passVars
<1>5. CASE Processes \/ Clients
  BY <1>2, <1>5 DEF Processes, ProcessExit, StrayExit, Clients, SubmitRequest, CancelRequest,
                    StopRequest, Table, guardVars, deadlines, passVars
<1>6. CASE Rearm
  <2>1. Place
    BY <1>6 DEF Rearm, RearmMay, RearmProbe, RearmCommit, passVars
  <2>2. UNCHANGED noTouch /\ gate'.on = gate.on
    <3>1. PICK r \in Rearmers : RearmMay(r) \/ RearmProbe(r) \/ RearmCommit(r)
      BY <1>6 DEF Rearm
    <3>2. CASE RearmMay(r) \/ RearmCommit(r)
      BY <3>2 DEF RearmMay, RearmCommit, CommitRearm, guardVars, deadlines
    <3>3. CASE RearmProbe(r)
      <4>1. \/ UNCHANGED guardVars
            \/ \E w \in BOOLEAN : RecordGpuFailure(TRUE, w)
        BY <3>3 DEF RearmProbe, QueryFails
      <4> QED
        BY <4>1, FailureKeepsGate DEF guardVars, deadlines
    <3> QED
      BY <3>1, <3>2, <3>3
  <2> QED
    BY <1>2, <2>1, <2>2
<1>7. CASE Life
  BY <1>1, <1>7 DEF Life, Startup, Restart, StartupProbeOk, StartupProbeFails, StartupDies,
                    Crash, Exit, Reboot, Vanish
<1>8. CASE UNCHANGED vars
  BY <1>2, <1>8 DEF vars, guardVars, deadlines, passVars
<1> QED
  BY <1>3, <1>4, <1>5, <1>6, <1>7, <1>8 DEF Next

\* A daemon that starts can read the files of its predecessor.
AllRead == "unread" \notin Mishaps

LEMMA StartReads ==
  ASSUME AllRead, Restart PROVE Reload({"fault", "boundary", "gate"})
BY DEF AllRead, Restart, Mishap, FileNames

\* The window is the gate's.
GateTimed == noTouch = gate.left /\ (~gate.on => gate.left = 0)

LEMMA ArmedWindow ==
  ASSUME TypeOK, GateTimed, NEW period \in {NoTouch, HighNoTouch}, NEW w \in BOOLEAN,
         ArmTransitionGate(period, w)
  PROVE  /\ gate'.on /\ gate'.left = noTouch' /\ noTouch' = Later(period, noTouch)
         /\ gateFile' = IF w THEN [boot |-> boot, left |-> noTouch'] ELSE gateFile
         /\ boot' = boot
<1>1. noTouch \in Nat /\ period \in Nat
  BY GuardAssumption DEF TypeOK, GuardTypeOK, DeadlineTypeOK, Ticks
<1> QED
  BY <1>1 DEF ArmTransitionGate, Gate, Later, GateTimed

\* The gate is closed, by evidence gathered after the window, or held.
LEMMA JudgedGate ==
  ASSUME TypeOK, GateTimed, AssessGate
  PROVE  /\ GateTimed' /\ UNCHANGED <<boot, noTouch, sinceEnd>>
         /\ pc = "assess" /\ pc' \in {"wait", "select"}
         /\ \/ UNCHANGED gateFile /\ gate'.on = gate.on
            \/ gate.on /\ noTouch = 0 /\ gateFile' = [boot |-> 0, left |-> 0]
            \/ gate.on /\ noTouch = 0 /\ UNCHANGED gateFile /\ "disk" \in Mishaps
<1> USE DEF GateTimed
<1>1. PICK idle \in BOOLEAN, census \in {"same", "changed", "error", "timeout"} :
        /\ Observe(idle, census)
        /\ \/ ~GatePasses(idle, Verdict(census)) /\ HoldGate(idle, Verdict(census)) /\ Sleep
           \/ GatePasses(idle, Verdict(census)) /\ PassGate(recovered) /\ pc' = "select"
           \/ /\ GatePasses(idle, Verdict(census)) /\ "disk" \in Mishaps
              /\ PassGateUnwritten /\ Sleep
  BY DEF AssessGate
<1>2. sinceEnd' = sinceEnd /\ pc = "assess"
  BY <1>1 DEF Observe, AssessGate
<1>3. CASE ~GatePasses(idle, Verdict(census)) /\ HoldGate(idle, Verdict(census)) /\ Sleep
  <2>1. gate.on
    BY <1>3 DEF GatePasses
  <2>2. gate'.on /\ gate'.left = gate.left
    BY <1>3 DEF HoldGate, Gate
  <2> QED
    BY <1>2, <1>3, <2>1, <2>2 DEF HoldGate, Sleep, files
<1>4. CASE GatePasses(idle, Verdict(census)) /\ PassGate(recovered) /\ pc' = "select"
  <2>1. gate.on => noTouch = 0
    BY <1>4 DEF GatePasses
  <2>2. /\ gate' = NoGate /\ noTouch' = (IF gate.on THEN 0 ELSE noTouch) /\ boot' = boot
        /\ gateFile' = IF gate.on THEN [boot |-> 0, left |-> 0] ELSE gateFile
    BY <1>4 DEF PassGate
  <2> QED
    BY <1>2, <1>4, <2>1, <2>2 DEF NoGate, TypeOK, GuardTypeOK, GateTypeOK
<1>5. CASE GatePasses(idle, Verdict(census)) /\ "disk" \in Mishaps /\ PassGateUnwritten /\ Sleep
  <2>1. noTouch = 0
    BY <1>5 DEF GatePasses, PassGateUnwritten
  <2> QED
    BY <1>2, <1>5, <2>1 DEF PassGateUnwritten, NoGate, Sleep, files
<1> QED
  BY <1>1, <1>3, <1>4, <1>5

LEMMA Aging ==
  ASSUME NEW a \in Ticks, NEW b \in Ticks, a <= b
  PROVE  Less(a) <= Less(b) /\ Less(a) \in Ticks /\ (a = 0 => Less(a) = 0) /\ Less(a) >= a - 1
  BY GuardAssumption DEF Less, Ticks

LEMMA GateTimedStep == ASSUME TypeOK, GateTimed, [Next]_vars PROVE GateTimed'
<1>1. CASE GateStill
  BY <1>1 DEF GateStill, GateTimed
<1>2. CASE ArmGate
  <2>1. PICK period \in {NoTouch, HighNoTouch}, w \in BOOLEAN : ArmTransitionGate(period, w)
    BY <1>2 DEF ArmGate
  <2> QED
    BY <2>1, ArmedWindow DEF GateTimed
<1>3. CASE Tick
  BY <1>3 DEF Tick, GuardTick, GateTimed, Less
<1>4. CASE AssessGate
  BY <1>4, JudgedGate
<1>5. CASE Restart
  BY <1>5 DEF Restart, Reload, RestoredGate, RestoredWindow, Gate, NoGate, GateTimed
<1>6. CASE StartupDies \/ Crash \/ Exit \/ Reboot
  BY <1>6 DEF StartupDies, Crash, Exit, Reboot, GuardReboot, Forget, NoGate, GateTimed
<1> QED
  BY <1>1, <1>2, <1>3, <1>4, <1>5, <1>6, GateKinds

\* A gate on disk of this boot is held by the daemon for at least as long; no
\* query is made before the loop.
FileTimed ==
  /\ pc # "down" /\ gateFile.boot = boot => gateFile.left <= noTouch
  /\ pc # "startup"

LEMMA FileTimedStep ==
  ASSUME ~ProbeOnStartup, AllRead, TypeOK, GateTimed, FileTimed, [Next]_vars
  PROVE  FileTimed'
<1> USE DEF FileTimed
<1> boot \in Nat \ {0} /\ noTouch \in Ticks /\ gateFile.left \in Ticks
  BY GuardAssumption DEF TypeOK, GuardTypeOK, FilesTypeOK, DeadlineTypeOK, Boots
<1>1. CASE GateStill
  BY <1>1 DEF GateStill
<1>2. CASE ArmGate
  <2>1. PICK period \in {NoTouch, HighNoTouch}, w \in BOOLEAN : ArmTransitionGate(period, w)
    BY <1>2 DEF ArmGate
  <2>2. pc # "down" /\ pc' # "startup"
    BY <1>2 DEF ArmGate, Raise
  <2>3. period \in Nat
    BY <2>1, GuardAssumption
  <2>4. /\ boot' = boot /\ noTouch' = Later(period, noTouch)
        /\ gateFile' = IF w THEN [boot |-> boot, left |-> noTouch'] ELSE gateFile
    BY <2>1, ArmedWindow
  <2> QED
    BY <2>2, <2>3, <2>4 DEF Later, Ticks
<1>3. CASE Tick
  <2>1. /\ noTouch' = Less(noTouch) /\ UNCHANGED <<boot, pc>>
        /\ gateFile' = [boot |-> gateFile.boot, left |-> Less(gateFile.left)]
    BY <1>3 DEF Tick, GuardTick
  <2> QED
    BY <2>1, Aging
<1>4. CASE AssessGate
  BY <1>4, JudgedGate
<1>5. CASE Restart
  <2>1. pc' = "wait" /\ noTouch' = RestoredWindow /\ UNCHANGED <<boot, gateFile>>
    BY <1>5, StartReads DEF Restart, Reload, files
  <2> QED
    BY <2>1 DEF RestoredWindow, Ticks
<1>6. CASE StartupDies \/ Crash \/ Exit \/ Reboot
  BY <1>6 DEF StartupDies, Crash, Exit, Reboot, Vanish
<1> QED
  BY <1>1, <1>2, <1>3, <1>4, <1>5, <1>6, GateKinds

\* A daemon killed and restarted in the same boot waits out the no-touch window
\* its predecessor wrote to disk before its loop queries the NVIDIA stack, after
\* any number of crashes and failed writes: given that it can read the file and does
\* not probe on startup (start() asks nobody then).
THEOREM WindowKept == ~ProbeOnStartup /\ AllRead => (Spec => []NoTouchSurvivesRestart)
<1> SUFFICES ASSUME ~ProbeOnStartup, AllRead PROVE Spec => []NoTouchSurvivesRestart
  OBVIOUS
<1> DEFINE Inv == Opened /\ GateTimed /\ FileTimed
<1>1. Init => Inv
  BY DEF Init, GuardInit, Opened, Sampling, Launching, GateTimed, FileTimed, NoGate
<1>2. TypeOK /\ Inv /\ [Next]_vars => Inv'
  BY OpenedStep, GateTimedStep, FileTimedStep
<1>3. TypeOK /\ Inv => NoTouchSurvivesRestart
  BY GuardAssumption DEF Opened, Sampling, FileTimed, NoTouchSurvivesRestart, LoopQuery, TypeOK,
     GuardTypeOK, FilesTypeOK, Ticks
<1> QED
  BY <1>1, <1>2, <1>3, Typing, PTL DEF Spec

\* A gate on disk of this boot is closed for the daemon.
GateFiled == pc # "down" /\ gateFile.boot = boot => gate.on

LEMMA GateFiledStep ==
  ASSUME "disk" \notin Mishaps, AllRead, TypeOK, GateTimed, GateFiled, [Next]_vars
  PROVE  GateFiled'
<1> USE DEF GateFiled
<1> boot \in Nat \ {0}
  BY GuardAssumption DEF TypeOK, GuardTypeOK, FilesTypeOK, Boots
<1>1. CASE GateStill
  BY <1>1 DEF GateStill
<1>2. CASE ArmGate
  <2>1. PICK period \in {NoTouch, HighNoTouch}, w \in BOOLEAN : ArmTransitionGate(period, w)
    BY <1>2 DEF ArmGate
  <2> QED
    BY <2>1, ArmedWindow
<1>3. CASE Tick
  BY <1>3 DEF Tick, GuardTick
<1>4. CASE AssessGate
  BY <1>4, JudgedGate
<1>5. CASE Restart
  <2>1. gate' = RestoredGate /\ UNCHANGED <<boot, gateFile>>
    BY <1>5, StartReads DEF Reload, files
  <2>2. gateFile.boot = boot => gate'.on
    BY <2>1 DEF RestoredGate, Gate
  <2> QED
    BY <2>1, <2>2
<1>6. CASE StartupDies \/ Crash \/ Exit \/ Reboot
  BY <1>6 DEF StartupDies, Crash, Exit, Reboot, Vanish
<1> QED
  BY <1>1, <1>2, <1>3, <1>4, <1>5, <1>6, GateKinds

\* ... and launches nothing until the gate on disk has seen its evidence: given
\* that files can be written (a gate that opened and could not be cleared is on
\* disk beside a daemon that launches) and read.
THEOREM GateKept == "disk" \notin Mishaps /\ AllRead => (Spec => []GateSurvivesRestart)
<1> SUFFICES ASSUME "disk" \notin Mishaps, AllRead PROVE Spec => []GateSurvivesRestart
  OBVIOUS
<1> DEFINE Inv == Opened /\ GateTimed /\ GateFiled
<1>1. Init => Inv
  BY DEF Init, GuardInit, Opened, Sampling, Launching, GateTimed, GateFiled, NoGate
<1>2. TypeOK /\ Inv /\ [Next]_vars => Inv'
  BY OpenedStep, GateTimedStep, GateFiledStep
<1>3. Inv => GateSurvivesRestart
  BY DEF Opened, GateFiled, GateSurvivesRestart, Launching
<1> QED
  BY <1>1, <1>2, <1>3, Typing, PTL DEF Spec

\* A fault is latched in the running boot alone, so that no rearm request can begin.
SameBoot ==
  /\ faultFile.latched => faultFile.boot = boot
  /\ pc # "down" /\ fault \in Latched => persisted = boot
  /\ \A r \in Rearmers : rearm[r] = "idle"
  /\ ~stopping

LEMMA SameBootStep ==
  ASSUME StaysUp, "disk" \notin Mishaps, TypeOK, SameBoot, [Next]_vars
  PROVE  SameBoot'
<1> USE DEF SameBoot
<1>1. ASSUME UNCHANGED <<boot, faultFile, rearm, stopping>>, pc' = "down" => pc = "down",
             \/ UNCHANGED <<persisted, fault>> /\ (pc = "down" => pc' = "down")
             \/ fault' \notin Latched
      PROVE  SameBoot'
  BY <1>1
<1>2. ASSUME NEW kind, NEW fatal, NEW w, QueryFails(kind, fatal, w), UNCHANGED <<rearm, stopping>>
      PROVE  SameBoot'
  <2>1. w
    BY <1>2 DEF QueryFails
  <2>2. CASE fatal
    BY <1>2, <2>1, <2>2 DEF QueryFails, RecordGpuFailure
  <2>3. CASE ~fatal
    BY <1>2, <2>3 DEF QueryFails, RecordGpuFailure, Latched
  <2> QED
    BY <2>2, <2>3
<1>3. CASE Loop
  <2> HIDE DEF SameBoot
  <2> USE DEF guardVars, files, health, daemonVars, Sleep, Raise, CallReap
  <2>1. CASE Reap
    BY <1>1, <2>1 DEF Reap, ReapExit, ReapAlive, RequestStop, AwaitStop, ForceStop, ReapStop
  <2>2. CASE BeginPass \/ ReapFails \/ ArmGate \/ ArmWorkloadBoundary \/ EndReap
    BY <1>1, <2>2 DEF BeginPass, ReapFails, ArmGate, ArmWorkloadBoundary, EndReap,
                      ArmTransitionGate, ArmBoundary
  <2>3. CASE Check
    BY <1>1, <2>3 DEF Check, CheckBlocked, CheckDemand
  <2>4. CASE ProbeOk
    BY <1>1, <2>4 DEF ProbeOk, RecordGpuSuccess, Latched
  <2>5. CASE ProbeFails \/ AssessFatal
    BY <1>2, <2>5 DEF ProbeFails, AssessFatal
  <2>6. CASE AssessLater \/ AssessGate
    BY <1>1, <2>6 DEF AssessLater, AssessGate, KeepRecovering, HoldGate, PassGate,
                      PassGateUnwritten
  <2>7. CASE Select
    BY <1>1, <2>7 DEF Select, SelectNone, SelectJob, ScheduleRaises, Finish, AfterSchedule
  <2>8. CASE Launch
    BY <1>1, <2>8 DEF Launch, PrepareFails, Prepare, ArmBoundaryBeforeLaunch, SpawnFails,
                      ClearUnlaunchedBoundary, SpawnOk, GiveUp, Mark, Finish, AfterSchedule
  <2> QED
    BY <1>3, <2>1, <2>2, <2>3, <2>4, <2>5, <2>6, <2>7, <2>8 DEF Loop, Probe, Assess
<1>4. CASE Processes \/ Tick \/ Clients
  <2>1. ~StopRequest
    BY DEF StopRequest, Mishap, StaysUp
  <2> HIDE DEF SameBoot
  <2> QED
    BY <1>1, <1>4, <2>1 DEF Processes, ProcessExit, StrayExit, Tick, GuardTick, Clients,
                            SubmitRequest, CancelRequest, Table, guardVars,
                            files, health, daemonVars
<1>5. ~Rearm
  BY DEF Rearm, RearmMay, RearmProbe, RearmCommit, MayRearm, Up
<1>6. CASE Life
  <2>1. CASE Restart
    BY <2>1 DEF Restart, Reload, RestoredFault, files, daemonVars, Latched
  <2>2. CASE StartupProbeOk
    BY <2>2 DEF StartupProbeOk, StartHealthy, files, daemonVars, Latched
  <2>3. CASE StartupProbeFails
    BY <1>2, <2>3 DEF StartupProbeFails, daemonVars
  <2>4. ~(StartupDies \/ Crash \/ Exit \/ Reboot)
    BY DEF StartupDies, Crash, Exit, Reboot, Mishap, StaysUp
  <2> QED
    BY <1>6, <2>1, <2>2, <2>3, <2>4 DEF Life, Startup
<1>7. CASE UNCHANGED vars
  BY <1>1, <1>7 DEF vars, guardVars, files, health, daemonVars
<1> QED
  BY <1>3, <1>4, <1>5, <1>6, <1>7 DEF Next

\* What has passed since the last job ended and what is left of the window add
\* up, once the end has armed the gate.
WindowCovers ==
  /\ sinceEnd + noTouch >= NoTouch \/ pc = "armGate"
  /\ pc \in {"down", "startup"} => sinceEnd >= NoTouch
  /\ pc = "down" => Active = {}

LEMMA LongEnough ==
  ASSUME NEW s \in Nat, NEW n \in Nat, s >= NoTouch \/ n >= NoTouch
  PROVE  s + n >= NoTouch
BY GuardAssumption

LEMMA TimePasses ==
  ASSUME NEW s \in Nat, NEW n \in Ticks, NoTouch <= HighNoTouch
  PROVE  /\ s + n >= NoTouch => Sooner(s + 1, HighNoTouch) + Less(n) >= NoTouch
         /\ s >= NoTouch => Sooner(s + 1, HighNoTouch) >= NoTouch
<1>1. NoTouch \in Nat /\ HighNoTouch \in Nat /\ n \in Nat
  BY GuardAssumption DEF Ticks
<1>2. Less(n) \in Nat /\ Less(n) >= n - 1
  BY Aging DEF Ticks
<1> HIDE DEF Less
<1> QED
  BY <1>1, <1>2 DEF Sooner

LEMMA WindowCoversStep ==
  ASSUME StaysUp, "disk" \notin Mishaps, NoTouch <= HighNoTouch,
         TypeOK, SameBoot, GateTimed, WindowCovers, [Next]_vars
  PROVE  WindowCovers'
<1> USE DEF WindowCovers
<1> /\ NoTouch \in Nat /\ HighNoTouch \in Nat /\ noTouch \in Nat /\ sinceEnd \in Nat
    /\ noTouch \in Ticks
  BY GuardAssumption DEF TypeOK, GuardTypeOK, DeadlineTypeOK, HistoryTypeOK, Ticks
<1>1. CASE GateStill
  BY <1>1 DEF GateStill, Active
<1>2. CASE ArmGate
  <2>1. PICK period \in {NoTouch, HighNoTouch}, w \in BOOLEAN : ArmTransitionGate(period, w)
    BY <1>2 DEF ArmGate
  <2>2. noTouch' = Later(period, noTouch)
    BY <2>1, ArmedWindow
  <2>3. sinceEnd' = sinceEnd /\ pc' \notin {"down", "startup"}
    BY <1>2 DEF ArmGate, Raise, historyVars
  <2>4. noTouch' \in Nat /\ noTouch' >= NoTouch
    BY <2>1, <2>2 DEF Later
  <2>5. sinceEnd' + noTouch' >= NoTouch
    BY <2>3, <2>4, LongEnough
  <2> QED
    BY <2>3, <2>5
<1>3. CASE Tick
  <2>1. /\ noTouch' = Less(noTouch) /\ sinceEnd' = Sooner(sinceEnd + 1, HighNoTouch)
        /\ UNCHANGED <<pc, status>>
    BY <1>3 DEF Tick, GuardTick, tableVars
  <2> QED
    BY <2>1, TimePasses DEF Active
<1>4. CASE AssessGate
  BY <1>4, JudgedGate
<1>5. CASE Restart
  <2>1. sinceEnd' = sinceEnd /\ pc' # "down" /\ noTouch' \in Nat
    BY <1>5 DEF Restart, Reload, RestoredWindow, TypeOK, GuardTypeOK, FilesTypeOK, Ticks
  <2>2. sinceEnd' + noTouch' >= NoTouch
    BY <1>5, <2>1, LongEnough DEF Restart
  <2> QED
    BY <1>5, <2>1, <2>2 DEF Restart
<1>6. ~(StartupDies \/ Crash \/ Exit \/ Reboot)
  BY DEF StartupDies, Crash, Exit, Reboot, Mishap, StaysUp, SameBoot
<1> QED
  BY <1>1, <1>2, <1>3, <1>4, <1>5, <1>6, GateKinds

\* While one daemon runs, no query of loop, start or rearm begins within
\* post_job_no_touch_seconds of the end of a managed job, also when the end is
\* found in the middle of a pass or two ends overlap: given that files can be
\* written, and that the window of a high-load job is not the shorter one, which
\* config.py (145-149) leaves to who writes config.json.
THEOREM WindowWaited ==
  StaysUp /\ "disk" \notin Mishaps /\ NoTouch <= HighNoTouch => (Spec => []NoTouchAfterEnd)
<1> SUFFICES ASSUME StaysUp, "disk" \notin Mishaps, NoTouch <= HighNoTouch
             PROVE  Spec => []NoTouchAfterEnd
  OBVIOUS
<1> DEFINE Inv == Opened /\ GateTimed /\ SameBoot /\ WindowCovers
<1>1. Init => Inv
  BY GuardAssumption DEF Init, GuardInit, TableInit, Opened, Sampling, Launching, GateTimed,
     NoGate, SameBoot, WindowCovers, Active, Latched
<1>2. TypeOK /\ Inv /\ [Next]_vars => Inv'
  BY OpenedStep, GateTimedStep, SameBootStep, WindowCoversStep
<1>3. TypeOK /\ Inv => NoTouchAfterEnd
  <2> SUFFICES ASSUME TypeOK, Inv, AtQuery PROVE sinceEnd >= NoTouch
    BY DEF NoTouchAfterEnd
  <2>1. LoopQuery
    BY DEF AtQuery, SameBoot
  <2>2. sinceEnd \in Nat /\ NoTouch \in Nat
    BY GuardAssumption DEF TypeOK, HistoryTypeOK, Ticks
  <2> QED
    BY <2>1, <2>2 DEF LoopQuery, Opened, Sampling, WindowCovers
<1> QED
  BY <1>1, <1>2, <1>3, Typing, PTL DEF Spec

-----------------------------------------------------------------------------
(* Admission.                                                              *)

\* One administrator: rearm requests do not overlap.
SingleRearm == \A r, s \in Rearmers : r = s

\* The rearm request under way, if any, has seen the latch, and the latch has
\* stopped the loop before its query.
LatchHeld ==
  /\ healthy => fault = "healthy"
  /\ \A r \in Rearmers : rearm[r] # "idle" => fault \in Latched
  /\ pc \in {"down", "startup"} => \A r \in Rearmers : rearm[r] = "idle"
  /\ pc = "probe" => fault \notin Latched

\* What the checks of a pass have established still holds where it matters.
PassHeld ==
  /\ Sampling => ~boundary
  /\ Launching => healthy /\ admit = 0

LEMMA LatchStep ==
  ASSUME SingleRearm, TypeOK, LatchHeld, [Next]_vars PROVE LatchHeld'
<1> USE DEF LatchHeld
<1> DEFINE Same == UNCHANGED <<healthy, fault, rearm>> /\ (pc' = pc \/ pc' \notin {"down", "startup", "probe"})
<1>1. Same => LatchHeld'
  OBVIOUS
<1>2. CASE Loop
  <2> HIDE DEF LatchHeld
  <2> USE DEF guardVars, health, daemonVars, passVars, Sleep, Raise
  <2>1. CASE Reap
    BY <1>1, <2>1 DEF Reap, ReapExit, ReapAlive, RequestStop, AwaitStop, ForceStop, ReapStop
  <2>2. CASE BeginPass \/ ReapFails \/ ArmGate \/ ArmWorkloadBoundary \/ EndReap
    BY <1>1, <2>2 DEF BeginPass, ReapFails, ArmGate, ArmWorkloadBoundary, EndReap, CallReap,
                      ArmTransitionGate, ArmBoundary
  <2>3. CASE CheckBlocked
    BY <1>1, <2>3 DEF CheckBlocked, CallReap
  <2>4. CASE CheckDemand
    BY <2>4 DEF CheckDemand, ProbeBlocked, LatchHeld
  <2>5. CASE ProbeOk
    BY <2>5 DEF ProbeOk, RecordGpuSuccess, CallReap, LatchHeld, Latched
  <2>6. CASE ProbeFails
    BY <2>6 DEF ProbeFails, QueryFails, RecordGpuFailure, CallReap, LatchHeld, Latched
  <2>7. CASE AssessLater \/ AssessGate
    BY <1>1, <2>7 DEF AssessLater, AssessGate, KeepRecovering, HoldGate, PassGate,
                      PassGateUnwritten
  <2>8. CASE AssessFatal
    BY <2>8 DEF AssessFatal, QueryFails, RecordGpuFailure, LatchHeld, Latched
  <2>9. CASE Select \/ Launch
    BY <1>1, <2>9 DEF Select, SelectNone, SelectJob, ScheduleRaises, Finish, AfterSchedule,
                      Launch, PrepareFails, Prepare, SpawnFails, SpawnOk, GiveUp, Mark,
                      ArmBoundaryBeforeLaunch, ClearUnlaunchedBoundary
  <2> QED
    BY <1>2, <2>1, <2>2, <2>3, <2>4, <2>5, <2>6, <2>7, <2>8, <2>9 DEF Loop, Check, Probe, Assess
<1>3. CASE Processes \/ Tick \/ Clients
  BY <1>1, <1>3 DEF Processes, ProcessExit, StrayExit, Tick, GuardTick, Clients, SubmitRequest,
                    CancelRequest, StopRequest, Table, guardVars, health,
                    daemonVars
<1>4. CASE Rearm
  <2>1. PICK r \in Rearmers : RearmMay(r) \/ RearmProbe(r) \/ RearmCommit(r)
    BY <1>4 DEF Rearm
  <2>2. Rearmers = {r}
    BY DEF SingleRearm
  <2>3. CASE RearmMay(r)
    BY <2>2, <2>3 DEF RearmMay, MayRearm, guardVars, health, Up
  <2>4. CASE RearmProbe(r)
    BY <2>2, <2>4 DEF RearmProbe, QueryFails, RecordGpuFailure, guardVars, health, Up,
                      Latched, TypeOK, DaemonTypeOK
  <2>5. CASE RearmCommit(r)
    BY <2>2, <2>5 DEF RearmCommit, CommitRearm, guardVars, health, Up, Latched, TypeOK,
                      DaemonTypeOK
  <2> QED
    BY <2>1, <2>3, <2>4, <2>5
<1>5. CASE Life
  <2>1. CASE Restart
    BY <2>1 DEF Restart, Reload, daemonVars
  <2>2. CASE StartupProbeOk \/ StartupProbeFails \/ StartupDies
    BY <2>2 DEF StartupProbeOk, StartHealthy, StartupProbeFails, StartupDies, Forget,
                QueryFails, RecordGpuFailure, daemonVars
  <2>3. CASE Crash \/ Exit \/ Reboot
    BY <2>3 DEF Crash, Exit, Reboot, GuardReboot, Vanish, Forget
  <2> QED
    BY <1>5, <2>1, <2>2, <2>3 DEF Life, Startup
<1>6. CASE UNCHANGED vars
  BY <1>1, <1>6 DEF vars, guardVars, health, daemonVars
<1> QED
  BY <1>2, <1>3, <1>4, <1>5, <1>6 DEF Next

LEMMA PassStep ==
  ASSUME SingleRearm, TypeOK, LatchHeld, Opened, PassHeld, [Next]_vars PROVE PassHeld'
<1> USE DEF Opened, PassHeld, Sampling, Launching
<1> DEFINE Same == UNCHANGED <<healthy, boundary, admit, pc, site, ended>>
           Closed == pc' \in {"down", "startup", "wait", "check", "giveUp", "mark", "dead"}
<1>1. Same \/ Closed => PassHeld'
  OBVIOUS
<1>2. CASE Loop
  <2> USE DEF guardVars, deadlines, health, passVars, Sleep, Raise
  <2>1. ASSUME NEW j \in Jobs, ReapExit(j) PROVE PassHeld'
    BY <2>1 DEF ReapExit
  <2>2. ASSUME NEW j \in Jobs, ReapAlive(j) \/ RequestStop(j) \/ AwaitStop(j) \/ ForceStop(j)
        PROVE  PassHeld'
    BY <2>2 DEF ReapAlive, RequestStop, AwaitStop, ForceStop, ReapStop
  <2>3. CASE ArmGate \/ ArmWorkloadBoundary
    BY <2>3 DEF ArmGate, ArmWorkloadBoundary, Blank
  <2>4. CASE BeginPass \/ ReapFails \/ EndReap
    BY <2>4 DEF BeginPass, ReapFails, EndReap, CallReap
  <2>5. CASE Check
    BY <2>5 DEF Check, CheckBlocked, CheckDemand, ProbeBlocked, CallReap, TypeOK, GuardTypeOK,
                DeadlineTypeOK, Ticks
  <2>6. CASE Probe
    BY <2>6 DEF Probe, ProbeOk, RecordGpuSuccess, ProbeFails, CallReap
  <2>7. CASE Assess
    <3>1. CASE pc' = "wait"
      BY <1>1, <3>1
    <3>2. CASE pc' # "wait"
      <4>1. ~ended /\ pc' = "select" /\ UNCHANGED <<healthy, boundary>>
        BY <2>7, <3>2 DEF Assess, AssessLater, AssessGate, PassGate, AssessFatal
      <4> QED
        BY <2>7, <4>1 DEF Assess, AssessLater, AssessGate, AssessFatal
    <3> QED
      BY <3>1, <3>2
  <2>8. CASE Select
    BY <2>8 DEF Select, SelectNone, SelectJob, ScheduleRaises, Finish, AfterSchedule,
                MaySchedule
  <2>9. CASE Launch
    BY <2>9 DEF Launch, PrepareFails, Prepare, ArmBoundaryBeforeLaunch, SpawnFails, SpawnOk,
                GiveUp, Mark, Finish, AfterSchedule
  <2> QED
    BY <1>2, <2>1, <2>2, <2>3, <2>4, <2>5, <2>6, <2>7, <2>8, <2>9 DEF Loop, Reap
<1>3. CASE Tick
  <2>1. admit = 0 => admit' = 0
    BY <1>3 DEF Tick, GuardTick, Less
  <2> QED
    BY <1>3, <2>1 DEF Tick, GuardTick, health, passVars
<1>4. CASE Processes \/ Clients
  BY <1>1, <1>4 DEF Processes, ProcessExit, StrayExit, Clients, SubmitRequest, CancelRequest,
                    StopRequest, Table, guardVars, health, deadlines, passVars
<1>5. CASE Rearm
  <2>1. PICK r \in Rearmers : RearmMay(r) \/ RearmProbe(r) \/ RearmCommit(r)
    BY <1>5 DEF Rearm
  <2>2. CASE Same
    BY <1>1, <2>2
  <2>3. CASE ~Same
    <3>1. rearm[r] # "idle"
      BY <2>1, <2>3 DEF RearmMay, RearmProbe, RearmCommit, guardVars, health, deadlines, passVars
    <3>2. ~Launching
      BY <3>1 DEF LatchHeld, Latched
    <3>3. UNCHANGED <<boundary, pc, site, ended>>
      BY <2>1 DEF RearmMay, RearmProbe, RearmCommit, QueryFails, RecordGpuFailure, CommitRearm,
                  guardVars, deadlines, passVars
    <3> QED
      BY <3>2, <3>3
  <2> QED
    BY <2>2, <2>3
<1>6. CASE Life
  <2>1. CASE Restart \/ StartupProbeOk \/ StartupProbeFails \/ StartupDies
    BY <1>1, <2>1 DEF Restart, StartupProbeOk, StartupProbeFails, StartupDies
  <2>2. CASE Crash \/ Exit \/ Reboot
    BY <1>1, <2>2 DEF Crash, Exit, Reboot, Vanish
  <2> QED
    BY <1>6, <2>1, <2>2 DEF Life, Startup
<1>7. CASE UNCHANGED vars
  BY <1>1, <1>7 DEF vars, guardVars, health, deadlines, passVars
<1> QED
  BY <1>2, <1>3, <1>4, <1>5, <1>6, <1>7 DEF Next

\* A launch happens only while /readyz reports that admission is ready, for any
\* number of jobs, boots and mishaps of every kind, provided rearm requests do
\* not overlap: the latch stops the loop before its query, and what a pass has
\* checked is not undone before its Popen.
THEOREM Readiness == SingleRearm => (Spec => []LaunchOnlyWhenReady)
<1> SUFFICES ASSUME SingleRearm PROVE Spec => []LaunchOnlyWhenReady
  OBVIOUS
<1> DEFINE Inv == LatchHeld /\ Opened /\ PassHeld
<1>1. Init => Inv
  BY DEF Init, GuardInit, LatchHeld, Opened, PassHeld, Sampling, Launching
<1>2. TypeOK /\ Inv /\ [Next]_vars => Inv'
  BY LatchStep, OpenedStep, PassStep
<1>3. Inv => LaunchOnlyWhenReady
  BY DEF LatchHeld, Opened, PassHeld, LaunchOnlyWhenReady, AdmissionReady, Launching, Sampling
<1> QED
  BY <1>1, <1>2, <1>3, Typing, PTL DEF Spec

-----------------------------------------------------------------------------
(* The workload reboot boundary.                                           *)

\* No write or read of a state file, no Popen and no UPDATE of a started job fails.
NothingLost == {"disk", "unread", "popen", "dbMark"} \cap Mishaps = {}

\* A running daemon and the fault file agree.
FaultKept ==
  /\ boundaryFile <= boot /\ faultFile.boot <= boot
  /\ pc # "down" => persisted = faultFile.boot /\ (faultFile.latched <=> fault \in Latched)
  /\ pc = "startup" => fault \notin Latched

\* The boundary file is armed for this boot from before the Popen of a boundary
\* job on, the daemon knows it once the process is not tracked any more, and a
\* fault of an older boot has been rearmed before.
Armed ==
  /\ pc = "startup" => ~boundary
  /\ running \cap BoundaryJobs # {} => boundaryFile = boot
  /\ pc \in {"spawn", "armGate", "armBoundary"} /\ job \in BoundaryJobs => boundaryFile = boot
  /\ pc = "armBoundary" => job \in BoundaryJobs
  /\ spent => boundaryFile = boot
  /\ spent => \/ pc = "down" \/ boundary
              \/ pc \in {"armGate", "armBoundary"} /\ job \in BoundaryJobs
  /\ faultFile.latched /\ faultFile.boot # boot => boundaryFile # boot
  /\ \A r \in Rearmers : rearm[r] # "idle" => boundaryFile # boot

\* A failed query leaves memory and file in agreement when the write succeeds.
LEMMA FailureKept ==
  ASSUME NothingLost, TypeOK, NEW kind, NEW fatal \in BOOLEAN, NEW w, QueryFails(kind, fatal, w),
         fault \in Latched => fatal
  PROVE  /\ UNCHANGED <<boot, boundaryFile, boundary>>
         /\ fatal => /\ faultFile' = [latched |-> TRUE, boot |-> boot]
                     /\ fault' = "reboot_required" /\ persisted' = boot
         /\ ~fatal => /\ UNCHANGED <<faultFile, persisted>>
                      /\ fault' = "transient_failure"
<1>1. w
  BY DEF QueryFails, NothingLost
<1> QED
  BY <1>1 DEF QueryFails, RecordGpuFailure

LEMMA FaultStep ==
  ASSUME NothingLost, SingleRearm, TypeOK, LatchHeld, FaultKept, [Next]_vars PROVE FaultKept'
<1> USE DEF FaultKept
<1> DEFINE Same == /\ UNCHANGED <<boot, faultFile, persisted, fault>>
                   /\ boundaryFile' \in {boundaryFile, boot}
                   /\ (pc # "down" /\ pc' # "startup") \/ UNCHANGED pc
<1> boot \in Nat /\ boundaryFile \in Nat
  BY GuardAssumption DEF TypeOK, GuardTypeOK, FilesTypeOK, Boots
<1>1. Same => FaultKept'
  OBVIOUS
<1>2. ASSUME NEW kind, NEW fatal \in BOOLEAN, NEW w, QueryFails(kind, fatal, w),
             fault \notin Latched \/ fatal, pc # "down", pc' # "startup"
      PROVE  FaultKept'
  BY <1>2, FailureKept DEF Latched
<1>3. CASE Loop
  <2> HIDE DEF FaultKept
  <2> USE DEF guardVars, files, health, passVars, Sleep, Raise, CallReap
  <2>1. CASE Reap
    BY <1>1, <2>1 DEF Reap, ReapExit, ReapAlive, RequestStop, AwaitStop, ForceStop, ReapStop
  <2>2. CASE BeginPass \/ ReapFails \/ ArmGate \/ ArmWorkloadBoundary \/ EndReap
    BY <1>1, <2>2 DEF BeginPass, ReapFails, ArmGate, ArmWorkloadBoundary, EndReap,
                      ArmTransitionGate, ArmBoundary
  <2>3. CASE Check
    BY <1>1, <2>3 DEF Check, CheckBlocked, CheckDemand
  <2>4. CASE ProbeOk
    BY <2>4 DEF ProbeOk, RecordGpuSuccess, LatchHeld, Latched, FaultKept
  <2>5. CASE ProbeFails
    <3>1. pc = "probe" /\ pc' # "startup" /\ fault \notin Latched
      BY <2>5 DEF ProbeFails, LatchHeld
    <3> QED
      BY <1>2, <2>5, <3>1 DEF ProbeFails
  <2>6. CASE AssessLater \/ AssessGate
    BY <1>1, <2>6 DEF AssessLater, AssessGate, KeepRecovering, HoldGate, PassGate,
                      PassGateUnwritten
  <2>7. CASE AssessFatal
    BY <1>2, <2>7 DEF AssessFatal
  <2>8. CASE Select
    BY <1>1, <2>8 DEF Select, SelectNone, SelectJob, ScheduleRaises, Finish, AfterSchedule
  <2>9. CASE Prepare
    BY <1>1, <2>9 DEF Prepare, ArmBoundaryBeforeLaunch
  <2>10. ~SpawnFails
    BY DEF SpawnFails, Mishap, NothingLost
  <2>11. CASE PrepareFails \/ SpawnOk \/ GiveUp \/ Mark
    BY <1>1, <2>11 DEF PrepareFails, SpawnOk, GiveUp, Mark, Finish, AfterSchedule
  <2> QED
    BY <1>3, <2>1, <2>2, <2>3, <2>4, <2>5, <2>6, <2>7, <2>8, <2>9, <2>10, <2>11
       DEF Loop, Probe, Assess, Launch
<1>4. CASE Processes \/ Tick \/ Clients
  BY <1>1, <1>4 DEF Processes, ProcessExit, StrayExit, Tick, GuardTick, Clients, SubmitRequest,
                    CancelRequest, StopRequest, Table, guardVars, files, health
<1>5. CASE Rearm
  <2>1. PICK r \in Rearmers : RearmMay(r) \/ RearmProbe(r) \/ RearmCommit(r)
    BY <1>5 DEF Rearm
  <2>2. pc' = pc /\ pc \notin {"down", "startup"}
    BY <2>1 DEF RearmMay, RearmProbe, RearmCommit, Up
  <2>3. CASE UNCHANGED guardVars
    BY <1>1, <2>2, <2>3 DEF guardVars, files, health
  <2>4. CASE \E w \in BOOLEAN : QueryFails("fatal", TRUE, w)
    BY <1>2, <2>2, <2>4
  <2>5. CASE CommitRearm
    BY <2>2, <2>5 DEF CommitRearm, Latched
  <2> QED
    BY <2>1, <2>3, <2>4, <2>5 DEF RearmMay, RearmProbe, RearmCommit
<1>6. CASE Life
  <2>1. CASE Restart
    BY <2>1, StartReads DEF NothingLost, AllRead, Restart, Reload, RestoredFault, files, Latched
  <2>2. CASE StartupProbeOk
    BY <2>2 DEF StartupProbeOk, StartHealthy, files, Latched
  <2>3. CASE StartupProbeFails
    <3>1. pc = "startup" /\ pc' = "wait"
      BY <2>3 DEF StartupProbeFails
    <3>2. PICK kind : QueryFails(kind, kind \in {"fatal", "censusFatal"}, TRUE)
      BY <2>3 DEF StartupProbeFails
    <3> DEFINE fatal == kind \in {"fatal", "censusFatal"}
    <3>3. QueryFails(kind, fatal, TRUE)
      BY <3>2, Zenon
    <3>4. fatal \in BOOLEAN
      OBVIOUS
    <3> HIDE DEF fatal
    <3>5. fault \notin Latched /\ pc # "down" /\ pc' # "startup"
      BY <3>1
    <3> QED
      BY <1>2, <3>3, <3>4, <3>5
  <2>4. CASE Crash \/ Exit \/ Reboot
    BY <2>4 DEF Crash, Exit, Reboot, GuardReboot, Vanish, files, TypeOK, GuardTypeOK, FilesTypeOK
  <2>5. ~StartupDies
    BY DEF StartupDies, NothingLost
  <2> QED
    BY <1>6, <2>1, <2>2, <2>3, <2>4, <2>5 DEF Life, Startup
<1>7. CASE UNCHANGED vars
  BY <1>1, <1>7 DEF vars, guardVars, files, health
<1> QED
  BY <1>3, <1>4, <1>5, <1>6, <1>7 DEF Next

LEMMA ArmedStep ==
  ASSUME NothingLost, SingleRearm, TypeOK, LatchHeld, PassHeld, Placed, FaultKept, Armed,
         [Next]_vars
  PROVE  Armed'
<1> USE DEF Armed
<1> DEFINE Guard == UNCHANGED <<boot, boundaryFile, faultFile>> /\ (boundary => boundary')
           Same  == Guard /\ UNCHANGED <<boundary, running, job, spent, rearm>>
           Quiet == {"wait", "reap", "check", "probe", "assess", "select", "prepare", "giveUp",
                     "mark", "dead"}
<1>1. Same /\ (pc' = pc \/ (pc \in Quiet /\ pc' \in Quiet)) => Armed'
  OBVIOUS
<1>2. Same /\ pc' = "wait" /\ pc = "startup" => Armed'
  OBVIOUS
<1>3. ASSUME Guard, UNCHANGED <<running, spent, rearm>>, pc' \in Quiet,
             pc \in Quiet
      PROVE  Armed'
  BY <1>3
<1>4. CASE Loop
  <2> USE DEF guardVars, files, health, procVars, passVars, daemonVars, historyVars, Sleep,
              Raise, CallReap
  <2>1. ASSUME NEW j \in Jobs, ReapExit(j) PROVE Armed'
    BY <2>1 DEF ReapExit
  <2>2. ASSUME NEW j \in Jobs, ReapAlive(j) \/ RequestStop(j) \/ AwaitStop(j) \/ ForceStop(j)
        PROVE  Armed'
    <3> HIDE DEF Armed
    <3> QED
      BY <1>1, <2>2 DEF ReapAlive, RequestStop, AwaitStop, ForceStop, ReapStop
  <2>3. CASE ArmGate
    <3>1. PICK period \in {NoTouch, HighNoTouch}, w \in BOOLEAN :
            /\ Written(w) /\ ArmTransitionGate(period, w)
            /\ w => pc' = IF job \in BoundaryJobs THEN "armBoundary" ELSE "reap"
            /\ w => job' = IF job \in BoundaryJobs THEN job ELSE NoJob
      BY <2>3 DEF ArmGate
    <3>2. w
      BY <3>1 DEF Written, Mishap, NothingLost
    <3>3. UNCHANGED <<boot, boundaryFile, faultFile, boundary, running, spent, rearm>>
      BY <2>3, <3>1 DEF ArmGate, ArmTransitionGate
    <3> QED
      BY <2>3, <3>1, <3>2, <3>3 DEF ArmGate
  <2>4. CASE ArmWorkloadBoundary
    <3>1. PICK w \in BOOLEAN : Written(w) /\ ArmBoundary(w) /\ (w => pc' = "reap")
      BY <2>4 DEF ArmWorkloadBoundary
    <3>2. w
      BY <3>1 DEF Written, Mishap, NothingLost
    <3> QED
      BY <2>4, <3>1, <3>2 DEF ArmWorkloadBoundary, ArmBoundary
  <2>5. CASE BeginPass \/ ReapFails \/ EndReap
    <3> HIDE DEF Armed
    <3> QED
      BY <1>3, <2>5 DEF BeginPass, ReapFails, EndReap
  <2>6. CASE Check
    <3> HIDE DEF Armed
    <3> QED
      BY <1>3, <2>6 DEF Check, CheckBlocked, CheckDemand
  <2>7. CASE ProbeOk \/ AssessLater \/ AssessGate
    <3> HIDE DEF Armed
    <3> QED
      BY <1>3, <2>7 DEF ProbeOk, RecordGpuSuccess, AssessLater, KeepRecovering, AssessGate,
                        Observe, HoldGate, PassGate, PassGateUnwritten
  <2>8. CASE ProbeFails \/ AssessFatal
    <3>1. /\ UNCHANGED <<boot, boundaryFile, boundary, running, spent, rearm>>
          /\ faultFile' = faultFile \/ faultFile' = [latched |-> TRUE, boot |-> boot]
          /\ pc \in {"probe", "assess"} /\ pc' \in {"reap", "wait", "dead"}
      BY <2>8 DEF ProbeFails, AssessFatal, QueryFails, RecordGpuFailure
    <3> QED
      BY <3>1
  <2>9. CASE Select
    <3> HIDE DEF Armed
    <3> QED
      BY <1>3, <2>9 DEF Select, SelectNone, SelectJob, ScheduleRaises, Finish, AfterSchedule
  <2>10. CASE Prepare
    <3>1. fault \notin Latched /\ \A r \in Rearmers : rearm[r] = "idle"
      BY <2>10 DEF Prepare, LatchHeld, PassHeld, Launching, Latched
    <3>2. ~faultFile.latched /\ ~boundary /\ ~spent
      BY <2>10, <3>1 DEF Prepare, FaultKept, PassHeld, Sampling
    <3> QED
      BY <2>10, <3>1, <3>2 DEF Prepare, ArmBoundaryBeforeLaunch
  <2>11. CASE PrepareFails \/ GiveUp \/ Mark
    <3> HIDE DEF Armed
    <3> QED
      BY <1>3, <2>11 DEF PrepareFails, GiveUp, Mark, Finish, AfterSchedule
  <2>12. CASE SpawnOk
    BY <2>12 DEF SpawnOk, Placed
  <2>13. ~SpawnFails
    BY DEF SpawnFails, Mishap, NothingLost
  <2> QED
    BY <1>4, <2>1, <2>2, <2>3, <2>4, <2>5, <2>6, <2>7, <2>8, <2>9, <2>10, <2>11, <2>12, <2>13
       DEF Loop, Reap, Check, Probe, Assess, Launch
<1>5. CASE Processes \/ Tick \/ Clients
  <2> HIDE DEF Armed
  <2> QED
    BY <1>1, <1>5 DEF Processes, ProcessExit, StrayExit, Tick, GuardTick, Clients,
                      SubmitRequest, CancelRequest, StopRequest, Table,
                      guardVars, files, procVars, passVars, daemonVars, historyVars
<1>6. CASE Rearm
  <2>1. PICK r \in Rearmers : RearmMay(r) \/ RearmProbe(r) \/ RearmCommit(r)
    BY <1>6 DEF Rearm
  <2> USE DEF guardVars, files, health, procVars, passVars, daemonVars, historyVars
  <2>2. CASE RearmMay(r)
    BY <2>2 DEF RearmMay, MayRearm, FaultKept, Up
  <2>3. CASE RearmProbe(r)
    BY <2>3 DEF RearmProbe, QueryFails, RecordGpuFailure, TypeOK, DaemonTypeOK
  <2>4. CASE RearmCommit(r)
    BY <2>4 DEF RearmCommit, CommitRearm, TypeOK, DaemonTypeOK
  <2> QED
    BY <2>1, <2>2, <2>3, <2>4
<1>7. CASE Life
  <2>1. CASE Restart
    BY <2>1, StartReads DEF NothingLost, AllRead, Restart, Reload, RestoredBoundary, files, procVars, passVars, daemonVars,
                LatchHeld
  <2>2. CASE StartupProbeOk
    BY <1>2, <2>2 DEF StartupProbeOk, StartHealthy, files, procVars, passVars, daemonVars,
                      historyVars
  <2>3. CASE StartupProbeFails
    BY <2>3 DEF StartupProbeFails, QueryFails, RecordGpuFailure, procVars, passVars,
                daemonVars
  <2>4. CASE Crash \/ Exit
    BY <2>4 DEF Crash, Exit, Vanish, Protected, files
  <2>5. CASE Reboot
    BY <2>5 DEF Reboot, GuardReboot, FaultKept, files, TypeOK, GuardTypeOK, FilesTypeOK, Boots
  <2>6. ~StartupDies
    BY DEF StartupDies, NothingLost
  <2> QED
    BY <1>7, <2>1, <2>2, <2>3, <2>4, <2>5, <2>6 DEF Life, Startup
<1>8. CASE UNCHANGED vars
  BY <1>1, <1>8 DEF vars, guardVars, files, procVars, passVars, daemonVars, historyVars
<1> QED
  BY <1>4, <1>5, <1>6, <1>7, <1>8 DEF Next

\* Once a boundary job has run in this boot and its process is gone, the daemon
\* queries nothing and launches nothing in this boot, across any number of
\* crashes and restarts: given that the state files can be read and written, no
\* Popen or UPDATE of a started job fails and rearm requests do not overlap.  (README.md tells how a gate that
\* cannot be written breaks it.)
THEOREM BoundaryKept == NothingLost /\ SingleRearm => (Spec => []BoundaryHolds)
<1> SUFFICES ASSUME NothingLost, SingleRearm PROVE Spec => []BoundaryHolds
  OBVIOUS
<1>0. Spec => []Placed
  BY PlacedInduction DEF NothingLost
<1> DEFINE Inv == LatchHeld /\ Opened /\ PassHeld /\ FaultKept /\ Armed
<1>1. Init => Inv
  BY GuardAssumption DEF Init, GuardInit, LatchHeld, Opened, PassHeld, Sampling,
     Launching, FaultKept, Armed
<1>2. TypeOK /\ Placed /\ Inv /\ [Next]_vars => Inv'
  BY LatchStep, OpenedStep, PassStep, FaultStep, ArmedStep
<1>3. Inv => BoundaryHolds
  BY DEF PassHeld, Armed, Sampling, BoundaryHolds, AtQuery, LoopQuery, Launching
<1> QED
  BY <1>0, <1>1, <1>2, <1>3, Typing, PTL DEF Spec

-----------------------------------------------------------------------------
(* The fatal-fault latch.                                                  *)

\* A fatal condition seen is on disk until a rearm, which only starts in a
\* later boot.
Recorded ==
  /\ latch # "no" => faultFile.latched
  /\ latch = "now" => faultFile.boot = boot
  /\ \A r \in Rearmers : rearm[r] # "idle" => faultFile.boot # boot

LEMMA RecordedStep ==
  ASSUME NothingLost, "censusTimeout" \notin Mishaps, SingleRearm,
         TypeOK, LatchHeld, FaultKept, Recorded, [Next]_vars
  PROVE  Recorded'
<1> USE DEF Recorded
<1>1. UNCHANGED <<boot, faultFile, latch, rearm>> => Recorded'
  OBVIOUS
<1>2. ASSUME NEW kind, NEW fatal \in BOOLEAN, NEW w, QueryFails(kind, fatal, w),
             fault \notin Latched \/ fatal,
             fault \notin Latched => UNCHANGED rearm /\ \A r \in Rearmers : rearm[r] = "idle",
             \/ UNCHANGED rearm /\ \A r \in Rearmers : rearm[r] = "idle"
             \/ fatal /\ \A r \in Rearmers : rearm'[r] = "idle"
      PROVE  Recorded'
  BY <1>2, FailureKept DEF QueryFails
<1>3. CASE Loop
  <2> HIDE DEF Recorded
  <2> USE DEF guardVars, files, daemonVars, historyVars
  <2>1. CASE Reap
    BY <1>1, <2>1 DEF Reap, ReapExit, ReapAlive, RequestStop, AwaitStop, ForceStop, ReapStop
  <2>2. CASE BeginPass \/ ReapFails \/ ArmGate \/ ArmWorkloadBoundary \/ EndReap
    BY <1>1, <2>2 DEF BeginPass, ReapFails, ArmGate, ArmWorkloadBoundary, EndReap,
                      ArmTransitionGate, ArmBoundary
  <2>3. CASE Check \/ ProbeOk
    BY <1>1, <2>3 DEF Check, CheckBlocked, CheckDemand, ProbeOk, RecordGpuSuccess
  <2>4. CASE ProbeFails \/ AssessFatal
    <3>1. fault \notin Latched /\ UNCHANGED rearm
      BY <2>4 DEF ProbeFails, AssessFatal, LatchHeld, Latched
    <3>2. \A r \in Rearmers : rearm[r] = "idle"
      BY <3>1 DEF LatchHeld
    <3> QED
      BY <1>2, <2>4, <3>1, <3>2 DEF ProbeFails, AssessFatal
  <2>5. CASE AssessLater
    BY <1>1, <2>5 DEF AssessLater, KeepRecovering
  <2>6. CASE AssessGate
    BY <1>1, <2>6 DEF AssessGate, Observe, HoldGate, PassGate, PassGateUnwritten
  <2>7. CASE Select
    BY <1>1, <2>7 DEF Select, SelectNone, SelectJob, ScheduleRaises, Finish, AfterSchedule
  <2>8. CASE PrepareFails \/ Prepare \/ SpawnOk \/ GiveUp \/ Mark
    BY <1>1, <2>8 DEF PrepareFails, Prepare, ArmBoundaryBeforeLaunch, SpawnOk, GiveUp, Mark,
                      Finish, AfterSchedule
  <2>9. ~SpawnFails
    BY DEF SpawnFails, Mishap, NothingLost
  <2> QED
    BY <1>3, <2>1, <2>2, <2>3, <2>4, <2>5, <2>6, <2>7, <2>8, <2>9 DEF Loop, Probe, Assess, Launch
<1>4. CASE Processes \/ Tick \/ Clients
  BY <1>1, <1>4 DEF Processes, ProcessExit, StrayExit, Tick, GuardTick, Clients, SubmitRequest,
                    CancelRequest, StopRequest, Table, guardVars, files,
                    daemonVars, historyVars
<1>5. CASE Rearm
  <2>1. PICK r \in Rearmers : RearmMay(r) \/ RearmProbe(r) \/ RearmCommit(r)
    BY <1>5 DEF Rearm
  <2>2. Rearmers = {r}
    BY DEF SingleRearm
  <2> USE DEF TypeOK, DaemonTypeOK, guardVars, files, historyVars
  <2>3. CASE RearmMay(r)
    BY <2>2, <2>3 DEF RearmMay, MayRearm, FaultKept, Up
  <2>4. CASE RearmProbe(r)
    BY <2>2, <2>4 DEF RearmProbe, QueryFails, RecordGpuFailure, NothingLost
  <2>5. CASE RearmCommit(r)
    BY <2>2, <2>5 DEF RearmCommit, CommitRearm, HistoryTypeOK
  <2> QED
    BY <2>1, <2>3, <2>4, <2>5
<1>6. CASE Life
  <2>1. CASE Restart \/ StartupProbeOk
    BY <1>1, <2>1 DEF Restart, Reload, StartupProbeOk, StartHealthy, files, daemonVars,
                      historyVars
  <2>2. CASE StartupProbeFails
    <3>1. \A r \in Rearmers : rearm[r] = "idle"
      BY <2>2 DEF StartupProbeFails, LatchHeld
    <3>2. (faultFile' = faultFile /\ latch' = latch) \/ faultFile' = [latched |-> TRUE, boot |-> boot]
      BY <2>2 DEF StartupProbeFails, QueryFails, RecordGpuFailure
    <3>3. UNCHANGED <<boot, rearm>>
      BY <2>2 DEF StartupProbeFails, QueryFails, RecordGpuFailure, daemonVars
    <3> QED
      BY <3>1, <3>2, <3>3
  <2>3. CASE Crash \/ Exit \/ Reboot
    BY <2>3 DEF Crash, Exit, Reboot, GuardReboot, Vanish, files
  <2>4. ~StartupDies
    BY DEF StartupDies, NothingLost
  <2> QED
    BY <1>6, <2>1, <2>2, <2>3, <2>4 DEF Life, Startup
<1>7. CASE UNCHANGED vars
  BY <1>1, <1>7 DEF vars, guardVars, files, daemonVars, historyVars
<1> QED
  BY <1>3, <1>4, <1>5, <1>6, <1>7 DEF Next

LEMMA RecordedInduction ==
  ASSUME NothingLost, "censusTimeout" \notin Mishaps, SingleRearm
  PROVE  Spec => [](LatchHeld /\ FaultKept /\ Recorded)
<1>1. Init => LatchHeld /\ FaultKept /\ Recorded
  BY GuardAssumption DEF Init, GuardInit, LatchHeld, FaultKept, Recorded
<1>2. TypeOK /\ LatchHeld /\ FaultKept /\ Recorded /\ [Next]_vars
        => LatchHeld' /\ FaultKept' /\ Recorded'
  BY LatchStep, FaultStep, RecordedStep
<1> QED
  BY <1>1, <1>2, Typing, PTL DEF Spec

\* After a fatal condition the loop and the start of a daemon query nothing in
\* this boot, nor in a later one before a manual rearm: given that the state files can
\* be read and written, rearm requests do not overlap, and no process census times out (the
\* code does not latch then: README.md).
THEOREM LatchKept ==
  NothingLost /\ "censusTimeout" \notin Mishaps /\ SingleRearm => (Spec => []FaultLatchHolds)
<1> SUFFICES ASSUME NothingLost, "censusTimeout" \notin Mishaps, SingleRearm
             PROVE  Spec => []FaultLatchHolds
  OBVIOUS
<1>1. LatchHeld /\ FaultKept /\ Recorded => FaultLatchHolds
  BY DEF LatchHeld, FaultKept, Recorded, FaultLatchHolds, LoopQuery, Latched
<1> QED
  BY <1>1, RecordedInduction, PTL

\* ... and no rearm request starts in the boot that saw the condition.
THEOREM RearmAfterReboot ==
  NothingLost /\ "censusTimeout" \notin Mishaps /\ SingleRearm => (Spec => []RearmNeedsReboot)
<1> SUFFICES ASSUME NothingLost, "censusTimeout" \notin Mishaps, SingleRearm
             PROVE  Spec => []RearmNeedsReboot
  OBVIOUS
<1>1. Recorded => RearmNeedsReboot
  BY DEF Recorded, RearmNeedsReboot
<1> QED
  BY <1>1, RecordedInduction, PTL
=============================================================================
