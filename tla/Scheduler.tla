----------------------------- MODULE Scheduler ------------------------------
(***************************************************************************)
(* The gpuq daemon: the scheduling loop of gpuq/scheduler.py (one thread), *)
(* the HTTP handlers of gpuq/server.py that run beside it, the processes   *)
(* it starts, and the supervisor that restarts it.                         *)
(*                                                                         *)
(* The loop thread is a program counter, with a step for each stretch of   *)
(* code between two points where another actor can be seen: a database     *)
(* statement, an NVIDIA query, a file write, Popen.  HTTP requests,        *)
(* process exits, the clock and crashes come between any two steps.        *)
(* Mishaps are the calls that may fail; at most MaxMishaps of them happen. *)
(* Operators called Mutant... are faulty variants of the definition after  *)
(* them, see README.md.                                                    *)
(***************************************************************************)
EXTENDS JobTable, GpuGuard, FiniteSetsExt

CONSTANTS
  MaxParallel,      \* max_parallel_jobs
  Capacity,         \* VRAM to reserve: total - baseline - safety reserve
  Need,             \* requested_vram_mb of each job
  BoundaryJobs,     \* jobs for which _requires_reboot_boundary holds
  CleanupJobs,      \* jobs whose workload key has a cleanup command
  WslJobs,          \* jobs started through wsl.exe
  WslForce,         \* wsl_force_terminate
  Stubborn,         \* jobs that ignore the cooperative stop signal
  Overdue,          \* jobs that may outlive max_runtime_seconds
  Cancelable,       \* jobs some client may cancel
  Rearmers,         \* HTTP threads that may run rearm_gpu
  ProbeOnStartup,   \* probe_gpu_on_startup
  Mishaps,          \* the mishaps that may happen, see below
  MaxMishaps        \* how many may happen

\* The calls of the daemon that may go wrong, and what may happen to it.
AllMishaps ==
  {"transient", "timeout", "fatal",   \* read_gpu raises
   "censusError", "censusTimeout", "censusFatal",  \* read_gpu_processes raises
   "censusChanged", "busy",           \* the GPU is not idle after a job
   "external",                        \* other programs hold VRAM
   "windowsCuda",                     \* a Windows CUDA process stops WSL jobs
   "dbReap", "dbQueue", "dbState", "dbFinish", "dbMark",   \* psycopg raises
   "disk", "popen", "cwd",            \* OSError, working directory missing
   "unread",                          \* a state file cannot be read or parsed
   "shutdown", "signal", "crash", "reboot"}   \* the daemon or Windows goes down

ASSUME SchedulerAssumption ==
  /\ Need \in [Jobs -> Nat] /\ Capacity \in Nat
  /\ MaxParallel \in Nat \ {0} /\ MaxMishaps \in Nat
  /\ BoundaryJobs \cup CleanupJobs \cup WslJobs \cup Stubborn \cup Overdue
       \cup Cancelable \subseteq Jobs
  /\ {WslForce, ProbeOnStartup} \subseteq BOOLEAN
  /\ Mishaps \subseteq AllMishaps

VARIABLES
  running,    \* keys of self.running
  proc,       \* the process of each record: alive, or its exit code
  stop,       \* termination_status
  sent,       \* strongest signal sent to the process
  cleaned,    \* cleanup_attempted
  strays,     \* strays[j]: live processes of j that no record names
  pc,         \* where the loop thread is
  site,       \* which call of _reap_and_cancel it is in
  todo,       \* running_items still to look at
  ended,      \* terminal_transition
  job,        \* the job the current call works on, NoJob outside
  active,     \* active_rows, read before the query
  recovered,  \* what _record_gpu_success returned
  rearm,      \* rearm[r]: where HTTP thread r is in rearm_gpu
  stopping,   \* a shutdown request was accepted
  mishaps     \* how many mishaps happened

\* History variables: no guard reads them.
VARIABLES
  starts,     \* starts[j]: processes started for j (0, 1, or 2 for more)
  cleanups,   \* cleanups[j]: cleanup commands run for its last process (ditto)
  sinceEnd,   \* ticks since the last managed job became terminal
  spent,      \* a boundary job was started in this boot and is not tracked now
  latch       \* fatal condition seen: "no", in this boot "now", or "past"

procVars    == <<running, proc, stop, sent, cleaned, strays>>
passVars    == <<site, todo, ended, job, active, recovered>>
daemonVars  == <<rearm, stopping>>
historyVars == <<starts, cleanups, sinceEnd, spent, latch>>
vars == <<tableVars, guardVars, procVars, pc, passVars, daemonVars, mishaps, historyVars>>

NoJob  == "no job"
Steps  == {"down", "startup", "wait", "reap", "armGate", "armBoundary", "check",
           "probe", "assess", "select", "prepare", "spawn", "giveUp", "mark",
           "dead"}
Sites  == {"top", "blocked", "failed", "sampled"}
Working == {"armGate", "armBoundary", "prepare", "spawn", "giveUp", "mark"}

Exited(j) == proc[j] \in {"ok", "bad"}
Alive     == {j \in running : proc[j] = "alive"}
Up        == pc \notin {"down", "startup"}        \* the API answers
Protected == running \cap BoundaryJobs # {}       \* protected_workload_running

\* A mishap of kind m happens in this step; none does.
Mishap(m) == m \in Mishaps /\ mishaps < MaxMishaps /\ mishaps' = mishaps + 1
Fine      == UNCHANGED mishaps

\* A file write, which "disk" makes fail.
Written(w) == IF w THEN Fine ELSE Mishap("disk")

ProcTypeOK ==
  /\ running \in SUBSET Jobs
  /\ proc \in [Jobs -> {"none", "alive", "ok", "bad"}]
  /\ stop \in [Jobs -> {"none", "canceled", "timed_out"}]
  /\ sent \in [Jobs -> {"no", "signal", "terminate", "kill"}]
  /\ cleaned \in [Jobs -> BOOLEAN]
  /\ strays \in [Jobs -> 0..2]

PassTypeOK ==
  /\ pc \in Steps /\ site \in Sites
  /\ todo \in SUBSET Jobs /\ ended \in BOOLEAN
  /\ job \in IF pc \in Working THEN Jobs ELSE {NoJob}
  /\ active \in SUBSET Jobs /\ recovered \in BOOLEAN

DaemonTypeOK ==
  /\ rearm \in [Rearmers -> {"idle", "probe", "commit"}]
  /\ stopping \in BOOLEAN /\ mishaps \in 0..MaxMishaps

HistoryTypeOK ==
  /\ starts \in [Jobs -> 0..2] /\ cleanups \in [Jobs -> 0..2]
  /\ sinceEnd \in Ticks /\ spent \in BOOLEAN
  /\ latch \in {"no", "now", "past"}

TypeOK ==
  TableTypeOK /\ GuardTypeOK /\ ProcTypeOK /\ PassTypeOK /\ DaemonTypeOK /\ HistoryTypeOK

Init ==
  /\ TableInit /\ GuardInit
  /\ running = {} /\ proc = [j \in Jobs |-> "none"] /\ stop = [j \in Jobs |-> "none"]
  /\ sent = [j \in Jobs |-> "no"] /\ cleaned = [j \in Jobs |-> FALSE]
  /\ strays = [j \in Jobs |-> 0]
  /\ pc = "down" /\ site = "top" /\ todo = {} /\ ended = FALSE /\ job = NoJob
  /\ active = {} /\ recovered = FALSE
  /\ rearm = [r \in Rearmers |-> "idle"] /\ stopping = FALSE /\ mishaps = 0
  /\ starts = [j \in Jobs |-> 0] /\ cleanups = [j \in Jobs |-> 0]
  /\ sinceEnd = HighNoTouch /\ spent = FALSE /\ latch = "no"

-----------------------------------------------------------------------------
(* Shapes shared by the loop's steps.                                      *)

Blank == /\ site' = "top" /\ todo' = {} /\ ended' = FALSE /\ job' = NoJob
         /\ active' = {} /\ recovered' = FALSE

\* stop_event.wait(poll_seconds) at the end of a pass.
Sleep == pc' = "wait" /\ Blank

\* An exception leaves _reap_and_cancel: caught by the loop, except after a
\* failed query, where the call stands outside any try and ends the thread.
Raise == pc' = (IF site = "failed" THEN "dead" ELSE "wait") /\ Blank

\* _reap_and_cancel is called: it walks a copy of self.running.
CallReap(s) == pc' = "reap" /\ site' = s /\ todo' = running

\* The rest of the pass after _schedule_once returned.
Finish == AfterSchedule(running # {}) /\ Sleep

OneMore(n) == Sooner(n + 1, 2)

MutantRunCleanup(j) ==
  /\ cleaned' = [cleaned EXCEPT ![j] = TRUE]
  /\ cleanups' = IF j \in CleanupJobs THEN [cleanups EXCEPT ![j] = OneMore(@)] ELSE cleanups

\* _run_cleanup_once; a failing command only changes the error text.
RunCleanupOnce(j) ==
  /\ cleaned' = [cleaned EXCEPT ![j] = TRUE]
  /\ cleanups' = IF ~cleaned[j] /\ j \in CleanupJobs
                 THEN [cleanups EXCEPT ![j] = OneMore(@)] ELSE cleanups

-----------------------------------------------------------------------------
(* _loop, first call: reap before any query.                               *)

MutantBeginPass ==
  /\ pc = "wait" /\ ~ProbeBlocked
  /\ CallReap("top")
  /\ Fine
  /\ UNCHANGED <<tableVars, guardVars, procVars, ended, job, active, recovered,
                 daemonVars, historyVars>>

BeginPass ==
  /\ pc = "wait"
  /\ CallReap("top")
  /\ Fine
  /\ UNCHANGED <<tableVars, guardVars, procVars, ended, job, active, recovered,
                 daemonVars, historyVars>>

\* _reap_and_cancel finds that the process of j exited: cleanup unless it
\* succeeded, mark_finished, _close_record.  The gate and the boundary follow.
ReapExit(j) ==
  LET s == IF stop[j] # "none" THEN stop[j]
           ELSE IF proc[j] = "ok" THEN "succeeded" ELSE "failed" IN
  /\ pc = "reap" /\ j \in todo /\ j \in running /\ Exited(j)
  /\ MarkFinished(j, s)
  /\ cleanups' = IF s # "succeeded" /\ ~cleaned[j] /\ j \in CleanupJobs
                 THEN [cleanups EXCEPT ![j] = OneMore(@)] ELSE cleanups
  /\ running' = running \ {j}
  /\ proc' = [proc EXCEPT ![j] = "none"]
  /\ stop' = [stop EXCEPT ![j] = "none"]
  /\ sent' = [sent EXCEPT ![j] = "no"]
  /\ cleaned' = [cleaned EXCEPT ![j] = FALSE]
  /\ pc' = "armGate" /\ job' = j /\ ended' = TRUE /\ todo' = todo \ {j}
  /\ sinceEnd' = 0 /\ spent' = (spent \/ j \in BoundaryJobs)
  /\ Fine
  /\ UNCHANGED <<guardVars, strays, site, active, recovered, daemonVars, starts, latch>>

\* A statement of _reap_and_cancel raises: get_job, before anything was done,
\* or mark_finished, after the cleanup.
ReapFails ==
  /\ pc = "reap" /\ Mishap("dbReap")
  /\ \E j \in todo \cap running :
       \/ UNCHANGED <<cleaned, cleanups>>
       \/ Exited(j) /\ (stop[j] # "none" \/ proc[j] = "bad") /\ RunCleanupOnce(j)
  /\ Raise
  /\ UNCHANGED <<tableVars, guardVars, running, proc, stop, sent, strays, daemonVars,
                 starts, sinceEnd, spent, latch>>

\* _arm_high_load_transition_gate, with the window of a high-load job or not.
ArmGate ==
  /\ pc = "armGate"
  /\ \E period \in {NoTouch, HighNoTouch}, w \in BOOLEAN :
       /\ Written(w) /\ ArmTransitionGate(period, w)
       /\ IF w
          THEN /\ pc' = IF job \in BoundaryJobs THEN "armBoundary" ELSE "reap"
               /\ job' = IF job \in BoundaryJobs THEN job ELSE NoJob
               /\ UNCHANGED <<site, todo, ended, active, recovered>>
          ELSE Raise
  /\ UNCHANGED <<tableVars, procVars, daemonVars, historyVars>>

\* _arm_workload_reboot_boundary.
ArmWorkloadBoundary ==
  /\ pc = "armBoundary"
  /\ \E w \in BOOLEAN :
       /\ Written(w) /\ ArmBoundary(w)
       /\ IF w THEN /\ pc' = "reap" /\ job' = NoJob
                    /\ UNCHANGED <<site, todo, ended, active, recovered>>
          ELSE Raise
  /\ UNCHANGED <<tableVars, procVars, daemonVars, historyVars>>

\* The process of j lives on and nobody asks it to stop.
ReapAlive(j) ==
  /\ pc = "reap" /\ j \in todo /\ proc[j] = "alive" /\ ~cancel[j] /\ stop[j] = "none"
  /\ todo' = todo \ {j}
  /\ Fine
  /\ UNCHANGED <<tableVars, guardVars, procVars, pc, site, ended, job, active, recovered,
                 daemonVars, historyVars>>

\* cancel_requested, or past max_runtime_seconds.
MustStop(j) == cancel[j] \/ j \in Overdue

\* The step of _reap_and_cancel that calls _request_termination for j.
ReapStop(j) ==
  /\ pc = "reap" /\ j \in todo /\ proc[j] = "alive" /\ MustStop(j)
  /\ todo' = todo \ {j}
  /\ Fine
  /\ UNCHANGED <<tableVars, guardVars, running, proc, strays, pc, site, ended, job, active,
                 recovered, daemonVars, starts, sinceEnd, spent, latch>>

\* _request_termination, first call: a cooperative signal.
RequestStop(j) ==
  /\ ReapStop(j) /\ stop[j] = "none"
  /\ stop' = [stop EXCEPT ![j] = IF cancel[j] THEN "canceled" ELSE "timed_out"]
  /\ sent' = [sent EXCEPT ![j] = "signal"]
  /\ UNCHANGED <<cleaned, cleanups>>

MutantMayForce(j) == j \in WslJobs \/ WslForce \/ j \in CleanupJobs

\* A WSL job without cleanup command is never forced, unless so configured.
MayForce(j) == j \notin WslJobs \/ WslForce \/ j \in CleanupJobs

\* ... later calls: inside a grace period, or refused for a WSL job.
AwaitStop(j) ==
  /\ ReapStop(j) /\ stop[j] # "none"
  /\ UNCHANGED <<stop, sent, cleaned, cleanups>>

\* ... after the grace period: cleanup and terminate, then kill.
ForceStop(j) ==
  /\ ReapStop(j) /\ stop[j] # "none" /\ MayForce(j)
  /\ sent' = [sent EXCEPT ![j] = IF @ = "signal" THEN "terminate" ELSE "kill"]
  /\ IF j \in CleanupJobs THEN RunCleanupOnce(j) ELSE UNCHANGED <<cleaned, cleanups>>
  /\ UNCHANGED stop

\* The end of each of the four calls.
EndReap ==
  /\ pc = "reap" /\ todo = {}
  /\ \/ site = "top" /\ ended /\ Sleep
     \/ /\ site = "top" /\ ~ended /\ pc' = "check"
        /\ UNCHANGED passVars
     \/ site \in {"blocked", "failed"} /\ Sleep
     \/ /\ site = "sampled" /\ pc' = "assess"
        /\ UNCHANGED passVars
  /\ Fine
  /\ UNCHANGED <<tableVars, guardVars, procVars, daemonVars, historyVars>>

-----------------------------------------------------------------------------
(* _loop: may the NVIDIA stack be queried, and is there a reason to.       *)

CheckBlocked ==
  /\ pc = "check" /\ ProbeBlocked
  /\ CallReap("blocked")
  /\ Fine
  /\ UNCHANGED <<tableVars, guardVars, procVars, ended, job, active, recovered,
                 daemonVars, historyVars>>

\* active_jobs and queue_candidates; an idle daemon goes back to sleep.  Its
\* set_state stands outside any try: when it raises the thread ends.
CheckDemand ==
  /\ pc = "check" /\ ~ProbeBlocked
  /\ \/ Mishap("dbQueue") /\ Sleep
     \/ /\ Active = {} /\ Queued = {} /\ ~gate.on
        /\ \/ Fine /\ Sleep
           \/ Mishap("dbState") /\ pc' = "dead" /\ Blank
     \/ /\ Active # {} \/ Queued # {} \/ gate.on
        /\ Fine
        /\ pc' = "probe" /\ active' = Active
        /\ UNCHANGED <<site, todo, ended, job, recovered>>
  /\ UNCHANGED <<tableVars, guardVars, procVars, daemonVars, historyVars>>

\* read_gpu returns.
ProbeOk ==
  /\ pc = "probe"
  /\ RecordGpuSuccess
  /\ recovered' = Recovers
  /\ CallReap("sampled")
  /\ Fine
  /\ UNCHANGED <<tableVars, procVars, ended, job, active, daemonVars, historyVars>>

\* The health record of a query that raised, and what README.md calls fatal.
QueryFails(kind, fatal, w) ==
  /\ Mishap(kind)
  /\ w \/ (fatal /\ "disk" \in Mishaps)
  /\ RecordGpuFailure(fatal, w)
  /\ latch' = IF fatal THEN "now" ELSE latch
  /\ UNCHANGED <<starts, cleanups, sinceEnd, spent>>

\* read_gpu raises: record it, then reap once more, both outside any try.
ProbeFails ==
  /\ pc = "probe"
  /\ \E kind \in {"transient", "timeout", "fatal"}, w \in BOOLEAN :
       /\ QueryFails(kind, kind = "fatal" \/ (kind = "timeout" /\ Protected), w)
       /\ IF w THEN /\ CallReap("failed")
                    /\ UNCHANGED <<ended, job, active, recovered>>
          ELSE pc' = "dead" /\ Blank
  /\ UNCHANGED <<tableVars, procVars, daemonVars>>

-----------------------------------------------------------------------------
(* _loop after a successful query: census, gate, admission.                *)

\* A job ended in this pass, or telemetry has not recovered yet.
AssessLater ==
  /\ pc = "assess" /\ (ended \/ ~healthy)
  /\ IF ended THEN UNCHANGED guardVars ELSE KeepRecovering
  /\ Sleep
  /\ Fine
  /\ UNCHANGED <<tableVars, procVars, daemonVars, historyVars>>

\* What the sample and the census may show; a census error or a busy GPU is a
\* mishap.  A census that times out is only an error to the code.
Observe(idle, census) ==
  /\ IF idle /\ census = "same" THEN Fine
     ELSE /\ mishaps < MaxMishaps /\ mishaps' = mishaps + 1
          /\ idle \/ ("busy" \in Mishaps /\ gate.on)
          /\ census = "changed" => "censusChanged" \in Mishaps /\ gate.on
          /\ census = "error" => "censusError" \in Mishaps
          /\ census = "timeout" => "censusTimeout" \in Mishaps
  /\ latch' = IF census = "timeout" /\ Protected THEN "now" ELSE latch
  /\ UNCHANGED <<starts, cleanups, sinceEnd, spent>>

Verdict(census) == IF census = "timeout" THEN "error" ELSE census

AssessGate ==
  /\ pc = "assess" /\ ~ended /\ healthy
  /\ \E idle \in BOOLEAN, census \in {"same", "changed", "error", "timeout"} :
       /\ Observe(idle, census)
       /\ \/ /\ ~GatePasses(idle, Verdict(census))
             /\ HoldGate(idle, Verdict(census)) /\ Sleep
          \/ /\ GatePasses(idle, Verdict(census))
             /\ PassGate(recovered) /\ pc' = "select"
             /\ UNCHANGED passVars
          \/ /\ GatePasses(idle, Verdict(census)) /\ "disk" \in Mishaps
             /\ PassGateUnwritten /\ Sleep
  /\ UNCHANGED <<tableVars, procVars, daemonVars>>

\* The census raises a fatal error: latched, no admission in this pass.
AssessFatal ==
  /\ pc = "assess" /\ ~ended /\ healthy
  /\ \E w \in BOOLEAN : QueryFails("censusFatal", TRUE, w)
  /\ Sleep
  /\ UNCHANGED <<tableVars, procVars, daemonVars>>

Reserved == MapThenSumSet(LAMBDA j : Need[j], active)
MutantFree == Capacity

Free     == Later(Capacity - Reserved, 0)

\* fit_mb: what is free to reserve, less what other programs hold.
Fits == IF "external" \in Mishaps THEN 0..Free ELSE {Free}

MutantChosen(j, h, fit) == Need[j] <= fit /\ (j = h \/ (Need[h] > fit /\ active # {}))

\* choose_candidate may return j, or none, when fit is free and h is the head:
\* the head if it fits, else, beside running jobs, a shorter one that fits.  The
\* head may be any queued job: scores and ages are left open here, and so are the
\* manual positions, which clients change at any time (module Transactions) and
\* which queued jobs may even share.  Module Policy says which job is the head.
Chosen(j, h, fit) ==
  /\ Cardinality(active) < MaxParallel
  /\ Need[j] <= fit
  /\ j = h \/ (Need[h] > fit /\ active # {})
NoneChosen ==
  \/ Queued = {} \/ Cardinality(active) >= MaxParallel
  \/ \E h \in Queued, fit \in Fits : Need[h] > fit
  \/ "windowsCuda" \in Mishaps /\ Queued \cap WslJobs # {}

MutantMaySchedule == healthy /\ ~gate.on

\* _schedule_once may admit a job at all.
MaySchedule == healthy /\ ~gate.on /\ admit = 0

SelectNone ==
  /\ pc = "select" /\ (~MaySchedule \/ NoneChosen)
  /\ Finish
  /\ Fine
  /\ UNCHANGED <<tableVars, procVars, daemonVars, historyVars>>

SelectJob ==
  /\ pc = "select" /\ MaySchedule
  /\ \E h, j \in Queued, fit \in Fits : Chosen(j, h, fit) /\ job' = j
  /\ pc' = "prepare"
  /\ Fine
  /\ UNCHANGED <<tableVars, guardVars, procVars, site, todo, ended, active, recovered,
                 daemonVars, historyVars>>

\* queue_candidates raises, or in _launch the log file cannot be opened: the
\* row stays queued.
ScheduleRaises ==
  /\ \/ pc = "select" /\ MaySchedule /\ Mishap("dbQueue")
     \/ pc = "prepare" /\ Mishap("disk")
  /\ Sleep
  /\ UNCHANGED <<tableVars, guardVars, procVars, daemonVars, historyVars>>

-----------------------------------------------------------------------------
(* _launch.                                                                *)

\* The working directory is missing, or the boundary file cannot be written.
PrepareFails ==
  /\ pc = "prepare"
  /\ Mishap("cwd") \/ (job \in BoundaryJobs /\ Mishap("disk"))
  /\ pc' = "giveUp"
  /\ UNCHANGED <<tableVars, guardVars, procVars, passVars, daemonVars, historyVars>>

Prepare ==
  /\ pc = "prepare"
  /\ IF job \in BoundaryJobs THEN ArmBoundaryBeforeLaunch ELSE UNCHANGED guardVars
  /\ pc' = "spawn"
  /\ Fine
  /\ UNCHANGED <<tableVars, procVars, passVars, daemonVars, historyVars>>

\* Popen raises: no process exists, the boundary armed for it is taken back.
SpawnFails ==
  /\ pc = "spawn" /\ Mishap("popen")
  /\ IF job \in BoundaryJobs
     THEN \E w \in BOOLEAN : (w \/ "disk" \in Mishaps) /\ ClearUnlaunchedBoundary(w)
     ELSE UNCHANGED guardVars
  /\ pc' = "giveUp"
  /\ UNCHANGED <<tableVars, procVars, passVars, daemonVars, historyVars>>

MutantGiveUp ==
  /\ pc = "giveUp"
  /\ Fine /\ MarkFinished(job, "queued") /\ Finish
  /\ UNCHANGED <<procVars, daemonVars, historyVars>>

\* mark_finished(failed) of a job that was never started.
GiveUp ==
  /\ pc = "giveUp"
  /\ \/ Fine /\ MarkFinished(job, "failed") /\ Finish
     \/ Mishap("dbFinish") /\ Sleep /\ UNCHANGED <<tableVars, guardVars>>
  /\ UNCHANGED <<procVars, daemonVars, historyVars>>

\* Popen returns and the record enters self.running, where it replaces the
\* record of an earlier process of the same job.
SpawnOk ==
  /\ pc = "spawn"
  /\ running' = running \cup {job}
  /\ strays' = IF proc[job] = "alive" THEN [strays EXCEPT ![job] = OneMore(@)]
               ELSE strays
  /\ proc' = [proc EXCEPT ![job] = "alive"]
  /\ stop' = [stop EXCEPT ![job] = "none"]
  /\ sent' = [sent EXCEPT ![job] = "no"]
  /\ cleaned' = [cleaned EXCEPT ![job] = FALSE]
  /\ starts' = [starts EXCEPT ![job] = OneMore(@)]
  /\ cleanups' = [cleanups EXCEPT ![job] = 0]
  /\ spent' = (spent \/ job \in running \cap BoundaryJobs)
  /\ pc' = "mark"
  /\ Fine
  /\ UNCHANGED <<tableVars, guardVars, passVars, daemonVars, sinceEnd, latch>>

Mark ==
  /\ pc = "mark"
  /\ \/ Fine /\ MarkRunning(job) /\ Finish
     \/ Mishap("dbMark") /\ Sleep /\ UNCHANGED <<tableVars, guardVars>>
  /\ UNCHANGED <<procVars, daemonVars, historyVars>>

-----------------------------------------------------------------------------
(* Processes and time.                                                     *)

ProcessExit(j) ==
  /\ proc[j] = "alive"
  /\ \E code \in {"ok", "bad"} : proc' = [proc EXCEPT ![j] = code]
  /\ Fine
  /\ UNCHANGED <<tableVars, guardVars, running, stop, sent, cleaned, strays, pc, passVars,
                 daemonVars, historyVars>>

StrayExit(j) ==
  /\ strays[j] > 0
  /\ strays' = [strays EXCEPT ![j] = @ - 1]
  /\ Fine
  /\ UNCHANGED <<tableVars, guardVars, running, proc, stop, sent, cleaned, pc, passVars,
                 daemonVars, historyVars>>

Tick ==
  /\ GuardTick
  /\ sinceEnd' = Sooner(sinceEnd + 1, HighNoTouch)
  /\ Fine
  /\ UNCHANGED <<tableVars, procVars, pc, passVars, daemonVars, starts, cleanups, spent, latch>>

-----------------------------------------------------------------------------
(* HTTP requests (server.py).                                              *)

Table(op) ==
  /\ Up /\ op
  /\ Fine
  /\ UNCHANGED <<guardVars, procVars, pc, passVars, daemonVars, historyVars>>

SubmitRequest(j) == Table(SubmitJob(j))
CancelRequest(j) == Table(RequestCancel(j))

\* POST /api/shutdown, refused while self.running is not empty; or SIGINT and
\* SIGTERM, which ask nobody.  The loop is told some time later.
StopRequest ==
  /\ Up /\ ~stopping
  /\ Mishap("signal") \/ (running = {} /\ Mishap("shutdown"))
  /\ stopping' = TRUE
  /\ UNCHANGED <<tableVars, guardVars, procVars, pc, passVars, rearm, historyVars>>

\* rearm_gpu, step by step: the latch and the event log, the query, the commit.
RearmMay(r) ==
  /\ Up /\ rearm[r] = "idle" /\ MayRearm
  /\ rearm' = [rearm EXCEPT ![r] = "probe"]
  /\ Fine
  /\ UNCHANGED <<tableVars, guardVars, procVars, pc, passVars, stopping, historyVars>>

RearmProbe(r) ==
  /\ Up /\ rearm[r] = "probe"
  /\ \/ /\ rearm' = [rearm EXCEPT ![r] = "commit"]
        /\ Fine
        /\ UNCHANGED <<guardVars, historyVars>>
     \/ /\ rearm' = [rearm EXCEPT ![r] = "idle"]
        /\ \/ Mishap("transient") /\ UNCHANGED <<guardVars, historyVars>>
           \/ \E w \in BOOLEAN : QueryFails("fatal", TRUE, w)
  /\ UNCHANGED <<tableVars, procVars, pc, passVars, stopping>>

RearmCommit(r) ==
  /\ Up /\ rearm[r] = "commit"
  /\ rearm' = [rearm EXCEPT ![r] = "idle"]
  /\ \/ Fine /\ CommitRearm /\ latch' = IF latch = "past" THEN "no" ELSE latch
     \/ Mishap("disk") /\ UNCHANGED <<guardVars, latch>>
  /\ UNCHANGED <<tableVars, procVars, pc, passVars, stopping, starts, cleanups,
                 sinceEnd, spent>>

-----------------------------------------------------------------------------
(* The daemon's life.                                                      *)

\* The process of the daemon is gone; those it started live on, untracked.
Vanish ==
  /\ pc' = "down" /\ Blank
  /\ running' = {}
  /\ strays' = [j \in Jobs |-> IF proc[j] = "alive" THEN OneMore(strays[j]) ELSE strays[j]]
  /\ proc' = [j \in Jobs |-> "none"] /\ stop' = [j \in Jobs |-> "none"]
  /\ sent' = [j \in Jobs |-> "no"] /\ cleaned' = [j \in Jobs |-> FALSE]
  /\ rearm' = [r \in Rearmers |-> "idle"] /\ stopping' = FALSE
  /\ spent' = (spent \/ Protected)
  /\ UNCHANGED <<tableVars, boot, files, starts, cleanups, sinceEnd, latch>>

\* The daemon is killed, or its interpreter dies.
Crash ==
  /\ pc # "down" /\ Mishap("crash")
  /\ Forget /\ Vanish

\* serve_forever returned and main returns: it waits at most ten seconds for the
\* loop thread, a daemon thread, which ends wherever it is.
Exit ==
  /\ stopping
  /\ Forget /\ Vanish
  /\ Fine

\* Windows restarts: every process is gone.
Reboot ==
  /\ Mishap("reboot")
  /\ GuardReboot
  /\ pc' = "down" /\ Blank
  /\ running' = {}
  /\ strays' = [j \in Jobs |-> 0]
  /\ proc' = [j \in Jobs |-> "none"] /\ stop' = [j \in Jobs |-> "none"]
  /\ sent' = [j \in Jobs |-> "no"] /\ cleaned' = [j \in Jobs |-> FALSE]
  /\ rearm' = [r \in Rearmers |-> "idle"] /\ stopping' = FALSE
  /\ spent' = FALSE
  /\ latch' = IF latch = "no" THEN "no" ELSE "past"
  /\ UNCHANGED <<tableVars, starts, cleanups, sinceEnd>>

\* main and Scheduler.start, run by the supervisor after every end of the
\* daemon: reload the files, orphan the running rows, start the thread.
Restart ==
  /\ pc = "down"
  /\ \E read \in SUBSET FileNames :
       /\ Reload(read)
       /\ IF read = FileNames THEN Fine ELSE Mishap("unread")
  /\ OrphanInterruptedJobs
  /\ pc' = IF ProbeOnStartup /\ fault' \notin Latched /\ ~boundary' THEN "startup" ELSE "wait"
  /\ sinceEnd' = IF Active = {} THEN sinceEnd ELSE 0
  /\ UNCHANGED <<procVars, passVars, daemonVars, starts, cleanups, spent, latch>>

\* start() with probe_gpu_on_startup, before the thread runs.
StartupProbeOk ==
  /\ pc = "startup"
  /\ StartHealthy
  /\ pc' = "wait"
  /\ Fine
  /\ UNCHANGED <<tableVars, procVars, passVars, daemonVars, historyVars>>

\* ... its query or the census after it raises.
StartupProbeFails ==
  /\ pc = "startup"
  /\ \E kind \in {"transient", "timeout", "fatal", "censusFatal"} :
       /\ QueryFails(kind, kind \in {"fatal", "censusFatal"}, TRUE)
       /\ pc' = "wait"
  /\ UNCHANGED <<tableVars, procVars, passVars, daemonVars>>

\* ... with a fatal error, and the fault file cannot be written: main ends.
StartupDies ==
  /\ pc = "startup" /\ "disk" \in Mishaps
  /\ \E kind \in {"fatal", "censusFatal"} : Mishap(kind)
  /\ pc' = "down" /\ Forget
  /\ latch' = "now"
  /\ UNCHANGED <<tableVars, boot, files, procVars, passVars, daemonVars, starts, cleanups,
                 sinceEnd, spent>>

-----------------------------------------------------------------------------

Reap   == \E j \in Jobs : \/ ReapExit(j) \/ ReapAlive(j) \/ RequestStop(j)
                          \/ AwaitStop(j) \/ ForceStop(j)
Check  == CheckBlocked \/ CheckDemand
Probe  == ProbeOk \/ ProbeFails
Assess == AssessLater \/ AssessGate \/ AssessFatal
Select == SelectNone \/ SelectJob \/ ScheduleRaises
Launch == PrepareFails \/ Prepare \/ SpawnFails \/ SpawnOk \/ GiveUp \/ Mark

\* The loop thread.
Loop == \/ BeginPass \/ Reap \/ ReapFails \/ ArmGate \/ ArmWorkloadBoundary
        \/ EndReap \/ Check \/ Probe \/ Assess \/ Select \/ Launch

Processes == \E j \in Jobs : ProcessExit(j) \/ StrayExit(j)

Clients == \/ \E j \in Jobs : SubmitRequest(j)
           \/ \E j \in Cancelable : CancelRequest(j)
           \/ StopRequest

Rearm == \E r \in Rearmers : RearmMay(r) \/ RearmProbe(r) \/ RearmCommit(r)

Startup == Restart \/ StartupProbeOk \/ StartupProbeFails \/ StartupDies
Life    == Startup \/ Crash \/ Exit \/ Reboot

Next == Loop \/ Processes \/ Tick \/ Clients \/ Rearm \/ Life

Spec == Init /\ [][Next]_vars

\* Fairness.  The thread runs on; time passes; a process ends by itself unless
\* it is stubborn, and once killed in any case; time past a job's runtime or
\* grace period stays past, so a stop that is tried in every pass is not put
\* off forever; the supervisor (scripts/Start-Daemon.ps1) restarts the daemon.
Fairness ==
  /\ WF_vars(Loop) /\ WF_vars(Tick) /\ WF_vars(Startup)
  /\ \A j \in Jobs : /\ WF_vars((j \notin Stubborn \/ sent[j] = "kill") /\ ProcessExit(j))
                     /\ SF_vars(RequestStop(j)) /\ SF_vars(ForceStop(j))

FairSpec == Spec /\ Fairness

-----------------------------------------------------------------------------
(* Safety properties.                                                      *)

\* The processes that count against the limits: those the running daemon started
\* and tracks, except that the row of a job canceled between the choice and
\* mark_running stays "canceled" and hides its process from active_jobs.
\* (CancelRace shows what that costs.)  Processes left by an earlier daemon, which
\* nothing tracks, are strays.
Managed == {j \in Alive : status[j] # "canceled"}

\* No more than max_parallel_jobs managed processes ever run, although the limit is
\* checked on rows read before the GPU query (active_rows).
WithinLimit == Cardinality(Managed) <= MaxParallel

\* The managed processes, of heads and of backfilled jobs, never reserve more VRAM
\* together than the guarded capacity.
ReservationsFit == MapThenSumSet(LAMBDA j : Need[j], Managed) <= Capacity

\* A job's command is started at most once, whatever the order of reads of the
\* queue, cancellations and launch failures, and whichever job stands first.
StartedOnce == \A j \in Jobs : starts[j] <= 1

\* "Failed and canceled jobs still run their allowlisted cleanup once": never
\* twice, although both the stop escalation and the reaper call it and a reap
\* may be retried, and exactly once when a started job has ended otherwise than
\* with success.
CleanupOnce ==
  \A j \in CleanupJobs :
    /\ cleanups[j] <= 1
    /\ status[j] \in {"failed", "timed_out", "canceled"} /\ starts[j] > 0 /\ j \notin running
         => cleanups[j] = 1

\* An outcome once recorded is never overwritten: a late reap, launch failure
\* or restart does not turn a finished job into another kind of finished job.
\* (A job canceled in the queue while it is being launched is the exception.)
OutcomeFinal ==
  [][\A j \in Jobs : status[j] \in Ended \ {"canceled"} => status'[j] = status[j]]_vars

\* The daemon with all its clients, failures and restarts implements the table:
\* it changes the rows only by statements JobTable allows, and finishes only rows
\* that exist.
RowsFollowTable == TableSpec

\* Somebody is querying the NVIDIA stack: the loop for telemetry or for the
\* process census, start(), or a rearm request.
LoopQuery == pc \in {"probe", "startup"} \/ (pc = "assess" /\ ~ended /\ healthy)
AtQuery   == LoopQuery \/ \E r \in Rearmers : rearm[r] = "probe"
Launching == pc \in {"prepare", "spawn"}

\* While one daemon runs, no query starts before post_job_no_touch_seconds have
\* passed since the last managed job ended, also when the end is found in the
\* middle of a pass or two ends overlap.
NoTouchAfterEnd == AtQuery => sinceEnd >= NoTouch

\* admission_ready(), which /readyz and /api/health report.
AdmissionReady ==
  healthy /\ fault = "healthy" /\ ~boundary /\ ~gate.on /\ admit = 0 /\ noTouch = 0

\* The loop launches a job only while the API reports that admission is ready,
\* although it reads these conditions at different moments of its pass, other
\* threads write some of them, and any call may have failed before.
LaunchOnlyWhenReady == Launching => AdmissionReady

\* A restarted daemon honours the window its predecessor persisted.
NoTouchSurvivesRestart ==
  LoopQuery => ~(gateFile.boot = boot /\ gateFile.left > 0)

\* ... and launches nothing until the persisted gate has seen its evidence.
GateSurvivesRestart == Launching => gateFile.boot # boot

\* Once a boundary job ran in this boot and its process is no longer tracked,
\* nothing queries the NVIDIA stack and nothing is launched in this boot, also
\* across crashes and restarts of the daemon.
BoundaryHolds == spent => ~AtQuery /\ ~Launching

\* After a fatal GPU condition the loop and the start of a daemon make no query
\* in the same boot, nor in a later one until a manual rearm has succeeded.
FaultLatchHolds == latch # "no" => ~LoopQuery

\* ... and no rearm request is under way in the boot that saw the condition.
RearmNeedsReboot == latch = "now" => \A r \in Rearmers : rearm[r] = "idle"

-----------------------------------------------------------------------------
(* What the documents promise and the code does not keep.                  *)

\* README.md: "strict serialization (max_parallel_jobs=1)", over every process
\* the daemon started and that is still alive.
StrictSerialization ==
  Cardinality(Alive) + MapThenSumSet(LAMBDA j : strays[j], Jobs) <= MaxParallel

\* README.md: after a fatal condition "the current boot performs no further
\* nvidia-smi calls": the loop begins none (one under way may end).
LatchStopsNewQueries == [][~LoopQuery /\ LoopQuery' => latch = "no"]_vars

-----------------------------------------------------------------------------
(* Liveness properties, under FairSpec.                                    *)

\* "Process lifecycle reaping continues": an exited process is always reaped,
\* whatever the GPU does.
ReapingContinues == \A j \in Jobs : Exited(j) ~> j \notin running

\* A queued job is eventually started or ended, whatever failures, busy cards and
\* crashes delay it, unless a fatal GPU condition forbids any query in this boot.
QueueServed ==
  \A j \in Jobs : status[j] = "queued" ~> status[j] # "queued" \/ latch = "now"

\* A cancel request on a running job ends it, even when the job ignores the
\* cooperative signal.
CancelEnds == \A j \in Jobs : status[j] = "running" /\ cancel[j] ~> status[j] \in Ended
=============================================================================
