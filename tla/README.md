# Verification of the GPU workload scheduler

TLA+ models of `gpuq`, TLC runs on small instances of them, and TLAPS proofs of
the results that matter most for every instance. Paths below are relative to
`src/`.

    tlc -config Restarts.cfg MCScheduler      # a run; PROJECT.json names its module
    tlapm SchedulerProofs.tla                 # a module of proofs

## The system

`gpuq` is one daemon on a Windows host with one GPU. Agents queue commands over
HTTP; a loop thread starts those that fit, watches them, and is careful about
*when* it touches the NVIDIA driver, because after certain faults another
`nvidia-smi` call may bring the machine down.

| Part | State | Operations | Modelled in |
| --- | --- | --- | --- |
| Jobs table (`gpuq/db.py`, `sql/`) | a row per job: status, cancel flag, manual rank | submit, mark_running, mark_finished, request_cancel, reorder, orphan | `JobTable`, `Transactions` (manual rank, reorder) |
| GPU guard (`gpuq/scheduler.py`, `gpuq/safety.py`) | health and backoff, fatal latch, reboot boundary, transition gate, deadlines, three files under `.runtime` | record failure or success, rearm, arm and clear boundary, arm and evaluate gate | `GpuGuard`, `Handoff`, `Host` (boot epoch) |
| Scheduler loop (`gpuq/scheduler.py`) | `running` records, where the thread is, `active_rows` | reap and cancel, probe, census, schedule, launch | `Scheduler`, `Handoff` |
| Admission policy (`gpuq/policy.py`) | none of its own: the queue, the running jobs, recent use | `choose_candidate`, `effective_score` | `Policy`, `Scheduler` (what it may return) |
| HTTP API (`gpuq/server.py`) | the requests under way | submit, cancel, reorder, shutdown, rearm, stop an external workload | `Scheduler`, `Transactions`, `External` |
| Life cycle (`server.main`, `scripts/Start-Daemon.ps1`, `Register-Task.ps1`, `Stop-Daemon.ps1`) | process, Windows boot, retry delay | wait for Docker, database and port, start, stop, crash, reboot, restart | `Host`, `Scheduler` |
| External workloads (`gpuq/external.py`) | the published list | inspect, stop | `External` |
| NVIDIA telemetry (`gpuq/gpu.py`) | none | a query succeeds, fails, times out, fails fatally | mishaps of `Scheduler`, samples and censuses of `Handoff` |
| Configuration, command line client, dashboard, operator scripts | | | not modelled, see below |

The loop calls the table (each of its statements is one transaction; a client's reorder
is a transaction of several), the driver, the file system and `Popen`; the HTTP threads
call the table and, for a rearm, the guard and the driver; a dead daemon leaves its
processes, its rows and its files to the next one. What is hard:

* the loop reads rows, then queries the GPU for seconds, then acts on the rows
  (`scheduler.py:338`); clients change them meanwhile;
* ending a job is four effects in a row (row, record, gate, boundary), each of
  which can fail or be cut off by a crash (`scheduler.py:750-782`);
* the gate between two jobs combines samples, censuses, baselines of several jobs
  and a restart (`scheduler.py:974-1130`);
* rearm requests run on HTTP threads without a lock over check, query and
  commit (`scheduler.py:685-734`); so do stop requests beside the loop's own census
  (`scheduler.py:606-683`);
* promises about "this boot" must hold over crashes and restarts of the daemon,
  which knows only its files and two clocks;
* the only loop thread dies of an exception outside a `try`;
* the supervisor must bring the daemon back whatever fails below it, and not hammer.

`PROJECT.json` lists each hazard at its line with the properties that cover it, or why
none does.

Read two words with care. A *managed* process (`Managed`, in `WithinLimit` and
`ReservationsFit`) is a live one that the running daemon tracks and whose row is not
canceled: a process canceled during its launch and one that an earlier daemon left
behind are not counted, by the code either, and `CancelRace` shows what that costs. A
reorder *covers* the queue up to jobs submitted while it was under way, which may share
a position with others.

What makes each part correct: the *table* never revives an ended job, and a reorder
keeps the order of the queue it has seen unambiguous; the *guard* never lets a query or a launch
through in a window, gate, boundary or latch, also after a restart; the *handoff*
opens on the evidence it promises and does open; the *loop* starts each job at most
once, respects the limits, cleans up exactly once, and always reaps; the *policy*
delays no head by a backfill and starves no one; the *API* reports readiness exactly
when the loop admits; the *life cycle* loses none of this and comes back.

## The modules

    JobTable <--- Transactions <--- TransactionsProofs
       ^            (one reorder, statement by statement)
       |
    Scheduler ---> GpuGuard <--- Handoff <--- HandoffProofs
       ^            (operators)            (refinement: GuardImplemented)
       |--- SchedulerTyping <--- SchedulerProofs ---> SumLemmas
       `--- MCScheduler                                   ^
                                    Policy <--- PolicyProofs
    External <--- ExternalProofs    Host <--- HostProofs

`JobTable` has one operator per statement of class `Database` that changes the status
or the cancel flag of a row, and a specification of its own, `TableSpec`, in which any
client issues any statement at any time. It is the abstract specification of what the rest of the system
may do to rows. `StartRow` is the statement of `mark_running` with its condition
in SQL, so a caller may issue it for a row that is no longer queued: no effect.

`Transactions` adds `rank`, the column `manual_rank`, and takes `reorder_queued_jobs`
apart, its only writer and the one method with several statements: `BeginReorder` (the snapshot of the `SELECT ... FOR UPDATE`), `LockRow`
one row at a time in any order, `CommitReorder` or `RefuseReorder`. The other
statements wait for a row that is locked. A deadlock is broken by PostgreSQL
(`AbortDeadlocked`), a lost connection rolls back. `late` remembers the jobs
inserted while a request was under way: the snapshot cannot see them. `Scheduler` has no
positions: there any queued job may stand first, and `Policy` says which does.

`GpuGuard` has the guard's variables and one operator per method that changes
them. It has no next-state relation: its operators are steps of `Scheduler`.
Deadlines are the ticks left until they pass, so that the states stay finite;
`Forever` is `float("inf")`. A file write is a temporary file renamed over the
old one (`safety.py:30-37`): either the new content or an exception and the old. A file
that cannot be read or parsed is taken for one that does not exist (`safety.py:22-27`):
`Reload` is given the set of files that can be, and the mishap `unread` makes it any.

`Scheduler` composes both. The loop thread is a program counter:

| `pc` | in the code | leaves by |
| --- | --- | --- |
| `wait` | `stop_event.wait`, top of the loop | `BeginPass` |
| `reap` | `_reap_and_cancel`, called from four places (`site`: top, blocked, failed query, sampled) | `ReapExit`, `ReapAlive`, `RequestStop`, `AwaitStop`, `ForceStop`, `ReapFails`, `EndReap` |
| `armGate`, `armBoundary` | after `mark_finished`: the gate, then the boundary | `ArmGate`, `ArmWorkloadBoundary` |
| `check` | probe block reason, demand check | `CheckBlocked`, `CheckDemand` |
| `probe` | `read_gpu` | `ProbeOk`, `ProbeFails` |
| `assess` | census, gate | `AssessLater`, `AssessGate`, `AssessFatal` |
| `select` | `_schedule_once` | `SelectNone`, `SelectJob`, `ScheduleRaises` |
| `prepare`, `spawn`, `giveUp`, `mark` | `_launch`: directory, log and boundary file, `Popen`, `mark_finished(failed)`, `mark_running` | `Prepare`, `PrepareFails`, `ScheduleRaises`, `SpawnOk`, `SpawnFails`, `GiveUp`, `Mark` |
| `startup` | the probe of `start()` | `StartupProbeOk`, `StartupProbeFails`, `StartupDies` |
| `down`, `dead` | no daemon; an API whose loop thread ended | `Restart`; only `Exit`, `Crash`, `Reboot` |

Every boundary between two program counters is a point where another actor can
be seen: a database statement, a query, a file write, a process start. Requests,
process exits, ticks, crashes and reboots come between any two steps. `strays`
counts processes that live on without a record (after a crash, or when a record
was replaced), `starts`, `cleanups`, `sinceEnd`, `spent` and `latch` are history
variables that no guard reads.

A *mishap* is a call that fails or a thing that happens to the daemon;
`Mishaps` says which kinds a run explores and `MaxMishaps` how many in one
behaviour. Choices of the data that are left open here: which queued job is the
head and which fitting job is backfilled (`Policy` has positions and scores), whether the
ended job had a high load (`NoTouch` or `HighNoTouch`), whether the card is idle and
the census unchanged (`Handoff` has the values), when a job is past its runtime or a
grace period. `Overdue`, `Stubborn`, `WslJobs`, `BoundaryJobs`, `CleanupJobs` and
`Cancelable` say which jobs can do what.

`Handoff` is the guard with its data: which processes are on the card and how much
VRAM is used then (`Used`), the baseline of a record and of the gate, the process signature,
the census generation and the forced census, `gpu_processes` for the WSL conflict
check. Programs come and go, a job's worker may outlive it, the daemon may die and
restart with the gate's file. `Guard == INSTANCE GpuGuard WITH ...` maps the gate to
the two counters of `GpuGuard`; `GuardStep` lists, for each place of the loop, the
operators of `GpuGuard` its steps must be. The evidence `GpuGuard` counts by "idle"
and "same or changed" is what signatures and generations compute. Time passes while the
loop waits, before its sample and between the evaluation and the launch (`HandoffTick`);
`settled` keeps the processes that had been there for a scan interval when the pass
decided about its census, so that the age a launch is judged by does not depend on how
long the rest of the pass takes.

`Policy` is `choose_candidate` and `effective_score` over a queue in which a slot
submits the same kind of job again and again. Scores are compared as whole numbers,
`3 * Capacity * score`, with time in minutes; ages end at the cap of the bonus,
recent use is kept per step of the fairness window. A reorder gives an order to the jobs
its `SELECT` saw, the front of the queue in order of submission; those behind them keep
the position they have, also one that another job now has too (`Before` has the tie).

`Host` is `Start-Daemon.ps1` (`stage`), the scheduled task, `wait_and_migrate` and
`windows_boot_epoch`, with Docker, the container, the published port and the wall
clock as the outside. Sleeps are ticks; every step between two sleeps comes before
the next tick. `mark` is an epoch in one of the guard's files together with the boot
it really is from.

`External` is the list of Ollama runtimes: the loop's census and a stop request are
threads that ask one workload after the other, without the lock, and replace the
list as a whole. A command may exit with an error, time out with or without effect, or
see a runtime go down between two calls. A `docker inspect` that exits with an error is
"stopped" to the code, whatever runs (`Misread`).

`MCScheduler`, `MCTransactions`, `MCPolicy` and `MCHandoff` name the model values and
define what a `.cfg` cannot write: VRAM needs of 1, 2 and 3 of a capacity of 3, so
that two jobs fit together and the third needs the card; the kinds of job of
`Policy`; two processes above and two within the VRAM tolerance in `Handoff`.

`SchedulerTyping`, `SchedulerProofs`, `TransactionsProofs`, `PolicyProofs`, `HandoffProofs`,
`ExternalProofs` and `HostProofs` hold theorems and the invariants behind them, `SumLemmas`
what two of them share about sums and least elements of finite sets.

## The runs

Passing runs (bounds are the `.cfg` constants; distinct states in brackets):

| Run | Bounds that matter | Properties | What it shows |
| --- | --- | --- | --- |
| `Launches` (472 thousand) | 3 jobs in any order, 2 at a time, a cancel, 2 of 10 mishaps, a failing file among them; all delays 0 or 1 | `ReservationsFit`, `StartedOnce`, `FaultLatchHolds`, `RowsFollowTable`, `NoResurrection` | managed heads and backfills never overbook the card; no job starts twice; a daemon that saw a fatal condition makes no query, also when it cannot write the latch; the daemon implements `TableSpec` and inherits what the table promises |
| `Endings` (516 thousand) | 2 jobs at a time with cleanups, one overdue, one canceled WSL job, failing reaps, unclean evidence, 2 mishaps | `CleanupOnce`, `NoTouchAfterEnd` | cleanup exactly once, from the escalation or the reaper, also when the reap is retried; no query in a no-touch window, ends overlapping |
| `Restarts` (2.4 million) | 2 jobs one after the other, 3 boots, one rearm thread, 3 of 8 mishaps | `WithinLimit`, `BoundaryHolds`, `NoTouchSurvivesRestart`, `GateSurvivesRestart`, `FaultLatchHolds`, `RearmNeedsReboot`, `OutcomeFinal` | the limit is checked on old rows and holds; the next daemon honours window, gate and boundary; after a fatal fault no query until reboot and rearm; no late reap, failed launch or restart rewrites an outcome |
| `Service` (68 thousand) | stubborn, overdue and canceled job, 1 mishap: failed query, fatal fault, busy card, database error, crash | `QueueServed`, `CancelEnds`, `ReapingContinues` | queued jobs are served unless the GPU is latched, cancels end jobs, exited processes are reaped in any case |
| `Anything` (1.6 million) | all 23 kinds of mishap, any 2 | `TypeOK`, `LaunchOnlyWhenReady` | types; a launch only while readiness is reported |
| `Requests` (206 thousand) | 2 reorder transactions, 3 jobs, one of which is canceled, started or ended | `TxTypeOK`, `CommitCoversSnapshot`, `DistinctUnlessLate`, `RequestsEnd` | an accepted order names the queue, and positions are distinct, up to jobs submitted meanwhile; two requests that block each other end |
| `Policy` (17 thousand) | 4 submitters, 3 at a time, jobs of one and two time steps, one that needs the whole card, 2 reorders of at most 2 jobs each, an age of two steps and more | `PolicyTypeOK`, `BackfillYields`, `EqualsInOrder`, `EveryJobStarts` | a backfill never delays its head, ties are stable, the card is drained for the large job although smaller ones keep coming |
| `Handoff` (548 thousand) | 3 jobs, 2 at a time, one other program, VRAM above and within the tolerance, 1 mishap (failed query, busy sample, failed census, crash) | `HandoffTypeOK`, `GuardImplemented`, `VramReturned`, `ConflictNoticed`, `HandoffEnds` | `GpuGuard` is implemented; the gate opens only when the VRAM is back, and always opens then |
| `Host` (166 thousand) | 2 boots, delays 1, 2, 4, one or two attempts in each loop, 2 failures, a clock wrong by a quarter of a minute, the first boot in any quarter of an even or odd minute | `HostTypeOK`, `OutageBounded`, `LaterBootSeen`, `PromptRestart`, `ComesBack` | how fast the daemon is back, and that it knows a later boot |
| `External` (428 thousand) | a container runtime, 2 models, one stop request beside the loop, 2 loads, 2 failures | `ExternalTypeOK`, `ListMeansUnloaded`, `Converges` | a reply that lists the models ("idle" or "active") is true; the list gets right in the end |

Two jobs are enough for what happens between one job and the next (windows,
limits, stale rows), three for the head and its backfill beside a job that runs, and for
two that end while a third runs. Two mishaps let a failure be followed by a crash, or
by a second failure while the first is handled; three boots separate the boot of a
fault, a later one that faults again, and one that recovers. Windows of one to three
ticks separate "inside", "at" and "after", and `HighNoTouch > NoTouch` (`Endings`,
`Restarts`) makes extending a window visible; `Launches` asks nothing about time.
`Forever = 9` lies above every delay. `MaxDelay = 4 * FirstDelay` gives the backoff
two doublings and the limit. Deadlock is checked except in `Anything`: there the loop
thread may end for good, and a system with every job done then really stops.

Each passing property is also run against a faulty variant of the code, an
operator `Mutant...` kept next to the definition it replaces, and is violated:

| Property | Variant | The bug it stands for |
| --- | --- | --- |
| `NoResurrection` | `MutantMarkRunningUnguarded` | `mark_running` without `AND status = 'queued'` |
| `WithinLimit` | `MutantChosen` | no parallel limit in `choose_candidate` |
| `StartedOnce` | `MutantMarkRunningLost` | the UPDATE of a started job has no effect |
| `OutcomeFinal` | `MutantRequestCancelAny` | `request_cancel` without its status list |
| `RowsFollowTable` | `MutantGiveUp` | a failed launch is put back into the queue |
| `ReservationsFit` | `MutantFree` | reservations of running jobs are not subtracted |
| `CleanupOnce` | `MutantRunCleanup` | `cleanup_attempted` is not tested |
| `NoTouchAfterEnd` | `MutantArmTransitionGate` | the gate is armed without its deadlines |
| `NoTouchSurvivesRestart`, `GateSurvivesRestart`, `BoundaryHolds`, `FaultLatchHolds` | `MutantRestoredWindow`, `...Gate`, `...Boundary`, `...Fault` | a file is not restored, or not over a reboot |
| `FaultLatchHolds` in `Launches` | `MutantRecordGpuFailure` | the latch is written before it is set in memory |
| `RearmNeedsReboot` | `MutantMayRearm` | rearm without comparing boots |
| `ReapingContinues` | `MutantBeginPass` | reaping only when a query is allowed |
| `QueueServed` | `MutantBackoffDelay` | a backoff that never ends |
| `CancelEnds` | `MutantMayForce` | only WSL jobs are forced |
| `TypeOK` | `MutantRecordGpuSuccess` | samples are still counted after the recovery they were counted for |
| `LaunchOnlyWhenReady` | `MutantMaySchedule` | the admission pause is not tested |
| `TxTypeOK`, `CommitCoversSnapshot` | `MutantUnlocked` | `SELECT` without `FOR UPDATE` |
| `DistinctUnlessLate` | `MutantMatches` | part of the queue is accepted as an order |
| `RequestsEnd` | `MutantRefuseReorder` | a refused request keeps its transaction, and its locks |
| `PolicyTypeOK` | `MutantStartCandidate` | a started job stays in the queue |
| `BackfillYields` | `MutantEarliestRelease` | backfill up to the latest release |
| `EqualsInOrder` | `MutantBetter` | ties go to the job submitted last |
| `EveryJobStarts` | `MutantAgeBonus` | waiting earns nothing |
| `HandoffTypeOK` | `MutantCloseRecord` | a closed record leaves its baseline behind |
| `GuardImplemented` | `MutantCompared` | the signature of a changed census is not kept |
| `VramReturned` | `MutantMergedBase` | the gate takes the baseline of the job that ended last |
| `ConflictNoticed` | `MutantScanDue` | censuses only at the end of a handoff |
| `HandoffEnds` | `MutantQuiet` | the tolerance is left out |
| `HostTypeOK`, `OutageBounded` | `MutantDoubled` | a backoff without its limit |
| `PromptRestart` | `MutantStartApi` | the delay is not reset before a run |
| `ComesBack` | `MutantTestPort` | a port that is not published is waited for, not recreated |
| `LaterBootSeen` | `MutantBootEpoch` | the boot is rounded to two minutes |
| `ExternalTypeOK` | `MutantScanNext` | an exception of one workload ends the loop's census |
| `ListMeansUnloaded` | `MutantStopModel` | a later success hides an earlier error |
| `Converges` | `MutantLoopScans` | the interval starts again with every pass |

Two runs show where the code and its documents differ (`findings` in `PROJECT.json`
quotes the lines):

* `CancelRace`: a cancel during a launch hides a live process from the limit.
* `Starvation`: the age bonus ends at 20 points, so a job far below a steady stream
  of others waits forever. (`Policy` shows that it starts when the priorities are
  closer.)

The passing runs leave out exactly the mishap that breaks their property. More
differences of the same kind show when a constant is changed:

* `censusTimeout` as the only mishap of `Restarts`: a timed-out process census is not
  fatal beside a boundary job and the next pass queries again, `FaultLatchHolds` fails
  (`README.md:81-82`, `scheduler.py:594`).
* `disk` in `Restarts`: when the gate cannot be written, the boundary that would follow
  it is skipped, `BoundaryHolds` fails (`README.md:44-46`, `scheduler.py:1012`).
* `dbState` in `Service` (without the check for deadlock): one database error in an
  idle pass ends the loop thread, `QueueServed` fails (`Start-Daemon.ps1:92-94`,
  `scheduler.py:355`).
* `dbReap` and `transient` in `Service`, 2 mishaps: the reap after a failed query is
  outside any `try` (`scheduler.py:363`), `ReapingContinues` fails.
* two rearm threads and `reboot`, `fatal` in `Restarts`, with `LatchStopsNewQueries` as
  the property: of two overlapping requests one clears the latch of the other
  (`README.md:75-77`, `scheduler.py:722`).
* `dbMark` as the only mishap of `CancelRace`, no job cancelable: `mark_running`
  fails after `Popen`, the row stays queued and the job is started again beside
  itself (`scheduler.py:1259`). A crash at that point does the same.
* `crash` among the mishaps of `Endings`: a job orphaned by the next daemon, or one
  that ended before its gate was on disk, has no no-touch window (`db.py:46`).
* `ProbeOnStartup = TRUE` in `Restarts`: `start()` queries inside the window it has
  just restored (`scheduler.py:159`), `NoTouchSurvivesRestart` fails.
* `unread` in `Restarts`: a state file that cannot be read or parsed is taken for none, so
  a restarted daemon forgets the latch, the boundary or the gate; `FaultLatchHolds`,
  `BoundaryHolds`, `NoTouchSurvivesRestart` and `GateSurvivesRestart` fail
  (`README.md:44-48`, `README.md:74-77` "even after daemon restart", `safety.py:22-27`).
* `DistinctUnlessLate` without its `\ late`, in `Requests`: a job submitted after the `SELECT` of a
  reorder is not in the order, keeps rank 0, and a second reorder that had begun before may
  give it a position that another queued job gets too (`db.py:254-259`).
* `ListMeansUnloaded` with "stopped" among its replies, in `External`: a `docker inspect` that exits
  with an error makes a running container "stopped", which the stop request returns with
  ok while its models are in memory (`external.py:70`, `external.py:108-109`, `server.py:110-113`).
* `EpochStable` in `Host`: once the wall clock is set, one boot has two epochs, so a
  latch or boundary of this boot looks like one of an earlier boot
  (`README.md:47-48`, `safety.py:14`).

Four are seen in the code that is modelled, without a run: Docker later than the waits of
the task's four attempts leaves the daemon down until the next logon (`README.md:155-157`: the
supervisor "does not leave the scheduler down after Task Scheduler's finite retry budget is
exhausted"; a wait that ends without Docker ends the supervisor itself,
`Start-Daemon.ps1:87-90`, and `ComesBack` assumes that Docker comes in time); a changed census keeps the
telemetry samples gathered before it (`README.md:37-41`, `scheduler.py:1055`; it is
what `GpuGuard` says, and `GuardImplemented` confirms); the census interval is at
least 30 s (`config.py:139`), not 15 (`README.md:122`); the API that
`Stop-Daemon.ps1` ended is started again by the supervisor five seconds later
(`README.md:155-156` speaks of one "that exits unexpectedly").

And some limits on which the documents are silent: a job launched after the stop endpoint
found none running (`StopRequest`, then `SelectJob`); another program that takes VRAM
during a job keeps the gate closed as long as it stays (`HandoffEnds` assumes it goes);
the list of external workloads stays wrong while
the loop is idle (`Converges` assumes demand); a stop request whose command times out
gets no reply; a queue above 1000 jobs cannot
be reordered; the census keeps 128 rows; `gpuq run` that lost its reply and is repeated
queues a second job, as a submit has no key.

## Fairness

Each specification with liveness assumes what the code's scheduling gives and
nothing of clients, mishaps, agents or operators:

* `Scheduler!FairSpec`: the loop thread takes its steps (a thread of a live
  process), time passes, the supervisor restarts a dead daemon (`while ($true)` in
  `Start-Daemon.ps1`) and a start completes; a process ends by itself unless it is
  stubborn, and ends once killed; `SF` of `RequestStop` and `ForceStop`: a runtime or
  grace period that has passed stays passed, so a pass that finds the process alive
  will find it late in the end.
* `TxFairSpec`: `SF` of the progress of each transaction: PostgreSQL hands a row lock to
  those who wait for it in turn, and looks for deadlocks.
* `PolicyFairSpec`: the loop decides in every pass, jobs end when their estimate is over, time
  passes: one of these happens again and again (`Advance`). Nothing makes a client submit
  or reorder.
* `HandoffFairSpec`: the loop and the restart of the daemon, and time. Nothing makes a job
  end or another program leave.
* `HostFairSpec`: the scripts run, sleeps end, someone logs on after a boot.
* `ExternalFairSpec`: threads run, commands end (`subprocess` timeouts), time passes.

## What is proved

TLAPS checks the following for every value of the constants, under the named
`ASSUME`s of the modules (finite job set, delays below `Forever`, and the like). `GuardRefined`
carries what is checked of `GpuGuard`'s operators over to the handoff in detail.

* `SchedulerTyping`: `Typing`, one lemma per action. It also says that `job` is a
  job exactly where the thread works on one.
* `SchedulerProofs`, the table alone: `TableTyping`; `EndedStaysEnded`.
* `SchedulerProofs`, the daemon:
  * `Refinement` (`Spec => TableSpec`), from which `NoRelaunch` carries the table's guarantee on
    ended rows over. The step that needs an
    invariant is that of `GiveUp` and `ReapExit`: `FinishRow` asks for a row that exists. The
    invariant `RowsExist` says so of every record and every job in launch.
  * `OutcomesFinal`, by `Placed`: the row of a tracked process is running or canceled, that
    of a job being launched is queued, or was canceled there, so no reap or failed launch
    finds an outcome to overwrite.
  * `LimitKept`, by `Limited`: the rows a pass has read before its query are a superset of
    those running when it launches, as nobody else starts a job, so what it counted is
    enough, although it was counted before. `ReservationsKept` is the same argument for memory (`Fitting`),
    with what sums over sets do when an element goes or comes (`SumLemmas`). Both speak of
    managed processes; `AllCount` says that these are all live processes the daemon tracks
    where no client cancels.
  * `StartsOnce`, by `Once`: a job started has left the queue, but for the step between `Popen`
    and the `UPDATE`. `CleanupsBounded`, by `Counted`: the flag `cleanup_attempted` of a
    tracked process is its number of cleanups. `CleanupsOnce`, by `CleanedUp`: a started job
    that is not tracked any more has been cleaned up if its outcome asks for it.
  * `WindowKept`, by `Opened` (what a pass has checked of windows and gate holds until its
    query, whoever rearms meanwhile) and `FileTimed` (the daemon holds a gate on disk of this
    boot for at least what is left of it); `GateKept`, by `GateFiled`.
  * `WindowWaited`: `NoTouchAfterEnd`, by `WindowCovers`: once the end of a job has armed the
    gate, what has passed since the last end and what is left of the window add up.
  * `Readiness`: `LaunchOnlyWhenReady` if at most one rearm thread exists
    (`SingleRearm`). The invariant is `LatchHeld` (while a rearm is under way the
    fault is latched, so the loop neither queries nor launches), `Opened` and `PassHeld`
    (what the thread has checked holds until the launch, as nobody else writes it).
  * `BoundaryKept`: `BoundaryHolds` under `NothingLost` (reads and writes of the state files,
    `Popen` and `mark_running` do not fail) and `SingleRearm`. `FaultKept` says that the latch in memory
    is the file's, and `Armed` that a boundary job which runs, or ran in this boot, is in the
    file, and in memory once it has ended and its steps are done.
  * `LatchKept` and `RearmAfterReboot`: the fatal latch, with the further
    condition that no census times out. `Recorded` relates the history variable to
    the file.

  The conditions are constants of the module, and the code needs each:

  | Condition | Theorems | Without it |
  | --- | --- | --- |
  | `"dbMark" \notin Mishaps`: `mark_running` after `Popen` does not fail | `OutcomesFinal`, `LimitKept`, `ReservationsKept`, `StartsOnce` | a live process keeps a row "queued", which is not counted and is launched again |
  | `StaysUp`: no crash, reboot, signal or stop request | `StartsOnce`, `CleanupsOnce`, `WindowWaited` | a daemon that dies between `Popen` and the `UPDATE` starts the job again; one that dies before an end forgets its processes and sees no end |
  | `AllRead`: the state files can be read at a start | `WindowKept`, `GateKept` (and part of `NothingLost`) | the next daemon has no latch, boundary or gate |
  | `"disk" \notin Mishaps`: files can be written | `GateKept`, `WindowWaited` | a gate that opened and could not be cleared is on disk beside a daemon that launches |
  | `~ProbeOnStartup` | `WindowKept` | `start()` queries without looking at the gate |
  | `NoTouch <= HighNoTouch` | `WindowWaited` | `scheduler.py:774-777` takes one window or the other, and `config.py:145-149` does not order them |
  | `SingleRearm`: rearm requests do not overlap | `Readiness`, `BoundaryKept`, `LatchKept`, `RearmAfterReboot` | see the differences above |
  | `NothingLost` | `BoundaryKept`, `LatchKept`, `RearmAfterReboot` | see the differences above |
  | `"censusTimeout" \notin Mishaps`: no census times out | `LatchKept`, `RearmAfterReboot` | see the differences above |

  The runs that check these properties satisfy the conditions, except that `Launches` has `disk` and
  no restart, where `FaultLatchHolds` holds too; `Anything` has every mishap and
  checks what needs none but `SingleRearm`.
* `PolicyProofs`, for any kinds of jobs, card, limit, window and number of submitters:
  * `PolicyTyping`, `BackfillSafe` and `EqualsServed`, by `PolicyInv`: the queue is in the
    order of submission, so no job in it has waited longer than one in front (`QueueOK`); a running job is whole
    steps into its estimate (`TimesOK`); and a job that passed the head has at most as long to
    run as each job it was started beside (`BesideOK`), which time keeps as it takes the same from
    both.
  * `ChoiceAbstracted`: `Before` is a strict order in which two queued jobs always have their
    places (`BeforeOrders`; of two that share a position the worse comes first), so the choice is
    one job; it is one that `Scheduler`'s `Chosen` admits, and there is none only
    where `NoneChosen` holds. This is why the theorems about `Scheduler`, which knows no
    scores and no estimates, are about the daemon with this policy.
  * `IdleCardServes`: an idle card is given to the head, if the queued jobs fit the card at
    all. With `BackfillSafe` this is the safety part of `EveryJobStarts`; that the head
    drains the card in the end stays with TLC.
* `SumLemmas`: the sum of the library is a number (`SumType`), any element can be taken out
  first (`SumTakeOut`), and it does not grow when elements go (`SumMonotonic`). The library
  defines it by recursion over an arbitrary choice of elements, and its induction theorems take
  an operator, which the provers cannot instantiate: each proof takes a smallest set
  that violates the statement instead (`SmallestSubset`).
* `TransactionsProofs`: `TxTyping` (two transactions never hold one row);
  `OrdersCoverQueue` and `PositionsUnlessLate` by the invariant `TxInv`: a row that the
  `SELECT` returned stays queued while its lock is held (`LockedQueued`), and a queued row is
  still to be locked, has been returned, or was inserted after a request began
  (`SeenOrLate`). So an accepted order names exactly the queue, up to late rows: less than
  the docstring says (`db.py:254-259`), and no more than the code does.
* `HandoffProofs`: `HandoffTyping`; `GuardRefined`, that `Handoff` implements `GpuGuard`. The
  step that needs an invariant is the evaluation. `Signed` says that a census that is
  looked at is new (it was forced once the window was over), and that the signature it
  is compared with is the census before it, so that "equal to the signature" is "equal
  to the census before", also after failed ones; `Settled` that a gate that is off is
  empty. `VramBack` by `Floored` (the gate, or its file while no daemon runs, keeps the
  least of the baselines it covers), `ConflictSeen` by `Watched` (a conflicting process the
  last census did not see came after it, and was not `settled` when the pass decided that
  no census was due).
* `ExternalProofs`: `ExternalTyping`; `ListIsTrue` by `Accounted`: a model that was loaded
  when a request looked is out of memory, or still to be stopped, or the request knows it
  failed, or it was told "stopped" or "error" and will say so.
* `HostProofs`: `HostTyping`; `StartedPromptly`; `BackInTime` by `WaitInv`: what has been
  counted is bounded by the attempts made in the loop under way, or by a finished loop and
  the part of the delay that is over, and a start that finds nothing in the way sleeps no
  more. `LaterBoot` by `BootInv`: an epoch of this boot is within half a minute and the error
  of the clock of it (`Near`), an earlier one is too early for that. It needs `MinBoot` above
  `Minute + 2 * MaxSkew`, strictly: at equality `round`, which takes halves to even, can give
  two boots one epoch, and TLC finds it.

Only model-checked: all liveness (`QueueServed`, `CancelEnds`, `ReapingContinues`, `RequestsEnd`,
`EveryJobStarts`, `HandoffEnds`, `ComesBack`, `Converges`), which is out of this prover's
reach, as are ENABLED, RECURSIVE operators and induction over data. Every invariant and
action property that a passing run checks is stated by a theorem. The two runs that expect
a violation state what documents say and the code does not do.

## Not modelled

Parsing and formatting of requests, telemetry and files (sequential text handling);
authorization; the read-only routes; `update_peak`, `set_state` as data (their failures
are mishaps); the telemetry and health logs; the count of `nvlddmkm` events of a boot
(`safety.py:40`, an answer to a rearm); configuration loading (the constants stand for
its results); the command line client, which keeps no state; the dashboard; operator
scripts; the daemon with telemetry disabled, which never queries and never launches.

## Plan

Done: `JobTable`, `GpuGuard`, `Scheduler`, `Transactions`, `Policy`, `Handoff`, `Host`,
`External`, their runs, and the proofs above. Left, in this order:

1. `Termination`: the stop escalation with its clocks, shown to implement the steps
   `RequestStop`, `AwaitStop`, `ForceStop`.
2. The boundary file with several boundary jobs at a time.
