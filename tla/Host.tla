--------------------------------- MODULE Host ---------------------------------
(***************************************************************************)
(* What keeps the daemon of Scheduler alive and tells it which boot it is  *)
(* in: the supervisor scripts/Start-Daemon.ps1 under Task Scheduler, the   *)
(* start of gpuq.server, Docker and the published port of PostgreSQL they  *)
(* wait for, and windows_boot_epoch.  In Scheduler a restart may follow a  *)
(* crash at any time and a boot is a number; here is how long the restart  *)
(* takes and how the boot is recognised.  A sleep is counted in ticks;     *)
(* every step between two sleeps is taken before time goes on.             *)
(***************************************************************************)
EXTENDS Integers

CONSTANTS
  DockerTries,    \* attempts of Wait-ForDocker (90)
  PortTries,      \* port tests after a recreate (20)
  MigrateTries,   \* connection attempts of wait_and_migrate (60 s, one in 5)
  FirstDelay,     \* delaySeconds at first (5)
  MaxDelay,       \* its limit (300)
  TaskRestarts,   \* RestartCount of the scheduled task (3)
  Minute,         \* units of the wall clock in a minute
  MinBoot,        \* boots are at least so far apart
  MaxSkew,        \* how far the wall clock may be wrong, either way
  MaxBoots,       \* boots explored
  MaxMishaps      \* failures of Docker, the database, the port, the API, the clock

ASSUME HostAssumption ==
  /\ {DockerTries, PortTries, MigrateTries, FirstDelay, MaxBoots, Minute} \subseteq Nat \ {0}
  /\ {TaskRestarts, MaxSkew, MaxMishaps} \subseteq Nat
  /\ MaxDelay \in Nat /\ MaxDelay >= FirstDelay
  /\ MinBoot \in Nat /\ MinBoot > Minute + 2 * MaxSkew

VARIABLES
  docker,     \* docker info succeeds
  startable,  \* the postgres container becomes healthy when it is started
  healthy,    \* it is
  port,       \* its port is published on the Windows loopback
  stage,      \* where Start-Daemon.ps1 is
  tries,      \* attempts made in a loop with a limit
  left,       \* ticks left of the current sleep
  delay,      \* delaySeconds
  restarts,   \* restarts Task Scheduler has used up in this session
  api,        \* the gpuq.server process
  boot,       \* which boot this is
  bootAt,     \* when it began
  skew,       \* error of the wall clock
  epoch,      \* boot_epoch of the current process
  mark,       \* windows_boot_epoch in a file of the guard, and the boot it is from
  mishaps

\* A history variable: no guard reads it.
VARIABLE
  good        \* ticks for which nothing was in the way and nobody was served

outside    == <<docker, startable, healthy, port>>
supervisor == <<stage, tries, left, delay, restarts>>
clock      == <<boot, bootAt, skew>>
marks      == <<epoch, mark>>
hostVars   == <<outside, supervisor, api, clock, marks, mishaps, good>>

Smaller(a, b) == IF a < b THEN a ELSE b
Larger(a, b) == IF a < b THEN b ELSE a
\* The sleeps a start may still need when nothing is in the way: a loop of tests that
\* began before, and the delay after it.
OutageLimit == MaxDelay + Larger(PortTries, MigrateTries)
Reachable == docker /\ healthy /\ port
\* Nothing keeps the supervisor from bringing the API up; it publishes a lost port
\* again itself.
Good == docker /\ startable

HostTypeOK ==
  /\ {docker, startable, healthy, port} \subseteq BOOLEAN
  /\ stage \in {"off", "docker", "ensure", "test", "recreate", "ports", "backoff", "api", "ended"}
  /\ tries \in 0..(DockerTries + PortTries + MigrateTries)
  /\ left \in 0..MaxDelay /\ delay \in FirstDelay..MaxDelay
  /\ restarts \in 0..TaskRestarts
  /\ api \in {"none", "migrating", "serving"} /\ (api # "none" <=> stage = "api")
  /\ boot \in 1..MaxBoots /\ bootAt \in Nat /\ skew \in (-MaxSkew)..MaxSkew
  /\ epoch \in Nat /\ mark \in [boot : 0..MaxBoots, epoch : Nat]
  /\ mishaps \in 0..MaxMishaps

HostInit ==
  /\ docker = FALSE /\ startable = TRUE /\ healthy = FALSE /\ port \in BOOLEAN
  /\ stage = "off" /\ tries = 0 /\ left = 0 /\ delay = FirstDelay /\ restarts = 0
  /\ api = "none" /\ boot = 1 /\ skew = 0
  /\ bootAt \in (MaxSkew + 2 * Minute)..(MaxSkew + 4 * Minute - 1)
  /\ epoch = 0 /\ mark = [boot |-> 0, epoch |-> 0] /\ mishaps = 0
  /\ good = 0

-----------------------------------------------------------------------------
(* windows_boot_epoch.  (Mutant...: see README.md.)                        *)

MutantBootEpoch == (bootAt + skew) \div (2 * Minute)

\* round((wall clock - uptime) / 60) in minutes; round() takes a half to even.
BootEpoch ==
  LET b == bootAt + skew
      q == b \div Minute
      twice == 2 * (b % Minute)
  IN IF twice > Minute \/ (twice = Minute /\ q % 2 = 1) THEN q + 1 ELSE q

-----------------------------------------------------------------------------
(* Start-Daemon.ps1.                                                       *)

Goto(s) == stage' = s /\ tries' = 0 /\ left' = 0

MutantDoubled(d) == 2 * d

Doubled(d) == Smaller(2 * d, MaxDelay)

\* Start-Sleep $delaySeconds, and the doubling after it.
Backoff == /\ stage' = "backoff" /\ tries' = 0
           /\ left' = delay /\ delay' = Doubled(delay)

\* One more attempt after a sleep.
TryAgain == tries' = tries + 1 /\ left' = 1 /\ UNCHANGED stage

\* The task starts at logon or by hand (MultipleInstances IgnoreNew) ...
StartTask ==
  /\ stage \in {"off", "ended"}
  /\ Goto("docker") /\ restarts' = 0 /\ delay' = FirstDelay
  /\ UNCHANGED <<outside, api, clock, marks, mishaps, good>>

\* ... or because Task Scheduler restarts what failed.
RestartTask ==
  /\ stage = "ended" /\ restarts < TaskRestarts
  /\ Goto("docker") /\ restarts' = restarts + 1 /\ delay' = FirstDelay
  /\ UNCHANGED <<outside, api, clock, marks, mishaps, good>>

\* Wait-ForDocker: exit 10 when the attempts are used up, and the sleep after the last.
WaitForDocker ==
  /\ stage = "docker" /\ left = 0
  /\ IF tries = DockerTries THEN Goto("ended")
     ELSE IF docker THEN Goto("ensure") ELSE TryAgain
  /\ UNCHANGED <<outside, delay, restarts, api, clock, marks, mishaps, good>>

\* Ensure-DatabaseReachable: docker compose up --wait ...
Ensure ==
  /\ stage = "ensure"
  /\ healthy' = (docker /\ startable)
  /\ IF healthy' THEN Goto("test") /\ UNCHANGED delay ELSE Backoff
  /\ UNCHANGED <<docker, startable, port, restarts, api, clock, marks, mishaps, good>>

MutantStartApi == /\ stage' = "api" /\ tries' = 0 /\ left' = 0
                  /\ api' = "migrating" /\ UNCHANGED delay

\* The API process is started; the delay is the first again.
StartApi == /\ stage' = "api" /\ tries' = 0 /\ left' = 0
            /\ api' = "migrating" /\ delay' = FirstDelay

MutantTestPort ==
  /\ stage = "test"
  /\ IF Reachable THEN StartApi ELSE Backoff /\ UNCHANGED api
  /\ UNCHANGED <<outside, restarts, clock, marks, mishaps, good>>

\* ... Test-LocalPort ...
TestPort ==
  /\ stage = "test"
  /\ IF Reachable THEN StartApi ELSE Goto("recreate") /\ UNCHANGED <<api, delay>>
  /\ UNCHANGED <<outside, restarts, clock, marks, mishaps, good>>

\* ... docker compose up --force-recreate, which publishes the port again unless
\* Windows has reserved it ...
Recreate ==
  /\ stage = "recreate"
  /\ healthy' = (docker /\ startable)
  /\ IF healthy' THEN Goto("ports") /\ UNCHANGED delay ELSE Backoff
  /\ \/ port' = TRUE /\ UNCHANGED mishaps
     \/ /\ mishaps < MaxMishaps /\ mishaps' = mishaps + 1
        /\ UNCHANGED port
  /\ UNCHANGED <<docker, startable, restarts, api, clock, marks, good>>

\* ... and the tests of the port after it, with a sleep after each.
TestPortAgain ==
  /\ stage = "ports" /\ left = 0
  /\ IF tries < PortTries /\ Reachable THEN StartApi
     ELSE /\ IF tries < PortTries THEN TryAgain /\ UNCHANGED delay ELSE Backoff
          /\ UNCHANGED api
  /\ UNCHANGED <<outside, restarts, clock, marks, mishaps, good>>

EndBackoff ==
  /\ stage = "backoff" /\ left = 0 /\ Goto("ensure")
  /\ UNCHANGED <<outside, delay, restarts, api, clock, marks, mishaps, good>>

-----------------------------------------------------------------------------
(* gpuq.server.                                                            *)

\* The process is gone, whatever its exit code: back to the loop's end.
ApiEnds == api' = "none" /\ epoch' = 0 /\ Backoff

\* wait_and_migrate; main goes on to serve, with the epoch of Scheduler.__init__,
\* or the exception leaves it.
Migrate ==
  /\ api = "migrating" /\ left = 0
  /\ IF Reachable
     THEN api' = "serving" /\ epoch' = BootEpoch /\ good' = 0 /\ UNCHANGED <<supervisor, mark>>
     ELSE /\ IF tries < MigrateTries THEN TryAgain /\ UNCHANGED <<delay, api, epoch>>
             ELSE ApiEnds
          /\ UNCHANGED <<restarts, mark, good>>
  /\ UNCHANGED <<outside, clock, mishaps>>

\* The guard writes one of its files: a boundary, a fault, a transition.
WriteMark ==
  /\ api = "serving"
  /\ mark' = [boot |-> boot, epoch |-> epoch]
  /\ UNCHANGED <<outside, supervisor, api, clock, epoch, mishaps, good>>

\* Stop-Daemon.ps1: POST /api/shutdown, and the process exits.
StopDaemon ==
  /\ api = "serving"
  /\ ApiEnds
  /\ UNCHANGED <<outside, restarts, clock, mark, mishaps, good>>

-----------------------------------------------------------------------------
(* What may happen to them.                                                *)

Mishap == mishaps < MaxMishaps /\ mishaps' = mishaps + 1

ApiDies ==
  /\ api # "none" /\ Mishap
  /\ ApiEnds /\ good' = 0
  /\ UNCHANGED <<outside, restarts, clock, mark>>

\* Docker Desktop stops; the container stops or cannot be started; the publish
\* rule is lost.
Disturb ==
  /\ Mishap /\ good' = 0
  /\ \/ docker /\ docker' = FALSE /\ healthy' = FALSE /\ UNCHANGED <<startable, port>>
     \/ startable /\ startable' = FALSE /\ healthy' \in BOOLEAN /\ UNCHANGED <<docker, port>>
     \/ healthy /\ healthy' = FALSE /\ UNCHANGED <<docker, startable, port>>
     \/ port /\ port' = FALSE /\ UNCHANGED <<docker, startable, healthy>>
  /\ UNCHANGED <<supervisor, api, clock, marks>>

\* Docker Desktop comes up, which starts the container (restart: unless-stopped);
\* what kept the container down is over.
Restore ==
  /\ \/ ~docker /\ docker' = TRUE /\ healthy' \in {FALSE, startable} /\ UNCHANGED startable
     \/ ~startable /\ startable' = TRUE /\ UNCHANGED <<docker, healthy>>
  /\ UNCHANGED <<port, supervisor, api, clock, marks, mishaps, good>>

\* The wall clock is set.
SetClock ==
  /\ Mishap
  /\ skew' \in (-MaxSkew)..MaxSkew
  /\ UNCHANGED <<outside, supervisor, api, boot, bootAt, marks, good>>

RebootHost ==
  /\ boot < MaxBoots /\ boot' = boot + 1
  /\ \E gap \in MinBoot..(MinBoot + Minute - 1) : bootAt' = bootAt + gap
  /\ docker' = FALSE /\ healthy' = FALSE /\ port' \in BOOLEAN
  /\ stage' = "off" /\ tries' = 0 /\ left' = 0 /\ delay' = FirstDelay /\ restarts' = 0
  /\ api' = "none" /\ epoch' = 0 /\ good' = 0
  /\ UNCHANGED <<startable, skew, mark, mishaps>>

\* A tick passes: someone sleeps, or there is nothing to do.
HostTick ==
  /\ left > 0 \/ api = "serving" \/ stage \in {"off", "ended"}
  /\ left' = IF left > 0 THEN left - 1 ELSE 0
  /\ good' = IF Good /\ port /\ api # "serving" /\ stage \notin {"off", "ended"}
             THEN Smaller(good + 1, OutageLimit + 1) ELSE 0
  /\ UNCHANGED <<outside, stage, tries, delay, restarts, api, clock, marks, mishaps>>

\* The steps of the supervisor and of the process it starts.
Supervise == \/ WaitForDocker \/ Ensure \/ TestPort \/ Recreate \/ TestPortAgain
             \/ EndBackoff \/ Migrate

HostNext ==
  \/ StartTask \/ RestartTask \/ Supervise \/ WriteMark \/ StopDaemon
  \/ ApiDies \/ Disturb \/ Restore \/ SetClock \/ RebootHost \/ HostTick

HostSpec == HostInit /\ [][HostNext]_hostVars

\* The scripts run, sleeps end, someone logs on after a boot.
HostFairness ==
  /\ WF_hostVars(Supervise) /\ WF_hostVars(HostTick)
  /\ WF_hostVars(stage = "off" /\ StartTask)

HostFairSpec == HostSpec /\ HostFairness

-----------------------------------------------------------------------------
(* Properties.                                                             *)

\* "Bounded retry backoff": however long the database was out of reach and
\* however often the start failed, the API serves at most one loop of tests and one
\* maximal delay after nothing is in the way any more.
OutageBounded == good <= OutageLimit

\* An API that exits is started again after the first delay, whatever outages
\* came before: their longer delays are forgotten.
PromptRestart ==
  [][api # "none" /\ api' = "none" /\ boot' = boot => left' = FirstDelay]_hostVars

\* Start-Daemon.ps1 "keeps the API recoverable after transient DB/Docker failures":
\* once Docker runs for good the API serves again and again, also when the port was
\* not published and although an operator keeps stopping it, unless Docker came too
\* late for Wait-ForDocker.
ComesBack == <>[](Good /\ stage # "ended") => []<>(api = "serving")

\* "The latch clears only by observing a later boot": a later boot is always
\* observed as one, although the clock may have been set in either of them.
LaterBootSeen == epoch # 0 /\ mark.boot \in 1..(boot - 1) => mark.epoch # epoch

\* windows_boot_epoch: "a stable minute-granularity identifier for the current
\* boot".  (It is not, once the clock is set: README.md shows the consequence.)
EpochStable == epoch # 0 /\ mark.boot = boot => mark.epoch = epoch
=============================================================================
