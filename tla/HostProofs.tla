------------------------------ MODULE HostProofs ------------------------------
(* How late the daemon may be back and how well it knows its boot, for any     *)
(* limits of the loops, delays, clocks, numbers of boots and of failures.      *)
EXTENDS Host, TLAPS

LEMMA Limits ==
  /\ DockerTries \in Nat \ {0} /\ PortTries \in Nat \ {0} /\ MigrateTries \in Nat \ {0}
  /\ FirstDelay \in Nat \ {0} /\ MaxBoots \in Nat \ {0} /\ Minute \in Nat \ {0}
  /\ TaskRestarts \in Nat /\ MaxSkew \in Nat /\ MaxMishaps \in Nat
  /\ MaxDelay \in Nat /\ MaxDelay >= FirstDelay
  /\ MinBoot \in Nat /\ MinBoot > Minute + 2 * MaxSkew
  BY HostAssumption

-----------------------------------------------------------------------------
(* windows_boot_epoch rounds by half a minute at most.                         *)

LEMMA Division ==
  ASSUME NEW b \in Nat
  PROVE  /\ b \div Minute \in Nat /\ b % Minute \in 0..(Minute - 1)
         /\ b = (Minute * (b \div Minute)) + (b % Minute)
  BY Limits, Z3

\* The wall clock is late enough for its arithmetic to stay above zero.
Clocks == bootAt \in Nat /\ skew \in (-MaxSkew)..MaxSkew /\ bootAt >= MaxSkew

LEMMA Rounded ==
  ASSUME Clocks
  PROVE  /\ BootEpoch \in Nat
         /\ 2 * (Minute * BootEpoch) <= 2 * (bootAt + MaxSkew) + Minute
         /\ 2 * (Minute * BootEpoch) >= 2 * (bootAt - MaxSkew) - Minute
<1> DEFINE b == bootAt + skew
           q == b \div Minute
           r == b % Minute
<1>1. b \in Nat /\ b <= bootAt + MaxSkew /\ b >= bootAt - MaxSkew
  BY Limits DEF Clocks
<1>2. q \in Nat /\ r \in 0..(Minute - 1) /\ b = Minute * q + r
  BY <1>1, Division
<1>3. Minute * (q + 1) = Minute * q + Minute /\ Minute * q \in Nat
  BY <1>2, Limits
<1>4. BootEpoch = IF 2 * r > Minute \/ (2 * r = Minute /\ q % 2 = 1) THEN q + 1 ELSE q
  BY DEF BootEpoch
<1> HIDE DEF b, q, r
<1>5. CASE BootEpoch = q /\ 2 * r <= Minute
  <2>1. 2 * (Minute * q) = 2 * b - 2 * r
    BY <1>1, <1>2, <1>3
  <2> QED
    BY <1>1, <1>2, <1>3, <1>5, <2>1, Limits DEF Clocks
<1>6. CASE BootEpoch = q + 1 /\ 2 * r >= Minute
  <2>1. 2 * (Minute * (q + 1)) = 2 * b - 2 * r + 2 * Minute
    BY <1>1, <1>2, <1>3, Limits
  <2> QED
    BY <1>1, <1>2, <1>3, <1>6, <2>1, Limits DEF Clocks
<1> QED
  BY <1>2, <1>4, <1>5, <1>6, Limits

-----------------------------------------------------------------------------
(* Docker, the container and the port.                                     *)

OutsideInv ==
  /\ docker \in BOOLEAN /\ startable \in BOOLEAN /\ healthy \in BOOLEAN /\ port \in BOOLEAN

LEMMA OutsideInit == HostInit => OutsideInv
  BY Zenon DEF HostInit, OutsideInv

LEMMA OutsideStep ==
  ASSUME OutsideInv, [HostNext]_hostVars
  PROVE  OutsideInv'
<1>1. CASE Ensure \/ Recreate
  BY <1>1, Zenon DEF OutsideInv, Ensure, Recreate
<1>2. CASE Disturb
  BY <1>2, Zenon DEF OutsideInv, Disturb
<1>3. CASE Restore
  <2>1. healthy' \in BOOLEAN
    BY <1>3, Zenon DEF OutsideInv, Restore
  <2> QED
    BY <1>3, <2>1, Zenon DEF OutsideInv, Restore
<1>4. CASE RebootHost
  BY <1>4, Zenon DEF OutsideInv, RebootHost
<1>5. CASE UNCHANGED outside
  BY <1>5 DEF OutsideInv, outside
<1>6. CASE UNCHANGED hostVars
  BY <1>5, <1>6 DEF hostVars
<1> QED
  BY <1>1, <1>2, <1>3, <1>4, <1>5, <1>6
     DEF HostNext, Supervise, StartTask, RestartTask, WaitForDocker, TestPort, TestPortAgain,
         EndBackoff, Migrate, WriteMark, StopDaemon, ApiDies, SetClock, HostTick

-----------------------------------------------------------------------------
(* The supervisor: where it is, and how often it may have tried there.     *)

LimitsOfLoops ==
  /\ stage = "docker" => tries <= DockerTries
  /\ stage = "ports" => tries <= PortTries
  /\ stage = "api" => tries <= MigrateTries
  /\ stage \notin {"docker", "ports", "api"} => tries = 0
  /\ stage \notin {"docker", "ports", "api", "backoff"} => left = 0

SupervisorInv ==
  /\ stage \in {"off", "docker", "ensure", "test", "recreate", "ports", "backoff", "api", "ended"}
  /\ tries \in Nat /\ LimitsOfLoops
  /\ left \in 0..MaxDelay /\ delay \in FirstDelay..MaxDelay
  /\ restarts \in 0..TaskRestarts
  /\ api \in {"none", "migrating", "serving"} /\ (api # "none" <=> stage = "api")
  /\ stage = "api" => delay = FirstDelay
  /\ mishaps \in 0..MaxMishaps
  /\ good \in Nat

LEMMA SupervisorInit == HostInit => SupervisorInv
  BY Limits DEF HostInit, SupervisorInv, LimitsOfLoops

LEMMA DoubledBounds ==
  ASSUME NEW d \in FirstDelay..MaxDelay
  PROVE  Doubled(d) \in FirstDelay..MaxDelay
  BY Limits DEF Doubled, Smaller

LEMMA LimitOfOutages ==
  /\ OutageLimit \in Nat /\ 1 <= MaxDelay /\ MaxDelay <= OutageLimit
  /\ PortTries + MaxDelay <= OutageLimit /\ MigrateTries + MaxDelay <= OutageLimit
  BY Limits DEF OutageLimit, Larger

LEMMA SupervisorStep ==
  ASSUME SupervisorInv, [HostNext]_hostVars
  PROVE  SupervisorInv'
<1> USE Limits
<1>1. CASE StartTask \/ RestartTask
  BY <1>1 DEF SupervisorInv, LimitsOfLoops, StartTask, RestartTask, Goto, outside
<1>2. CASE WaitForDocker
  BY <1>2 DEF SupervisorInv, LimitsOfLoops, WaitForDocker, Goto, TryAgain, outside
<1>3. CASE Ensure
  BY <1>3, DoubledBounds DEF SupervisorInv, LimitsOfLoops, Ensure, Goto, Backoff
<1>4. CASE TestPort
  BY <1>4 DEF SupervisorInv, LimitsOfLoops, TestPort, Goto, StartApi, outside
<1>5. CASE Recreate
  BY <1>5, DoubledBounds DEF SupervisorInv, LimitsOfLoops, Recreate, Goto, Backoff
<1>6. CASE TestPortAgain
  BY <1>6, DoubledBounds
     DEF SupervisorInv, LimitsOfLoops, TestPortAgain, StartApi, TryAgain, Backoff, outside
<1>7. CASE EndBackoff
  BY <1>7 DEF SupervisorInv, LimitsOfLoops, EndBackoff, Goto, outside
<1>8. CASE Migrate
  BY <1>8, DoubledBounds
     DEF SupervisorInv, LimitsOfLoops, Migrate, TryAgain, ApiEnds, Backoff, outside, supervisor
<1>9. CASE StopDaemon \/ ApiDies
  BY <1>9, DoubledBounds
     DEF SupervisorInv, LimitsOfLoops, StopDaemon, ApiDies, ApiEnds, Backoff, Mishap, outside
<1>10. CASE Disturb \/ Restore
  <2>1. UNCHANGED supervisor /\ UNCHANGED api /\ mishaps' \in {mishaps, mishaps + 1}
        /\ (mishaps' # mishaps => mishaps < MaxMishaps) /\ good' \in {0, good}
    BY <1>10, Zenon DEF Disturb, Restore, Mishap
  <2> QED
    BY <2>1 DEF SupervisorInv, LimitsOfLoops, supervisor
<1>11. CASE WriteMark \/ SetClock
  BY <1>11 DEF SupervisorInv, LimitsOfLoops, WriteMark, SetClock, Mishap, outside, supervisor
<1>12. CASE RebootHost
  BY <1>12 DEF SupervisorInv, LimitsOfLoops, RebootHost
<1>13. CASE HostTick
  <2>1. good' \in {0, Smaller(good + 1, OutageLimit + 1)}
    BY <1>13 DEF HostTick
  <2>2. good' \in Nat
    BY <2>1, LimitOfOutages DEF SupervisorInv, Smaller
  <2> QED
    BY <1>13, <2>2 DEF SupervisorInv, LimitsOfLoops, HostTick, outside
<1>14. CASE UNCHANGED hostVars
  BY <1>14 DEF SupervisorInv, LimitsOfLoops, hostVars, outside, supervisor
<1> QED
  BY <1>1, <1>2, <1>3, <1>4, <1>5, <1>6, <1>7, <1>8, <1>9, <1>10, <1>11, <1>12, <1>13, <1>14
     DEF HostNext, Supervise

-----------------------------------------------------------------------------
(* The boots.                                                              *)

\* An epoch of this boot is within half a minute and the error of the clock of it.
Near(e) ==
  /\ 2 * (Minute * e) <= 2 * (bootAt + MaxSkew) + Minute
  /\ 2 * (Minute * e) >= 2 * (bootAt - MaxSkew) - Minute

\* One of an earlier boot is too early for that.
Earlier(e) == 2 * (Minute * e) < 2 * (bootAt - MaxSkew) - Minute

BootInv ==
  /\ Clocks /\ boot \in 1..MaxBoots
  /\ epoch \in Nat /\ IF api = "serving" THEN Near(epoch) ELSE epoch = 0
  /\ mark \in [boot : 0..MaxBoots, epoch : Nat] /\ mark.boot <= boot
  /\ mark.boot = boot => Near(mark.epoch)
  /\ mark.boot \in 1..(boot - 1) => Earlier(mark.epoch)

LEMMA BootInit == HostInit => BootInv
  BY Limits DEF HostInit, BootInv, Clocks

\* Steps of the process: its epoch is read from the clock, or forgotten.
LEMMA BootKept ==
  ASSUME BootInv, UNCHANGED <<clock, mark>>,
         \/ UNCHANGED epoch /\ (api' = "serving" <=> api = "serving")
         \/ epoch' = 0 /\ api' = "none"
         \/ epoch' = BootEpoch /\ api' = "serving"
  PROVE  BootInv'
<1>1. BootEpoch \in Nat /\ Near(BootEpoch)
  BY Rounded DEF BootInv, Near
<1>2. UNCHANGED <<boot, bootAt, skew>>
  BY DEF clock
<1>3. Clocks' /\ (\A e \in Nat : (Near(e) <=> Near(e)') /\ (Earlier(e) <=> Earlier(e)'))
  BY <1>2 DEF BootInv, Clocks, Near, Earlier
<1> QED
  BY <1>1, <1>2, <1>3 DEF BootInv, Near, Earlier

LEMMA BootStep ==
  ASSUME SupervisorInv, BootInv, [HostNext]_hostVars
  PROVE  BootInv'
<1>1. CASE WriteMark
  <2>1. UNCHANGED <<boot, bootAt, skew, api, epoch>>
    BY <1>1 DEF WriteMark, clock
  <2>2. mark' = [boot |-> boot, epoch |-> epoch] /\ Near(epoch)
    BY <1>1 DEF WriteMark, BootInv
  <2> QED
    BY <2>1, <2>2, Limits DEF BootInv, Clocks, Near
<1>2. CASE SetClock
  <2>1. UNCHANGED <<boot, bootAt, api, epoch, mark>> /\ skew' \in (-MaxSkew)..MaxSkew
    BY <1>2 DEF SetClock, marks
  <2> QED
    BY <2>1 DEF BootInv, Clocks, Near, Earlier
<1>3. CASE RebootHost
  <2>1. PICK gap \in MinBoot..(MinBoot + Minute - 1) : bootAt' = bootAt + gap
    BY <1>3 DEF RebootHost
  <2>2. gap \in Nat /\ gap > Minute + 2 * MaxSkew
    BY Limits
  <2>3. boot' = boot + 1 /\ boot < MaxBoots /\ api' = "none" /\ epoch' = 0
        /\ UNCHANGED <<skew, mark>>
    BY <1>3 DEF RebootHost
  <2>4. Clocks' /\ boot' \in 1..MaxBoots
    BY <2>1, <2>2, <2>3, Limits DEF BootInv, Clocks
  <2>5. mark'.boot <= boot' /\ mark'.boot # boot'
    BY <2>3, Limits DEF BootInv
  <2>6. ASSUME mark'.boot \in 1..(boot' - 1)
        PROVE  Earlier(mark.epoch)'
    <3>1. \/ mark.boot = boot
          \/ mark.boot \in 1..(boot - 1)
      BY <2>3, <2>6, Limits DEF BootInv
    <3>2. Minute * mark.epoch \in Nat
      BY Limits DEF BootInv
    <3>3. CASE Near(mark.epoch)
      BY <2>1, <2>2, <2>3, <3>2, <3>3, Limits DEF BootInv, Clocks, Near, Earlier
    <3>4. CASE Earlier(mark.epoch)
      BY <2>1, <2>2, <2>3, <3>2, <3>4, Limits DEF BootInv, Clocks, Earlier
    <3> QED
      BY <3>1, <3>3, <3>4 DEF BootInv
  <2> QED
    BY <2>3, <2>4, <2>5, <2>6 DEF BootInv, Earlier
<1>4. CASE \/ StartTask \/ RestartTask \/ WaitForDocker \/ Ensure \/ Recreate \/ EndBackoff
           \/ Disturb \/ Restore \/ HostTick \/ UNCHANGED hostVars
  <2>1. UNCHANGED <<clock, mark, epoch, api>>
    BY <1>4 DEF StartTask, RestartTask, WaitForDocker, Ensure, Recreate, EndBackoff, Disturb,
                Restore, HostTick, hostVars, marks
  <2> QED
    BY <2>1, BootKept
<1>5. CASE TestPort \/ TestPortAgain
  <2>1. UNCHANGED <<clock, mark, epoch>> /\ api' \in {api, "migrating"}
    BY <1>5 DEF TestPort, TestPortAgain, StartApi, marks
  <2>2. api = "none"
    BY <1>5 DEF TestPort, TestPortAgain, SupervisorInv
  <2> QED
    BY <2>1, <2>2, BootKept
<1>6. CASE Migrate
  BY <1>6, BootKept DEF Migrate, ApiEnds
<1>7. CASE StopDaemon \/ ApiDies
  BY <1>7, BootKept DEF StopDaemon, ApiDies, ApiEnds
<1> QED
  BY <1>1, <1>2, <1>3, <1>4, <1>5, <1>6, <1>7 DEF HostNext, Supervise

\* A later boot is always observed as one (windows_boot_epoch), whatever the clock
\* was set to in either, when boots are further apart than a minute and twice its error.
THEOREM LaterBoot == HostSpec => []LaterBootSeen
<1>1. BootInv => LaterBootSeen
  <2> SUFFICES ASSUME BootInv, epoch # 0, mark.boot \in 1..(boot - 1), mark.epoch = epoch
               PROVE  FALSE
    BY DEF LaterBootSeen
  <2>1. Near(epoch) /\ Earlier(epoch)
    BY DEF BootInv
  <2>2. Minute * epoch \in Nat
    BY Limits DEF BootInv
  <2> QED
    BY <2>1, <2>2, Limits DEF BootInv, Clocks, Near, Earlier
<1> QED
  BY <1>1, SupervisorInit, SupervisorStep, BootInit, BootStep, PTL DEF HostSpec

\* An API that exits is started again after the first delay (Start-Daemon.ps1 resets
\* delaySeconds when it starts the API).
THEOREM StartedPromptly == HostSpec => PromptRestart
<1>1. ASSUME SupervisorInv, BootInv, [HostNext]_hostVars
      PROVE  [api # "none" /\ api' = "none" /\ boot' = boot => left' = FirstDelay]_hostVars
  <2>0. SUFFICES ASSUME HostNext, api # "none", api' = "none", boot' = boot
               PROVE  left' = FirstDelay
    BY <1>1
  <2>1. CASE StopDaemon \/ ApiDies \/ Migrate
    <3>1. ApiEnds
      BY <2>0, <2>1 DEF StopDaemon, ApiDies, Migrate
    <3> QED
      BY <1>1, <2>0, <3>1 DEF ApiEnds, Backoff, SupervisorInv
  <2>2. CASE TestPort \/ TestPortAgain
    BY <2>0, <2>2 DEF TestPort, TestPortAgain, StartApi
  <2>3. CASE RebootHost
    BY <1>1, <2>0, <2>3 DEF RebootHost, BootInv
  <2>4. CASE UNCHANGED api
    BY <2>0, <2>4
  <2> QED
    BY <2>0, <2>1, <2>2, <2>3, <2>4
       DEF HostNext, Supervise, StartTask, RestartTask, WaitForDocker, Ensure, Recreate,
           EndBackoff, WriteMark, Disturb, Restore, SetClock, HostTick
<1> QED
  BY <1>1, SupervisorInit, SupervisorStep, BootInit, BootStep, PTL DEF HostSpec, PromptRestart

\* The types of Host's variables are those of HostTypeOK.
THEOREM HostTyping == HostSpec => []HostTypeOK
<1>1. OutsideInv /\ SupervisorInv /\ BootInv => HostTypeOK
  BY Limits DEF OutsideInv, SupervisorInv, LimitsOfLoops, BootInv, Clocks, HostTypeOK
<1> QED
  BY <1>1, OutsideInit, OutsideStep, SupervisorInit, SupervisorStep, BootInit, BootStep, PTL
     DEF HostSpec

-----------------------------------------------------------------------------
(* The wait.  While something is in the way nothing is counted, and a start *)
(* that finds nothing in the way ends in the API without another sleep: what *)
(* is counted are the sleep under way and a loop of tests that began before. *)

WaitInv ==
  /\ good \in Nat
  /\ ~(docker /\ startable /\ port) => good = 0
  /\ stage \in {"off", "recreate"} \/ api = "serving" => good = 0
  /\ stage = "ended" => good <= 1
  /\ stage = "docker" => good + left <= 1
  /\ stage = "backoff" => good + left <= OutageLimit
  /\ stage = "ensure" => good <= OutageLimit
  /\ stage = "test" => good <= OutageLimit /\ (good = 0 \/ healthy)
  /\ stage = "ports" => good + left <= tries
  /\ api = "migrating" => \/ healthy /\ left = 0 /\ good <= OutageLimit
                          \/ good + left <= tries

LEMMA WaitInit == HostInit => WaitInv
  BY DEF HostInit, WaitInv

\* What the steps below have in common: nothing counted, and any sleep.
LEMMA NothingCounted ==
  ASSUME SupervisorInv', good' = 0, stage' \notin {"docker", "ports", "api"}
  PROVE  WaitInv'
<1>1. PICK l \in 0..MaxDelay : left' = l
  BY DEF SupervisorInv
<1> QED
  BY <1>1, Limits, LimitOfOutages DEF WaitInv, SupervisorInv

LEMMA WaitStep ==
  ASSUME SupervisorInv, SupervisorInv', WaitInv, [HostNext]_hostVars
  PROVE  WaitInv'
<1> USE Limits, LimitOfOutages
<1>0. PICK g \in Nat, l \in 0..MaxDelay, t \in Nat : good' = g /\ left' = l /\ tries' = t
  BY DEF SupervisorInv
<1>1. CASE StartTask \/ RestartTask
  BY <1>0, <1>1 DEF SupervisorInv, WaitInv, StartTask, RestartTask, Goto, outside
<1>2. CASE WaitForDocker
  BY <1>0, <1>2 DEF SupervisorInv, WaitInv, WaitForDocker, Goto, TryAgain, outside
<1>3. CASE Ensure
  <2>1. CASE ~(docker /\ startable)
    <3>1. good' = 0 /\ stage' = "backoff"
      BY <1>3, <2>1, Zenon DEF WaitInv, Ensure, Backoff
    <3> QED
      BY <3>1, NothingCounted
  <2>2. CASE docker /\ startable
    <3>1. healthy' /\ stage' = "test" /\ UNCHANGED <<docker, startable, port, api, good>>
      BY <1>3, <2>2, Zenon DEF Ensure, Goto
    <3> QED
      BY <1>0, <1>3, <3>1 DEF SupervisorInv, WaitInv, Ensure
  <2> QED
    BY <2>1, <2>2
<1>4. CASE TestPort
  BY <1>0, <1>4 DEF SupervisorInv, WaitInv, TestPort, Goto, StartApi, Reachable, outside
<1>5. CASE Recreate
  BY <1>0, <1>5, NothingCounted DEF SupervisorInv, WaitInv, Recreate, Goto, Backoff
<1>6. CASE TestPortAgain
  BY <1>0, <1>6
     DEF SupervisorInv, LimitsOfLoops, WaitInv, TestPortAgain, StartApi, TryAgain, Backoff,
         Reachable, outside
<1>7. CASE EndBackoff
  BY <1>0, <1>7 DEF SupervisorInv, WaitInv, EndBackoff, Goto, outside
<1>8. CASE Migrate
  BY <1>0, <1>8 DEF SupervisorInv, LimitsOfLoops, WaitInv, Migrate, TryAgain, ApiEnds, Backoff,
              Reachable, outside, supervisor
<1>9. CASE StopDaemon \/ ApiDies
  <2>1. good' = 0 /\ stage' = "backoff"
    BY <1>0, <1>9 DEF WaitInv, StopDaemon, ApiDies, ApiEnds, Backoff
  <2> QED
    BY <2>1, NothingCounted
<1>10. CASE Disturb \/ Restore
  <2>1. good' = 0
    BY <1>10, Zenon DEF WaitInv, Disturb, Restore
  <2>2. UNCHANGED <<stage, left, tries, api>>
    BY <1>10 DEF Disturb, Restore, supervisor
  <2> QED
    BY <1>0, <2>1, <2>2 DEF SupervisorInv, WaitInv
<1>11. CASE WriteMark \/ SetClock
  BY <1>0, <1>11 DEF WaitInv, WriteMark, SetClock, outside, supervisor
<1>12. CASE RebootHost
  <2>1. good' = 0 /\ stage' = "off"
    BY <1>0, <1>12 DEF RebootHost
  <2> QED
    BY <2>1, NothingCounted
<1>13. CASE HostTick
  <2>1. CASE good' = 0
    BY <1>0, <1>13, <2>1 DEF SupervisorInv, LimitsOfLoops, WaitInv, HostTick, outside
  <2>2. CASE good' # 0
    <3>1. /\ good' = Smaller(good + 1, OutageLimit + 1)
          /\ docker /\ startable /\ port /\ api # "serving" /\ stage \notin {"off", "ended"}
      BY <1>13, <2>2, Zenon DEF HostTick, Good
    <3>2. g <= good + 1
      BY <1>0, <3>1 DEF SupervisorInv, Smaller
    <3>3. left > 0 /\ l = left - 1 /\ UNCHANGED <<outside, stage, tries, api>>
      BY <1>0, <1>13, <3>1 DEF HostTick, SupervisorInv
    <3>4. g + l <= good + left /\ g \in Nat /\ l \in Nat
      BY <1>0, <3>2, <3>3 DEF SupervisorInv
    <3> QED
      BY <1>0, <3>1, <3>2, <3>3, <3>4 DEF SupervisorInv, LimitsOfLoops, WaitInv, outside
  <2> QED
    BY <2>1, <2>2
<1>14. CASE UNCHANGED hostVars
  BY <1>0, <1>14 DEF WaitInv, hostVars, outside, supervisor
<1> QED
  BY <1>1, <1>2, <1>3, <1>4, <1>5, <1>6, <1>7, <1>8, <1>9, <1>10, <1>11, <1>12, <1>13, <1>14
     DEF HostNext, Supervise

\* The API serves at most one loop of tests and one maximal delay after nothing is in
\* the way any more, however often the start failed before (Start-Daemon.ps1).
THEOREM BackInTime == HostSpec => []OutageBounded
<1>1. SupervisorInv /\ WaitInv => OutageBounded
  BY Limits, LimitOfOutages DEF SupervisorInv, LimitsOfLoops, WaitInv, OutageBounded
<1> QED
  BY <1>1, SupervisorInit, SupervisorStep, WaitInit, WaitStep, PTL
     DEF HostSpec

=============================================================================
