---------------------------- MODULE HandoffProofs ----------------------------
(* What the handoff guarantees for any jobs, tenants, memory sizes, delays and *)
(* numbers of samples: that it implements GpuGuard, that it opens only when    *)
(* the memory is back, and how old the census behind a WSL start may be.       *)
EXTENDS Handoff, FiniteSetTheorems, TLAPS

-----------------------------------------------------------------------------
(* Deadlines.                                                              *)

LEMMA Constants ==
  /\ Forever \in Nat \ {0} /\ RecoverySamples \in Nat \ {0} /\ ScanInterval \in Nat \ {0}
  /\ StableSamples \in Nat \ {0} /\ StableScans \in Nat \ {0} /\ MaxParallel \in Nat \ {0}
  /\ NoTouch \in Guard!Ticks /\ ProbeInterval \in Guard!Ticks /\ ActiveInterval \in Guard!Ticks
  /\ Pause \in Guard!Ticks
  /\ Backoff1 \in Guard!Ticks /\ Backoff2 \in Guard!Ticks /\ Backoff3 \in Guard!Ticks
  /\ 0 \in Guard!Ticks
<1>1. \A d \in 0..(Forever - 1) : Forever \in Nat \ {0} => d \in Guard!Ticks
  BY DEF Guard!Ticks
<1> QED
  BY <1>1, HandoffAssumption DEF Guard!Ticks

\* The arithmetic of deadlines stays within them, and keeps their order.
LEMMA Deadlines ==
  ASSUME NEW a \in Guard!Ticks, NEW b \in Guard!Ticks
  PROVE  /\ Guard!Later(a, b) \in Guard!Ticks /\ Guard!Less(a) \in Guard!Ticks
         /\ Guard!Later(a, b) >= a /\ Guard!Later(a, b) >= b
         /\ a >= b => Guard!Less(a) >= Guard!Less(b)
         /\ a = 0 => Guard!Less(a) = 0
  BY Constants DEF Guard!Later, Guard!Less, Guard!Ticks

LEMMA Smaller ==
  ASSUME NEW a \in Int, NEW b \in Int
  PROVE  /\ Guard!Sooner(a, b) \in {a, b}
         /\ Guard!Sooner(a, b) <= a /\ Guard!Sooner(a, b) <= b
  BY DEF Guard!Sooner

\* Counters that stop at their limit.
LEMMA Counted ==
  ASSUME NEW n \in Nat \ {0}, NEW k \in 0..n
  PROVE  Guard!Sooner(k + 1, n) \in 1..n
  BY DEF Guard!Sooner

LEMMA AmountsNat == Amounts \subseteq Nat /\ 0 \in Amounts
                    /\ \A S \in SUBSET Processes : Used[S] \in Amounts
  BY HandoffAssumption DEF Amounts, Processes

-----------------------------------------------------------------------------
(* Types, and what ties the history variable floor to the gate.            *)

\* A handoff that a dead daemon leaves behind is in its file.
FloorFiled == pc = "down" /\ floor # {} => gateFile.boot = 1

Evidences == [samples : 0..StableSamples, scans : 0..StableScans, signature : SUBSET Processes]
Gates     == [on : BOOLEAN, left : Guard!Ticks, base : Amounts, evidence : Evidences]

WorldOK ==
  /\ card \in SUBSET came /\ came \in SUBSET Processes
  /\ age \in [Processes -> 0..ScanInterval] /\ settled \in SUBSET came

RecordsOK ==
  /\ Alive \subseteq card /\ exited \in SUBSET running /\ running \in SUBSET (Jobs \cap came)
  /\ Cardinality(running) <= MaxParallel
  /\ base \in [Jobs -> Amounts] /\ \A j \in Jobs \ running : base[j] = 0

GateOK ==
  /\ floor \in SUBSET Amounts /\ (floor # {} => gate.on \/ pc = "down")
  /\ gate \in Gates
  /\ (gate.on => noTouch >= gate.left)
  /\ gateFile \in [boot : 0..1, left : Guard!Ticks]
  /\ fileBase \in Amounts /\ baseline \in Amounts

TimesOK == noTouch \in Guard!Ticks /\ nextProbe \in Guard!Ticks /\ admit \in Guard!Ticks

HealthOK ==
  /\ healthy \in BOOLEAN /\ fault \in Guard!FaultStatuses
  /\ wins \in 0..RecoverySamples /\ backoff \in 1..3

CensusOK ==
  /\ procs \in SUBSET Processes /\ verdict \in {"same", "changed"}
  /\ scanError \in BOOLEAN /\ newer \in BOOLEAN /\ scanAge \in 0..ScanInterval

PlaceOK ==
  /\ pc \in {"down", "wait", "sampled", "evaluate", "select"}
  /\ sample \in [used : Amounts, quiet : BOOLEAN, recovered : BOOLEAN]
  /\ mishaps \in 0..MaxMishaps

\* HandoffTypeOK in the parts the proofs use.
LEMMA TypeParts ==
  HandoffTypeOK <=> /\ WorldOK /\ RecordsOK /\ GateOK /\ TimesOK /\ HealthOK
                    /\ CensusOK /\ PlaceOK
<1>1. WorldOK /\ RecordsOK /\ GateOK /\ TimesOK /\ HealthOK /\ CensusOK /\ PlaceOK
      => HandoffTypeOK
  <2> SUFFICES ASSUME WorldOK, RecordsOK, GateOK, TimesOK, HealthOK, CensusOK, PlaceOK
               PROVE  HandoffTypeOK
    OBVIOUS
  <2>1. Guard!GuardTypeOK
    BY DEF GateOK, Gates, Evidences, TimesOK, HealthOK, Guard!GuardTypeOK, Guard!FilesTypeOK,
      Guard!FlagTypeOK, Guard!HealthTypeOK, Guard!GateTypeOK, Guard!DeadlineTypeOK, Guard!Boots
  <2> QED
    BY <2>1 DEF HandoffTypeOK, WorldOK, RecordsOK, GateOK, Gates, Evidences, TimesOK,
      HealthOK, CensusOK, PlaceOK
<1>2. HandoffTypeOK
      => WorldOK /\ RecordsOK /\ GateOK /\ TimesOK /\ HealthOK /\ CensusOK /\ PlaceOK
  BY DEF HandoffTypeOK, WorldOK, RecordsOK, GateOK, Gates, Evidences, TimesOK, HealthOK,
    CensusOK, PlaceOK,
    Guard!GuardTypeOK, Guard!FilesTypeOK, Guard!HealthTypeOK, Guard!FlagTypeOK,
    Guard!DeadlineTypeOK
<1> QED
  BY <1>1, <1>2

LEMMA Steps ==
  ASSUME [HandoffNext]_handoffVars
  PROVE  \/ \E j \in Jobs : ReapJob(j)
         \/ \E j \in Jobs : LaunchJob(j)
         \/ TakeSample \/ LoseSample \/ RefreshCensus \/ AwaitHealth
         \/ Hold \/ Open \/ LaunchNothing
         \/ HandoffTick \/ DaemonDies \/ DaemonStarts
         \/ \E t \in Tenants : TenantComes(t)
         \/ \E p \in Processes : ProcessLeaves(p)
         \/ \E j \in Jobs : JobExits(j)
         \/ UNCHANGED handoffVars
  BY DEF HandoffNext, Pass

\* Only processes that come or leave, and time, change the card.
LEMMA WorldStep ==
  ASSUME HandoffTypeOK, [HandoffNext]_handoffVars
  PROVE  WorldOK'
<1> USE TypeParts DEF WorldOK
<1>1. CASE \E j \in Jobs : LaunchJob(j)
  BY <1>1 DEF LaunchJob, Come, Processes
<1>2. CASE \E t \in Tenants : TenantComes(t)
  BY <1>2 DEF TenantComes, Come, Processes
<1>3. CASE \/ \E p \in Processes : ProcessLeaves(p)
           \/ \E j \in Jobs : JobExits(j)
  <2>1. PICK p \in Processes : Go(p)
    BY <1>3 DEF ProcessLeaves, JobExits, Processes
  <2>2. 0 \in 0..ScanInterval
    BY Constants
  <2> QED
    BY <2>1, <2>2 DEF Go
<1>4. CASE HandoffTick
  <2>1. \A k \in 0..ScanInterval : Guard!Sooner(k + 1, ScanInterval) \in 0..ScanInterval
    BY Constants DEF Guard!Sooner
  <2>2. 0 \in 0..ScanInterval
    BY Constants
  <2> QED
    BY <1>4, <2>1, <2>2 DEF HandoffTick
<1> QED
  BY <1>1, <1>2, <1>3, <1>4, Steps DEF ReapJob, TakeSample, LoseSample, RefreshCensus,
    AwaitHealth, Hold, Open, LaunchNothing, DaemonDies, DaemonStarts, handoffVars, world

LEMMA RecordsStep ==
  ASSUME HandoffTypeOK, [HandoffNext]_handoffVars
  PROVE  RecordsOK'
<1> USE TypeParts DEF RecordsOK, WorldOK, Alive
<1>0. IsFiniteSet(running)
  BY FS_Subset, HandoffAssumption
<1>1. CASE \E j \in Jobs : LaunchJob(j)
  <2>1. PICK j \in Jobs : LaunchJob(j)
    BY <1>1
  <2>2. j \notin running
    BY <2>1 DEF LaunchJob
  <2>3. Cardinality(running') <= MaxParallel
    <3>1. Cardinality(running \cup {j}) = Cardinality(running) + 1
      BY <1>0, <2>2, FS_AddElement
    <3>2. Cardinality(running) \in Nat
      BY <1>0, FS_CardinalityType
    <3> QED
      BY <2>1, <3>1, <3>2, Constants DEF LaunchJob
  <2>4. base' \in [Jobs -> Amounts]
    BY <2>1 DEF LaunchJob, GateOK
  <2> QED
    BY <2>1, <2>2, <2>3, <2>4 DEF LaunchJob, Come
<1>2. CASE \E j \in Jobs : ReapJob(j)
  <2>1. PICK j \in Jobs : ReapJob(j)
    BY <1>2
  <2>2. Cardinality(running') <= Cardinality(running)
    BY <1>0, <2>1, FS_Subset DEF ReapJob, CloseRecord
  <2>3. Cardinality(running') \in Nat /\ Cardinality(running) \in Nat
    BY <1>0, <2>1, FS_Subset, FS_CardinalityType DEF ReapJob, CloseRecord
  <2>4. Cardinality(running') <= MaxParallel
    BY <2>2, <2>3, Constants
  <2> QED
    BY <2>1, <2>4, AmountsNat DEF ReapJob, CloseRecord, world
<1>3. CASE DaemonDies
  <2>1. Cardinality({}) <= MaxParallel
    BY FS_EmptySet, Constants
  <2> QED
    BY <1>3, <2>1, AmountsNat DEF DaemonDies, world
<1>4. CASE \E p \in Processes : ProcessLeaves(p)
  BY <1>4 DEF ProcessLeaves, Go, records
<1>5. CASE \E t \in Tenants : TenantComes(t)
  BY <1>5 DEF TenantComes, Come, records
<1>6. CASE \E j \in Jobs : JobExits(j)
  BY <1>6 DEF JobExits, Go
<1>7. CASE HandoffTick \/ TakeSample \/ LoseSample \/ RefreshCensus \/ AwaitHealth \/ Hold
           \/ Open \/ LaunchNothing \/ DaemonStarts \/ UNCHANGED handoffVars
  BY <1>7 DEF HandoffTick, TakeSample, LoseSample, RefreshCensus, AwaitHealth, Hold, Open,
    LaunchNothing, DaemonStarts, handoffVars, world, records
<1> QED
  BY <1>1, <1>2, <1>3, <1>4, <1>5, <1>6, <1>7, Steps

LEMMA TimesStep ==
  ASSUME HandoffTypeOK, [HandoffNext]_handoffVars
  PROVE  TimesOK'
<1> USE TypeParts, Constants, Deadlines DEF TimesOK
<1>1. gate.left \in Guard!Ticks /\ gateFile.left \in Guard!Ticks
  BY DEF GateOK, Gates
<1>2. Guard!BackoffDelay \in Guard!Ticks
  BY DEF Guard!BackoffDelay
<1>3. CASE \E j \in Jobs : ReapJob(j)
  <2> DEFINE left == Guard!Later(NoTouch, gate.left)
  <2>1. left \in Guard!Ticks
    BY <1>1
  <2>2. /\ admit' = Guard!Later(admit, left) /\ noTouch' = Guard!Later(noTouch, left)
        /\ nextProbe' = Guard!Later(nextProbe, left)
    BY <1>3 DEF ReapJob
  <2> HIDE DEF left
  <2> QED
    BY <2>1, <2>2
<1>4. CASE HandoffTick
  BY <1>4 DEF HandoffTick
<1>5. CASE DaemonStarts
  <2>1. Restored.left \in Guard!Ticks
    BY <1>1 DEF Restored, NoGate
  <2> QED
    BY <1>5, <2>1 DEF DaemonStarts
<1>6. CASE Open
  <2>1. admit' \in Guard!Ticks /\ noTouch' \in Guard!Ticks
    BY <1>6 DEF Open
  <2> QED
    BY <1>6, <2>1 DEF Open
<1>7. CASE DaemonDies \/ LoseSample \/ AwaitHealth \/ Hold \/ LaunchNothing
           \/ \E j \in Jobs : LaunchJob(j)
  BY <1>2, <1>7 DEF DaemonDies, LoseSample, AwaitHealth, Hold, LaunchNothing, LaunchJob
<1> QED
  BY <1>3, <1>4, <1>5, <1>6, <1>7, Steps DEF TakeSample, RefreshCensus, TenantComes,
    ProcessLeaves, JobExits, handoffVars, times

LEMMA HealthStep ==
  ASSUME HandoffTypeOK, [HandoffNext]_handoffVars
  PROVE  HealthOK'
<1> USE TypeParts, Constants DEF HealthOK, Guard!FaultStatuses
<1>1. CASE TakeSample
  <2>1. PICK quiet \in BOOLEAN :
          sample' = [used |-> Used[card], quiet |-> quiet,
                     recovered |-> ~healthy /\ wins + 1 >= RecoverySamples]
    BY <1>1 DEF TakeSample
  <2>2. sample'.recovered = (~healthy /\ wins + 1 >= RecoverySamples)
    BY <2>1, Zenon
  <2>3. healthy' \in BOOLEAN
    BY <1>1 DEF TakeSample
  <2>4. fault' \in Guard!FaultStatuses /\ backoff' \in 1..3
    BY <1>1 DEF TakeSample
  <2>5. wins' = IF healthy THEN wins
                ELSE IF ~healthy /\ wins + 1 >= RecoverySamples THEN 0 ELSE wins + 1
    BY <1>1, <2>2, Zenon DEF TakeSample
  <2>6. wins' \in 0..RecoverySamples
    BY <2>5
  <2> QED
    BY <2>3, <2>4, <2>6, Zenon
<1>2. CASE LoseSample
  <2>1. backoff' \in 1..3
    BY <1>2 DEF LoseSample, Guard!Sooner
  <2>2. wins' \in 0..RecoverySamples
    BY <1>2 DEF LoseSample
  <2>3. healthy' \in BOOLEAN /\ fault' \in Guard!FaultStatuses
    BY <1>2 DEF LoseSample
  <2> QED
    BY <2>1, <2>2, <2>3, Zenon
<1>3. CASE DaemonDies
  <2>1. backoff' \in 1..3
    BY <1>3 DEF DaemonDies
  <2>2. wins' \in 0..RecoverySamples
    BY <1>3 DEF DaemonDies
  <2>3. healthy' \in BOOLEAN /\ fault' \in Guard!FaultStatuses
    BY <1>3 DEF DaemonDies
  <2> QED
    BY <2>1, <2>2, <2>3, Zenon
<1> QED
  BY <1>1, <1>2, <1>3, Steps DEF ReapJob, LaunchJob, RefreshCensus, AwaitHealth, Hold, Open,
    LaunchNothing, HandoffTick, DaemonStarts, TenantComes, ProcessLeaves, JobExits,
    handoffVars, health

LEMMA CensusStep ==
  ASSUME HandoffTypeOK, [HandoffNext]_handoffVars
  PROVE  CensusOK'
<1> USE TypeParts, Constants DEF CensusOK
<1>1. CASE RefreshCensus
  <2>1. CASE UNCHANGED census
    BY <2>1 DEF census
  <2>2. CASE /\ procs' = card /\ verdict' = IF card = procs THEN "same" ELSE "changed"
             /\ scanError' = FALSE /\ scanAge' = 0 /\ newer' = TRUE
    <3>1. procs' \in SUBSET Processes /\ verdict' \in {"same", "changed"}
      BY <2>2 DEF WorldOK
    <3>2. scanAge' \in 0..ScanInterval
      BY <2>2
    <3>3. scanError' \in BOOLEAN /\ newer' \in BOOLEAN
      BY <2>2
    <3> QED
      BY <3>1, <3>2, <3>3, Zenon
  <2>3. CASE scanError' = TRUE /\ scanAge' = 0 /\ UNCHANGED <<procs, verdict, newer>>
    BY <2>3
  <2> QED
    BY <1>1, <2>1, <2>2, <2>3 DEF RefreshCensus, Refresh
<1>2. CASE HandoffTick
  <2>1. scanAge' \in 0..ScanInterval
    BY <1>2 DEF HandoffTick, Guard!Sooner
  <2> QED
    BY <1>2, <2>1 DEF HandoffTick
<1>3. CASE Hold
  <2>1. newer' \in BOOLEAN
    BY <1>3 DEF Hold
  <2> QED
    BY <1>3, <2>1 DEF Hold
<1>4. CASE DaemonDies
  <2>1. procs' \in SUBSET Processes /\ verdict' \in {"same", "changed"}
    BY <1>4 DEF DaemonDies
  <2>2. scanAge' \in 0..ScanInterval
    BY <1>4 DEF DaemonDies
  <2>3. scanError' \in BOOLEAN /\ newer' \in BOOLEAN
    BY <1>4 DEF DaemonDies
  <2> QED
    BY <2>1, <2>2, <2>3, Zenon
<1>5. CASE Open \/ \E j \in Jobs : ReapJob(j)
  BY <1>5 DEF Open, ReapJob
<1> QED
  BY <1>1, <1>2, <1>3, <1>4, <1>5, Steps DEF LaunchJob, TakeSample, LoseSample, AwaitHealth,
    LaunchNothing, DaemonStarts, TenantComes, ProcessLeaves, JobExits, handoffVars, census

LEMMA PlaceStep ==
  ASSUME HandoffTypeOK, [HandoffNext]_handoffVars
  PROVE  PlaceOK'
<1> USE TypeParts, AmountsNat DEF PlaceOK
<1>1. MaxMishaps \in Nat
  BY HandoffAssumption
<1>2. \/ Mishap \/ UNCHANGED mishaps
  <2>1. CASE \/ TakeSample \/ LoseSample \/ RefreshCensus \/ DaemonDies
    BY <2>1 DEF TakeSample, LoseSample, RefreshCensus, Refresh, DaemonDies, Fine
  <2> QED
    BY <2>1, Steps DEF ReapJob, LaunchJob, AwaitHealth, Hold, Open, LaunchNothing,
      HandoffTick, DaemonStarts, TenantComes, ProcessLeaves, JobExits, handoffVars, Fine
<1>3. mishaps' \in 0..MaxMishaps
  BY <1>1, <1>2 DEF Mishap
<1>4. CASE TakeSample
  <2>1. PICK quiet \in BOOLEAN :
          sample' = [used |-> Used[card], quiet |-> quiet,
                     recovered |-> ~healthy /\ wins + 1 >= RecoverySamples]
    BY <1>4 DEF TakeSample
  <2>2. Used[card] \in Amounts
    BY DEF WorldOK
  <2>3. sample' \in [used : Amounts, quiet : BOOLEAN, recovered : BOOLEAN]
    BY <2>1, <2>2, Zenon
  <2> QED
    BY <1>3, <1>4, <2>3 DEF TakeSample
<1>5. NoSample \in [used : Amounts, quiet : BOOLEAN, recovered : BOOLEAN]
  BY DEF NoSample
<1>6. CASE \/ LoseSample \/ RefreshCensus \/ AwaitHealth \/ Hold \/ Open \/ LaunchNothing
           \/ \E j \in Jobs : ReapJob(j) \/ LaunchJob(j)
  BY <1>3, <1>5, <1>6 DEF LoseSample, RefreshCensus, AwaitHealth, Hold, Open, LaunchNothing,
    ReapJob, LaunchJob
<1> QED
  BY <1>3, <1>4, <1>5, <1>6, Steps DEF HandoffTick, DaemonDies, DaemonStarts,
    TenantComes, ProcessLeaves, JobExits, handoffVars


LEMMA EvidenceTyped ==
  ASSUME HandoffTypeOK
  PROVE  gate.evidence \in Evidences /\ Spoiled \in Evidences /\ Weighed \in Evidences
<1> USE TypeParts, Constants DEF Evidences
<1>1. gate.evidence \in Evidences
  BY DEF GateOK, Gates
<1>2. \A e \in Evidences, k \in 0..StableScans :
        /\ [e EXCEPT !.samples = 0, !.scans = 0] \in Evidences
        /\ [e EXCEPT !.scans = k] \in Evidences
        /\ [e EXCEPT !.scans = 1, !.signature = procs] \in Evidences
  <2>1. 0 \in 0..StableSamples /\ 0 \in 0..StableScans /\ 1 \in 0..StableScans
    OBVIOUS
  <2>2. procs \in SUBSET Processes
    BY DEF CensusOK
  <2> QED
    BY <2>1, <2>2, Zenon
<1>3. \A k \in 0..StableScans : Guard!Sooner(k + 1, StableScans) \in 0..StableScans
  BY DEF Guard!Sooner
<1>4. \A k \in 0..StableSamples : Guard!Sooner(k + 1, StableSamples) \in 0..StableSamples
  BY DEF Guard!Sooner
<1>5. Compared(gate.evidence) \in Evidences
  <2>1. CASE ~newer
    BY <1>1, <2>1 DEF Compared
  <2>2. CASE newer /\ procs = gate.evidence.signature
    <3>1. gate.evidence.scans \in 0..StableScans
      BY <1>1
    <3>2. Compared(gate.evidence)
          = [gate.evidence EXCEPT !.scans = Guard!Sooner(gate.evidence.scans + 1, StableScans)]
      BY <2>2 DEF Compared
    <3> QED
      BY <1>1, <1>2, <1>3, <3>1, <3>2, Zenon
  <2>3. CASE newer /\ procs # gate.evidence.signature
    BY <1>1, <1>2, <2>3, Zenon DEF Compared
  <2> QED
    BY <2>1, <2>2, <2>3
<1>6. Spoiled \in Evidences
  <2>1. 0 \in 0..StableScans
    OBVIOUS
  <2> QED
    BY <1>1, <1>2, <2>1, Zenon DEF Spoiled
<1>7. CASE gate.left > 0 \/ scanError
  BY <1>1, <1>6, <1>7 DEF Weighed
<1>8. CASE ~(gate.left > 0 \/ scanError)
  <2> DEFINE e == Compared(gate.evidence)
             n == IF Quiet THEN Guard!Sooner(e.samples + 1, StableSamples) ELSE 0
  <2>1. Weighed = [e EXCEPT !.samples = n]
    BY <1>8 DEF Weighed
  <2>2. e \in Evidences
    BY <1>5
  <2> HIDE DEF e
  <2>3. n \in 0..StableSamples
    BY <1>4, <2>2
  <2> HIDE DEF n
  <2> QED
    BY <1>1, <1>6, <2>1, <2>2, <2>3
<1> QED
  BY <1>7, <1>8

\* A restored gate has its window inside the restored no-touch window.
LEMMA RestoredKept ==
  ASSUME gate' = Restored, noTouch' = Restored.left, UNCHANGED floor,
         Restored \in Gates, Restored.left \in Guard!Ticks,
         floor # {} => gateFile.boot = 1, gateFile.boot = 1 => Restored.on
  PROVE  gate' \in Gates /\ noTouch' >= gate'.left /\ (floor' # {} => gate'.on)
<1>1. \A k \in Guard!Ticks : k >= k
  BY Constants DEF Guard!Ticks
<1> QED
  BY <1>1, Zenon

\* The gate, its file, and the baselines in them.
LEMMA GateStep ==
  ASSUME HandoffTypeOK, FloorFiled, [HandoffNext]_handoffVars
  PROVE  GateOK' /\ FloorFiled'
<1> USE TypeParts, Constants, AmountsNat, Deadlines DEF GateOK
<1>0. /\ gate.on \in BOOLEAN /\ gate.left \in Guard!Ticks /\ gate.base \in Amounts
      /\ gate.evidence \in Evidences /\ NoEvidence \in Evidences
      /\ gate = [on |-> gate.on, left |-> gate.left, base |-> gate.base,
                 evidence |-> gate.evidence]
  BY DEF Gates, NoEvidence, Evidences
<1>1. CASE \E j \in Jobs : ReapJob(j)
  <2>1. PICK j \in Jobs : ReapJob(j)
    BY <1>1
  <2> DEFINE left == Guard!Later(NoTouch, gate.left)
  <2>2. left \in Guard!Ticks
    BY <1>0
  <2>3. base[j] \in Amounts
    BY DEF RecordsOK
  <2>4. MergedBase(j) \in Amounts
    BY <1>0, <2>3, Smaller DEF MergedBase
  <2>5. /\ gate' = [on |-> TRUE, left |-> left, base |-> MergedBase(j), evidence |-> NoEvidence]
        /\ gateFile' = [boot |-> 1, left |-> left] /\ fileBase' = MergedBase(j)
        /\ noTouch' = Guard!Later(noTouch, left)
        /\ floor' = floor \cup {base[j]} /\ baseline' = baseline /\ pc' = "wait"
    BY <2>1 DEF ReapJob
  <2>6. noTouch' >= left
    BY <2>2, <2>5 DEF TimesOK
  <2> HIDE DEF left
  <2>7. gate' \in Gates
    BY <1>0, <2>2, <2>4, <2>5 DEF Gates
  <2> QED
    BY <2>2, <2>3, <2>4, <2>5, <2>6, <2>7 DEF FloorFiled
<1>2. CASE HandoffTick
  <2>1. /\ gate' = [gate EXCEPT !.left = Guard!Less(@)]
        /\ gateFile' = [gateFile EXCEPT !.left = Guard!Less(@)]
        /\ noTouch' = Guard!Less(noTouch)
        /\ UNCHANGED <<floor, fileBase, baseline, pc>>
    BY <1>2 DEF HandoffTick, records
  <2>2. Guard!Less(gate.left) \in Guard!Ticks /\ Guard!Less(gateFile.left) \in Guard!Ticks
    BY <1>0
  <2>3. gate.on => Guard!Less(noTouch) >= Guard!Less(gate.left)
    BY <1>0 DEF TimesOK
  <2>4. gate' \in Gates
    BY <2>1, <2>2 DEF Gates
  <2> QED
    BY <2>1, <2>2, <2>3, <2>4 DEF FloorFiled, Gates
<1>3. CASE LoseSample
  <2>1. gate' = [gate EXCEPT !.evidence = Spoiled]
        /\ UNCHANGED <<floor, noTouch, gateFile, fileBase, baseline, pc>>
    BY <1>3 DEF LoseSample, records
  <2>2. gate' \in Gates /\ gate'.on = gate.on /\ gate'.left = gate.left
    BY <2>1, EvidenceTyped DEF Gates
  <2> QED
    BY <2>1, <2>2 DEF FloorFiled
<1>4. CASE Hold
  <2>1. /\ gate' = [gate EXCEPT !.evidence = Weighed]
        /\ UNCHANGED <<floor, noTouch, gateFile, fileBase, baseline>>
        /\ pc' = "wait" /\ pc # "down"
    BY <1>4 DEF Hold, records
  <2>2. gate' \in Gates /\ gate'.on = gate.on /\ gate'.left = gate.left
    BY <2>1, EvidenceTyped DEF Gates
  <2> QED
    BY <2>1, <2>2 DEF FloorFiled
<1>5. CASE Open
  <2>1. baseline' \in Amounts
    <3>1. UNCHANGED baseline \/ baseline' = sample.used
      BY <1>5 DEF Open
    <3> QED
      BY <3>1 DEF PlaceOK
  <2>2. floor' = {} /\ pc' = "select"
    BY <1>5 DEF Open
  <2>3. CASE gate.on
    <3>1. /\ gate' = NoGate /\ noTouch' = 0 /\ gateFile' = [boot |-> 0, left |-> 0]
          /\ fileBase' = 0
      BY <1>5, <2>3 DEF Open
    <3>2. gate' \in Gates /\ ~gate'.on
      BY <1>0, <3>1 DEF Gates, NoGate
    <3> QED
      BY <2>1, <2>2, <3>1, <3>2 DEF FloorFiled
  <2>4. CASE ~gate.on
    BY <1>5, <2>1, <2>2, <2>4 DEF Open, FloorFiled
  <2> QED
    BY <2>3, <2>4
<1>6. NoGate \in Gates /\ ~NoGate.on
  BY <1>0 DEF Gates, NoGate
<1>7. CASE DaemonDies
  BY <1>6, <1>7 DEF DaemonDies, FloorFiled
<1>8. CASE DaemonStarts
  <2>1. /\ floor # {} => gateFile.boot = 1
        /\ gate' = Restored /\ noTouch' = Restored.left /\ pc' = "wait"
        /\ UNCHANGED <<floor, gateFile, fileBase, baseline>>
    BY <1>8 DEF DaemonStarts, FloorFiled, records
  <2>2. /\ Restored \in Gates
        /\ gateFile.boot = 1 => Restored.on
        /\ Restored.left \in Guard!Ticks
    <3>1. CASE gateFile.boot = 1
      BY <1>0, <3>1 DEF Restored, Gates
    <3>2. CASE gateFile.boot # 1
      BY <1>6, <3>2 DEF Restored, NoGate
    <3> QED
      BY <3>1, <3>2
  <2> QED
    BY <2>1, <2>2, RestoredKept DEF FloorFiled
<1>9. CASE RefreshCensus \/ AwaitHealth
  <2>1. baseline' \in Amounts
    BY <1>9 DEF RefreshCensus, AwaitHealth, PlaceOK
  <2> QED
    BY <1>9, <2>1 DEF RefreshCensus, AwaitHealth, records, times, FloorFiled
<1>10. CASE \/ TakeSample \/ LaunchNothing \/ UNCHANGED handoffVars
            \/ \E j \in Jobs : LaunchJob(j) \/ JobExits(j)
            \/ \E t \in Tenants : TenantComes(t)
            \/ \E p \in Processes : ProcessLeaves(p)
  <2>1. /\ UNCHANGED <<floor, gate, noTouch, gateFile, fileBase, baseline>>
        /\ pc' = "down" => pc = "down"
        /\ pc = "down" => pc' = "down"
    BY <1>10 DEF TakeSample, LaunchNothing, LaunchJob, JobExits, TenantComes, ProcessLeaves,
      handoffVars, records, times, Queries
  <2> QED
    BY <2>1 DEF FloorFiled
<1> QED
  BY <1>1, <1>2, <1>3, <1>4, <1>5, <1>7, <1>8, <1>9, <1>10, Steps

LEMMA TypeInit == HandoffInit => HandoffTypeOK /\ FloorFiled
<1> SUFFICES ASSUME HandoffInit PROVE HandoffTypeOK /\ FloorFiled
  OBVIOUS
<1> USE Constants, AmountsNat DEF HandoffInit
<1>1. WorldOK
  BY DEF WorldOK
<1>2. RecordsOK
  BY FS_EmptySet DEF RecordsOK, Alive
<1>3. GateOK /\ FloorFiled
  <2>1. NoEvidence \in Evidences
    BY DEF NoEvidence, Evidences
  <2>2. gate \in Gates /\ ~gate.on
    BY <2>1 DEF Gates, NoGate
  <2> QED
    BY <2>2 DEF GateOK, FloorFiled
<1>4. TimesOK
  BY DEF TimesOK
<1>5. HealthOK
  <2>1. wins \in 0..RecoverySamples /\ backoff \in 1..3
    OBVIOUS
  <2>2. fault \in Guard!FaultStatuses /\ healthy \in BOOLEAN
    BY DEF Guard!FaultStatuses
  <2> QED
    BY <2>1, <2>2 DEF HealthOK
<1>6. CensusOK
  <2>1. scanAge \in 0..ScanInterval
    OBVIOUS
  <2>2. /\ procs \in SUBSET Processes /\ verdict \in {"same", "changed"}
        /\ scanError \in BOOLEAN /\ newer \in BOOLEAN
    OBVIOUS
  <2> QED
    BY <2>1, <2>2, Zenon DEF CensusOK
<1>7. MaxMishaps \in Nat
  BY HandoffAssumption
<1>8. PlaceOK
  BY <1>7 DEF PlaceOK, NoSample
<1> QED
  BY <1>1, <1>2, <1>3, <1>4, <1>5, <1>6, <1>8, TypeParts

\* Types: the window of a gate lies inside the no-touch window, at most MaxParallel
\* jobs run and only processes on the card, and no record outlives its job.
THEOREM HandoffTyping == HandoffSpec => []HandoffTypeOK
<1>1. HandoffTypeOK /\ FloorFiled /\ [HandoffNext]_handoffVars
      => HandoffTypeOK' /\ FloorFiled'
  <2> SUFFICES ASSUME HandoffTypeOK, FloorFiled, [HandoffNext]_handoffVars
               PROVE  HandoffTypeOK' /\ FloorFiled'
    OBVIOUS
  <2>1. /\ WorldOK' /\ RecordsOK' /\ GateOK' /\ TimesOK' /\ HealthOK' /\ CensusOK' /\ PlaceOK'
        /\ FloorFiled'
    BY WorldStep, RecordsStep, GateStep, TimesStep, HealthStep, CensusStep, PlaceStep
  <2>2. (WorldOK /\ RecordsOK /\ GateOK /\ TimesOK /\ HealthOK /\ CensusOK /\ PlaceOK
         => HandoffTypeOK)'
    BY TypeParts, PTL
  <2> QED
    BY <2>1, <2>2
<1> QED
  BY <1>1, TypeInit, PTL DEF HandoffSpec

-----------------------------------------------------------------------------
(* The refinement.  Counting "the same as before" as GpuGuard does is right    *)
(* because a census whose verdict is looked at is always a new one, and the    *)
(* signature it is compared with is the census before it.                      *)

Settled ==
  /\ ~gate.on => gate = NoGate
  /\ pc = "down" => healthy = FALSE /\ fault = "unprobed" /\ wins = 0 /\ backoff = 1

\* The window is over and the census of this pass has not failed.
Counts == gate.on /\ gate.left = 0 /\ ~scanError

Signed ==
  /\ pc = "evaluate" /\ Counts => newer
  /\ pc = "evaluate" /\ Counts /\ gate.evidence.scans > 0
       => (verdict = "same" <=> procs = gate.evidence.signature)
  /\ pc # "evaluate" /\ gate.on /\ gate.evidence.scans > 0 => procs = gate.evidence.signature

LEMMA SettledStep ==
  ASSUME HandoffTypeOK, Settled, [HandoffNext]_handoffVars
  PROVE  Settled'
<1> USE DEF Settled
<1>0. ~gate.on => gate.on = FALSE /\ gate.left = 0 /\ gate.base = 0 /\ gate.evidence = NoEvidence
  BY DEF NoGate
<1>1. gate \in Gates
  BY TypeParts DEF GateOK
<1>2. CASE \E j \in Jobs : ReapJob(j)
  BY <1>2 DEF ReapJob
<1>3. CASE HandoffTick
  <2>1. /\ gate' = [gate EXCEPT !.left = Guard!Less(@)]
        /\ UNCHANGED <<pc, healthy, fault, wins, backoff>>
    BY <1>3 DEF HandoffTick, health
  <2>2. ~gate.on => gate' = NoGate
    <3>1. gate' = [on |-> gate.on, left |-> Guard!Less(gate.left), base |-> gate.base,
                   evidence |-> gate.evidence]
      BY <1>1, <2>1 DEF Gates
    <3>2. Guard!Less(0) = 0
      BY DEF Guard!Less
    <3> QED
      BY <1>0, <3>1, <3>2, Zenon DEF NoGate
  <2>3. gate'.on = gate.on
    BY <1>1, <2>1 DEF Gates
  <2> QED
    BY <2>1, <2>2, <2>3
<1>4. CASE LoseSample
  <2>1. gate' = [gate EXCEPT !.evidence = Spoiled] /\ pc' = "wait"
    BY <1>4 DEF LoseSample, Queries
  <2>2. ~gate.on => gate' = NoGate
    <3>1. gate' = [on |-> gate.on, left |-> gate.left, base |-> gate.base, evidence |-> Spoiled]
      BY <1>1, <2>1 DEF Gates
    <3>2. gate.evidence = NoEvidence => Spoiled = NoEvidence
      <4>1. [NoEvidence EXCEPT !.samples = 0] = NoEvidence
        BY DEF NoEvidence
      <4>2. [NoEvidence EXCEPT !.scans = 0] = NoEvidence
        BY DEF NoEvidence
      <4> QED
        BY <4>1, <4>2, Zenon DEF Spoiled
    <3> QED
      BY <1>0, <3>1, <3>2, Zenon DEF NoGate
  <2>3. gate'.on = gate.on
    BY <1>1, <2>1 DEF Gates
  <2> QED
    BY <2>1, <2>2, <2>3
<1>5. CASE Hold
  <2>1. gate' = [gate EXCEPT !.evidence = Weighed] /\ pc' = "wait" /\ gate.on
    BY <1>5 DEF Hold
  <2>2. gate'.on = gate.on
    BY <1>1, <2>1 DEF Gates
  <2> QED
    BY <2>1, <2>2
<1>6. CASE Open \/ DaemonDies
  BY <1>6 DEF Open, DaemonDies
<1>7. CASE DaemonStarts
  BY <1>7 DEF DaemonStarts, Restored
<1> QED
  BY <1>2, <1>3, <1>4, <1>5, <1>6, <1>7, Steps DEF LaunchJob, TakeSample, Queries, RefreshCensus,
    AwaitHealth, LaunchNothing, TenantComes, ProcessLeaves, JobExits, handoffVars, health

LEMMA SignedStep ==
  ASSUME HandoffTypeOK, Signed, [HandoffNext]_handoffVars
  PROVE  Signed'
<1> USE DEF Signed, Counts
<1>1. gate \in Gates
  BY TypeParts DEF GateOK
<1>2. CASE RefreshCensus
  <2>1. UNCHANGED gate /\ pc = "sampled" /\ pc' = "evaluate" /\ Refresh
    BY <1>2 DEF RefreshCensus
  <2>2. CASE ~ScanDue /\ UNCHANGED census
    BY <2>1, <2>2 DEF ScanDue
  <2>3. CASE /\ procs' = card /\ verdict' = IF card = procs THEN "same" ELSE "changed"
             /\ newer' = TRUE
    BY <2>1, <2>3
  <2>4. CASE scanError' = TRUE
    BY <2>1, <2>4
  <2> QED
    BY <2>1, <2>2, <2>3, <2>4 DEF Refresh
<1>3. CASE Hold
  <2>1. /\ gate' = [gate EXCEPT !.evidence = Weighed] /\ pc = "evaluate" /\ pc' = "wait"
        /\ gate.on /\ UNCHANGED procs
    BY <1>3 DEF Hold
  <2>2. gate'.evidence = Weighed
    BY <1>1, <2>1 DEF Gates
  <2>3. Weighed.scans > 0 => procs = Weighed.signature
    <3>1. gate.evidence \in Evidences
      BY EvidenceTyped
    <3>2. CASE gate.left > 0 \/ scanError
      BY <3>1, <3>2 DEF Weighed, Spoiled, Evidences
    <3>3. CASE ~(gate.left > 0 \/ scanError)
      <4>1. newer
        BY <1>1, <2>1, <3>3, Constants DEF Gates, Guard!Ticks
      <4> QED
        BY <3>1, <3>3, <4>1 DEF Weighed, Compared, Evidences
    <3> QED
      BY <3>2, <3>3
  <2> QED
    BY <2>1, <2>2, <2>3
<1>4. CASE HandoffTick
  <2>1. /\ gate' = [gate EXCEPT !.left = Guard!Less(@)]
        /\ UNCHANGED <<pc, procs>> /\ pc # "evaluate"
    BY <1>4 DEF HandoffTick
  <2>2. gate'.on = gate.on /\ gate'.evidence = gate.evidence
    BY <1>1, <2>1 DEF Gates
  <2> QED
    BY <2>1, <2>2
<1>5. CASE LoseSample
  <2>1. gate' = [gate EXCEPT !.evidence = Spoiled] /\ pc' = "wait"
    BY <1>5 DEF LoseSample, Queries
  <2>2. gate'.evidence.scans = 0
    BY <1>1, <2>1 DEF Gates, Spoiled, Evidences
  <2> QED
    BY <2>1, <2>2
<1>6. CASE Open
  <2>1. ~gate'.on /\ pc' = "select"
    BY <1>6 DEF Open, NoGate
  <2> QED
    BY <2>1
<1>7. CASE DaemonDies \/ DaemonStarts
  <2>1. gate'.evidence.scans = 0 /\ pc' # "evaluate"
    BY <1>7 DEF DaemonDies, DaemonStarts, Restored, NoGate, NoEvidence
  <2> QED
    BY <2>1
<1>8. CASE \E j \in Jobs : ReapJob(j)
  <2>1. gate'.evidence.scans = 0 /\ pc' # "evaluate"
    BY <1>8 DEF ReapJob, NoEvidence
  <2> QED
    BY <2>1
<1>9. CASE \/ TakeSample \/ AwaitHealth \/ LaunchNothing
           \/ \E j \in Jobs : LaunchJob(j)
  <2>1. UNCHANGED <<gate, procs>> /\ pc # "evaluate" /\ pc' # "evaluate"
    BY <1>9 DEF TakeSample, Queries, AwaitHealth, LaunchNothing, LaunchJob, census
  <2> QED
    BY <2>1
<1>10. CASE \/ \E j \in Jobs : JobExits(j)
            \/ \E t \in Tenants : TenantComes(t)
            \/ \E p \in Processes : ProcessLeaves(p)
            \/ UNCHANGED handoffVars
  <2>1. UNCHANGED <<gate, procs, verdict, scanError, newer, pc>>
    BY <1>10 DEF TenantComes, ProcessLeaves, JobExits, handoffVars, census
  <2> QED
    BY <2>1
<1> QED
  BY <1>2, <1>3, <1>4, <1>5, <1>6, <1>7, <1>8, <1>9, <1>10, Steps

LEMMA RefinementInv == HandoffSpec => [](HandoffTypeOK /\ Settled /\ Signed)
<1>1. HandoffInit => Settled /\ Signed
  BY DEF HandoffInit, Settled, Signed, Counts, NoGate
<1>2. HandoffTypeOK /\ Settled /\ Signed /\ [HandoffNext]_handoffVars => Settled' /\ Signed'
  BY SettledStep, SignedStep
<1> QED
  BY <1>1, <1>2, HandoffTyping, PTL DEF HandoffSpec

\* What the guard counts at an evaluation is what it would count from verdicts.
LEMMA WeighedAsCounted ==
  ASSUME HandoffTypeOK, Settled, Signed, pc = "evaluate", gate.on,
         gate.left = 0, ~scanError
  PROVE  /\ Weighed.samples = Guard!SamplesWith(Quiet)
         /\ Weighed.scans = Guard!ScansWith(Verdict)
<1>1. newer
  BY DEF Signed, Counts
<1>2. gate.evidence \in Evidences /\ ~(gate.left > 0 \/ scanError)
  BY EvidenceTyped
<1>3. Verdict = verdict
  BY DEF Verdict
<1>4. verdict \in {"same", "changed"}
  BY TypeParts DEF CensusOK
<1>5. Weighed.samples = IF Quiet THEN Guard!Sooner(gate.evidence.samples + 1, StableSamples) ELSE 0
  BY <1>1, <1>2 DEF Weighed, Compared, Evidences
<1>6. Weighed.scans = IF procs = gate.evidence.signature
                      THEN Guard!Sooner(gate.evidence.scans + 1, StableScans) ELSE 1
  BY <1>1, <1>2 DEF Weighed, Compared, Evidences
<1>7. CASE gate.evidence.scans = 0
  <2>1. Guard!Sooner(0 + 1, StableScans) = 1
    BY Constants DEF Guard!Sooner
  <2> QED
    BY <1>3, <1>5, <1>6, <1>7, <2>1 DEF Guard!SamplesWith, Guard!ScansWith
<1>8. CASE gate.evidence.scans # 0
  <2>1. verdict = "same" <=> procs = gate.evidence.signature
    BY <1>2, <1>8, Constants DEF Signed, Counts, Evidences
  <2> QED
    BY <1>3, <1>4, <1>5, <1>6, <2>1 DEF Guard!SamplesWith, Guard!ScansWith
<1> QED
  BY <1>7, <1>8

\* The guard variables stay as they are.
LEMMA GuardStutters ==
  ASSUME UNCHANGED <<health, times, gateFile, gate>>
  PROVE  UNCHANGED Guard!guardVars
BY DEF health, times, Guard!guardVars, Guard!files, Guard!health, Guard!deadlines

LEMMA HoldStep ==
  ASSUME HandoffTypeOK, Settled, Signed, Hold
  PROVE  ~Guard!GatePasses(Quiet, Verdict) /\ Guard!HoldGate(Quiet, Verdict)
<1>1. /\ pc = "evaluate" /\ gate.on /\ ~Complete
      /\ gate' = [gate EXCEPT !.evidence = Weighed] /\ nextProbe' = ProbeInterval
      /\ UNCHANGED <<health, noTouch, admit, gateFile>>
  BY DEF Hold
<1>2. gate \in Gates /\ gate.left \in Int
  BY TypeParts, Constants DEF GateOK, Gates, Guard!Ticks
<1>3. /\ gate'.on = TRUE /\ gate.on = TRUE /\ gate'.left = gate.left
      /\ gate'.evidence = Weighed
  BY <1>1, <1>2 DEF Gates
<1>4. Verdict = "error" <=> scanError
  BY TypeParts DEF Verdict, CensusOK
<1>5. UNCHANGED <<healthy, fault, wins, backoff>>
  BY <1>1 DEF health
<1>6. CASE gate.left > 0 \/ scanError
  <2>1. Weighed.samples = 0 /\ Weighed.scans = 0
    BY <1>6, EvidenceTyped DEF Weighed, Spoiled, Evidences
  <2>2. ~Guard!GatePasses(Quiet, Verdict)
    BY <1>1, <1>2, <1>4, <1>6 DEF Guard!GatePasses
  <2>3. Guard!HoldGate(Quiet, Verdict)
    BY <1>1, <1>3, <1>4, <1>5, <1>6, <2>1 DEF Guard!HoldGate, Guard!Gate, Guard!files, Guard!health
  <2> QED
    BY <2>2, <2>3
<1>7. CASE ~(gate.left > 0 \/ scanError)
  <2>1. gate.left = 0 /\ ~scanError
    BY <1>2, <1>7, TypeParts DEF GateOK, Gates, Guard!Ticks
  <2>2. /\ Weighed.samples = Guard!SamplesWith(Quiet)
        /\ Weighed.scans = Guard!ScansWith(Verdict)
    BY <1>1, <2>1, WeighedAsCounted
  <2>3. ~Guard!GatePasses(Quiet, Verdict)
    BY <1>1, <1>4, <2>1, <2>2 DEF Guard!GatePasses, Complete
  <2>4. Guard!HoldGate(Quiet, Verdict)
    BY <1>1, <1>3, <1>4, <1>5, <1>7, <2>2 DEF Guard!HoldGate, Guard!Gate, Guard!files, Guard!health
  <2> QED
    BY <2>3, <2>4
<1> QED
  BY <1>6, <1>7

LEMMA OpenStep ==
  ASSUME HandoffTypeOK, Settled, Signed, Open
  PROVE  Guard!GatePasses(Quiet, Verdict) /\ Guard!PassGate(sample.recovered)
<1> DEFINE pause == IF sample.recovered THEN Pause ELSE 0
<1>1. Pause \in Nat /\ admit \in Nat
  BY TypeParts, Constants DEF TimesOK, Guard!Ticks
<1>2. pc = "evaluate" /\ (gate.on => Complete) /\ nextProbe' = 0
      /\ UNCHANGED <<healthy, fault, wins, backoff>>
  BY DEF Open, health
<1>3. Guard!GatePasses(Quiet, Verdict)
  <2> SUFFICES ASSUME gate.on PROVE Guard!GatePasses(Quiet, Verdict)
    BY DEF Guard!GatePasses
  <2>1. Complete
    BY <1>2
  <2>2. /\ Weighed.samples = Guard!SamplesWith(Quiet)
        /\ Weighed.scans = Guard!ScansWith(Verdict)
    BY <1>2, <2>1, WeighedAsCounted DEF Complete
  <2>3. Verdict # "error"
    BY <2>1, TypeParts DEF Complete, Verdict, CensusOK
  <2> QED
    BY <2>1, <2>2, <2>3 DEF Guard!GatePasses, Complete
<1>4. CASE gate.on
  <2>1. /\ gate' = NoGate /\ noTouch' = 0 /\ admit' = pause
        /\ gateFile' = [boot |-> 0, left |-> 0]
    BY <1>4 DEF Open
  <2>2. admit' = IF sample.recovered THEN Guard!Later(0, Pause) ELSE 0
    BY <1>1, <2>1 DEF Guard!Later
  <2> QED
    BY <1>2, <1>3, <1>4, <2>1, <2>2 DEF Guard!PassGate, Guard!NoGate, NoGate, NoEvidence,
      Guard!health
<1>5. CASE ~gate.on
  <2>1. /\ admit' = Guard!Later(admit, pause)
        /\ UNCHANGED <<gate, noTouch, gateFile>>
    BY <1>5 DEF Open
  <2>2. admit' = IF sample.recovered THEN Guard!Later(admit, Pause) ELSE admit
    BY <1>1, <2>1 DEF Guard!Later
  <2>3. gate = NoGate
    BY <1>5 DEF Settled
  <2> QED
    BY <1>2, <1>3, <1>5, <2>1, <2>2, <2>3 DEF Guard!PassGate, Guard!NoGate, NoGate, NoEvidence,
      Guard!health
<1> QED
  BY <1>4, <1>5

LEMMA TickStep ==
  ASSUME HandoffTypeOK, HandoffTick
  PROVE  Guard!GuardTick
<1>1. /\ gate' = [gate EXCEPT !.left = Guard!Less(@)]
      /\ gateFile' = [gateFile EXCEPT !.left = Guard!Less(@)]
      /\ noTouch' = Guard!Less(noTouch) /\ nextProbe' = Guard!Less(nextProbe)
      /\ admit' = Guard!Less(admit) /\ UNCHANGED <<healthy, fault, wins, backoff>>
  BY DEF HandoffTick, health
<1>2. gate \in Gates /\ gateFile \in [boot : 0..1, left : Guard!Ticks]
  BY TypeParts DEF GateOK
<1>3. /\ gate'.on = gate.on /\ gate'.left = Guard!Less(gate.left)
      /\ gate'.evidence = gate.evidence
      /\ gateFile' = [boot |-> gateFile.boot, left |-> Guard!Less(gateFile.left)]
  BY <1>1, <1>2 DEF Gates
<1>4. /\ noTouch' = Guard!Less(noTouch) /\ nextProbe' = Guard!Less(nextProbe)
      /\ admit' = Guard!Less(admit) /\ UNCHANGED <<healthy, fault, wins, backoff>>
  BY <1>1
<1> QED
  BY <1>3, <1>4 DEF Guard!GuardTick, Guard!health

LEMMA LoseStep ==
  ASSUME HandoffTypeOK, Settled, LoseSample
  PROVE  pc = "wait" /\ Guard!RecordGpuFailure(FALSE, TRUE)
<1>1. /\ pc = "wait" /\ gate' = [gate EXCEPT !.evidence = Spoiled]
      /\ healthy' = FALSE /\ wins' = 0 /\ fault' = "transient_failure"
      /\ nextProbe' = Guard!BackoffDelay /\ backoff' = Guard!Sooner(backoff + 1, 3)
      /\ UNCHANGED <<noTouch, admit, gateFile>>
  BY DEF LoseSample, Queries
<1>2. gate \in Gates
  BY TypeParts DEF GateOK
<1>3. /\ gate'.on = gate.on /\ gate'.left = gate.left
      /\ gate'.evidence.samples = 0 /\ gate'.evidence.scans = 0
  BY <1>1, <1>2, EvidenceTyped DEF Gates, Spoiled, Evidences
<1>4. ~gate.on => gate.left = 0 /\ gate.evidence.samples = 0 /\ gate.evidence.scans = 0
  BY DEF Settled, NoGate, NoEvidence
<1>5. gate.on => gate.on = TRUE
  BY <1>2 DEF Gates
<1> QED
  BY <1>1, <1>3, <1>4, <1>5 DEF Guard!RecordGpuFailure, Guard!Gate

LEMMA RestartStep ==
  ASSUME HandoffTypeOK, Settled, DaemonStarts
  PROVE  Guard!Reload(Guard!FileNames)
<1>1. /\ gate' = Restored
      /\ noTouch' = Restored.left /\ nextProbe' = Restored.left /\ admit' = Restored.left
      /\ healthy' = FALSE /\ fault' = "unprobed" /\ wins' = 0 /\ backoff' = 1
      /\ UNCHANGED gateFile
  BY DEF DaemonStarts, Settled, health
<1>2. Guard!RestoredFault = "unprobed"
  BY DEF Guard!RestoredFault
<1>3. Guard!RestoredWindow = Restored.left
  BY DEF Guard!RestoredWindow, Restored, NoGate
<1>4. Guard!RestoredGate = [on |-> Restored.on, left |-> Restored.left,
                            samples |-> Restored.evidence.samples,
                            scans |-> Restored.evidence.scans]
  BY DEF Guard!RestoredGate, Guard!Gate, Guard!NoGate, Restored, NoGate, NoEvidence
<1>5. Guard!RestoredBoundary = FALSE
  BY DEF Guard!RestoredBoundary
<1> QED
  BY <1>1, <1>2, <1>3, <1>4, <1>5 DEF Guard!Reload, Guard!FileNames, Guard!files

\* GuardImplemented: what GpuGuard says of the handoff, and with it what is checked
\* and proved of Scheduler, rests on no particular jobs, sizes or numbers of samples.
THEOREM GuardRefined == HandoffSpec => GuardImplemented
<1>1. HandoffTypeOK /\ Settled /\ Signed /\ [HandoffNext]_handoffVars
      => GuardStep \/ UNCHANGED Guard!guardVars
  <2> SUFFICES ASSUME HandoffTypeOK, Settled, Signed, [HandoffNext]_handoffVars
               PROVE  GuardStep \/ UNCHANGED Guard!guardVars
    OBVIOUS
  <2>1. CASE \E j \in Jobs : ReapJob(j)
    <3>1. PICK j \in Jobs : ReapJob(j)
      BY <2>1
    <3>2. pc \in {"wait", "sampled"} /\ Guard!ArmTransitionGate(NoTouch, TRUE)
      BY <3>1 DEF ReapJob, health, NoEvidence, Guard!ArmTransitionGate, Guard!Gate, Guard!health
    <3> QED
      BY <3>2 DEF GuardStep
  <2>2. CASE LaunchNothing \/ \E j \in Jobs : LaunchJob(j)
    <3>1. \E busy \in BOOLEAN : pc = "select" /\ Guard!AfterSchedule(busy)
      <4>1. /\ pc = "select" /\ nextProbe' \in {nextProbe, ActiveInterval}
            /\ UNCHANGED <<health, noTouch, admit, gateFile, gate>>
        BY <2>2 DEF LaunchNothing, LaunchJob
      <4>2. CASE nextProbe' = nextProbe
        BY <4>1, <4>2 DEF health, Guard!AfterSchedule, Guard!files, Guard!health
      <4>3. CASE nextProbe' = ActiveInterval
        BY <4>1, <4>3 DEF health, Guard!AfterSchedule, Guard!files, Guard!health
      <4> QED
        BY <4>1, <4>2, <4>3
    <3> QED
      BY <3>1 DEF GuardStep
  <2>3. CASE TakeSample
    <3>1. pc = "wait" /\ UNCHANGED <<times, gateFile, gate>>
      BY <2>3 DEF TakeSample, Queries
    <3>2. sample'.recovered = Guard!Recovers
      <4>1. PICK quiet \in BOOLEAN :
              sample' = [used |-> Used[card], quiet |-> quiet,
                         recovered |-> ~healthy /\ wins + 1 >= RecoverySamples]
        BY <2>3 DEF TakeSample
      <4> QED
        BY <4>1, Zenon DEF Guard!Recovers
    <3>3. Guard!RecordGpuSuccess
      BY <2>3, <3>1, <3>2, Zenon DEF TakeSample, times, Guard!RecordGpuSuccess, Guard!files,
        Guard!deadlines
    <3> QED
      BY <3>1, <3>3 DEF GuardStep
  <2>4. CASE LoseSample
    BY <2>4, LoseStep DEF GuardStep
  <2>5. CASE AwaitHealth
    <3>1. pc = "sampled" /\ Guard!KeepRecovering
      BY <2>5 DEF AwaitHealth, health, Guard!KeepRecovering, Guard!files, Guard!health
    <3> QED
      BY <3>1 DEF GuardStep
  <2>6. CASE Hold
    BY <2>6, HoldStep DEF GuardStep, Hold
  <2>7. CASE Open
    BY <2>7, OpenStep DEF GuardStep, Open
  <2>8. CASE HandoffTick
    BY <2>8, TickStep DEF GuardStep
  <2>9. CASE DaemonDies
    <3>1. Guard!Forget /\ UNCHANGED Guard!files
      BY <2>9 DEF DaemonDies, NoGate, NoEvidence, Guard!Forget, Guard!NoGate, Guard!files
    <3> QED
      BY <3>1 DEF GuardStep
  <2>10. CASE DaemonStarts
    BY <2>10, RestartStep DEF GuardStep
  <2>11. CASE \/ RefreshCensus \/ UNCHANGED handoffVars
              \/ \E t \in Tenants : TenantComes(t)
              \/ \E p \in Processes : ProcessLeaves(p)
              \/ \E j \in Jobs : JobExits(j)
    <3>1. UNCHANGED <<health, times, gateFile, gate>>
      BY <2>11 DEF RefreshCensus, TenantComes, ProcessLeaves, JobExits, handoffVars
    <3> QED
      BY <3>1, GuardStutters
  <2> QED
    BY <2>1, <2>2, <2>3, <2>4, <2>5, <2>6, <2>7, <2>8, <2>9, <2>10, <2>11, Steps
<1> QED
  BY <1>1, RefinementInv, PTL DEF HandoffSpec, GuardImplemented

-----------------------------------------------------------------------------
(* The memory is back.  The gate keeps the least of the baselines it covers,   *)
(* and so does its file when the daemon dies.                                  *)

Floored ==
  /\ pc # "down" /\ gate.on => gateFile.boot = 1 /\ fileBase = gate.base
  /\ \A b \in floor : IF pc = "down" THEN fileBase <= b ELSE gate.base <= b

LEMMA FlooredStep ==
  ASSUME HandoffTypeOK, Floored, [HandoffNext]_handoffVars
  PROVE  Floored'
<1> USE DEF Floored
<1>a. /\ gate \in Gates /\ fileBase \in Amounts /\ floor \subseteq Amounts
      /\ floor # {} => gate.on \/ pc = "down"
  BY TypeParts DEF GateOK
<1>b. gate.base \in Amounts
  BY <1>a DEF Gates
<1>0. /\ gate \in Gates /\ gate.base \in Nat /\ fileBase \in Nat /\ floor \subseteq Nat
      /\ floor # {} => gate.on \/ pc = "down"
  BY <1>a, <1>b, AmountsNat
<1>1. CASE \E j \in Jobs : ReapJob(j)
  <2>1. PICK j \in Jobs : ReapJob(j)
    BY <1>1
  <2>2. /\ gate'.on /\ gateFile'.boot = 1 /\ gate'.base = MergedBase(j)
        /\ fileBase' = MergedBase(j) /\ floor' = floor \cup {base[j]}
        /\ pc # "down" /\ pc' = "wait"
    BY <2>1 DEF ReapJob
  <2>3. base[j] \in Nat
    <3>1. base[j] \in Amounts
      BY TypeParts DEF RecordsOK
    <3> QED
      BY <3>1, AmountsNat
  <2>4. \A b \in floor' : MergedBase(j) <= b
    <3>1. CASE gate.on
      <4>1. MergedBase(j) \in Int /\ MergedBase(j) <= base[j] /\ MergedBase(j) <= gate.base
        BY <1>0, <2>3, <3>1, Smaller DEF MergedBase
      <4>2. \A b \in floor : gate.base <= b
        BY <2>2
      <4> QED
        BY <1>0, <2>2, <2>3, <4>1, <4>2
    <3>2. CASE ~gate.on
      <4>1. floor = {}
        BY <1>0, <2>2, <3>2
      <4> QED
        BY <2>2, <2>3, <3>2, <4>1 DEF MergedBase
    <3> QED
      BY <3>1, <3>2
  <2> QED
    BY <2>2, <2>4
<1>2. CASE HandoffTick
  <2>1. /\ gate' = [gate EXCEPT !.left = Guard!Less(@)]
        /\ gateFile' = [gateFile EXCEPT !.left = Guard!Less(@)]
        /\ UNCHANGED <<fileBase, floor, pc>>
    BY <1>2 DEF HandoffTick, records
  <2>2. gate'.on = gate.on /\ gate'.base = gate.base
    BY <1>0, <2>1 DEF Gates
  <2>3. gateFile'.boot = gateFile.boot
    BY <2>1, TypeParts DEF GateOK
  <2> QED
    BY <2>1, <2>2, <2>3
<1>3. CASE LoseSample \/ Hold
  <2>1. /\ \E e \in {Spoiled, Weighed} : gate' = [gate EXCEPT !.evidence = e]
        /\ UNCHANGED <<gateFile, fileBase, floor>> /\ pc # "down" /\ pc' # "down"
    BY <1>3 DEF LoseSample, Queries, Hold, records
  <2>2. gate'.on = gate.on /\ gate'.base = gate.base
    BY <1>0, <2>1 DEF Gates
  <2> QED
    BY <2>1, <2>2
<1>4. CASE Open
  <2>1. floor' = {} /\ ~gate'.on
    BY <1>4 DEF Open, NoGate
  <2> QED
    BY <2>1
<1>5. CASE DaemonDies
  <2>1. /\ floor' = IF gateFile.boot = 1 THEN floor ELSE {}
        /\ pc # "down" /\ pc' = "down" /\ UNCHANGED fileBase
    BY <1>5 DEF DaemonDies
  <2> QED
    BY <1>0, <2>1
<1>6. CASE DaemonStarts
  <2>1. pc = "down" /\ pc' = "wait" /\ gate' = Restored /\ UNCHANGED <<floor, gateFile, fileBase>>
    BY <1>6 DEF DaemonStarts, records
  <2>2. CASE gateFile.boot = 1
    BY <2>1, <2>2 DEF Restored
  <2>3. CASE gateFile.boot # 1
    <3>1. ~gate'.on /\ gate'.base = 0
      BY <2>1, <2>3 DEF Restored, NoGate
    <3> QED
      BY <1>0, <2>1, <3>1
  <2> QED
    BY <2>2, <2>3
<1>7. CASE \/ TakeSample \/ RefreshCensus \/ AwaitHealth \/ LaunchNothing \/ UNCHANGED handoffVars
           \/ \E j \in Jobs : LaunchJob(j) \/ JobExits(j)
           \/ \E t \in Tenants : TenantComes(t)
           \/ \E p \in Processes : ProcessLeaves(p)
  <2>1. UNCHANGED <<gate, gateFile, fileBase, floor>> /\ (pc' = "down" <=> pc = "down")
    BY <1>7 DEF TakeSample, Queries, RefreshCensus, AwaitHealth, LaunchNothing, LaunchJob, JobExits,
      TenantComes, ProcessLeaves, handoffVars, records
  <2> QED
    BY <2>1
<1> QED
  BY <1>1, <1>2, <1>3, <1>4, <1>5, <1>6, <1>7, Steps

\* VramReturned: no handoff is complete while the card holds more than the tolerance
\* above what it held before any of the jobs the handoff covers.
THEOREM VramBack == HandoffSpec => VramReturned
<1> DEFINE Back == pc = "evaluate" /\ pc' = "select" => \A b \in floor : sample.used <= b + Tolerance
<1>1. HandoffInit => Floored
  BY DEF HandoffInit, Floored, NoGate
<1>2. HandoffTypeOK /\ Floored /\ [HandoffNext]_handoffVars => Floored'
  BY FlooredStep
<1>3. HandoffTypeOK /\ Floored /\ [HandoffNext]_handoffVars => [Back]_handoffVars
  <2> SUFFICES ASSUME HandoffTypeOK, Floored, [HandoffNext]_handoffVars,
                      pc = "evaluate", pc' = "select", NEW b \in floor
               PROVE  sample.used <= b + Tolerance
    OBVIOUS
  <2>1. Open
    BY Steps DEF ReapJob, LaunchJob, TakeSample, LoseSample, RefreshCensus, AwaitHealth, Hold,
      LaunchNothing, HandoffTick, DaemonDies, DaemonStarts, TenantComes, ProcessLeaves, JobExits,
      handoffVars, Queries
  <2>2. /\ gate \in Gates /\ floor \subseteq Amounts
        /\ floor # {} => gate.on \/ pc = "down"
    BY TypeParts DEF GateOK
  <2>3. gate.on /\ gate.base <= b
    BY <2>2 DEF Floored
  <2>4. sample.used <= gate.base + Tolerance
    BY <2>1, <2>3 DEF Open, Complete, Quiet
  <2>5. gate.base \in Amounts /\ sample.used \in Amounts /\ b \in Amounts
    BY <2>2, TypeParts DEF PlaceOK, Gates
  <2>6. gate.base \in Nat /\ sample.used \in Nat /\ b \in Nat /\ Tolerance \in Nat
    BY <2>5, AmountsNat, HandoffAssumption
  <2> QED
    BY <2>3, <2>4, <2>6
<1> QED
  BY <1>1, <1>2, <1>3, HandoffTyping, PTL DEF HandoffSpec, VramReturned

-----------------------------------------------------------------------------
(* The conflict check of a WSL start.                                      *)

Watched ==
  /\ ~scanError => \A c \in card \cap Conflicting : c \in procs \/ age[c] <= scanAge
  /\ \A c \in Processes \ card : age[c] = 0
  /\ settled \subseteq Conflicting
  /\ pc \in {"evaluate", "select"} /\ ~scanError => card \cap settled \subseteq procs

LEMMA WatchedStep ==
  ASSUME HandoffTypeOK, Watched, [HandoffNext]_handoffVars
  PROVE  Watched'
<1> USE DEF Watched
<1>0. /\ card \subseteq Processes /\ card \subseteq came /\ came \subseteq Processes
      /\ age \in [Processes -> 0..ScanInterval] /\ scanAge \in 0..ScanInterval
  BY TypeParts DEF WorldOK, CensusOK
<1>1. ASSUME NEW q \in Processes \ came, Come(q), UNCHANGED <<procs, scanError, scanAge>>,
             (settled' = settled /\ pc' = pc) \/ settled' = {}
      PROVE  Watched'
  <2>1. card' = card \cup {q} /\ age' = age /\ age[q] = 0 /\ settled \subseteq came
    BY <1>0, <1>1, TypeParts DEF Come, WorldOK
  <2>2. card' \cap settled' \subseteq card \cap settled
    BY <1>1, <2>1
  <2> QED
    BY <1>0, <1>1, <2>1, <2>2, Constants
<1>2. ASSUME NEW q \in Processes, Go(q), UNCHANGED <<procs, scanError, scanAge, pc>>
      PROVE  Watched'
  BY <1>0, <1>2 DEF Go
<1>3. ASSUME UNCHANGED <<card, age, procs, scanError, scanAge>>,
             \/ /\ settled' = settled
                /\ pc' \in {"evaluate", "select"} => pc \in {"evaluate", "select"}
             \/ settled' = {}
      PROVE  Watched'
  BY <1>0, <1>3
<1>4. CASE \/ \E t \in Tenants : TenantComes(t)
           \/ \E j \in Jobs : LaunchJob(j)
  <2>1. PICK q \in Processes \ came : Come(q)
    BY <1>4 DEF TenantComes, LaunchJob, Processes
  <2> QED
    BY <1>1, <1>4, <2>1 DEF TenantComes, LaunchJob, census
<1>5. CASE \/ \E p \in Processes : ProcessLeaves(p)
           \/ \E j \in Jobs : JobExits(j)
  <2>1. PICK q \in Processes : Go(q)
    BY <1>5 DEF ProcessLeaves, JobExits, Processes
  <2> QED
    BY <1>2, <1>5, <2>1 DEF ProcessLeaves, JobExits, census
<1>6. CASE HandoffTick
  <2>1. /\ age' = [p \in Processes |-> IF p \in card \cap Conflicting
                                        THEN Guard!Sooner(age[p] + 1, ScanInterval) ELSE 0]
        /\ scanAge' = Guard!Sooner(scanAge + 1, ScanInterval)
        /\ UNCHANGED <<card, settled, procs, scanError, pc>>
    BY <1>6 DEF HandoffTick
  <2>2. \A a \in 0..ScanInterval : a <= scanAge =>
          Guard!Sooner(a + 1, ScanInterval) <= Guard!Sooner(scanAge + 1, ScanInterval)
    BY <1>0, Constants DEF Guard!Sooner
  <2>3. \A c \in card' \cap Conflicting : ~scanError' => c \in procs' \/ age'[c] <= scanAge'
    BY <1>0, <2>1, <2>2
  <2> QED
    BY <2>1, <2>3
<1>7. CASE RefreshCensus
  <2>1. /\ UNCHANGED <<card, age>> /\ Refresh
        /\ settled' = {c \in card \cap Conflicting : age[c] = ScanInterval}
    BY <1>7 DEF RefreshCensus
  <2>2. CASE ~ScanDue /\ UNCHANGED census
    <3>1. UNCHANGED <<procs, scanError, scanAge>> /\ scanAge < ScanInterval
      BY <1>0, <2>2, Constants DEF ScanDue, census
    <3>2. ~scanError => settled' \subseteq procs
      BY <1>0, <2>1, <3>1, Constants
    <3> QED
      BY <2>1, <3>1, <3>2
  <2>3. CASE procs' = card /\ scanAge' = 0
    BY <2>1, <2>3, Constants
  <2>4. CASE scanError' = TRUE
    BY <2>1, <2>4
  <2> QED
    BY <2>1, <2>2, <2>3, <2>4 DEF Refresh
<1>8. CASE DaemonDies
  <2>1. /\ UNCHANGED <<card, age>> /\ scanAge' = ScanInterval /\ pc' = "down" /\ settled' = {}
    BY <1>8 DEF DaemonDies
  <2> QED
    BY <1>0, <2>1, Constants
<1>9. CASE \/ TakeSample \/ LoseSample \/ AwaitHealth \/ Hold \/ Open \/ LaunchNothing
           \/ DaemonStarts \/ UNCHANGED handoffVars \/ \E j \in Jobs : ReapJob(j)
  <2>1. /\ UNCHANGED <<card, age, procs, scanError, scanAge>>
        /\ \/ /\ settled' = settled
              /\ pc' \in {"evaluate", "select"} => pc \in {"evaluate", "select"}
           \/ settled' = {}
    BY <1>9 DEF TakeSample, LoseSample, Queries, AwaitHealth, Hold, Open, LaunchNothing,
      DaemonStarts, ReapJob, handoffVars, world, census
  <2> QED
    BY <1>3, <2>1
<1> QED
  BY <1>4, <1>5, <1>6, <1>7, <1>8, <1>9, Steps

\* ConflictNoticed: a WSL job is started beside a Windows CUDA process only if that came
\* less than a scan interval before the pass decided whether to take a census, or the last
\* census failed, however long the rest of the pass takes.
THEOREM ConflictSeen == HandoffSpec => ConflictNoticed
<1> DEFINE Seen == \A j \in (running' \ running) \cap WslJobs : ~scanError =>
                     card \cap settled = {}
<1>1. HandoffInit => Watched
  BY DEF HandoffInit, Watched
<1>2. HandoffTypeOK /\ Watched /\ [HandoffNext]_handoffVars => Watched'
  BY WatchedStep
<1>3. HandoffTypeOK /\ Watched /\ [HandoffNext]_handoffVars => [Seen]_handoffVars
  <2> SUFFICES ASSUME HandoffTypeOK, Watched, [HandoffNext]_handoffVars,
                      NEW j \in (running' \ running) \cap WslJobs, ~scanError
               PROVE  card \cap settled = {}
    OBVIOUS
  <2>1. LaunchJob(j)
    BY Steps DEF ReapJob, CloseRecord, LaunchJob, TakeSample, LoseSample, RefreshCensus,
      AwaitHealth, Hold, Open, LaunchNothing, HandoffTick, DaemonDies, DaemonStarts,
      TenantComes, ProcessLeaves, JobExits, handoffVars, records
  <2>2. procs \cap Conflicting = {} /\ pc = "select"
    BY <2>1 DEF LaunchJob
  <2>3. card \cap settled \subseteq procs \cap Conflicting
    BY <2>2 DEF Watched
  <2> QED
    BY <2>2, <2>3
<1> QED
  BY <1>1, <1>2, <1>3, HandoffTyping, PTL DEF HandoffSpec, ConflictNoticed
=============================================================================
