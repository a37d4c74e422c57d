---------------------------- MODULE ExternalProofs ---------------------------
(* What a stop request may claim, for any runtimes, models, numbers of requests *)
(* and of failures.                                                            *)
EXTENDS External, TLAPS

LEMMA ExternalSteps ==
  ASSUME [ExternalNext]_externalVars
  PROVE  \/ LoopScans
         \/ \E t \in Threads : ScanNext(t)
         \/ \E t \in Threads : Publish(t)
         \/ \E r \in Requests : Look(r)
         \/ \E r \in Requests : StopModel(r)
         \/ \E r \in Requests : LookAgain(r)
         \/ LoadModel \/ UnloadModel \/ RuntimeStops \/ RuntimeStarts
         \/ DemandChanges \/ ExternalTick
         \/ UNCHANGED externalVars
  BY DEF ExternalNext, Steps, Serve

LEMMA Limits == ScanInterval \in Nat \ {0} /\ MaxLoads \in Nat /\ MaxMishaps \in Nat
  BY ExternalAssumption

-----------------------------------------------------------------------------
(* Types, in the parts that the steps change together.                     *)

RuntimesOK ==
  /\ up \subseteq Workloads /\ loaded \in [Workloads -> SUBSET Models]
  /\ \A w \in Workloads \ up : loaded[w] = {}
  /\ loads \in 0..MaxLoads

CountersOK == demand \in BOOLEAN /\ mishaps \in 0..MaxMishaps

ListsOK ==
  shown \in Lists /\ DOMAIN shown \in {{}, Workloads} /\ draft \in [Threads -> Lists]

ClocksOK == age \in 0..ScanInterval /\ since \in [Threads -> 0..ScanInterval]

PlacesOK ==
  /\ pc \in [Threads -> {"idle", "stop", "scan", "replied", "raised"}]
  /\ pc["loop"] \in {"idle", "scan"}

RequestsOK ==
  /\ target \in [Requests -> Workloads] /\ todo \in [Requests -> SUBSET Models]
  /\ failed \in [Requests -> BOOLEAN] /\ result \in [Requests -> States]
  /\ held \in [Requests -> SUBSET Models]

LEMMA ExternalParts ==
  ExternalTypeOK <=> /\ RuntimesOK /\ CountersOK /\ ListsOK /\ ClocksOK /\ PlacesOK /\ RequestsOK
  BY DEF ExternalTypeOK, RuntimesOK, CountersOK, ListsOK, ClocksOK, PlacesOK, RequestsOK

\* An answer is an entry of the list; "idle" and "active" ones name what is loaded,
\* or as much of it as is read.
LEMMA AnswersTyped ==
  ASSUME ExternalTypeOK, NEW w \in Workloads, NEW e \in Answers(w) \cup Misread(w)
  PROVE  /\ e \in Entry
         /\ e.state \in {"idle", "active"} /\ Cardinality(loaded[w]) <= MaxRows
              => e.models = loaded[w]
<1>1. loaded[w] \subseteq Models
  BY ExternalParts DEF RuntimesOK
<1>2. CASE e = Failure
  BY <1>2 DEF Failure, Entry, States
<1>3. CASE w \in up /\ e \in Listed(w)
  <2>1. PICK s \in Rows(w) : e = [state |-> IF s = {} THEN "idle" ELSE "active", models |-> s]
    BY <1>3 DEF Listed
  <2>2. s \subseteq loaded[w] /\ (Cardinality(loaded[w]) <= MaxRows => s = loaded[w])
    BY DEF Rows
  <2> QED
    BY <1>1, <2>1, <2>2 DEF Entry, States
<1>4. CASE e = Stopped
  BY <1>4 DEF Stopped, Entry, States
<1> QED
  BY <1>2, <1>3, <1>4 DEF Answers, Misread

LEMMA RuntimesStep ==
  ASSUME ExternalTypeOK, [ExternalNext]_externalVars
  PROVE  RuntimesOK'
<1> USE ExternalParts, Limits DEF RuntimesOK
<1>1. ASSUME NEW w \in Workloads, NEW ms \in SUBSET Models, Leave(w, ms),
             UNCHANGED <<up, loads>>
      PROVE  RuntimesOK'
  BY <1>1 DEF Leave
<1>2. CASE LoadModel
  BY <1>2 DEF LoadModel
<1>3. CASE UnloadModel
  <2>1. PICK w \in up, m \in Models : Leave(w, {m})
    BY <1>3 DEF UnloadModel
  <2> QED
    BY <1>1, <1>3, <2>1 DEF UnloadModel
<1>4. CASE RuntimeStops
  <2>1. PICK w \in up : up' = up \ {w} /\ Leave(w, Models)
    BY <1>4 DEF RuntimeStops
  <2> QED
    BY <1>4, <2>1 DEF RuntimeStops, Leave
<1>5. CASE RuntimeStarts
  BY <1>5 DEF RuntimeStarts
<1>6. CASE \E r \in Requests : StopModel(r)
  <2>1. PICK r \in Requests : StopModel(r)
    BY <1>6
  <2>2. PICK m \in todo[r] : Leave(target[r], {m}) \/ UNCHANGED loaded
    BY <2>1 DEF StopModel
  <2>3. target[r] \in Workloads /\ m \in Models
    BY DEF RequestsOK
  <2>4. UNCHANGED <<up, loads>>
    BY <2>1 DEF StopModel
  <2> QED
    BY <1>1, <2>2, <2>3, <2>4
<1> QED
  BY <1>2, <1>3, <1>4, <1>5, <1>6, ExternalSteps DEF LoopScans, ScanNext, Publish, Look,
    LookAgain, DemandChanges, ExternalTick, externalVars, runtimes

LEMMA CountersStep ==
  ASSUME ExternalTypeOK, [ExternalNext]_externalVars
  PROVE  CountersOK'
<1> USE ExternalParts, Limits DEF CountersOK
<1>1. Mishap \/ UNCHANGED mishaps
  <2>1. CASE \E t \in Threads : ScanNext(t)
    BY <2>1 DEF ScanNext, Inspects, TimesOut, Fine
  <2>2. CASE \E r \in Requests : Look(r) \/ LookAgain(r)
    BY <2>2 DEF Look, LookAgain, Inspects, Raises, TimesOut, Fine
  <2>3. CASE \E r \in Requests : StopModel(r)
    BY <2>3 DEF StopModel, Raises, TimesOut, Fine
  <2> QED
    BY <2>1, <2>2, <2>3, ExternalSteps DEF LoopScans, Publish, LoadModel, UnloadModel,
      RuntimeStops, RuntimeStarts, DemandChanges, ExternalTick, externalVars
<1>2. mishaps' \in 0..MaxMishaps
  BY <1>1 DEF Mishap
<1>3. demand' \in BOOLEAN
  <2>1. demand' = demand \/ demand' = ~demand
    BY ExternalSteps DEF LoopScans, ScanNext, Publish, Look, StopModel, LookAgain, LoadModel,
      UnloadModel, RuntimeStops, RuntimeStarts, DemandChanges, ExternalTick, externalVars
  <2> QED
    BY <2>1, Zenon
<1> QED
  BY <1>2, <1>3, Zenon

LEMMA Lengthened ==
  ASSUME NEW d \in Lists, NEW w \in Workloads, NEW e \in Entry
  PROVE  [v \in DOMAIN d \cup {w} |-> IF v = w THEN e ELSE d[v]] \in Lists
<1>1. PICK ws \in SUBSET Workloads : d \in [ws -> Entry]
  BY DEF Lists
<1>2. [v \in DOMAIN d \cup {w} |-> IF v = w THEN e ELSE d[v]] \in [ws \cup {w} -> Entry]
  BY <1>1
<1> QED
  BY <1>2 DEF Lists

LEMMA NothingListed == Nothing \in Lists /\ DOMAIN Nothing = {}
<1>1. Nothing \in [{} -> Entry]
  BY DEF Nothing
<1> QED
  BY <1>1 DEF Lists

LEMMA ListsStep ==
  ASSUME ExternalTypeOK, [ExternalNext]_externalVars
  PROVE  ListsOK'
<1> USE ExternalParts DEF ListsOK
<1>1. Nothing \in Lists
  BY NothingListed
<1>2. ASSUME NEW t \in Threads, draft' = [draft EXCEPT ![t] = Nothing], UNCHANGED shown
      PROVE  ListsOK'
  BY <1>1, <1>2
<1>3. CASE LoopScans
  BY <1>2, <1>3 DEF LoopScans, StartScan, Threads
<1>4. CASE \E t \in Threads : ScanNext(t)
  <2>1. PICK t \in Threads : ScanNext(t)
    BY <1>4
  <2> DEFINE w == Following(draft[t])
  <2>2. w \in Workloads
    <3>1. DOMAIN draft[t] \subseteq Workloads
      <4>1. PICK ws \in SUBSET Workloads : draft[t] \in [ws -> Entry]
        BY DEF Lists
      <4> QED
        BY <4>1
    <3> QED
      BY <2>1, <3>1 DEF ScanNext, Following
  <2>3. PICK e \in Answers(w) \cup Misread(w) : Enter(t, w, e)
    BY <2>1 DEF ScanNext
  <2>4. e \in Entry
    BY <2>2, <2>3, AnswersTyped
  <2> HIDE DEF w
  <2>5. draft' \in [Threads -> Lists]
    BY <2>2, <2>3, <2>4, Lengthened DEF Enter
  <2> QED
    BY <2>1, <2>5 DEF ScanNext
<1>5. CASE \E t \in Threads : Publish(t)
  <2>1. PICK t \in Threads : Publish(t)
    BY <1>5
  <2> QED
    BY <1>1, <2>1 DEF Publish
<1>6. CASE \E r \in Requests : Look(r)
  <2>1. PICK r \in Requests : UNCHANGED draft \/ draft' = [draft EXCEPT ![r] = Nothing]
    BY <1>6 DEF Look, StartScan, Raises
  <2> QED
    BY <1>2, <1>6, <2>1 DEF Look, Threads
<1>7. CASE \E r \in Requests : LookAgain(r)
  <2>1. PICK r \in Requests : UNCHANGED draft \/ draft' = [draft EXCEPT ![r] = Nothing]
    BY <1>7 DEF LookAgain, StartScan, Raises
  <2> QED
    BY <1>2, <1>7, <2>1 DEF LookAgain, Threads
<1>8. CASE \E r \in Requests : StopModel(r)
  BY <1>8 DEF StopModel, Raises
<1> QED
  BY <1>3, <1>4, <1>5, <1>6, <1>7, <1>8, ExternalSteps DEF LoadModel, UnloadModel, RuntimeStops,
    RuntimeStarts, DemandChanges, ExternalTick, externalVars

LEMMA ClocksStep ==
  ASSUME ExternalTypeOK, [ExternalNext]_externalVars
  PROVE  ClocksOK'
<1> USE ExternalParts, Limits DEF ClocksOK
<1>1. 0 \in 0..ScanInterval
  OBVIOUS
<1>2. CASE \/ LoopScans
           \/ \E r \in Requests : Look(r) \/ LookAgain(r) \/ StopModel(r)
  <2>1. UNCHANGED age
    BY <1>2 DEF LoopScans, Look, LookAgain, StopModel
  <2>2. UNCHANGED since \/ \E t \in Threads : since' = [since EXCEPT ![t] = 0]
    BY <1>2 DEF LoopScans, Look, LookAgain, StopModel, StartScan, Raises, Threads
  <2> QED
    BY <1>1, <2>1, <2>2
<1>3. CASE \E t \in Threads : Publish(t)
  BY <1>1, <1>3 DEF Publish
<1>4. CASE ExternalTick
  <2>1. \A k \in 0..ScanInterval : k < ScanInterval => k + 1 \in 0..ScanInterval
    OBVIOUS
  <2> QED
    BY <1>4, <2>1 DEF ExternalTick
<1> QED
  BY <1>2, <1>3, <1>4, ExternalSteps DEF ScanNext, LoadModel, UnloadModel, RuntimeStops,
    RuntimeStarts, DemandChanges, externalVars

LEMMA PlacesStep ==
  ASSUME ExternalTypeOK, [ExternalNext]_externalVars
  PROVE  PlacesOK'
<1> USE ExternalParts DEF PlacesOK, Threads
<1>1. "loop" \notin Requests
  BY ExternalAssumption
<1>2. CASE LoopScans
  BY <1>2 DEF LoopScans, StartScan
<1>3. CASE \E t \in Threads : Publish(t)
  BY <1>3 DEF Publish
<1>4. CASE \E r \in Requests : Look(r) \/ LookAgain(r) \/ StopModel(r)
  <2>1. PICK r \in Requests : \/ UNCHANGED pc
                              \/ \E q \in {"stop", "scan", "raised"} : pc' = [pc EXCEPT ![r] = q]
    BY <1>4 DEF Look, LookAgain, StopModel, StartScan, Raises
  <2> QED
    BY <1>1, <2>1
<1> QED
  BY <1>2, <1>3, <1>4, ExternalSteps DEF ScanNext, LoadModel, UnloadModel, RuntimeStops,
    RuntimeStarts, DemandChanges, ExternalTick, externalVars

LEMMA RequestsStep ==
  ASSUME ExternalTypeOK, [ExternalNext]_externalVars
  PROVE  RequestsOK'
<1> USE ExternalParts DEF RequestsOK
<1>1. ASSUME NEW w, NEW ms, Leave(w, ms)
      PROVE  held' \in [Requests -> SUBSET Models]
  BY <1>1 DEF Leave
<1>2. CASE \E r \in Requests : Look(r)
  <2>1. PICK r \in Requests, w \in Workloads :
          /\ target' = [target EXCEPT ![r] = w] /\ UNCHANGED failed
          /\ \/ \E e \in Answers(w) \cup Misread(w) :
                  /\ todo' = [todo EXCEPT ![r] = e.models]
                  /\ held' = [held EXCEPT ![r] = IF Cardinality(loaded[w]) <= MaxRows
                                                  THEN loaded[w] ELSE e.models]
                  /\ UNCHANGED result \/ result' = [result EXCEPT ![r] = e.state]
             \/ UNCHANGED <<todo, held, result>>
    BY <1>2 DEF Look
  <2>2. \A e \in Answers(w) \cup Misread(w) : e.models \subseteq Models /\ e.state \in States
    BY AnswersTyped DEF Entry
  <2>3. loaded[w] \subseteq Models
    BY DEF RuntimesOK
  <2> QED
    BY <2>1, <2>2, <2>3
<1>3. CASE \E r \in Requests : LookAgain(r)
  <2>1. PICK r \in Requests :
          /\ UNCHANGED <<target, todo, held>> /\ failed' = [failed EXCEPT ![r] = FALSE]
          /\ \/ \E e \in Answers(target[r]) \cup Misread(target[r]) :
                  result' = [result EXCEPT ![r] = IF failed[r] THEN "error" ELSE e.state]
             \/ UNCHANGED result
    BY <1>3 DEF LookAgain
  <2>2. \A e \in Answers(target[r]) \cup Misread(target[r]) : e.state \in States
    BY AnswersTyped DEF Entry
  <2>3. held' \in [Requests -> SUBSET Models] /\ failed' \in [Requests -> BOOLEAN]
    BY <2>1
  <2>4. result' \in [Requests -> States]
    BY <2>1, <2>2 DEF States
  <2> QED
    BY <2>1, <2>3, <2>4
<1>4. CASE \E r \in Requests : StopModel(r)
  <2>1. PICK r \in Requests : StopModel(r)
    BY <1>4
  <2>2. PICK m \in todo[r] : todo' = [todo EXCEPT ![r] = @ \ {m}]
    BY <2>1 DEF StopModel
  <2>3. UNCHANGED held \/ \E k \in todo[r] : Leave(target[r], {k})
    BY <2>1 DEF StopModel
  <2>4. UNCHANGED failed \/ failed' = [failed EXCEPT ![r] = TRUE]
    BY <2>1 DEF StopModel
  <2>5. UNCHANGED <<target, result>>
    BY <2>1 DEF StopModel
  <2> QED
    BY <1>1, <2>2, <2>3, <2>4, <2>5
<1>5. CASE UnloadModel \/ RuntimeStops
  BY <1>1, <1>5 DEF UnloadModel, RuntimeStops, requests
<1> QED
  BY <1>2, <1>3, <1>4, <1>5, ExternalSteps DEF LoopScans, ScanNext, Publish, LoadModel,
    RuntimeStarts, DemandChanges, ExternalTick, externalVars, requests

\* Types: the published list is empty or names every runtime, a runtime that is down
\* holds no model, and the loop's census never ends in an exception.
THEOREM ExternalTyping == ExternalSpec => []ExternalTypeOK
<1>1. ExternalInit => ExternalTypeOK
  <2> SUFFICES ASSUME ExternalInit PROVE ExternalTypeOK
    OBVIOUS
  <2> USE DEF ExternalInit
  <2>2. RuntimesOK
    BY Limits DEF RuntimesOK
  <2>3. CountersOK /\ ClocksOK
    <3>1. mishaps \in 0..MaxMishaps
      BY Limits
    <3>2. age \in 0..ScanInterval /\ since \in [Threads -> 0..ScanInterval]
      BY Limits
    <3> QED
      BY <3>1, <3>2 DEF CountersOK, ClocksOK
  <2>4. ListsOK /\ PlacesOK
    BY NothingListed DEF ListsOK, PlacesOK, Threads
  <2>5. RequestsOK
    BY ExternalAssumption DEF RequestsOK, States
  <2> QED
    BY <2>2, <2>3, <2>4, <2>5, ExternalParts
<1>2. ExternalTypeOK /\ [ExternalNext]_externalVars => ExternalTypeOK'
  <2> SUFFICES ASSUME ExternalTypeOK, [ExternalNext]_externalVars PROVE ExternalTypeOK'
    OBVIOUS
  <2>1. /\ RuntimesOK' /\ CountersOK' /\ ListsOK' /\ ClocksOK' /\ PlacesOK' /\ RequestsOK'
    BY RuntimesStep, CountersStep, ListsStep, ClocksStep, PlacesStep, RequestsStep
  <2>2. (RuntimesOK /\ CountersOK /\ ListsOK /\ ClocksOK /\ PlacesOK /\ RequestsOK
         => ExternalTypeOK)'
    BY ExternalParts, PTL
  <2> QED
    BY <2>1, <2>2
<1> QED
  BY <1>1, <1>2, PTL DEF ExternalSpec

-----------------------------------------------------------------------------
(* A request that was shown a list loses track of no model: one that was loaded *)
(* is out of memory, or it has still to stop it, or it knows that it failed.    *)

Accounted ==
  \A r \in Requests :
    /\ pc[r] = "idle" => held[r] = {}
    /\ pc[r] = "stop" /\ ~failed[r] => held[r] \subseteq todo[r]
    /\ pc[r] \in {"scan", "replied"} /\ result[r] \in {"idle", "active"} => held[r] = {}

LEMMA AccountedStep ==
  ASSUME ExternalTypeOK, Accounted, [ExternalNext]_externalVars
  PROVE  Accounted'
<1> USE ExternalParts DEF Accounted, PlacesOK, RequestsOK, Threads
<1>1. ASSUME NEW w, NEW ms, Leave(w, ms), UNCHANGED <<pc, todo, failed, result>>
      PROVE  Accounted'
  <2>1. \A r \in Requests : held'[r] \subseteq held[r]
    BY <1>1 DEF Leave
  <2> QED
    BY <1>1, <2>1
<1>2. CASE \E r \in Requests : Look(r)
  <2>1. PICK r \in Requests, w \in Workloads :
          /\ pc[r] = "idle" /\ UNCHANGED failed
          /\ \/ \E e \in Answers(w) \cup Misread(w) :
                  /\ todo' = [todo EXCEPT ![r] = e.models]
                  /\ held' = [held EXCEPT ![r] = IF Cardinality(loaded[w]) <= MaxRows
                                                  THEN loaded[w] ELSE e.models]
                  /\ IF e.state \in {"idle", "active"}
                     THEN pc' = [pc EXCEPT ![r] = "stop"] /\ UNCHANGED result
                     ELSE /\ pc' = [pc EXCEPT ![r] = "scan"]
                          /\ result' = [result EXCEPT ![r] = e.state]
             \/ pc' = [pc EXCEPT ![r] = "raised"] /\ UNCHANGED <<todo, held, result>>
    BY <1>2 DEF Look, StartScan, Raises
  <2>2. \A e \in Answers(w) \cup Misread(w) :
          e.state \in {"idle", "active"} /\ Cardinality(loaded[w]) <= MaxRows => e.models = loaded[w]
    BY AnswersTyped
  <2> QED
    BY <2>1, <2>2
<1>3. CASE \E r \in Requests : StopModel(r)
  <2>1. PICK r \in Requests : StopModel(r)
    BY <1>3
  <2>2. PICK m \in todo[r] :
          /\ todo' = [todo EXCEPT ![r] = @ \ {m}]
          /\ \/ Leave(target[r], {m}) /\ UNCHANGED <<failed, pc>>
             \/ failed' = [failed EXCEPT ![r] = TRUE] /\ UNCHANGED <<held, pc>>
             \/ /\ pc' = [pc EXCEPT ![r] = "raised"] /\ UNCHANGED failed
                /\ Leave(target[r], {m}) \/ UNCHANGED held
    BY <2>1 DEF StopModel, Raises
  <2>3. UNCHANGED result /\ pc[r] = "stop"
    BY <2>1 DEF StopModel
  <2>4. CASE Leave(target[r], {m}) /\ UNCHANGED <<failed, pc>>
    <3>1. /\ \A q \in Requests : held'[q] \subseteq held[q]
          /\ held'[r] = held[r] \ {m}
      BY <2>4 DEF Leave
    <3> QED
      BY <2>2, <2>3, <2>4, <3>1
  <2>5. CASE failed' = [failed EXCEPT ![r] = TRUE] /\ UNCHANGED <<held, pc>>
    BY <2>2, <2>3, <2>5
  <2>6. CASE /\ pc' = [pc EXCEPT ![r] = "raised"] /\ UNCHANGED failed
             /\ Leave(target[r], {m}) \/ UNCHANGED held
    <3>1. \A q \in Requests : held'[q] \subseteq held[q]
      BY <2>6 DEF Leave
    <3> QED
      BY <2>2, <2>3, <2>6, <3>1
  <2> QED
    BY <2>2, <2>4, <2>5, <2>6
<1>4. CASE \E r \in Requests : LookAgain(r)
  <2>1. PICK r \in Requests :
          /\ pc[r] = "stop" /\ todo[r] = {} /\ UNCHANGED <<todo, held>>
          /\ failed' = [failed EXCEPT ![r] = FALSE]
          /\ \/ \E e \in Answers(target[r]) \cup Misread(target[r]) :
                  /\ result' = [result EXCEPT ![r] = IF failed[r] THEN "error" ELSE e.state]
                  /\ pc' = [pc EXCEPT ![r] = "scan"]
             \/ pc' = [pc EXCEPT ![r] = "raised"] /\ UNCHANGED result
    BY <1>4 DEF LookAgain, StartScan, Raises
  <2>2. ~failed[r] => held[r] = {}
    BY <2>1
  <2> QED
    BY <2>1, <2>2
<1>5. CASE \E t \in Threads : Publish(t)
  <2>1. PICK t \in Threads : /\ pc[t] = "scan"
                             /\ pc' = [pc EXCEPT ![t] = IF t = "loop" THEN "idle" ELSE "replied"]
                             /\ UNCHANGED <<todo, failed, result, held>>
    BY <1>5 DEF Publish, requests
  <2>2. "loop" \notin Requests
    BY ExternalAssumption
  <2> QED
    BY <2>1, <2>2
<1>6. CASE LoopScans
  <2>1. "loop" \notin Requests
    BY ExternalAssumption
  <2> QED
    BY <1>6, <2>1 DEF LoopScans, StartScan, requests
<1>7. CASE UnloadModel \/ RuntimeStops
  BY <1>1, <1>7 DEF UnloadModel, RuntimeStops, requests
<1> QED
  BY <1>2, <1>3, <1>4, <1>5, <1>6, <1>7, ExternalSteps DEF ScanNext, LoadModel, RuntimeStarts,
    DemandChanges, ExternalTick, externalVars, requests

\* ListMeansUnloaded: whoever else loads, unloads, stops or restarts runtimes meanwhile
\* and whatever commands fail, a request that replies "idle" or "active" has seen the
\* models it found in memory leave it.  Of a reply "stopped" nothing follows.
THEOREM ListIsTrue == ExternalSpec => []ListMeansUnloaded
<1>1. ExternalInit => Accounted
  BY DEF ExternalInit, Accounted, Threads
<1>2. ExternalTypeOK /\ Accounted /\ [ExternalNext]_externalVars => Accounted'
  BY AccountedStep
<1>3. Accounted => ListMeansUnloaded
  BY DEF Accounted, ListMeansUnloaded
<1> QED
  BY <1>1, <1>2, <1>3, ExternalTyping, PTL DEF ExternalSpec
=============================================================================
