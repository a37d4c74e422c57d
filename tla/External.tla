------------------------------- MODULE External -------------------------------
(***************************************************************************)
(* Ollama runtimes that are not jobs: gpuq.external and the two methods of *)
(* the scheduler that use it.  The loop thread samples them into the list  *)
(* /api/status shows, a request unloads the models of one and samples them *)
(* all again, each on a thread of its own, and agents load models when     *)
(* they like.  Nobody holds the lock while ollama is asked; the list is    *)
(* replaced as a whole.                                                    *)
(***************************************************************************)
EXTENDS Integers, FiniteSets

CONSTANTS
  Containers,     \* workloads of kind ollama_container
  Hosts,          \* workloads of kind ollama_host
  Models,
  MaxRows,        \* rows of ollama ps that are read (16)
  Requests,       \* stop requests
  ScanInterval,   \* process_scan_interval_seconds
  MaxLoads,       \* loads explored
  MaxMishaps      \* commands that fail or time out

Workloads == Containers \cup Hosts

ASSUME ExternalAssumption ==
  /\ Containers \cap Hosts = {} /\ Workloads # {}
  /\ MaxRows \in Nat \ {0} /\ ScanInterval \in Nat \ {0}
  /\ {MaxLoads, MaxMishaps} \subseteq Nat
  /\ "loop" \notin Requests

Threads == Requests \cup {"loop"}

VARIABLES
  up,         \* the runtimes that run
  loaded,     \* models in memory
  loads,      \* how many were loaded so far
  demand,     \* the loop comes to its census: managed work or a gate, a healthy GPU
  shown,      \* self.external_workloads, by key
  age,        \* time since last_external_scan_monotonic
  pc,         \* per thread: where it is
  since,      \* time since `now` of its refresh
  draft,      \* the list it makes
  target,     \* per request: the workload to stop, once it has begun
  todo,       \* models it has still to stop
  failed,     \* one of them could not be stopped
  result,     \* the state it replies
  mishaps

\* A history variable: models that were in memory when a request looked, whatever
\* it was told, and were never unloaded since.
VARIABLE held

runtimes  == <<up, loaded, loads>>
requests  == <<target, todo, failed, result>>
externalVars == <<runtimes, demand, shown, age, pc, since, draft, requests, mishaps, held>>

States == {"stopped", "error", "idle", "active"}
Entry  == [state : States, models : SUBSET Models]
Lists  == UNION {[ws -> Entry] : ws \in SUBSET Workloads}
Failure == [state |-> "error", models |-> {}]
Stopped == [state |-> "stopped", models |-> {}]

ExternalTypeOK ==
  /\ up \subseteq Workloads /\ loaded \in [Workloads -> SUBSET Models]
  /\ \A w \in Workloads \ up : loaded[w] = {}
  /\ loads \in 0..MaxLoads /\ demand \in BOOLEAN /\ mishaps \in 0..MaxMishaps
  /\ shown \in Lists /\ DOMAIN shown \in {{}, Workloads} /\ draft \in [Threads -> Lists]
  /\ age \in 0..ScanInterval /\ since \in [Threads -> 0..ScanInterval]
  /\ pc \in [Threads -> {"idle", "stop", "scan", "replied", "raised"}]
  /\ pc["loop"] \in {"idle", "scan"}
  /\ target \in [Requests -> Workloads] /\ todo \in [Requests -> SUBSET Models]
  /\ failed \in [Requests -> BOOLEAN] /\ result \in [Requests -> States]
  /\ held \in [Requests -> SUBSET Models]

Nothing == [w \in {} |-> Failure]

ExternalInit ==
  /\ up = Workloads /\ loaded = [w \in Workloads |-> {}] /\ loads = 0
  /\ demand = FALSE /\ shown = Nothing /\ age = ScanInterval
  /\ pc = [t \in Threads |-> "idle"] /\ since = [t \in Threads |-> 0]
  /\ draft = [t \in Threads |-> Nothing]
  /\ target = [r \in Requests |-> CHOOSE w \in Workloads : TRUE] /\ todo = [r \in Requests |-> {}]
  /\ failed = [r \in Requests |-> FALSE] /\ result = [r \in Requests |-> "error"]
  /\ mishaps = 0 /\ held = [r \in Requests |-> {}]

-----------------------------------------------------------------------------
(* gpuq.external.  (Mutant...: see README.md.)                             *)

Mishap == mishaps < MaxMishaps /\ mishaps' = mishaps + 1
Fine   == UNCHANGED mishaps

\* _parse_ollama_models: the first rows only.
Rows(w) ==
  IF Cardinality(loaded[w]) <= MaxRows THEN {loaded[w]}
  ELSE {u \in SUBSET loaded[w] : Cardinality(u) = MaxRows}

\* ... and the state made of them.
Listed(w) == {[state |-> IF s = {} THEN "idle" ELSE "active", models |-> s] : s \in Rows(w)}

\* inspect_ollama_container, inspect_ollama_host, when their commands work.
Answers(w) ==
  IF w \in up THEN Listed(w) ELSE IF w \in Containers THEN {Stopped} ELSE {Failure}

\* ... and when one exits with an error: a container whose docker inspect fails is
\* taken for "stopped", also when it runs; docker exec and ollama ps are errors.
Misread(w) == IF w \in Containers THEN {Stopped, Failure} ELSE {Failure}

Inspects(w, e) == (e \in Answers(w) /\ Fine) \/ (e \in Misread(w) /\ Mishap)

\* subprocess.run raises TimeoutExpired.
TimesOut == Mishap

-----------------------------------------------------------------------------
(* Scheduler._refresh_external_workloads, by the loop or a request.        *)

StartScan(t) == /\ pc' = [pc EXCEPT ![t] = "scan"]
                /\ since' = [since EXCEPT ![t] = 0]
                /\ draft' = [draft EXCEPT ![t] = Nothing]

MutantLoopScans ==
  /\ pc["loop"] = "idle" /\ demand
  /\ IF age >= ScanInterval THEN StartScan("loop") /\ UNCHANGED age
     ELSE age' = 0 /\ UNCHANGED <<pc, since, draft>>
  /\ UNCHANGED <<runtimes, demand, shown, requests, mishaps, held>>

LoopScans ==
  /\ pc["loop"] = "idle" /\ demand /\ age >= ScanInterval
  /\ StartScan("loop")
  /\ UNCHANGED <<runtimes, demand, shown, age, requests, mishaps, held>>

\* The configuration has an order.
Following(d) == CHOOSE w \in Workloads : w \notin DOMAIN d

\* One more entry of the list.
Enter(t, w, e) ==
  draft' = [draft EXCEPT ![t] = [v \in DOMAIN draft[t] \cup {w} |->
                                   IF v = w THEN e ELSE draft[t][v]]]

MutantScanNext(t) ==
  /\ pc[t] = "scan" /\ DOMAIN draft[t] # Workloads
  /\ LET w == Following(draft[t])
     IN \/ \E e \in Answers(w) : Fine /\ Enter(t, w, e) /\ UNCHANGED <<pc, since>>
        \/ TimesOut /\ pc' = [pc EXCEPT ![t] = "raised"] /\ UNCHANGED <<since, draft>>
  /\ UNCHANGED <<runtimes, demand, shown, age, requests, held>>

\* The next workload; an exception of one is its entry, and the rest go on.
ScanNext(t) ==
  /\ pc[t] = "scan" /\ DOMAIN draft[t] # Workloads
  /\ LET w == Following(draft[t])
     IN \E e \in Answers(w) \cup Misread(w) :
          /\ Inspects(w, e) \/ (TimesOut /\ e = Failure)
          /\ Enter(t, w, e)
  /\ UNCHANGED <<runtimes, demand, shown, age, pc, since, requests, held>>

\* The list is replaced, by whoever is done last.
Publish(t) ==
  /\ pc[t] = "scan" /\ DOMAIN draft[t] = Workloads
  /\ shown' = draft[t] /\ age' = since[t]
  /\ pc' = [pc EXCEPT ![t] = IF t = "loop" THEN "idle" ELSE "replied"]
  /\ draft' = [draft EXCEPT ![t] = Nothing] /\ since' = [since EXCEPT ![t] = 0]
  /\ UNCHANGED <<runtimes, demand, requests, mishaps, held>>

-----------------------------------------------------------------------------
(* Scheduler.stop_external_workload, on a thread of the HTTP server.       *)

\* The request ends without a reply and without a refresh: do_POST catches only
\* ValueError.
Raises(r) == /\ TimesOut
             /\ pc' = [pc EXCEPT ![r] = "raised"]
             /\ UNCHANGED <<since, draft>>

\* stop_ollama_...: what is loaded; nothing to stop when the runtime is not there.
Look(r) ==
  /\ pc[r] = "idle"
  /\ \E w \in Workloads :
       /\ target' = [target EXCEPT ![r] = w]
       /\ \/ \E e \in Answers(w) \cup Misread(w) :
               /\ Inspects(w, e)
               /\ todo' = [todo EXCEPT ![r] = e.models]
               /\ held' = [held EXCEPT ![r] = IF Cardinality(loaded[w]) <= MaxRows
                                               THEN loaded[w] ELSE e.models]
               /\ IF e.state \in {"idle", "active"}
                  THEN pc' = [pc EXCEPT ![r] = "stop"] /\ UNCHANGED <<since, draft, result>>
                  ELSE StartScan(r) /\ result' = [result EXCEPT ![r] = e.state]
          \/ Raises(r) /\ UNCHANGED <<todo, held, result>>
  /\ UNCHANGED <<runtimes, demand, shown, age, failed>>

\* These models leave the memory of w.
Leave(w, ms) ==
  /\ loaded' = [loaded EXCEPT ![w] = @ \ ms]
  /\ held' = [r \in Requests |-> IF target[r] = w THEN held[r] \ ms ELSE held[r]]

MutantStopModel(r) ==
  /\ pc[r] = "stop"
  /\ \E m \in todo[r] :
       /\ todo' = [todo EXCEPT ![r] = @ \ {m}]
       /\ \/ /\ target[r] \in up /\ Leave(target[r], {m}) /\ Fine
             /\ failed' = [failed EXCEPT ![r] = FALSE]
          \/ /\ target[r] \notin up \/ Mishap
             /\ target[r] \in up \/ Fine
             /\ failed' = [failed EXCEPT ![r] = TRUE] /\ UNCHANGED <<loaded, held>>
  /\ UNCHANGED <<up, loads, demand, shown, age, pc, since, draft, target, result>>

\* ollama stop of the next model: unloaded, an error, or no answer in time, with
\* or without effect.
StopModel(r) ==
  /\ pc[r] = "stop"
  /\ \E m \in todo[r] :
       /\ todo' = [todo EXCEPT ![r] = @ \ {m}]
       /\ \/ /\ target[r] \in up /\ Leave(target[r], {m}) /\ Fine
             /\ UNCHANGED <<failed, pc, since, draft>>
          \/ /\ target[r] \notin up /\ Fine
             /\ failed' = [failed EXCEPT ![r] = TRUE]
             /\ UNCHANGED <<loaded, held, pc, since, draft>>
          \/ /\ target[r] \in up /\ Mishap
             /\ failed' = [failed EXCEPT ![r] = TRUE]
             /\ UNCHANGED <<loaded, held, pc, since, draft>>
          \/ /\ Raises(r) /\ UNCHANGED failed
             /\ Leave(target[r], {m}) \/ UNCHANGED <<loaded, held>>
  /\ UNCHANGED <<up, loads, demand, shown, age, target, result>>

\* What is left, an error if a model could not be stopped; then the refresh, forced.
LookAgain(r) ==
  /\ pc[r] = "stop" /\ todo[r] = {}
  /\ \/ \E e \in Answers(target[r]) \cup Misread(target[r]) :
          /\ Inspects(target[r], e)
          /\ result' = [result EXCEPT ![r] = IF failed[r] THEN "error" ELSE e.state]
          /\ StartScan(r)
     \/ Raises(r) /\ UNCHANGED result
  /\ failed' = [failed EXCEPT ![r] = FALSE]
  /\ UNCHANGED <<runtimes, demand, shown, age, target, todo, held>>

-----------------------------------------------------------------------------
(* Agents, ollama, Docker, the loop's other work, time.                    *)

LoadModel ==
  /\ loads < MaxLoads /\ loads' = loads + 1
  /\ \E w \in up, m \in Models : m \notin loaded[w] /\ loaded' = [loaded EXCEPT ![w] = @ \cup {m}]
  /\ UNCHANGED <<up, demand, shown, age, pc, since, draft, requests, mishaps, held>>

\* keep_alive is over.
UnloadModel ==
  /\ \E w \in up, m \in Models : m \in loaded[w] /\ Leave(w, {m})
  /\ UNCHANGED <<up, loads, demand, shown, age, pc, since, draft, requests, mishaps>>

RuntimeStops ==
  /\ \E w \in up : up' = up \ {w} /\ Leave(w, Models)
  /\ Mishap
  /\ UNCHANGED <<loads, demand, shown, age, pc, since, draft, requests>>

RuntimeStarts ==
  /\ \E w \in Workloads \ up : up' = up \cup {w}
  /\ UNCHANGED <<loaded, loads, demand, shown, age, pc, since, draft, requests, mishaps, held>>

DemandChanges ==
  /\ demand' = ~demand
  /\ UNCHANGED <<runtimes, shown, age, pc, since, draft, requests, mishaps, held>>

ExternalTick ==
  /\ age < ScanInterval \/ \E t \in Threads : pc[t] = "scan" /\ since[t] < ScanInterval
  /\ age' = IF age < ScanInterval THEN age + 1 ELSE age
  /\ since' = [t \in Threads |->
                 IF pc[t] = "scan" /\ since[t] < ScanInterval THEN since[t] + 1 ELSE since[t]]
  /\ UNCHANGED <<runtimes, demand, shown, pc, draft, requests, mishaps, held>>

\* What a thread does once it has begun.
Steps(t) == ScanNext(t) \/ Publish(t)
Serve(r) == StopModel(r) \/ LookAgain(r)

ExternalNext ==
  \/ LoopScans
  \/ \E t \in Threads : Steps(t)
  \/ \E r \in Requests : Look(r) \/ Serve(r)
  \/ LoadModel \/ UnloadModel \/ RuntimeStops \/ RuntimeStarts
  \/ DemandChanges \/ ExternalTick

ExternalSpec == ExternalInit /\ [][ExternalNext]_externalVars

\* Threads run, commands end (they have a timeout), time passes.
ExternalFairness ==
  /\ WF_externalVars(LoopScans) /\ WF_externalVars(ExternalTick)
  /\ \A t \in Threads : WF_externalVars(Steps(t))
  /\ \A r \in Requests : WF_externalVars(Serve(r))

ExternalFairSpec == ExternalSpec /\ ExternalFairness

-----------------------------------------------------------------------------
(* Properties.                                                             *)

\* A stop request that replies "idle" or "active" has freed the memory: every model
\* that was loaded when it began (of more than MaxRows, every one it was shown) has
\* been out of memory since, whatever other requests, agents and ollama did
\* meanwhile and however many of its commands failed.  "stopped", the third reply
\* that do_POST sends with ok, promises nothing: a docker inspect that fails gives
\* it for a container that runs, with its models in memory (external.py:70, 108).
ListMeansUnloaded ==
  \A r \in Requests :
    pc[r] = "replied" /\ result[r] \in {"idle", "active"} => held[r] = {}

\* The list shows what runs.
Accurate ==
  /\ DOMAIN shown = Workloads
  /\ \A w \in Workloads :
       IF w \in up THEN shown[w] \in Listed(w)
                   ELSE shown[w].state \in {"stopped", "error"}

\* While the loop has work, /api/status comes to show every runtime as it is, also
\* when a list read before a stop was published after the request's own, when one
\* runtime fails to answer, and when a request was cut off before its refresh.
Converges == <>[]demand => <>[]Accurate
=============================================================================
