------------------------------- MODULE Policy -------------------------------
(***************************************************************************)
(* Which job is next: choose_candidate of gpuq/policy.py over the rows     *)
(* queue_candidates and active_jobs return, while time passes and jobs     *)
(* end and are submitted again.  The score is a sum of fractions; it is    *)
(* kept exact by comparing 3 * Capacity * score, a whole number when time  *)
(* is in minutes (the code uses floats and seconds).  A slot submits the   *)
(* same kind of job again and again.  A job runs for exactly its estimate: *)
(* the promise of the policy rests on that.  Scheduler leaves score and    *)
(* estimate open and takes any job that this module may choose.            *)
(***************************************************************************)
EXTENDS Integers, SequencesExt, FiniteSetsExt

CONSTANTS
  Slots,        \* who submits
  Kind,         \* Kind[s]: agent, priority, vram and estimated minutes
  Total, Baseline, Safety,   \* VRAM of the card, held by others, kept free
  MaxParallel,  \* max_parallel_jobs
  Window,       \* fairness_window_minutes
  Step,         \* minutes that pass in one tick
  MaxReorder,   \* longest order POST /api/jobs/reorder accepts (1000)
  MaxOrders     \* how often the queue is reordered in one behaviour

ASSUME PolicyAssumption ==
  /\ IsFiniteSet(Slots) /\ {Total, Baseline, Safety, MaxReorder, MaxOrders} \subseteq Nat
  /\ {MaxParallel, Window, Step} \subseteq Nat \ {0}
  /\ \A s \in Slots : /\ Kind[s].priority \in 0..100 /\ Kind[s].vram \in Nat \ {0}
                      /\ Kind[s].minutes \in Nat \ {0} /\ Kind[s].minutes % Step = 0

VARIABLES
  queue,    \* the queued jobs in the order of submitted_at
  rank,     \* manual_rank, 0 for NULL
  age,      \* minutes a queued job has waited, up to AgeCap
  active,   \* the running jobs
  elapsed,  \* minutes since started_at of a running job
  orders,   \* reorders so far
  recent,   \* recent[a][k]: VRAM-minutes of rows of agent a started k steps ago
  beside    \* history: beside[s], jobs that ran when s was backfilled and still do

policyVars == <<queue, rank, age, active, elapsed, orders, recent, beside>>

Agents == {Kind[s].agent : s \in Slots}
Recent == 0..(Window \div Step)       \* ages of rows still in the window
AgeCap == 60                          \* age_bonus is min(20, minutes / 3)
Waiting == {queue[i] : i \in DOMAIN queue}
Larger(a, b)  == IF a < b THEN b ELSE a
Smaller(a, b) == IF a < b THEN a ELSE b

PolicyTypeOK ==
  /\ Waiting \in SUBSET Slots /\ Len(queue) = Cardinality(Waiting)
  /\ active \in SUBSET (Slots \ Waiting)
  /\ orders \in 0..MaxOrders
  /\ rank \in [Slots -> 0..Cardinality(Slots)] /\ age \in [Slots -> 0..AgeCap]
  /\ \A s \in Slots : elapsed[s] \in 0..Kind[s].minutes /\ beside[s] \in SUBSET active
  /\ recent \in [Agents -> [Recent -> Nat]]

PolicyInit ==
  /\ queue = <<>> /\ rank = [s \in Slots |-> 0] /\ age = [s \in Slots |-> 0]
  /\ active = {} /\ elapsed = [s \in Slots |-> 0] /\ recent = [a \in Agents |-> [k \in Recent |-> 0]] /\ orders = 0
  /\ beside = [s \in Slots |-> {}]

-----------------------------------------------------------------------------
(* effective_score.  (Mutant...: see README.md.)                           *)

\* recent_vram_seconds of an agent, in minutes.
Used(a) == MapThenSumSet(LAMBDA k : recent[a][k], Recent)

\* window_capacity.
Capacity == Larger(1, Total * Window)

MutantAgeBonus(s) == 0

\* The age bonus and the fairness penalty, each worth at most 20 points.
AgeBonus(s) == Capacity * age[s]
Penalty(s)  == Smaller(60 * Capacity, 120 * Used(Kind[s].agent))

\* 3 * Capacity * effective_score.
Score(s) == 3 * Capacity * Kind[s].priority + AgeBonus(s) - Penalty(s)

-----------------------------------------------------------------------------
(* choose_candidate.                                                       *)

Place(o, s) == CHOOSE i \in DOMAIN o : o[i] = s

MutantBetter(s, t) ==
  Score(s) > Score(t) \/ (Score(s) = Score(t) /\ Place(queue, s) > Place(queue, t))

\* s has the higher score, or the shorter estimate, or was submitted first.
Better(s, t) ==
  LET lead == Score(s) - Score(t) IN
  \/ lead > 0
  \/ lead = 0 /\ Kind[s].minutes < Kind[t].minutes
  \/ lead = 0 /\ Kind[s].minutes = Kind[t].minutes /\ Place(queue, s) < Place(queue, t)

\* s stands before t in "ranked": jobs with a position in their order, then the
\* others by score.  Of two jobs with one position the worse comes first, as that
\* part of the list is sorted by the same key and not reversed.
Before(s, t) ==
  IF rank[s] # rank[t] THEN rank[s] # 0 /\ (rank[t] = 0 \/ rank[s] < rank[t])
  ELSE IF rank[s] = 0 THEN Better(s, t) ELSE Better(t, s)

\* The first of S, as a set of at most one.
First(S) == {s \in S : \A t \in S \ {s} : Before(s, t)}

\* fit_mb, when running jobs hold what they reserved.
Fit == Larger(0, Total - Baseline - Safety - MapThenSumSet(LAMBDA s : Kind[s].vram, active))

Remaining(s) == Larger(0, Kind[s].minutes - elapsed[s])

MutantEarliestRelease == Max({Remaining(s) : s \in active})

EarliestRelease == Min({Remaining(s) : s \in active})

\* Jobs that may pass a head that does not fit.
Backfill(head) ==
  IF active = {} THEN {}
  ELSE LET fit == Fit
           release == EarliestRelease
       IN {s \in Waiting \ {head} : Kind[s].vram <= fit /\ Kind[s].minutes <= release}

\* The job to start, if there is one, and the head of the queue.
Choice ==
  IF Cardinality(active) >= MaxParallel THEN {}
  ELSE UNION {{[job |-> s, head |-> h] :
                 s \in IF Kind[h].vram <= Fit THEN {h} ELSE First(Backfill(h))} : h \in First(Waiting)}

-----------------------------------------------------------------------------

\* The job of slot s is submitted (again): a new row.
SubmitSlot(s) ==
  /\ s \notin Waiting \cup active
  /\ queue' = Append(queue, s)
  /\ rank' = [rank EXCEPT ![s] = 0] /\ age' = [age EXCEPT ![s] = 0]
  /\ UNCHANGED <<active, elapsed, orders, recent, beside>>

MutantStartCandidate == \E c \in Choice : LET s == c.job IN
  /\ active' = active \cup {s}
  /\ elapsed' = [elapsed EXCEPT ![s] = 0]
  /\ beside' = [beside EXCEPT ![s] = IF s = c.head THEN {} ELSE active]
  /\ UNCHANGED <<queue, rank, age, orders, recent>>

\* _schedule_once starts the candidate.
StartCandidate == \E c \in Choice : LET s == c.job IN
  /\ queue' = RemoveAt(queue, Place(queue, s))
  /\ active' = active \cup {s}
  /\ elapsed' = [elapsed EXCEPT ![s] = 0]
  /\ beside' = [beside EXCEPT ![s] = IF s = c.head THEN {} ELSE active]
  /\ rank' = [rank EXCEPT ![s] = 0] /\ age' = [age EXCEPT ![s] = 0]
  /\ UNCHANGED <<orders, recent>>

\* A job has run for its estimate and ends.
EndSlot(s) ==
  /\ s \in active /\ Remaining(s) = 0
  /\ active' = active \ {s}
  /\ elapsed' = [elapsed EXCEPT ![s] = 0]
  /\ beside' = [t \in Slots |-> IF t = s THEN {} ELSE beside[t] \ {s}]
  /\ UNCHANGED <<queue, rank, age, orders, recent>>

\* POST /api/jobs/reorder commits: the rows that were queued at its SELECT and
\* still are get an order.  Those submitted meanwhile, the end of the queue, keep
\* the position they have: none, or one an overlapping request gave them
\* (Transactions).
OrderQueue ==
  /\ orders < MaxOrders /\ orders' = orders + 1
  /\ \E n \in DOMAIN queue \cap 1..MaxReorder : \E o \in SetToSeqs({queue[i] : i \in 1..n}) :
       rank' = [s \in Slots |-> IF s \in {queue[i] : i \in 1..n} THEN Place(o, s) ELSE rank[s]]
  /\ UNCHANGED <<queue, age, active, elapsed, recent, beside>>

\* VRAM-minutes a job uses in one step.
StepUse == [s \in Slots |-> Kind[s].vram * Step]

\* The rows of agent a one step later: those that run have used more.
Aged(a) == [k \in Recent |->
  IF k = 0 THEN 0
  ELSE recent[a][k - 1] + MapThenSumSet(LAMBDA s : StepUse[s],
         {s \in active : Kind[s].agent = a /\ elapsed[s] = (k - 1) * Step})]

\* Step minutes pass.  The loop decides every few seconds, and half a minute
\* after a job ended, so a candidate does not wait for the end of the step.
Pass ==
  /\ Choice = {}
  /\ \A s \in active : Remaining(s) > 0
  /\ age' = [s \in Slots |-> IF s \in Waiting THEN Smaller(age[s] + Step, AgeCap) ELSE 0]
  /\ elapsed' = [s \in Slots |-> IF s \in active THEN elapsed[s] + Step ELSE 0]
  /\ recent' = [a \in Agents |-> Aged(a)]
  /\ UNCHANGED <<queue, rank, active, orders, beside>>

\* What goes on without any client.
Advance == StartCandidate \/ Pass \/ \E s \in Slots : EndSlot(s)

PolicyNext == Advance \/ OrderQueue \/ \E s \in Slots : SubmitSlot(s)

PolicySpec == PolicyInit /\ [][PolicyNext]_policyVars

\* The loop schedules in every pass, time passes and jobs end.
PolicyFairness == WF_policyVars(Advance)

PolicyFairSpec == PolicySpec /\ PolicyFairness

-----------------------------------------------------------------------------
(* Properties.                                                             *)

\* "Safe short-job backfilling": a job that passed the head never holds the card
\* longer than any job it was started beside, so it cannot delay the head, also
\* when it was started late in their runs and further jobs were backfilled
\* beside it in between.
BackfillYields ==
  [][\A a \in active \ active', c \in active :
       a \in beside[c] => Remaining(c) = 0]_policyVars

\* Jobs of one kind and agent start in the order they were submitted, when no
\* one reordered them, although both may have waited past the age cap and usage
\* changed their scores meanwhile.
EqualsInOrder ==
  [][\A s, t \in Waiting : s \in active' /\ Kind[s] = Kind[t] /\ rank[s] = 0 /\ rank[t] = 0
       => s = t \/ Place(queue, s) < Place(queue, t)]_policyVars

\* README.md: the scheduler "ages waiting jobs to prevent starvation".  A queued
\* job is started in the end, although jobs of other slots are submitted again
\* and again: the head drains the card when it needs all of it.
EveryJobStarts == \A s \in Slots : s \in Waiting ~> s \in active
=============================================================================
