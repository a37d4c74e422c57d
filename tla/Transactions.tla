---------------------------- MODULE Transactions ----------------------------
(***************************************************************************)
(* How PostgreSQL runs the statements of gpuq/db.py when the HTTP threads  *)
(* and the loop issue them at the same time.  The statements of JobTable   *)
(* touch a row once and are atomic on that row.  reorder_queued_jobs, the  *)
(* only writer of manual_rank, is a transaction of several: SELECT ... FOR *)
(* UPDATE locks the rows that were queued in its snapshot one after the    *)
(* other, the answer is compared with the order the client sent, and the   *)
(* UPDATEs, one per row, show when it commits.  The isolation is READ      *)
(* COMMITTED (db.py sets none): a row that waited for a lock is read       *)
(* again, a row inserted after the snapshot is not seen.  So the request   *)
(* is not one atomic step: it may give places that a queued row has too.   *)
(* CommitCoversSnapshot and DistinctUnlessLate say what does hold.         *)
(***************************************************************************)
EXTENDS JobTable

CONSTANTS
  MaxReorder, \* longest order POST /api/jobs/reorder accepts (1000)
  Requests,   \* HTTP threads that may be in POST /api/jobs/reorder
  Touched     \* jobs that are canceled, started or ended in this instance

ASSUME ReorderAssumption == MaxReorder \in Nat
ASSUME TouchedAssumption == Touched \subseteq Jobs

VARIABLES
  rank,   \* manual_rank[j], 0 for NULL
  phase,  \* phase[r]: "idle", or "locking" until the transaction of r ends
  scan,   \* scan[r]: rows of its snapshot that are not locked yet
  held,   \* held[r]: rows it has locked
  rows,   \* rows[r]: those of them its SELECT returns
  late    \* history: rows inserted while some request was under way

requestVars == <<phase, scan, held, rows>>
txVars == <<tableVars, rank, requestVars, late>>

\* The orders a request may carry: no job twice.
Orders == UNION {{o \in [1..n -> Jobs] : \A i, k \in 1..n : o[i] = o[k] => i = k}
                 : n \in 1..MaxReorder}

\* The place of job j in order o, from 1.
Position(o, j) == CHOOSE i \in DOMAIN o : o[i] = j

Named(o) == {o[i] : i \in DOMAIN o}
MutantUnlocked(j) == TRUE

Unlocked(j) == \A r \in Requests : j \notin held[r]

TxTypeOK ==
  /\ TableTypeOK
  /\ rank \in [Jobs -> Nat]
  /\ phase \in [Requests -> {"idle", "locking"}]
  /\ {scan, held, rows} \subseteq [Requests -> SUBSET Jobs]
  /\ \A r \in Requests : rows[r] \subseteq held[r]
  /\ \A r, s \in Requests : held[r] \cap held[s] # {} => r = s   \* row locks exclude
  /\ late \in SUBSET Jobs

TxInit ==
  /\ TableInit
  /\ rank = [j \in Jobs |-> 0]
  /\ phase = [r \in Requests |-> "idle"]
  /\ scan = [r \in Requests |-> {}] /\ held = [r \in Requests |-> {}]
  /\ rows = [r \in Requests |-> {}]
  /\ late = {}

-----------------------------------------------------------------------------
(* reorder_queued_jobs.  (Mutant...: see README.md.)                       *)

\* The SELECT begins.  Nothing looks at the order of the client before the scan
\* is complete, so it is chosen there: any order of any jobs, as the view of the
\* queue it was made from may be old.
BeginReorder(r) ==
  /\ phase[r] = "idle"
  /\ phase' = [phase EXCEPT ![r] = "locking"]
  /\ scan' = [scan EXCEPT ![r] = Queued]
  /\ UNCHANGED <<tableVars, rank, held, rows, late>>

\* ... locks one more row, in no fixed order, once no other request holds it, and
\* returns it if it is still queued.
LockRow(r, j) ==
  /\ phase[r] = "locking" /\ j \in scan[r] /\ Unlocked(j)
  /\ scan' = [scan EXCEPT ![r] = @ \ {j}]
  /\ held' = [held EXCEPT ![r] = @ \cup {j}]
  /\ rows' = [rows EXCEPT ![r] = IF status[j] = "queued" THEN @ \cup {j} ELSE @]
  /\ UNCHANGED <<tableVars, rank, phase, late>>

\* The transaction of r ends and gives up its locks.
Release(r) ==
  /\ phase' = [phase EXCEPT ![r] = "idle"]
  /\ scan' = [scan EXCEPT ![r] = {}]
  /\ held' = [held EXCEPT ![r] = {}]
  /\ rows' = [rows EXCEPT ![r] = {}]

MutantMatches(r, o) == Named(o) \subseteq rows[r]

\* queued_ids == set(job_ids), when the scan is complete.
Matches(r, o) == rows[r] = Named(o)

\* The answer names the rows of the order: UPDATE them and commit.
CommitReorder(r) ==
  /\ phase[r] = "locking" /\ scan[r] = {}
  /\ \E o \in Orders :
       /\ Matches(r, o)
       /\ rank' = [j \in Jobs |-> IF j \in Named(o) \cap Queued
                                THEN Position(o, j) ELSE rank[j]]
  /\ Release(r)
  /\ UNCHANGED <<tableVars, late>>

MutantRefuseReorder(r) ==
  /\ phase[r] = "locking" /\ scan[r] = {} /\ \E o \in Orders : ~Matches(r, o)
  /\ phase' = [phase EXCEPT ![r] = "idle"]
  /\ UNCHANGED <<tableVars, rank, scan, held, rows, late>>

\* "queue changed; refresh and try again": leaving the with block rolls back.
RefuseReorder(r) ==
  /\ phase[r] = "locking" /\ scan[r] = {} /\ \E o \in Orders : ~Matches(r, o)
  /\ Release(r)
  /\ UNCHANGED <<tableVars, rank, late>>

\* Two requests wait for a row the other has locked.
Deadlocked(r, s) ==
  /\ phase[r] = "locking" /\ phase[s] = "locking"
  /\ scan[r] \cap held[s] # {} /\ scan[s] \cap held[r] # {}

\* PostgreSQL notices and aborts one.  The OperationalError is none of those
\* _reorder turns into an answer: the thread ends and the client gets none.
AbortDeadlocked(r) ==
  /\ \E s \in Requests \ {r} : Deadlocked(r, s)
  /\ Release(r)
  /\ UNCHANGED <<tableVars, rank, late>>

\* The connection is lost: PostgreSQL rolls back.
LoseConnection(r) ==
  /\ phase[r] = "locking"
  /\ Release(r)
  /\ UNCHANGED <<tableVars, rank, late>>

-----------------------------------------------------------------------------
(* The other statements, by the other HTTP threads and the loop.           *)

InsertRow ==
  /\ Submit
  /\ rank' = [j \in Jobs |-> IF status[j] = "absent" THEN 0 ELSE rank[j]]
  /\ late' = late \cup {j \in Jobs : status'[j] # status[j] /\ \E r \in Requests : phase[r] # "idle"}
  /\ UNCHANGED requestVars

\* UPDATE ... WHERE id = j waits for whoever has locked the row and tests the
\* rest of its condition afterwards.
CancelRow ==
  /\ \E j \in Touched : Unlocked(j) /\ RequestCancel(j)
  /\ UNCHANGED <<rank, requestVars, late>>

MarkRow ==
  /\ \E j \in Touched : Unlocked(j) /\ MarkRunning(j)
  /\ UNCHANGED <<rank, requestVars, late>>

\* mark_finished tests nothing else; _launch calls it while the row is queued when
\* the job could not be started.  (Which outcome it writes changes nothing here.)
FinishLockedRow ==
  /\ \E j \in Touched : Unlocked(j) /\ status[j] # "absent" /\ MarkFinished(j, "failed")
  /\ UNCHANGED <<rank, requestVars, late>>

\* PostgreSQL goes on with a transaction that waits for no one.
Progress(r) == \/ \E j \in Jobs : LockRow(r, j)
               \/ CommitReorder(r) \/ RefuseReorder(r) \/ AbortDeadlocked(r)

TxNext ==
  \/ \E r \in Requests : BeginReorder(r) \/ LoseConnection(r) \/ Progress(r)
  \/ InsertRow \/ CancelRow \/ MarkRow \/ FinishLockedRow

TxSpec == TxInit /\ [][TxNext]_txVars

\* Who waits for a row gets it in turn, and deadlocks are looked for
\* (deadlock_timeout).
TxFairSpec == TxSpec /\ \A r \in Requests : SF_txVars(Progress(r))

-----------------------------------------------------------------------------
(* Properties.                                                             *)

\* What a client gets when its order is accepted, whatever is submitted,
\* canceled or started between its SELECT and its commit: every job it named is
\* queued and has the place it was given, and no other job is in the queue but
\* those submitted while a request was under way.  (The code promises less than
\* its docstring, db.py:254-259: those late jobs are part of the queue too.)
CommitCoversSnapshot ==
  [][rank' # rank => \E o \in Orders :
       /\ Named(o) \subseteq Queued /\ Queued \ Named(o) \subseteq late
       /\ \A j \in Jobs : rank'[j] = IF j \in Named(o) THEN Position(o, j) ELSE rank[j]]_txVars

\* Positions stay distinct over any number of overlapping requests, except
\* beside a job submitted while one was under way: no lost update between two
\* orders of the same rows.
DistinctUnlessLate ==
  \A i, j \in Queued \ late : rank[i] = rank[j] /\ rank[i] # 0 => i = j

\* Every reorder request ends, with an answer or an abort, also when two wait
\* for each other's rows.
RequestsEnd == \A r \in Requests : phase[r] = "locking" ~> phase[r] = "idle"
=============================================================================
