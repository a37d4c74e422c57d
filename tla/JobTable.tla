------------------------------ MODULE JobTable ------------------------------
(***************************************************************************)
(* The jobs table of gpuq/db.py (schema sql/001_init.sql, 002): what each  *)
(* statement of class Database that changes the life of a row does to it,  *)
(* whoever calls it.  One operation is one UPDATE or INSERT, which         *)
(* PostgreSQL runs as one step.  A row keeps the columns that decide       *)
(* whether a job runs: status and cancel_requested.  Its manual_rank and   *)
(* the transaction of several statements that writes it are in module      *)
(* Transactions.  The module is used three times: alone, where any client  *)
(* may issue any statement at any time, inside Scheduler, which says who   *)
(* does, and inside Transactions, which says what waits for what.          *)
(***************************************************************************)
EXTENDS Integers, FiniteSets

CONSTANT Jobs   \* the job ids that submit_job may hand out

ASSUME JobsAssumption == IsFiniteSet(Jobs)

VARIABLES
  status,      \* status[j], "absent" before the INSERT of job j
  cancel       \* cancel_requested[j]

tableVars == <<status, cancel>>

-----------------------------------------------------------------------------
(* The schema.                                                             *)

Ended    == {"succeeded", "failed", "canceled", "timed_out", "orphaned"}
Statuses == {"absent", "queued", "running"} \cup Ended

Queued  == {j \in Jobs : status[j] = "queued"}
Active  == {j \in Jobs : status[j] = "running"}

TableInit ==
  /\ status = [j \in Jobs |-> "absent"]
  /\ cancel = [j \in Jobs |-> FALSE]

-----------------------------------------------------------------------------
(* The statements.                                                         *)

(* Operators called Mutant... are faulty variants of the definition after    *)
(* them; no specification uses them.  README.md says which property each one *)
(* breaks.                                                                   *)

\* submit_job: INSERT ... 'queued' under a fresh uuid, other columns default.
SubmitJob(j) ==
  /\ status[j] = "absent"
  /\ status' = [status EXCEPT ![j] = "queued"]
  /\ cancel' = [cancel EXCEPT ![j] = FALSE]

MutantMarkRunningUnguarded(j) ==
  status' = [status EXCEPT ![j] = "running"] /\ UNCHANGED cancel
MutantMarkRunningLost(j) == UNCHANGED <<status, cancel>>

\* mark_running: UPDATE ... WHERE id = j AND status = 'queued'.  When the row
\* is no longer queued no row matches and the caller is not told.
MarkRunning(j) ==
  /\ status' = IF status[j] = "queued" THEN [status EXCEPT ![j] = "running"]
               ELSE status
  /\ UNCHANGED cancel

\* mark_finished: UPDATE ... WHERE id = j, whatever the status was.
MarkFinished(j, s) ==
  /\ status' = [status EXCEPT ![j] = s]
  /\ UNCHANGED cancel

MutantRequestCancelAny(j) ==
  /\ status[j] # "absent"
  /\ cancel' = [cancel EXCEPT ![j] = TRUE]
  /\ status' = IF status[j] # "running" THEN [status EXCEPT ![j] = "canceled"] ELSE status

\* request_cancel: a queued row is canceled at once, a running one is flagged;
\* any other row does not match (the caller answers 409).
RequestCancel(j) ==
  /\ status[j] \in {"queued", "running"}
  /\ cancel' = [cancel EXCEPT ![j] = TRUE]
  /\ status' = IF status[j] = "queued" THEN [status EXCEPT ![j] = "canceled"]
               ELSE status

\* orphan_interrupted_jobs, run once by every new server process.
OrphanInterruptedJobs ==
  /\ status' = [j \in Jobs |-> IF j \in Active THEN "orphaned" ELSE status[j]]
  /\ UNCHANGED cancel

-----------------------------------------------------------------------------
(* The table alone: every client may issue every statement at any time,    *)
(* except that only rows that exist are ever finished.                     *)

Submit      == \E j \in Jobs : SubmitJob(j)
StartRow    == \E j \in Jobs : MarkRunning(j)
FinishRow   == \E j \in Jobs : /\ status[j] # "absent"
                               /\ \E s \in Ended \ {"orphaned"} : MarkFinished(j, s)
Cancel      == \E j \in Jobs : RequestCancel(j)
Orphan      == OrphanInterruptedJobs

TableNext == Submit \/ StartRow \/ FinishRow \/ Cancel \/ Orphan

TableSpec == TableInit /\ [][TableNext]_tableVars

-----------------------------------------------------------------------------
(* Properties.                                                             *)

TableTypeOK ==
  /\ status \in [Jobs -> Statuses]
  /\ cancel \in [Jobs -> BOOLEAN]

\* A job that reached a terminal status is never queued or running again, so
\* no statement of db.py can make the scheduler launch it a second time.
NoResurrection ==
  [][\A j \in Jobs : status[j] \in Ended => status'[j] \in Ended]_tableVars
=============================================================================
