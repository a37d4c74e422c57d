------------------------- MODULE TransactionsProofs --------------------------
(* What a reorder request guarantees when its statements interleave with those *)
(* of other requests: for any number of jobs and of requests.                  *)
EXTENDS Transactions, TLAPS

-----------------------------------------------------------------------------
(* The inductive invariant.  A transaction knows less and less of the queue as *)
(* jobs are submitted; the two facts that carry it to its commit are that what *)
(* it has locked stays queued and that what it misses came late.               *)

\* A row that a SELECT returned stays queued: its lock keeps every UPDATE away.
LockedQueued == \A r \in Requests : \A j \in rows[r] : status[j] = "queued"

\* A queued row is still to be locked, or has been returned, or was inserted
\* while a request was under way.
SeenOrLate ==
  \A r \in Requests : phase[r] = "locking" => Queued \ late \subseteq scan[r] \cup rows[r]

\* The row of a job that was not submitted has no position.
AbsentUnranked == \A j \in Jobs : status[j] = "absent" => rank[j] = 0

TxInv == TxTypeOK /\ LockedQueued /\ SeenOrLate /\ AbsentUnranked

\* The statements that change one row, which no request holds.
UpdateRow ==
  /\ \E j \in Jobs : /\ Unlocked(j)
                    /\ \/ RequestCancel(j) \/ MarkRunning(j)
                       \/ status[j] # "absent" /\ MarkFinished(j, "failed")
  /\ UNCHANGED <<rank, requestVars, late>>

\* Every step, with the statements of JobTable it is made of.
LEMMA TxSteps ==
  ASSUME [TxNext]_txVars
  PROVE  \/ \E r \in Requests : BeginReorder(r)
         \/ \E r \in Requests, j \in Jobs : LockRow(r, j)
         \/ \E r \in Requests : CommitReorder(r)
         \/ \E r \in Requests : Release(r) /\ UNCHANGED <<tableVars, rank, late>>
         \/ InsertRow \/ UpdateRow
         \/ UNCHANGED txVars
  BY TouchedAssumption
     DEF TxNext, Progress, RefuseReorder, AbortDeadlocked, LoseConnection, UpdateRow, CancelRow,
         MarkRow, FinishLockedRow, Ended

\* An order gives a place to every job it names, to each its own.
LEMMA Placed ==
  ASSUME NEW o \in Orders, NEW i \in Named(o), NEW j \in Named(o)
  PROVE  /\ Position(o, i) \in Nat
         /\ Position(o, i) = Position(o, j) => i = j
<1>1. DOMAIN o \subseteq Nat
  BY ReorderAssumption DEF Orders
<1>2. Position(o, i) \in DOMAIN o /\ o[Position(o, i)] = i
  BY DEF Position, Named
<1>3. Position(o, j) \in DOMAIN o /\ o[Position(o, j)] = j
  BY DEF Position, Named
<1> QED
  BY <1>1, <1>2, <1>3

\* Every place a commit assigns is a number.
LEMMA CommitTyped ==
  ASSUME TxTypeOK, NEW r \in Requests, CommitReorder(r)
  PROVE  rank' \in [Jobs -> Nat]
<1>1. PICK o \in Orders : rank' = [j \in Jobs |-> IF j \in Named(o) \cap Queued
                                                THEN Position(o, j) ELSE rank[j]]
  BY DEF CommitReorder
<1>2. ASSUME NEW j \in Jobs, j \in Named(o) PROVE Position(o, j) \in Nat
  BY <1>2, Placed
<1> QED
  BY <1>1, <1>2 DEF TxTypeOK, TableTypeOK

-----------------------------------------------------------------------------

\* Types, and the exclusion of row locks: no two transactions hold a row.
THEOREM TxTyping == TxSpec => []TxTypeOK
<1>1. TxInit => TxTypeOK
  BY DEF TxInit, TxTypeOK, TableInit, TableTypeOK, Statuses
<1>2. TxTypeOK /\ [TxNext]_txVars => TxTypeOK'
  <2> SUFFICES ASSUME TxTypeOK, [TxNext]_txVars PROVE TxTypeOK'
    OBVIOUS
  <2> USE DEF TxTypeOK, TableTypeOK
  <2>1. CASE \E r \in Requests : BeginReorder(r)
    BY <2>1 DEF BeginReorder, Queued, tableVars
  <2>2. CASE \E r \in Requests, j \in Jobs : LockRow(r, j)
    <3>1. PICK r \in Requests, j \in Jobs : LockRow(r, j)
      BY <2>2
    <3>2. held' \in [Requests -> SUBSET Jobs] /\ scan' \in [Requests -> SUBSET Jobs]
          /\ rows' \in [Requests -> SUBSET Jobs]
      BY <3>1 DEF LockRow
    <3>3. \A q \in Requests : rows'[q] \subseteq held'[q]
      BY <3>1 DEF LockRow
    <3>4. \A p, q \in Requests : held'[p] \cap held'[q] # {} => p = q
      BY <3>1 DEF LockRow, Unlocked
    <3> QED
      BY <3>1, <3>2, <3>3, <3>4 DEF LockRow, tableVars
  <2>3. CASE \E r \in Requests : CommitReorder(r)
    <3>1. PICK r \in Requests : CommitReorder(r)
      BY <2>3
    <3>2. rank' \in [Jobs -> Nat]
      BY <3>1, CommitTyped
    <3> QED
      BY <3>1, <3>2 DEF CommitReorder, Release, tableVars
  <2>4. CASE \E r \in Requests : Release(r) /\ UNCHANGED <<tableVars, rank, late>>
    BY <2>4 DEF Release, tableVars
  <2>5. CASE InsertRow
    BY <2>5 DEF InsertRow, Submit, SubmitJob, Statuses, requestVars
  <2>6. CASE UpdateRow
    <3>1. PICK j \in Jobs : RequestCancel(j) \/ MarkRunning(j) \/ MarkFinished(j, "failed")
      BY <2>6 DEF UpdateRow
    <3>2. TableTypeOK'
      <4>1. CASE RequestCancel(j)
        BY <4>1 DEF RequestCancel, Statuses, Ended
      <4>2. CASE MarkRunning(j)
        BY <4>2 DEF MarkRunning, Statuses
      <4>3. CASE MarkFinished(j, "failed")
        BY <4>3 DEF MarkFinished, Statuses, Ended
      <4> QED
        BY <3>1, <4>1, <4>2, <4>3
    <3> QED
      BY <2>6, <3>2 DEF UpdateRow, requestVars
  <2>7. CASE UNCHANGED txVars
    BY <2>7 DEF txVars, tableVars, requestVars
  <2> QED
    BY <2>1, <2>2, <2>3, <2>4, <2>5, <2>6, <2>7, TxSteps
<1> QED
  BY <1>1, <1>2, PTL DEF TxSpec

LEMMA TxInvInit == TxInit => LockedQueued /\ SeenOrLate /\ AbsentUnranked
  BY DEF TxInit, TableInit, LockedQueued, SeenOrLate, AbsentUnranked

\* The invariant over one step, action by action.
LEMMA TxInvStep ==
  ASSUME TxInv, [TxNext]_txVars
  PROVE  LockedQueued' /\ SeenOrLate' /\ AbsentUnranked'
<1> USE DEF TxInv, TxTypeOK, TableTypeOK
<1>1. CASE \E r \in Requests : BeginReorder(r)
  BY <1>1 DEF BeginReorder, tableVars, LockedQueued, SeenOrLate, AbsentUnranked, Queued
<1>2. CASE \E r \in Requests, j \in Jobs : LockRow(r, j)
  <2>1. PICK r \in Requests, j \in Jobs : LockRow(r, j)
    BY <1>2
  <2>2. LockedQueued'
    BY <2>1 DEF LockRow, tableVars, LockedQueued
  <2>3. SeenOrLate'
    BY <2>1 DEF LockRow, tableVars, SeenOrLate, Queued
  <2> QED
    BY <2>1, <2>2, <2>3 DEF LockRow, tableVars, AbsentUnranked
<1>3. CASE \E r \in Requests : CommitReorder(r)
  <2>1. PICK r \in Requests : CommitReorder(r)
    BY <1>3
  <2>2. LockedQueued' /\ SeenOrLate'
    BY <2>1 DEF CommitReorder, Release, tableVars, LockedQueued, SeenOrLate, Queued
  <2>3. AbsentUnranked'
    BY <2>1 DEF CommitReorder, tableVars, AbsentUnranked, Queued
  <2> QED
    BY <2>2, <2>3
<1>4. CASE \E r \in Requests : Release(r) /\ UNCHANGED <<tableVars, rank, late>>
  BY <1>4 DEF Release, tableVars, LockedQueued, SeenOrLate, AbsentUnranked, Queued
<1>5. CASE InsertRow
  <2>1. PICK j \in Jobs : SubmitJob(j)
    BY <1>5 DEF InsertRow, Submit
  <2>2. UNCHANGED <<phase, scan, held, rows>>
    BY <1>5 DEF InsertRow, requestVars
  <2>3. LockedQueued' /\ AbsentUnranked'
    BY <1>5, <2>1, <2>2 DEF InsertRow, SubmitJob, LockedQueued, AbsentUnranked
  <2>4. SeenOrLate'
    <3> SUFFICES ASSUME NEW r \in Requests, phase[r] = "locking",
                        NEW i \in Queued' \ late'
                 PROVE  i \in scan[r] \cup rows[r]
      BY <2>2 DEF SeenOrLate
    <3>1. i # j
      BY <1>5, <2>1, <2>2 DEF InsertRow, SubmitJob, Queued
    <3>2. i \in Queued \ late
      BY <1>5, <2>1, <3>1 DEF InsertRow, SubmitJob, Queued
    <3> QED
      BY <3>2 DEF SeenOrLate
  <2> QED
    BY <2>3, <2>4
<1>6. CASE UpdateRow
  <2>1. PICK j \in Jobs : /\ Unlocked(j)
                         /\ \/ RequestCancel(j) \/ MarkRunning(j)
                            \/ status[j] # "absent" /\ MarkFinished(j, "failed")
    BY <1>6 DEF UpdateRow
  <2>2. UNCHANGED <<phase, scan, held, rows, late, rank>>
    BY <1>6 DEF UpdateRow, requestVars
  <2>3. /\ \A i \in Jobs : i # j => status'[i] = status[i]
        /\ status'[j] = "absent" => status[j] = "absent"
        /\ status'[j] # "queued"
    BY <2>1 DEF RequestCancel, MarkRunning, MarkFinished
  <2>4. LockedQueued'
    BY <2>1, <2>2, <2>3 DEF LockedQueued, Unlocked
  <2>5. SeenOrLate' /\ AbsentUnranked'
    BY <2>2, <2>3 DEF SeenOrLate, AbsentUnranked, Queued
  <2> QED
    BY <2>4, <2>5
<1>7. CASE UNCHANGED txVars
  BY <1>7 DEF txVars, tableVars, requestVars, LockedQueued, SeenOrLate, AbsentUnranked, Queued
<1> QED
  BY <1>1, <1>2, <1>3, <1>4, <1>5, <1>6, <1>7, TxSteps

LEMMA TxInvariant == TxSpec => []TxInv
<1>1. TxTypeOK /\ LockedQueued /\ SeenOrLate /\ AbsentUnranked /\ [TxNext]_txVars
      => LockedQueued' /\ SeenOrLate' /\ AbsentUnranked'
  BY TxInvStep DEF TxInv
<1> QED
  BY <1>1, TxInvInit, TxTyping, PTL DEF TxSpec, TxInv

\* What a commit did: the order it accepted names queued jobs only, and leaves out
\* none but those submitted while a request was under way.
LEMMA CommitCovers ==
  ASSUME TxInv, NEW r \in Requests, CommitReorder(r)
  PROVE  \E o \in Orders :
           /\ Named(o) \subseteq Queued /\ Queued \ Named(o) \subseteq late
           /\ \A j \in Jobs : rank'[j] = IF j \in Named(o) THEN Position(o, j) ELSE rank[j]
<1>1. PICK o \in Orders :
        /\ Matches(r, o)
        /\ rank' = [j \in Jobs |-> IF j \in Named(o) \cap Queued
                                 THEN Position(o, j) ELSE rank[j]]
  BY DEF CommitReorder
<1>2. Named(o) \subseteq Queued
  BY <1>1 DEF TxInv, TxTypeOK, LockedQueued, Matches, Queued
<1>3. Queued \ Named(o) \subseteq late
  BY <1>1 DEF TxInv, SeenOrLate, Matches, CommitReorder
<1> QED
  BY <1>1, <1>2, <1>3

\* An accepted order names queued jobs only and leaves out none but those submitted
\* while a request was under way (CommitCoversSnapshot), although the rows of
\* reorder_queued_jobs are locked one by one among all other statements.
THEOREM OrdersCoverQueue == TxSpec => CommitCoversSnapshot
<1> DEFINE Covers == rank' # rank => \E o \in Orders :
             /\ Named(o) \subseteq Queued /\ Queued \ Named(o) \subseteq late
             /\ \A j \in Jobs : rank'[j] = IF j \in Named(o) THEN Position(o, j) ELSE rank[j]
<1>1. TxInv /\ [TxNext]_txVars => [Covers]_txVars
  <2> SUFFICES ASSUME TxInv, [TxNext]_txVars, rank' # rank
               PROVE  \E r \in Requests : CommitReorder(r)
    BY CommitCovers
  <2>1. ~InsertRow
    BY DEF InsertRow, Submit, SubmitJob, TxInv, TxTypeOK, TableTypeOK, AbsentUnranked
  <2> QED
    BY <2>1, TxSteps DEF BeginReorder, LockRow, UpdateRow, txVars
<1> QED
  BY <1>1, TxInvariant, PTL DEF TxSpec, CommitCoversSnapshot

\* No two queued jobs share a position, except beside a late submission
\* (DistinctUnlessLate), over any number of overlapping requests.
THEOREM PositionsUnlessLate == TxSpec => []DistinctUnlessLate
<1>1. TxInit => DistinctUnlessLate
  BY DEF TxInit, TableInit, DistinctUnlessLate, Queued
<1>2. TxInv /\ DistinctUnlessLate /\ [TxNext]_txVars => DistinctUnlessLate'
  <2> SUFFICES ASSUME TxInv, DistinctUnlessLate, [TxNext]_txVars,
                      NEW i \in Queued' \ late', NEW j \in Queued' \ late',
                      rank'[i] = rank'[j], rank'[i] # 0
               PROVE  i = j
    BY DEF DistinctUnlessLate
  <2> USE DEF TxInv, TxTypeOK, TableTypeOK, Queued
  <2>1. CASE \E r \in Requests : CommitReorder(r)
    <3>1. i \in Queued \ late /\ j \in Queued \ late
      BY <2>1 DEF CommitReorder, tableVars
    <3>2. PICK o \in Orders :
            /\ Queued \ Named(o) \subseteq late
            /\ \A k \in Jobs : rank'[k] = IF k \in Named(o) THEN Position(o, k) ELSE rank[k]
      BY <2>1, CommitCovers
    <3>3. i \in Named(o) /\ j \in Named(o)
      BY <3>1, <3>2
    <3> QED
      BY <3>1, <3>2, <3>3, Placed
  <2>2. CASE InsertRow
    BY <2>2 DEF InsertRow, Submit, SubmitJob, DistinctUnlessLate
  <2>3. CASE UpdateRow
    BY <2>3 DEF UpdateRow, RequestCancel, MarkRunning, MarkFinished, DistinctUnlessLate
  <2> QED
    BY <2>1, <2>2, <2>3, TxSteps DEF BeginReorder, LockRow, DistinctUnlessLate, txVars, tableVars
<1> QED
  BY <1>1, <1>2, TxInvariant, PTL DEF TxSpec
=============================================================================
