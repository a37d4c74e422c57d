---------------------------- MODULE PolicyProofs -----------------------------
(* What choose_candidate promises for any kinds of jobs, any card, limits and  *)
(* window, any number of jobs that run together and any order of submissions,  *)
(* ends and reorders.                                                          *)
EXTENDS Policy, SumLemmas, SequenceTheorems, FunctionTheorems

-----------------------------------------------------------------------------
(* Queues and orders.                                                      *)

\* A queue in which no job is twice gives every job one place.
LEMMA Placing ==
  ASSUME NEW q \in Seq(Slots), \A i, j \in DOMAIN q : i < j => q[i] # q[j]
  PROVE  /\ \A i \in DOMAIN q : Place(q, q[i]) = i
         /\ \A s \in {q[i] : i \in DOMAIN q} : Place(q, s) \in DOMAIN q /\ q[Place(q, s)] = s
<1>1. DOMAIN q = 1..Len(q) /\ Len(q) \in Nat
  BY LenProperties
<1>2. \A i, j \in DOMAIN q : q[i] = q[j] => i = j
  BY <1>1
<1>3. ASSUME NEW s, NEW i \in DOMAIN q, q[i] = s PROVE Place(q, s) = i
  <2>1. Place(q, s) \in DOMAIN q /\ q[Place(q, s)] = s
    BY <1>3, Zenon DEF Place
  <2> QED
    BY <1>2, <1>3, <2>1
<1> QED
  BY <1>3

\* Taking one place out moves up those behind it.
LEMMA Removal ==
  ASSUME NEW S, NEW q \in Seq(S), NEW k \in DOMAIN q
  PROVE  /\ RemoveAt(q, k) \in Seq(S)
         /\ Len(RemoveAt(q, k)) = Len(q) - 1
         /\ \A i \in DOMAIN RemoveAt(q, k) :
              RemoveAt(q, k)[i] = IF i < k THEN q[i] ELSE q[i + 1]
<1> DEFINE front == SubSeq(q, 1, k - 1)
           back  == SubSeq(q, k + 1, Len(q))
<1>1. Len(q) \in Nat /\ k \in 1..Len(q) /\ DOMAIN q = 1..Len(q)
  BY LenProperties
<1>2. front \in Seq(S) /\ Len(front) = k - 1 /\ \A i \in 1..(k - 1) : front[i] = q[i]
  BY <1>1, SubSeqProperties
<1>3. back \in Seq(S) /\ Len(back) = Len(q) - k /\ \A i \in 1..(Len(q) - k) : back[i] = q[k + i]
  BY <1>1, SubSeqProperties
<1> HIDE DEF front, back
<1>4. /\ front \o back \in Seq(S) /\ Len(front \o back) = Len(q) - 1
      /\ \A i \in 1..(Len(q) - 1) :
           (front \o back)[i] = IF i <= k - 1 THEN front[i] ELSE back[i - (k - 1)]
  <2>1. /\ Len(front \o back) = Len(front) + Len(back)
        /\ front \o back \in Seq(S)
        /\ \A i \in 1..(Len(front) + Len(back)) : (front \o back)[i] =
             IF i <= Len(front) THEN front[i] ELSE back[i - Len(front)]
    BY <1>2, <1>3, ConcatProperties
  <2>2. Len(front) + Len(back) = Len(q) - 1
    BY <1>1, <1>2, <1>3
  <2> QED
    BY <1>2, <2>1, <2>2
<1>5. RemoveAt(q, k) = front \o back
  BY DEF RemoveAt, front, back
<1>6. \A i \in 1..(Len(q) - 1) : (front \o back)[i] = IF i < k THEN q[i] ELSE q[i + 1]
  <2> SUFFICES ASSUME NEW i \in 1..(Len(q) - 1)
               PROVE  (front \o back)[i] = IF i < k THEN q[i] ELSE q[i + 1]
    OBVIOUS
  <2>1. CASE i < k
    BY <1>1, <1>2, <1>4, <2>1
  <2>2. CASE ~(i < k)
    <3>1. i - (k - 1) \in 1..(Len(q) - k) /\ k + (i - (k - 1)) = i + 1
      BY <1>1, <2>2
    <3>2. (front \o back)[i] = back[i - (k - 1)]
      BY <1>1, <1>4, <2>2
    <3> QED
      BY <1>3, <2>2, <3>1, <3>2
  <2> QED
    BY <2>1, <2>2
<1> QED
  BY <1>1, <1>4, <1>5, <1>6, LenProperties

\* Such a queue is as long as it has jobs.
LEMMA Counting ==
  ASSUME NEW q \in Seq(Slots), \A i, j \in DOMAIN q : i < j => q[i] # q[j]
  PROVE  Len(q) = Cardinality({q[i] : i \in DOMAIN q})
<1> DEFINE N == 1..Len(q)
           T == {q[i] : i \in N}
           f == [i \in N |-> q[i]]
<1>1. DOMAIN q = N /\ Len(q) \in Nat
  BY LenProperties
<1>2. f \in Bijection(N, T)
  <2>1. f \in [N -> T] /\ \A i, j \in N : f[i] = f[j] => i = j
    BY <1>1
  <2>2. \A x \in T : \E i \in N : f[i] = x
    OBVIOUS
  <2> HIDE DEF f, T, N
  <2> QED
    BY <2>1, <2>2, Fun_IsBij
<1>3. ExistsBijection(1..Len(q), T)
  BY <1>2 DEF ExistsBijection
<1>4. Cardinality(T) = Len(q)
  <2> HIDE DEF T
  <2> QED
    BY <1>1, <1>3, FS_CountingElements
<1> QED
  BY <1>1, <1>4

\* An order of all jobs of a set gives each of them a place.
LEMMA Ordering ==
  ASSUME NEW S, IsFiniteSet(S), NEW o \in SetToSeqs(S), NEW s \in S
  PROVE  Place(o, s) \in 1..Cardinality(S) /\ o[Place(o, s)] = s
<1> DEFINE N == 1..Cardinality(S)
           T == {o[i] : i \in N}
<1>1. o \in [N -> S] /\ \A i, j \in N : o[i] = o[j] => i = j
  BY DEF SetToSeqs
<1>2. o \in Bijection(N, T)
  <2>1. o \in [N -> T] /\ \A x \in T : \E i \in N : o[i] = x
    BY <1>1
  <2> HIDE DEF N, T
  <2> QED
    BY <1>1, <2>1, Fun_IsBij
<1>3. Cardinality(S) \in Nat
  BY FS_CardinalityType
<1>4. ExistsBijection(1..Cardinality(S), T)
  BY <1>2 DEF ExistsBijection
<1>5. Cardinality(T) = Cardinality(S)
  <2> HIDE DEF T
  <2> QED
    BY <1>3, <1>4, FS_CountingElements
<1>6. T \in SUBSET S
  BY <1>1
<1>7. T = S
  <2> HIDE DEF T
  <2> QED
    BY <1>5, <1>6, FS_Subset
<1>8. \E i \in DOMAIN o : o[i] = s
  BY <1>1, <1>7
<1>9. Place(o, s) \in DOMAIN o /\ o[Place(o, s)] = s
  BY <1>8, Zenon DEF Place
<1> QED
  BY <1>1, <1>9

-----------------------------------------------------------------------------
(* Steps of time.                                                          *)

LEMMA Division ==
  ASSUME NEW d \in Nat \ {0}, NEW n \in Nat
  PROVE  n \div d \in Nat /\ n = d * (n \div d) + (n % d)
OBVIOUS

LEMMA Multiple == ASSUME NEW d \in Nat \ {0}, NEW k \in Nat PROVE (d * k) % d = 0
OBVIOUS

LEMMA NextMultiple ==
  ASSUME NEW d \in Nat \ {0}, NEW k \in Nat, NEW l \in Nat, d * k < d * l
  PROVE  d * k + d <= d * l
<1>1. k < l
  <2>1. CASE l <= k
    <3>1. PICK i \in Nat : k = l + i
      BY <2>1
    <3>2. d * k = d * l + d * i
      BY <3>1
    <3>3. d * i \in Nat /\ d * l \in Nat
      OBVIOUS
    <3> QED
      BY <3>2, <3>3
  <2> QED
    BY <2>1
<1>2. PICK i \in Nat : l = k + 1 + i
  BY <1>1
<1>3. d * l = d * k + d + d * i
  BY <1>2
<1>4. d * i \in Nat /\ d * k \in Nat
  OBVIOUS
<1> QED
  BY <1>3, <1>4

\* A job that has not run for its estimate after some steps has a whole step left.
LEMMA WholeSteps ==
  ASSUME NEW d \in Nat \ {0}, NEW m \in Nat, NEW e \in Nat,
         m % d = 0, e % d = 0, e < m
  PROVE  e + d <= m /\ (e + d) % d = 0
<1> DEFINE k == e \div d
           l == m \div d
<1>1. k \in Nat /\ l \in Nat /\ e = d * k /\ m = d * l
  BY Division
<1> HIDE DEF k, l
<1>2. e + d <= m
  BY <1>1, NextMultiple
<1>3. d * k + d = d * (k + 1)
  BY <1>1
<1>4. (d * (k + 1)) % d = 0
  BY <1>1, Multiple
<1> QED
  BY <1>1, <1>2, <1>3, <1>4

-----------------------------------------------------------------------------
(* The score.                                                              *)

\* The rows in the window, in a form the sums' lemmas apply to.
RecentOK == recent \in [Agents -> [Recent -> Nat]]

LEMMA RecentFinite == IsFiniteSet(Recent) /\ Recent \subseteq Nat
<1>1. Window \div Step \in Nat
  BY PolicyAssumption, Division
<1> QED
  BY <1>1, FS_Interval DEF Recent

LEMMA UsedType == ASSUME RecentOK, NEW a \in Agents PROVE Used(a) \in Nat
<1>1. SumOf(recent[a], Recent) \in Nat
  BY RecentFinite, SumType DEF RecentOK
<1> QED
  BY <1>1 DEF Used, SumOf

LEMMA AgedType ==
  ASSUME RecentOK, active \subseteq Slots, NEW a \in Agents PROVE Aged(a) \in [Recent -> Nat]
<1> SUFFICES ASSUME NEW k \in Recent PROVE Aged(a)[k] \in Nat
  BY DEF Aged
<1> DEFINE S == {s \in active : Kind[s].agent = a /\ elapsed[s] = (k - 1) * Step}
<1>1. SumOf(StepUse, S) \in Nat
  <2>1. StepUse \in [Slots -> Nat]
    BY PolicyAssumption DEF StepUse
  <2>2. S \in SUBSET Slots
    OBVIOUS
  <2> HIDE DEF S
  <2> QED
    BY <2>1, <2>2, PolicyAssumption, SumType
<1>2. CASE k = 0
  BY <1>2 DEF Aged
<1>3. CASE k # 0
  <2>1. k - 1 \in Recent
    BY <1>3, RecentFinite, PolicyAssumption, Division DEF Recent
  <2>2. recent[a][k - 1] \in Nat
    BY <2>1 DEF RecentOK
  <2>3. Aged(a)[k] = recent[a][k - 1] + SumOf(StepUse, S)
    BY <1>3 DEF Aged, SumOf
  <2> HIDE DEF S
  <2> QED
    BY <1>1, <2>2, <2>3
<1> QED
  BY <1>2, <1>3

LEMMA CapacityType == Capacity \in Nat \ {0}
<1>1. Total \in Nat /\ Window \in Nat
  BY PolicyAssumption
<1>2. Total * Window \in Nat
  BY <1>1
<1> QED
  BY <1>2 DEF Capacity, Larger

\* Of two jobs of one kind the one that has waited longer does not score less.
LEMMA OlderScoresMore ==
  ASSUME RecentOK, NEW s \in Slots, NEW t \in Slots, Kind[s] = Kind[t],
         age[s] \in Nat, age[t] \in Nat, age[s] <= age[t]
  PROVE  ~(Score(s) - Score(t) > 0)
<1> DEFINE c == Capacity
           base == 3 * c * Kind[s].priority
           fine == Penalty(s)
<1>1. c \in Nat
  BY CapacityType
<1>2. base \in Int
  <2>1. Kind[s].priority \in Int
    BY PolicyAssumption
  <2> HIDE DEF c
  <2> QED
    BY <1>1, <2>1
<1>3. fine \in Int
  <2>1. Used(Kind[s].agent) \in Nat
    BY UsedType DEF Agents
  <2> QED
    BY <1>1, <2>1 DEF Penalty, Smaller
<1>4. Score(s) = base + c * age[s] - fine /\ Score(t) = base + c * age[t] - fine
  BY DEF Score, AgeBonus, Penalty
<1> HIDE DEF c, base, fine
<1> DEFINE n == age[t] - age[s]
<1>5. n \in Nat /\ age[t] = age[s] + n
  OBVIOUS
<1> HIDE DEF n
<1>6. c * age[t] = c * age[s] + c * n /\ c * n \in Nat /\ c * age[s] \in Nat
  BY <1>1, <1>5
<1> QED
  BY <1>2, <1>3, <1>4, <1>6

-----------------------------------------------------------------------------
(* The inductive invariant.  The queue is in the order of submitted_at, so no *)
(* job in it has waited longer than one in front; a running job is some steps *)
(* into its estimate; and a job that passed the head has at most as long to   *)
(* run as each job it was started beside.                                     *)

QueueOK ==
  /\ queue \in Seq(Slots)
  /\ \A i, j \in DOMAIN queue : i < j => queue[i] # queue[j] /\ age[queue[j]] <= age[queue[i]]
  /\ age \in [Slots -> 0..AgeCap]

TimesOK ==
  /\ elapsed \in [Slots -> Nat]
  /\ \A s \in Slots : elapsed[s] <= Kind[s].minutes /\ elapsed[s] % Step = 0

BesideOK ==
  /\ active \in SUBSET (Slots \ Waiting)
  /\ beside \in [Slots -> SUBSET active]
  /\ \A c \in active : \A a \in beside[c] : Remaining(c) <= Remaining(a)

RanksOK == orders \in 0..MaxOrders /\ rank \in [Slots -> 0..Cardinality(Slots)]

PolicyInv == QueueOK /\ TimesOK /\ BesideOK /\ RanksOK /\ RecentOK

LEMMA WaitingSlots == ASSUME QueueOK PROVE Waiting \subseteq Slots
  BY LenProperties DEF QueueOK, Waiting

LEMMA RemainingType ==
  ASSUME TimesOK, NEW s \in Slots
  PROVE  Remaining(s) = Kind[s].minutes - elapsed[s] /\ Remaining(s) \in Nat
  BY PolicyAssumption DEF TimesOK, Remaining, Larger

\* No running job ends before the estimate that lets a job pass the head.
LEMMA ReleaseIsEarliest ==
  ASSUME TimesOK, active \subseteq Slots, NEW a \in active
  PROVE  EarliestRelease \in Nat /\ EarliestRelease <= Remaining(a)
<1> DEFINE R == {Remaining(s) : s \in active}
           f == [s \in active |-> Remaining(s)]
<1>1. IsFiniteSet(R)
  <2>1. IsFiniteSet(active)
    BY PolicyAssumption, FS_Subset
  <2>2. f \in Surjection(active, R)
    BY DEF Surjection
  <2> HIDE DEF f, R
  <2> QED
    BY <2>1, <2>2, FS_Surjection
<1>2. R \subseteq Nat /\ R # {} /\ Remaining(a) \in R
  BY RemainingType
<1>3. EarliestRelease = Min(R)
  BY DEF EarliestRelease
<1> HIDE DEF R
<1> QED
  BY <1>1, <1>2, <1>3, Least

\* What choose_candidate returns: the head, or a job that fits when the head does
\* not and that ends before any running job.
LEMMA Chosen ==
  ASSUME NEW c \in Choice
  PROVE  /\ c.head \in First(Waiting)
         /\ \/ c.job = c.head
            \/ c.job \in First(Backfill(c.head)) /\ ~(Kind[c.head].vram <= Fit)
<1>1. PICK h \in First(Waiting) :
        \E s \in IF Kind[h].vram <= Fit THEN {h} ELSE First(Backfill(h)) :
          c = [job |-> s, head |-> h]
  BY DEF Choice
<1>2. PICK s \in IF Kind[h].vram <= Fit THEN {h} ELSE First(Backfill(h)) :
        c = [job |-> s, head |-> h]
  BY <1>1
<1>3. c.job = s /\ c.head = h
  BY <1>2
<1> QED
  BY <1>2, <1>3

LEMMA PassesHead ==
  ASSUME TimesOK, active \subseteq Slots, Waiting \subseteq Slots, NEW h, NEW s \in Backfill(h)
  PROVE  /\ s \in Waiting /\ s # h
         /\ \A a \in active : Kind[s].minutes <= Remaining(a)
<1>1. s \in Waiting /\ s # h /\ Kind[s].minutes <= EarliestRelease
  BY DEF Backfill
<1>2. ASSUME NEW a \in active PROVE Kind[s].minutes <= Remaining(a)
  <2>1. EarliestRelease \in Nat /\ EarliestRelease <= Remaining(a) /\ Remaining(a) \in Nat
    BY ReleaseIsEarliest, RemainingType
  <2>2. Kind[s].minutes \in Nat
    BY <1>1, PolicyAssumption
  <2> QED
    BY <1>1, <2>1, <2>2
<1> QED
  BY <1>1, <1>2

LEMMA JobWaits ==
  ASSUME QueueOK, TimesOK, active \subseteq Slots, NEW c \in Choice
  PROVE  c.job \in Waiting /\ c.job \in Slots
  BY Chosen, PassesHead, WaitingSlots DEF First

-----------------------------------------------------------------------------
(* The invariant is inductive.                                             *)

LEMMA InvInit == PolicyInit => PolicyInv
<1> SUFFICES ASSUME PolicyInit PROVE PolicyInv
  OBVIOUS
<1>1. Cardinality(Slots) \in Nat
  BY PolicyAssumption, FS_CardinalityType
<1>2. 0 % Step = 0
  BY PolicyAssumption
<1>3. QueueOK
  BY DEF PolicyInit, QueueOK, AgeCap
<1>4. TimesOK
  BY <1>2, PolicyAssumption DEF PolicyInit, TimesOK
<1>5. BesideOK
  BY DEF PolicyInit, BesideOK, Waiting
<1>6. RanksOK /\ RecentOK
  BY <1>1, PolicyAssumption DEF PolicyInit, RanksOK, RecentOK
<1> QED
  BY <1>3, <1>4, <1>5, <1>6 DEF PolicyInv

\* A submitted job stands behind all others, and has waited less.
LEMMA SubmitKeeps ==
  ASSUME PolicyInv, NEW s \in Slots, SubmitSlot(s) PROVE PolicyInv'
<1> USE DEF PolicyInv
<1>1. DOMAIN queue = 1..Len(queue) /\ Len(queue) \in Nat
  BY LenProperties DEF QueueOK
<1>2. /\ queue' \in Seq(Slots) /\ DOMAIN queue' = 1..(Len(queue) + 1)
      /\ \A i \in 1..Len(queue) : queue'[i] = queue[i]
      /\ queue'[Len(queue) + 1] = s
  <2>1. queue' = Append(queue, s)
    BY DEF SubmitSlot
  <2> QED
    BY <1>1, <2>1, AppendProperties, LenProperties DEF QueueOK
<1>3. \A i \in DOMAIN queue : queue[i] # s /\ age'[queue[i]] = age[queue[i]] /\ queue[i] \in Slots
  BY <1>1 DEF SubmitSlot, Waiting, QueueOK
<1>4. age' \in [Slots -> 0..AgeCap] /\ age'[s] = 0
  BY DEF SubmitSlot, QueueOK, AgeCap
<1>5. QueueOK'
  <2> SUFFICES ASSUME NEW i \in DOMAIN queue', NEW j \in DOMAIN queue', i < j
               PROVE  queue'[i] # queue'[j] /\ age'[queue'[j]] <= age'[queue'[i]]
    BY <1>2, <1>4 DEF QueueOK
  <2>1. i \in DOMAIN queue
    BY <1>1, <1>2
  <2>2. CASE j \in DOMAIN queue
    BY <1>1, <1>2, <1>3, <2>1, <2>2 DEF QueueOK
  <2>3. CASE j \notin DOMAIN queue
    <3>1. queue'[j] = s /\ queue'[i] = queue[i]
      BY <1>1, <1>2, <2>1, <2>3
    <3>2. age'[queue[i]] \in Nat
      BY <1>3, <1>4, <2>1
    <3> QED
      BY <1>3, <1>4, <2>1, <3>1, <3>2
  <2> QED
    BY <2>2, <2>3
<1>6. Waiting' = Waiting \cup {s}
  BY <1>1, <1>2 DEF Waiting
<1>7. TimesOK'
  BY DEF SubmitSlot, TimesOK
<1>8. BesideOK'
  BY <1>6 DEF SubmitSlot, BesideOK, Remaining, Larger
<1>9. RanksOK' /\ RecentOK'
  BY PolicyAssumption, FS_CardinalityType DEF SubmitSlot, RanksOK, RecentOK
<1> QED
  BY <1>5, <1>7, <1>8, <1>9

LEMMA EndKeeps ==
  ASSUME PolicyInv, NEW s \in Slots, EndSlot(s) PROVE PolicyInv'
<1> USE DEF PolicyInv
<1>1. QueueOK' /\ Waiting' = Waiting
  BY DEF EndSlot, QueueOK, Waiting
<1>2. TimesOK'
  <2>1. 0 % Step = 0
    BY PolicyAssumption
  <2> QED
    BY <2>1, PolicyAssumption DEF EndSlot, TimesOK
<1>3. \A a \in active' : a \in active /\ Remaining(a)' = Remaining(a)
  BY DEF EndSlot, Remaining, Larger, BesideOK, TimesOK
<1>4. beside' \in [Slots -> SUBSET active'] /\ \A c \in active' : beside'[c] \subseteq beside[c]
  BY DEF EndSlot, BesideOK
<1>5. active' \in SUBSET (Slots \ Waiting')
  BY <1>1 DEF EndSlot, BesideOK
<1>6. \A c \in active' : \A a \in beside'[c] : Remaining(c)' <= Remaining(a)'
  BY <1>3, <1>4, <1>5 DEF BesideOK
<1>7. BesideOK'
  BY <1>4, <1>5, <1>6 DEF BesideOK
<1>8. RanksOK' /\ RecentOK'
  BY DEF EndSlot, RanksOK, RecentOK
<1> QED
  BY <1>1, <1>2, <1>7, <1>8

LEMMA OrderKeeps ==
  ASSUME PolicyInv, OrderQueue PROVE PolicyInv'
<1> USE DEF PolicyInv
<1> DEFINE Seen(n) == {queue[i] : i \in 1..n}
<1>0. PICK n \in DOMAIN queue : \E o \in SetToSeqs(Seen(n)) :
        rank' = [s \in Slots |-> IF s \in Seen(n) THEN Place(o, s) ELSE rank[s]]
  BY DEF OrderQueue
<1>1. PICK o \in SetToSeqs(Seen(n)) :
        rank' = [s \in Slots |-> IF s \in Seen(n) THEN Place(o, s) ELSE rank[s]]
  BY <1>0
<1>2. /\ IsFiniteSet(Seen(n)) /\ Cardinality(Seen(n)) \in Nat
      /\ Cardinality(Slots) \in Nat /\ Cardinality(Seen(n)) <= Cardinality(Slots)
  <2>1. n \in 1..Len(queue) /\ Len(queue) \in Nat /\ DOMAIN queue = 1..Len(queue)
    BY LenProperties DEF QueueOK
  <2>2. Seen(n) \subseteq Slots
    BY <2>1, WaitingSlots DEF Waiting
  <2> HIDE DEF Seen
  <2> QED
    BY <2>2, PolicyAssumption, FS_Subset, FS_CardinalityType
<1> HIDE DEF Seen
<1>3. \A s \in Seen(n) : Place(o, s) \in 1..Cardinality(Seen(n))
  BY <1>2, Ordering
<1>4. rank' \in [Slots -> 0..Cardinality(Slots)]
  BY <1>1, <1>2, <1>3 DEF RanksOK
<1>5. orders' \in 0..MaxOrders
  BY PolicyAssumption DEF OrderQueue, RanksOK
<1>6. QueueOK' /\ TimesOK' /\ RecentOK'
  BY DEF OrderQueue, QueueOK, TimesOK, RecentOK
<1>7. BesideOK'
  BY DEF OrderQueue, BesideOK, Remaining, Larger, Waiting
<1> QED
  BY <1>4, <1>5, <1>6, <1>7 DEF RanksOK

\* The jobs behind the one that starts move up; and one that passed the head has
\* its whole estimate to run, which no job beside it exceeds less.
LEMMA StartKeeps ==
  ASSUME PolicyInv, StartCandidate PROVE PolicyInv'
<1> USE DEF PolicyInv
<1>1. PICK c \in Choice :
        /\ queue' = RemoveAt(queue, Place(queue, c.job))
        /\ active' = active \cup {c.job}
        /\ elapsed' = [elapsed EXCEPT ![c.job] = 0]
        /\ beside' = [beside EXCEPT ![c.job] = IF c.job = c.head THEN {} ELSE active]
        /\ rank' = [rank EXCEPT ![c.job] = 0] /\ age' = [age EXCEPT ![c.job] = 0]
        /\ UNCHANGED <<orders, recent>>
  BY Zenon DEF StartCandidate
<1> DEFINE s == c.job
           k == Place(queue, s)
<1>2. active \subseteq Slots /\ Waiting \subseteq Slots
  BY WaitingSlots DEF BesideOK
<1>3. s \in Waiting /\ s \in Slots /\ s \notin active
  BY <1>2, JobWaits DEF BesideOK
<1>4. k \in DOMAIN queue /\ queue[k] = s
  BY <1>3, Placing DEF QueueOK, Waiting
<1>5. s # c.head => \A a \in active : Kind[s].minutes <= Remaining(a)
  BY <1>2, Chosen, PassesHead DEF First
<1> HIDE DEF s
<1> HIDE DEF k
<1>6. /\ queue' = RemoveAt(queue, k) /\ active' = active \cup {s}
      /\ elapsed' = [elapsed EXCEPT ![s] = 0] /\ age' = [age EXCEPT ![s] = 0]
      /\ rank' = [rank EXCEPT ![s] = 0]
      /\ beside' = [beside EXCEPT ![s] = IF s = c.head THEN {} ELSE active]
  BY <1>1 DEF s, k
<1>7. DOMAIN queue = 1..Len(queue) /\ Len(queue) \in Nat
  BY LenProperties DEF QueueOK
<1>8. /\ queue' \in Seq(Slots) /\ DOMAIN queue' = 1..(Len(queue) - 1)
      /\ \A i \in DOMAIN queue' : queue'[i] = IF i < k THEN queue[i] ELSE queue[i + 1]
  <2>1. queue \in Seq(Slots)
    BY DEF QueueOK
  <2>2. /\ RemoveAt(queue, k) \in Seq(Slots)
        /\ Len(RemoveAt(queue, k)) = Len(queue) - 1
        /\ \A i \in DOMAIN RemoveAt(queue, k) :
             RemoveAt(queue, k)[i] = IF i < k THEN queue[i] ELSE queue[i + 1]
    BY <1>4, <2>1, Removal
  <2>3. DOMAIN RemoveAt(queue, k) = 1..(Len(queue) - 1)
    BY <2>2, LenProperties
  <2> QED
    BY <1>6, <2>2, <2>3
<1> DEFINE up(i) == IF i < k THEN i ELSE i + 1
<1>9. \A i \in DOMAIN queue' : up(i) \in DOMAIN queue /\ up(i) # k /\ queue'[i] = queue[up(i)]
  BY <1>4, <1>7, <1>8
<1>10. \A i, j \in DOMAIN queue' : i < j => up(i) < up(j)
  BY <1>4, <1>7, <1>8
<1> HIDE DEF up
<1>11. \A i, j \in DOMAIN queue : queue[i] = queue[j] => i = j
  BY <1>7 DEF QueueOK
<1>12. \A i \in DOMAIN queue' : queue'[i] # s /\ age'[queue'[i]] = age[queue'[i]]
  BY <1>4, <1>6, <1>9, <1>11 DEF QueueOK
<1>13. age' \in [Slots -> 0..AgeCap]
  BY <1>3, <1>6 DEF QueueOK, AgeCap
<1>14. QueueOK'
  BY <1>8, <1>9, <1>10, <1>12, <1>13 DEF QueueOK
<1>15. Waiting' \subseteq Waiting \ {s}
  BY <1>9, <1>12 DEF Waiting
<1>16. TimesOK'
  <2>1. 0 % Step = 0
    BY PolicyAssumption
  <2> QED
    BY <1>3, <1>6, <2>1, PolicyAssumption DEF TimesOK
<1>17. active' \in SUBSET (Slots \ Waiting')
  BY <1>3, <1>6, <1>15 DEF BesideOK
<1>18. beside' \in [Slots -> SUBSET active']
  BY <1>3, <1>6 DEF BesideOK
<1>19. ASSUME NEW d \in active', NEW a \in beside'[d] PROVE Remaining(d)' <= Remaining(a)'
  <2>1. a \in active /\ a \in Slots /\ a # s
    BY <1>2, <1>3, <1>6, <1>19 DEF BesideOK
  <2>2. Remaining(a)' = Remaining(a)
    BY <1>6, <2>1 DEF Remaining, Larger, TimesOK
  <2>3. CASE d = s
    <3>1. Remaining(s)' = Kind[s].minutes
      BY <1>3, <1>6, PolicyAssumption DEF Remaining, Larger, TimesOK
    <3>2. s # c.head
      BY <1>3, <1>6, <1>19, <2>3 DEF BesideOK
    <3> QED
      BY <1>5, <2>1, <2>2, <2>3, <3>1, <3>2 DEF s
  <2>4. CASE d # s
    <3>1. d \in active /\ d \in Slots /\ a \in beside[d]
      BY <1>2, <1>6, <1>19, <2>4 DEF BesideOK
    <3>2. Remaining(d)' = Remaining(d)
      BY <1>6, <2>4, <3>1 DEF Remaining, Larger, TimesOK
    <3> QED
      BY <2>2, <3>1, <3>2 DEF BesideOK
  <2> QED
    BY <2>3, <2>4
<1>20. BesideOK'
  BY <1>17, <1>18, <1>19 DEF BesideOK
<1>21. RanksOK' /\ RecentOK'
  BY <1>1, <1>3, <1>6, PolicyAssumption, FS_CardinalityType DEF RanksOK, RecentOK
<1> QED
  BY <1>14, <1>16, <1>20, <1>21

\* All that wait grow older, and all that run come nearer to their ends, by the
\* same time.
LEMMA PassKeeps ==
  ASSUME PolicyInv, Pass PROVE PolicyInv'
<1> USE DEF PolicyInv
<1>1. Step \in Nat \ {0} /\ active \subseteq Slots /\ Waiting \subseteq Slots
  BY PolicyAssumption, WaitingSlots DEF BesideOK
<1>2. QueueOK'
  <2>1. age' \in [Slots -> 0..AgeCap]
    <3>1. 0 \in 0..AgeCap /\ \A a \in 0..AgeCap : Smaller(a + Step, AgeCap) \in 0..AgeCap
      BY <1>1 DEF Smaller, AgeCap
    <3>2. \A s \in Slots : age[s] \in 0..AgeCap
      BY DEF QueueOK
    <3>3. age' = [s \in Slots |-> IF s \in Waiting THEN Smaller(age[s] + Step, AgeCap) ELSE 0]
      BY DEF Pass
    <3> QED
      BY <3>1, <3>2, <3>3
  <2>2. \A s \in Waiting : age'[s] = Smaller(age[s] + Step, AgeCap) /\ age[s] \in 0..AgeCap
    BY <1>1 DEF Pass, QueueOK
  <2>3. \A i \in DOMAIN queue : queue[i] \in Waiting
    BY DEF Waiting
  <2>4. \A s, t \in Waiting : age[t] <= age[s] => age'[t] <= age'[s]
    <3>1. \A a, b \in 0..AgeCap :
            a <= b => Smaller(a + Step, AgeCap) <= Smaller(b + Step, AgeCap)
      BY <1>1 DEF Smaller, AgeCap
    <3> QED
      BY <2>2, <3>1
  <2>5. queue' = queue
    BY DEF Pass
  <2> QED
    BY <2>1, <2>3, <2>4, <2>5 DEF QueueOK
<1>3. \A s \in active : /\ elapsed'[s] = elapsed[s] + Step
                        /\ elapsed[s] + Step <= Kind[s].minutes
                        /\ (elapsed[s] + Step) % Step = 0
  <2> SUFFICES ASSUME NEW s \in active
               PROVE  /\ elapsed'[s] = elapsed[s] + Step
                      /\ elapsed[s] + Step <= Kind[s].minutes
                      /\ (elapsed[s] + Step) % Step = 0
    OBVIOUS
  <2>1. Remaining(s) > 0 /\ elapsed'[s] = elapsed[s] + Step
    BY <1>1 DEF Pass
  <2>2. /\ elapsed[s] \in Nat /\ Kind[s].minutes \in Nat /\ elapsed[s] < Kind[s].minutes
        /\ elapsed[s] % Step = 0 /\ Kind[s].minutes % Step = 0
    BY <1>1, <2>1, RemainingType, PolicyAssumption DEF TimesOK
  <2> QED
    BY <1>1, <2>1, <2>2, WholeSteps
<1>4. TimesOK'
  <2>1. \A s \in Slots \ active : elapsed'[s] = 0
    BY DEF Pass
  <2>2. 0 % Step = 0
    BY <1>1
  <2>3. elapsed' \in [Slots -> Nat]
    BY <1>1 DEF Pass, TimesOK
  <2> QED
    BY <1>3, <2>1, <2>2, <2>3, PolicyAssumption DEF TimesOK
<1>5. \A s \in active : Remaining(s)' = Remaining(s) - Step
  <2> SUFFICES ASSUME NEW s \in active PROVE Remaining(s)' = Remaining(s) - Step
    OBVIOUS
  <2>1. Remaining(s) = Kind[s].minutes - elapsed[s]
    BY <1>1, RemainingType
  <2>2. /\ elapsed[s] \in Nat /\ Kind[s].minutes \in Nat
    BY <1>1, PolicyAssumption DEF TimesOK
  <2>3. Remaining(s)' = Kind[s].minutes - (elapsed[s] + Step)
    BY <1>1, <1>3, <2>2 DEF Remaining, Larger
  <2> QED
    BY <1>1, <2>1, <2>2, <2>3
<1>6. BesideOK'
  <2>1. active' = active /\ beside' = beside /\ Waiting' = Waiting
    BY DEF Pass, Waiting
  <2>2. ASSUME NEW c \in active, NEW a \in beside[c] PROVE Remaining(c)' <= Remaining(a)'
    <3>1. a \in active
      BY <1>1, <2>2 DEF BesideOK
    <3>2. Remaining(c) \in Nat /\ Remaining(a) \in Nat
      BY <1>1, <3>1, RemainingType
    <3>3. Remaining(c) <= Remaining(a)
      BY <2>2 DEF BesideOK
    <3>4. Remaining(c)' = Remaining(c) - Step /\ Remaining(a)' = Remaining(a) - Step
      BY <1>5, <3>1
    <3> QED
      BY <1>1, <3>2, <3>3, <3>4
  <2> QED
    BY <2>1, <2>2 DEF BesideOK
<1>7. RanksOK' /\ RecentOK'
  BY <1>1, AgedType DEF Pass, RanksOK, RecentOK
<1> QED
  BY <1>2, <1>4, <1>6, <1>7

LEMMA PolicyInvariant == PolicySpec => []PolicyInv
<1>1. PolicyInv /\ [PolicyNext]_policyVars => PolicyInv'
  <2> SUFFICES ASSUME PolicyInv, [PolicyNext]_policyVars PROVE PolicyInv'
    OBVIOUS
  <2>1. CASE \E s \in Slots : SubmitSlot(s)
    BY <2>1, SubmitKeeps
  <2>2. CASE \E s \in Slots : EndSlot(s)
    BY <2>2, EndKeeps
  <2>3. CASE StartCandidate
    BY <2>3, StartKeeps
  <2>4. CASE Pass
    BY <2>4, PassKeeps
  <2>5. CASE OrderQueue
    BY <2>5, OrderKeeps
  <2>6. CASE UNCHANGED policyVars
    BY <2>6 DEF policyVars, PolicyInv, QueueOK, TimesOK, BesideOK, RanksOK, RecentOK,
                Remaining, Waiting
  <2> QED
    BY <2>1, <2>2, <2>3, <2>4, <2>5, <2>6 DEF PolicyNext, Advance
<1> QED
  BY <1>1, InvInit, PTL DEF PolicySpec

-----------------------------------------------------------------------------

\* Types of the queue and of the running jobs (PolicyTypeOK), for any kinds of
\* jobs: no job is queued twice or while it runs, a job never runs beyond its
\* estimate, and the window's sums are numbers.
THEOREM PolicyTyping == PolicySpec => []PolicyTypeOK
<1>1. PolicyInv => PolicyTypeOK
  <2> SUFFICES ASSUME PolicyInv PROVE PolicyTypeOK
    OBVIOUS
  <2>1. Len(queue) = Cardinality(Waiting)
    BY Counting DEF PolicyInv, QueueOK, Waiting
  <2>2. \A s \in Slots : elapsed[s] \in 0..Kind[s].minutes
    BY PolicyAssumption DEF PolicyInv, TimesOK
  <2> QED
    BY <2>1, <2>2, WaitingSlots
       DEF PolicyInv, QueueOK, BesideOK, RanksOK, RecentOK, PolicyTypeOK
<1> QED
  BY <1>1, PolicyInvariant, PTL

\* A job that passed the head never holds the card longer than a job it was
\* started beside (BackfillYields), however many jobs run together and however
\* many were backfilled in between: backfilling does not delay the head.
THEOREM BackfillSafe == PolicySpec => BackfillYields
<1>1. ASSUME PolicyInv, [PolicyNext]_policyVars,
             NEW a \in active \ active', NEW c \in active, a \in beside[c]
      PROVE  Remaining(c) = 0
  <2>1. Remaining(a) = 0
    BY <1>1 DEF PolicyNext, Advance, SubmitSlot, EndSlot, StartCandidate, Pass, OrderQueue, policyVars
  <2>2. Remaining(c) <= Remaining(a) /\ Remaining(c) \in Nat
    BY <1>1, RemainingType DEF PolicyInv, BesideOK
  <2> QED
    BY <2>1, <2>2
<1>2. PolicyInv /\ [PolicyNext]_policyVars
        => [\A a \in active \ active', c \in active :
              a \in beside[c] => Remaining(c) = 0]_policyVars
  BY <1>1
<1> QED
  BY <1>2, PolicyInvariant, PTL DEF PolicySpec, BackfillYields

\* An equal job that was submitted later is not ranked before an earlier one.
LEMMA EqualsRanked ==
  ASSUME PolicyInv, NEW s \in Waiting, NEW t \in Waiting, s # t, Kind[s] = Kind[t],
         rank[s] = 0, rank[t] = 0, Before(s, t)
  PROVE  Place(queue, s) < Place(queue, t)
<1> USE DEF PolicyInv
<1>1. s \in Slots /\ t \in Slots
  BY WaitingSlots
<1>2. /\ Place(queue, s) \in DOMAIN queue /\ queue[Place(queue, s)] = s
      /\ Place(queue, t) \in DOMAIN queue /\ queue[Place(queue, t)] = t
  BY Placing DEF QueueOK, Waiting
<1>3. DOMAIN queue = 1..Len(queue) /\ Len(queue) \in Nat
  BY LenProperties DEF QueueOK
<1> SUFFICES ASSUME Place(queue, t) < Place(queue, s) PROVE FALSE
  BY <1>2, <1>3
<1>4. age[s] <= age[t]
  BY <1>2 DEF QueueOK
<1>5. age[s] \in Nat /\ age[t] \in Nat
  <2>1. age[s] \in 0..AgeCap /\ age[t] \in 0..AgeCap
    BY <1>1 DEF QueueOK
  <2> QED
    BY <2>1 DEF AgeCap
<1>6. ~(Score(s) - Score(t) > 0)
  BY <1>1, <1>4, <1>5, OlderScoresMore
<1>7. Kind[s].minutes \in Nat
  BY <1>1, PolicyAssumption
<1> QED
  BY <1>2, <1>3, <1>6, <1>7 DEF Before, Better

\* Equal jobs start in the order in which they were submitted (EqualsInOrder), for
\* any ages, scores and usage: also the first that may pass the head is the
\* earliest of its equals, because what lets one of them pass lets all.
THEOREM EqualsServed == PolicySpec => EqualsInOrder
<1>1. ASSUME PolicyInv, [PolicyNext]_policyVars, NEW s \in Waiting, NEW t \in Waiting,
             s \in active', Kind[s] = Kind[t], rank[s] = 0, rank[t] = 0, s # t
      PROVE  Place(queue, s) < Place(queue, t)
  <2>1. s \notin active /\ active \subseteq Slots /\ Waiting \subseteq Slots
    BY <1>1, WaitingSlots DEF PolicyInv, BesideOK
  <2>2. StartCandidate
    BY <1>1, <2>1 DEF PolicyNext, Advance, SubmitSlot, EndSlot, Pass, OrderQueue, policyVars
  <2>3. PICK c \in Choice : active' = active \cup {c.job}
    BY <2>2, Zenon DEF StartCandidate
  <2>4. s = c.job
    BY <1>1, <2>1, <2>3
  <2>5. CASE c.job = c.head
    <3>1. Before(s, t)
      BY <1>1, <2>4, <2>5, Chosen DEF First
    <3> QED
      BY <1>1, <3>1, EqualsRanked
  <2>6. CASE c.job # c.head
    <3>1. s \in First(Backfill(c.head)) /\ ~(Kind[c.head].vram <= Fit)
      BY <2>4, <2>6, Chosen
    <3>2. s \in Backfill(c.head)
      BY <3>1 DEF First
    <3>3. t \in Backfill(c.head)
      BY <1>1, <3>1, <3>2 DEF Backfill
    <3>4. Before(s, t)
      BY <1>1, <3>1, <3>3 DEF First
    <3> QED
      BY <1>1, <3>4, EqualsRanked
  <2> QED
    BY <2>5, <2>6
<1>2. PolicyInv /\ [PolicyNext]_policyVars
        => [\A s, t \in Waiting :
              s \in active' /\ Kind[s] = Kind[t] /\ rank[s] = 0 /\ rank[t] = 0
              => s = t \/ Place(queue, s) < Place(queue, t)]_policyVars
  BY <1>1
<1> QED
  BY <1>2, PolicyInvariant, PTL DEF PolicySpec, EqualsInOrder

-----------------------------------------------------------------------------
(* The choice is one job, and one that Scheduler lets choose_candidate take.  *)

LEMMA ScoreType == ASSUME RecentOK, QueueOK, NEW s \in Slots PROVE Score(s) \in Int
<1>1. Capacity \in Nat
  BY CapacityType
<1>2. Kind[s].priority \in Nat /\ age[s] \in Nat
  <2>1. age[s] \in 0..AgeCap
    BY DEF QueueOK
  <2> QED
    BY <2>1, PolicyAssumption DEF AgeCap
<1>3. Used(Kind[s].agent) \in Nat
  BY UsedType DEF Agents
<1>4. 3 * Capacity * Kind[s].priority \in Int /\ Capacity * age[s] \in Int
  BY <1>1, <1>2
<1>5. Penalty(s) \in Int
  BY <1>1, <1>3 DEF Penalty, Smaller
<1> QED
  BY <1>4, <1>5 DEF Score, AgeBonus

\* "ranked" is a strict order in which any two queued jobs have their places, also
\* when two of them share a position.
LEMMA BeforeOrders ==
  ASSUME PolicyInv
  PROVE  /\ \A s, t \in Waiting : s # t => Before(s, t) \/ Before(t, s)
         /\ \A s, t \in Waiting : ~(Before(s, t) /\ Before(t, s))
         /\ \A s, t, u \in Waiting : Before(s, t) /\ Before(t, u) => Before(s, u)
<1> DEFINE p(s) == Place(queue, s)
<1>1. \A s \in Waiting : /\ s \in Slots /\ rank[s] \in Nat /\ Score(s) \in Int
                         /\ Kind[s].minutes \in Nat
  <2>1. \A s \in Waiting : s \in Slots
    BY WaitingSlots DEF PolicyInv
  <2>2. Cardinality(Slots) \in Nat
    BY PolicyAssumption, FS_CardinalityType
  <2> QED
    BY <2>1, <2>2, PolicyAssumption, ScoreType DEF PolicyInv, RanksOK
<1>2. \A s \in Waiting : p(s) \in Nat /\ queue[p(s)] = s
  <2>1. DOMAIN queue \subseteq Nat
    BY LenProperties DEF PolicyInv, QueueOK
  <2> QED
    BY <2>1, Placing DEF PolicyInv, QueueOK, Waiting
<1>3. \A s, t \in Waiting : p(s) = p(t) => s = t
  BY <1>2
<1>4. \A s, t \in Waiting : Better(s, t) <=>
        \/ Score(s) > Score(t)
        \/ Score(s) = Score(t) /\ Kind[s].minutes < Kind[t].minutes
        \/ Score(s) = Score(t) /\ Kind[s].minutes = Kind[t].minutes /\ p(s) < p(t)
  BY <1>1 DEF Better
<1>5. \A s, t \in Waiting : Before(s, t) <=>
        \/ rank[s] # 0 /\ rank[t] # 0 /\ rank[s] < rank[t]
        \/ rank[s] # 0 /\ rank[t] = 0
        \/ rank[s] = 0 /\ rank[t] = 0 /\ Better(s, t)
        \/ rank[s] # 0 /\ rank[s] = rank[t] /\ Better(t, s)
  BY <1>1 DEF Before
<1> HIDE DEF p
<1>6. /\ \A s, t \in Waiting : s # t => Better(s, t) \/ Better(t, s)
      /\ \A s, t \in Waiting : ~(Better(s, t) /\ Better(t, s))
      /\ \A s, t, u \in Waiting : Better(s, t) /\ Better(t, u) => Better(s, u)
  <2>1. ASSUME NEW s \in Waiting, NEW t \in Waiting, s # t PROVE Better(s, t) \/ Better(t, s)
    BY <1>1, <1>2, <1>3, <1>4, <2>1
  <2>2. ASSUME NEW s \in Waiting, NEW t \in Waiting PROVE ~(Better(s, t) /\ Better(t, s))
    BY <1>1, <1>2, <1>4
  <2>3. ASSUME NEW s \in Waiting, NEW t \in Waiting, NEW u \in Waiting, Better(s, t), Better(t, u)
        PROVE  Better(s, u)
    BY <1>1, <1>2, <1>4, <2>3
  <2> QED
    BY <2>1, <2>2, <2>3
<1>7. ASSUME NEW s \in Waiting, NEW t \in Waiting, s # t PROVE Before(s, t) \/ Before(t, s)
  BY <1>1, <1>5, <1>6, <1>7
<1>8. ASSUME NEW s \in Waiting, NEW t \in Waiting PROVE ~(Before(s, t) /\ Before(t, s))
  BY <1>1, <1>5, <1>6
<1>9. ASSUME NEW s \in Waiting, NEW t \in Waiting, NEW u \in Waiting, Before(s, t), Before(t, u)
      PROVE  Before(s, u)
  BY <1>1, <1>5, <1>6, <1>9
<1> QED
  BY <1>7, <1>8, <1>9

\* So any jobs of the queue have exactly one first.
LEMMA FirstOfQueue ==
  ASSUME PolicyInv, NEW S \in SUBSET Waiting
  PROVE  /\ S # {} => First(S) # {}
         /\ \A s, t \in First(S) : s = t
<1> DEFINE Bad == {T \in SUBSET Waiting : T # {} /\ First(T) = {}}
<1>1. ASSUME NEW T \in Bad, \A U \in Bad : U \subseteq T => U = T PROVE FALSE
  <2>1. PICK y \in T : TRUE
    BY <1>1
  <2>2. y \in Waiting /\ T \subseteq Waiting /\ First(T) = {}
    BY <2>1
  <2>3. CASE T = {y}
    BY <2>1, <2>2, <2>3 DEF First
  <2>4. CASE T # {y}
    <3> DEFINE U == T \ {y}
    <3>1. U \in SUBSET Waiting /\ U # {} /\ U \subseteq T /\ U # T
      BY <2>1, <2>2, <2>4
    <3>2. U \notin Bad
      BY <1>1, <3>1
    <3>3. PICK m \in U : m \in First(U)
      BY <3>1, <3>2 DEF First
    <3>4. \A u \in U \ {m} : Before(m, u)
      BY <3>3 DEF First
    <3>5. m # y /\ m \in Waiting /\ m \in T
      BY <2>2, <3>3
    <3>6. CASE Before(m, y)
      <4>1. \A t \in T \ {m} : Before(m, t)
        BY <3>4, <3>6
      <4>2. m \in First(T)
        BY <3>5, <4>1 DEF First
      <4> QED
        BY <2>2, <4>2
    <3>7. CASE Before(y, m)
      <4>1. \A t \in T \ {y} : Before(y, t)
        BY <2>2, <3>4, <3>5, <3>7, BeforeOrders
      <4>2. y \in First(T)
        BY <2>1, <4>1 DEF First
      <4> QED
        BY <2>2, <4>2
    <3> QED
      BY <2>2, <3>5, <3>6, <3>7, BeforeOrders
  <2> QED
    BY <2>3, <2>4
<1>2. Bad = {}
  <2>1. Bad \subseteq SUBSET Waiting
    OBVIOUS
  <2>2. IsFiniteSet(Waiting)
    BY WaitingSlots, PolicyAssumption, FS_Subset DEF PolicyInv
  <2> HIDE DEF Bad
  <2> QED
    BY <1>1, <2>1, <2>2, SmallestSubset
<1>3. S # {} => First(S) # {}
  BY <1>2
<1>4. ASSUME NEW s \in First(S), NEW t \in First(S), s # t PROVE FALSE
  <2>1. s \in Waiting /\ t \in Waiting /\ Before(s, t) /\ Before(t, s)
    BY <1>4 DEF First
  <2> QED
    BY <2>1, BeforeOrders
<1> QED
  BY <1>3, <1>4

\* What Scheduler's Chosen and NoneChosen leave open when memory is as reserved: any
\* queued job as the head, and then the head, or beside running jobs any other that
\* fits, or none.
LooseChoice(c) ==
  /\ Cardinality(active) < MaxParallel
  /\ c.job \in Waiting /\ c.head \in Waiting /\ Kind[c.job].vram <= Fit
  /\ c.job = c.head \/ (~(Kind[c.head].vram <= Fit) /\ active # {})

LooseNone ==
  \/ Waiting = {} \/ Cardinality(active) >= MaxParallel
  \/ \E h \in Waiting : ~(Kind[h].vram <= Fit)

ChoiceAllowed ==
  /\ \A c \in Choice : LooseChoice(c)
  /\ \A c, d \in Choice : c = d
  /\ Choice = {} => LooseNone

LEMMA ChoiceIsAllowed == ASSUME PolicyInv PROVE ChoiceAllowed
<1> USE DEF PolicyInv
<1>1. active \subseteq Slots /\ Waiting \subseteq Slots /\ Cardinality(active) \in Nat
      /\ MaxParallel \in Nat
  BY WaitingSlots, PolicyAssumption, FS_Subset, FS_CardinalityType DEF BesideOK
<1>2. First(Waiting) \subseteq Waiting
  BY DEF First
<1>3. ASSUME NEW c \in Choice PROVE LooseChoice(c)
  <2>1. c.head \in Waiting /\ c.job \in Waiting
    BY <1>1, <1>2, Chosen, JobWaits
  <2>2. Cardinality(active) < MaxParallel
    BY <1>1, <1>3 DEF Choice
  <2>3. PICK h \in First(Waiting) :
          \E s \in IF Kind[h].vram <= Fit THEN {h} ELSE First(Backfill(h)) :
            c = [job |-> s, head |-> h]
    BY <1>3 DEF Choice
  <2>4. PICK s \in IF Kind[h].vram <= Fit THEN {h} ELSE First(Backfill(h)) :
          c = [job |-> s, head |-> h]
    BY <2>3
  <2>5. c.job = s /\ c.head = h
    BY <2>4
  <2>6. Kind[s].vram <= Fit /\ (s = h \/ (~(Kind[h].vram <= Fit) /\ active # {}))
    BY <2>4 DEF First, Backfill
  <2> QED
    BY <2>1, <2>2, <2>5, <2>6 DEF LooseChoice
<1>4. ASSUME NEW c \in Choice, NEW d \in Choice PROVE c = d
  <2> DEFINE Jobs(h) == IF Kind[h].vram <= Fit THEN {h} ELSE First(Backfill(h))
  <2>1. PICK h \in First(Waiting) : \E s \in Jobs(h) : c = [job |-> s, head |-> h]
    BY <1>4 DEF Choice
  <2>2. PICK g \in First(Waiting) : \E s \in Jobs(g) : d = [job |-> s, head |-> g]
    BY <1>4 DEF Choice
  <2>3. g = h
    BY FirstOfQueue
  <2>4. Backfill(h) \in SUBSET Waiting
    BY DEF Backfill
  <2>5. \A s, t \in Jobs(h) : s = t
    BY <2>4, FirstOfQueue
  <2> HIDE DEF Jobs
  <2> QED
    BY <2>1, <2>2, <2>3, <2>5
<1>5. ASSUME Choice = {}, ~LooseNone PROVE FALSE
  <2>1. PICK h \in First(Waiting) : TRUE
    BY <1>5, FirstOfQueue DEF LooseNone
  <2>2. Kind[h].vram <= Fit /\ ~(Cardinality(active) >= MaxParallel)
    BY <1>2, <1>5 DEF LooseNone
  <2>3. [job |-> h, head |-> h] \in Choice
    BY <2>1, <2>2 DEF Choice
  <2> QED
    BY <1>5, <2>3
<1> QED
  BY <1>3, <1>4, <1>5 DEF ChoiceAllowed

\* The abstraction that Scheduler makes of the policy is sound: choose_candidate,
\* with its scores and estimates, returns at most one job, one that Scheduler may
\* select, and none only where Scheduler may select none.
THEOREM ChoiceAbstracted == PolicySpec => []ChoiceAllowed
<1>1. PolicyInv => ChoiceAllowed
  BY ChoiceIsAllowed
<1> QED
  BY <1>1, PolicyInvariant, PTL

LEMMA NothingReserved == MapThenSumSet(LAMBDA s : Kind[s].vram, {}) = 0
<1> DEFINE Pick(t) == CHOOSE x \in t : TRUE
           IsSum(g) == g = [t \in SUBSET {} |-> IF t = {} THEN 0
                                               ELSE Kind[Pick(t)].vram + g[t \ {Pick(t)}]]
           zero == [t \in SUBSET {} |-> 0]
<1>1. IsSum(zero)
  OBVIOUS
<1>2. \A g : IsSum(g) => g[{}] = 0
  OBVIOUS
<1>3. MapThenSumSet(LAMBDA s : Kind[s].vram, {}) = (CHOOSE g : IsSum(g))[{}]
  BY DEF MapThenSumSet, MapThenFoldSet
<1> HIDE DEF IsSum
<1>4. IsSum(CHOOSE g : IsSum(g))
  BY <1>1, Zenon
<1> QED
  BY <1>2, <1>3, <1>4

\* An idle card is not kept idle: when nothing runs and the jobs in the queue fit
\* the card at all, choose_candidate returns one.  A head that had to wait for
\* memory is the job it returns once those that run have ended.
HeadServed ==
  (\A s \in Waiting : Kind[s].vram <= Total - Baseline - Safety)
    => (active = {} /\ Waiting # {} => \E c \in Choice : c.job = c.head)

THEOREM IdleCardServes == PolicySpec => []HeadServed
<1>1. ASSUME PolicyInv, \A s \in Waiting : Kind[s].vram <= Total - Baseline - Safety,
             active = {}, Waiting # {}
      PROVE  \E c \in Choice : c.job = c.head
  <2>1. PICK h \in First(Waiting) : TRUE
    BY <1>1, FirstOfQueue
  <2>2. h \in Waiting /\ h \in Slots /\ Kind[h].vram \in Nat
    BY <1>1, <2>1, WaitingSlots, PolicyAssumption DEF First, PolicyInv
  <2>3. Fit = Larger(0, Total - Baseline - Safety)
    BY <1>1, NothingReserved, PolicyAssumption DEF Fit
  <2>4. Kind[h].vram <= Fit
    BY <1>1, <2>2, <2>3, PolicyAssumption DEF Larger
  <2>5. ~(Cardinality(active) >= MaxParallel)
    BY <1>1, FS_EmptySet, PolicyAssumption
  <2>6. [job |-> h, head |-> h] \in Choice
    BY <2>1, <2>4, <2>5 DEF Choice
  <2> QED
    BY <2>6
<1>2. PolicyInv => HeadServed
  BY <1>1 DEF HeadServed
<1> QED
  BY <1>2, PolicyInvariant, PTL
=============================================================================
