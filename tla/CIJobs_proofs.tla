--------------------------- MODULE CIJobs_proofs ---------------------------
(***************************************************************************)
(* Theorems about the Worker Job store for any jobs, workers, repositories *)
(* and limits: its types, the lease and its fence, worker pointers,        *)
(* settled jobs, supersede links, capacity, and the queue counters.        *)
(***************************************************************************)
EXTENDS CIJobs, FiniteSetTheorems, TLAPS

-----------------------------------------------------------------------------
(* What the helpers return. *)

\* A lost attempt leaves its job in a status of the table, and only jobs that
\* were lost are queued again.
LEMMA AfterLossType ==
    ASSUME NEW S \in SUBSET Jobs
    PROVE  /\ AfterLoss(S) \in [S -> Statuses]
           /\ Requeued(S) \in SUBSET Jobs
  BY DEF AfterLoss, Requeued, Statuses, Settled

\* Taking the lease from jobs keeps the three columns it writes well typed.
LEMMA UnleaseType ==
    ASSUME TypeOK, NEW S \in SUBSET Jobs, NEW next \in [S -> Statuses],
           Unlease(S, next)
    PROVE  /\ status' \in [Jobs -> Statuses]
           /\ owner' \in [Jobs -> Workers \cup {NoWorker}]
           /\ leaseLeft' \in [Jobs -> -1 .. LeaseTicks]
  BY LimitsAssumption DEF Unlease, TypeOK

\* So does clearing worker pointers.
LEMMA DropPointersType ==
    ASSUME TypeOK, NEW S, DropPointers(S)
    PROVE  /\ workerStatus' \in [Workers -> {"absent", "idle", "busy"}]
           /\ currentJob' \in [Workers -> Jobs \cup {NoJob}]
  BY DEF DropPointers, TypeOK

\* The number of jobs of one repository in a set of jobs is a number.
LEMMA CountType ==
    ASSUME NEW S \in SUBSET Jobs, NEW r
    PROVE  Cardinality(OfRepo(S, r)) \in Nat
  <1>1. OfRepo(S, r) \subseteq Jobs
    BY DEF OfRepo
  <1>2. IsFiniteSet(OfRepo(S, r))
    BY <1>1, JobsAssumption, FS_Subset
  <1> QED
    BY <1>2, FS_CardinalityType

\* The clamped counters stay natural numbers.
LEMMA CountQueueType ==
    ASSUME TypeOK, NEW A \in SUBSET Jobs, NEW R \in SUBSET Jobs,
           CountQueue(A, R)
    PROVE  queued' \in [Repos -> Nat]
  BY CountType DEF CountQueue, AtLeastZero, TypeOK

LEMMA CountRunningType ==
    ASSUME TypeOK, NEW R \in SUBSET Jobs, CountRunning(R)
    PROVE  running' \in [Repos -> Nat]
  BY CountType DEF CountRunning, AtLeastZero, TypeOK

-----------------------------------------------------------------------------
(* Every row of the store stays well typed. *)

LEMMA TypeInit == Init => TypeOK
  BY LimitsAssumption, SubmissionsAssumption
  DEF Init, TypeOK, Statuses

\* A transaction of a client, of the sweep of stale workers or of time.
LEMMA TypeClient ==
    ASSUME TypeOK, Client \/ Tick
    PROVE  TypeOK'
  <1> USE DEF TypeOK
  <1>1. ASSUME NEW j \in Jobs, NEW s \in Submissions,
               NEW f \in BOOLEAN, NEW p \in BOOLEAN, CreateOrGetJob(j, s, f, p)
        PROVE  TypeOK'
    <2> DEFINE old == IF p THEN Outdated(s) ELSE {}
    <2>1. old \in SUBSET Jobs
      BY DEF Outdated
    <2>2. queued' \in [Repos -> Nat]
      BY <1>1, <2>1, CountType DEF CreateOrGetJob, InsertJob, AtLeastZero
    <2> QED
      BY <1>1, <2>2
      DEF CreateOrGetJob, InsertJob, Statuses, Settled, workerVars
  <1>2. ASSUME NEW j \in Jobs, RequestCancelJob(j)
        PROVE  TypeOK'
    BY <1>2 DEF RequestCancelJob, workerVars, repoVars
  <1>3. ASSUME NEW j \in Jobs, CancelQueuedJob(j)
        PROVE  TypeOK'
    <2>1. [k \in {j} |-> "cancelled"] \in [{j} -> Statuses]
      BY DEF Statuses, Settled
    <2>2. /\ Unlease({j}, [k \in {j} |-> "cancelled"])
          /\ CountQueue({}, {j})
      BY <1>3 DEF CancelQueuedJob
    <2> HIDE DEF TypeOK
    <2>3. /\ status' \in [Jobs -> Statuses]
          /\ owner' \in [Jobs -> Workers \cup {NoWorker}]
          /\ leaseLeft' \in [Jobs -> -1 .. LeaseTicks]
      BY <2>1, <2>2, UnleaseType
    <2>4. queued' \in [Repos -> Nat]
      BY <2>2, CountQueueType
    <2> QED
      BY <1>3, <2>3, <2>4 DEF CancelQueuedJob, workerVars, TypeOK
  <1>4. ASSUME NEW offline \in SUBSET Workers, ReconcileStaleWorkers(offline)
        PROVE  TypeOK'
    BY <1>4 DEF ReconcileStaleWorkers, jobVars, repoVars
  <1>5. CASE Tick
    BY <1>5, LimitsAssumption DEF Tick, workerVars, repoVars
  <1> QED
    BY <1>1, <1>2, <1>3, <1>4, <1>5 DEF Client

\* The transactions that take active jobs from their owner: the sweep of
\* expired leases, and the recovery of one worker's jobs.
LEMMA TypeRecovery ==
    ASSUME TypeOK, RecoverExpiredLeases \/ \E w \in Workers : RecoverWorkerJobs(w)
    PROVE  TypeOK'
  <1>1. CASE RecoverExpiredLeases
    <2>1. Expired \in SUBSET Jobs
      BY DEF Expired
    <2>2. /\ Unlease(Expired, AfterLoss(Expired))
          /\ DropPointers(Expired)
          /\ CountQueue(Requeued(Expired), {})
          /\ CountRunning(Expired)
      BY <1>1 DEF RecoverExpiredLeases
    <2>3. /\ status' \in [Jobs -> Statuses]
          /\ owner' \in [Jobs -> Workers \cup {NoWorker}]
          /\ leaseLeft' \in [Jobs -> -1 .. LeaseTicks]
      BY <2>1, <2>2, AfterLossType, UnleaseType
    <2>4. /\ queued' \in [Repos -> Nat]
          /\ running' \in [Repos -> Nat]
      BY <2>1, <2>2, AfterLossType, CountQueueType, CountRunningType
    <2>5. /\ workerStatus' \in [Workers -> {"absent", "idle", "busy"}]
          /\ currentJob' \in [Workers -> Jobs \cup {NoJob}]
      BY <2>2, DropPointersType
    <2> QED
      BY <1>1, <2>3, <2>4, <2>5 DEF RecoverExpiredLeases, TypeOK
  <1>2. ASSUME NEW w \in Workers, RecoverWorkerJobs(w)
        PROVE  TypeOK'
    <2>1. HeldBy(w) \in SUBSET Jobs
      BY DEF HeldBy
    <2>2. /\ Unlease(HeldBy(w), AfterLoss(HeldBy(w)))
          /\ CountQueue(Requeued(HeldBy(w)), {})
          /\ CountRunning(HeldBy(w))
      BY <1>2 DEF RecoverWorkerJobs
    <2>3. /\ status' \in [Jobs -> Statuses]
          /\ owner' \in [Jobs -> Workers \cup {NoWorker}]
          /\ leaseLeft' \in [Jobs -> -1 .. LeaseTicks]
      BY <2>1, <2>2, AfterLossType, UnleaseType
    <2>4. /\ queued' \in [Repos -> Nat]
          /\ running' \in [Repos -> Nat]
      BY <2>1, <2>2, AfterLossType, CountQueueType, CountRunningType
    <2> QED
      BY <1>2, <2>3, <2>4 DEF RecoverWorkerJobs, TypeOK
  <1> QED
    BY <1>1, <1>2

\* A callback of an attempt.
LEMMA TypeCallback ==
    ASSUME TypeOK, NEW j \in Jobs, NEW w \in Workers, NEW t \in 1 .. attempts[j],
           Callback(j, w, t)
    PROVE  TypeOK'
  <1>1. t \in Nat
    BY DEF TypeOK
  <1>2. CASE RenewLease(j, w, t)
    BY <1>2, LimitsAssumption DEF RenewLease, TypeOK, workerVars, repoVars
  <1>3. ASSUME NEW new \in {"downloading", "preparing", "running"},
               SetJobStatus(j, w, t, new)
        PROVE  TypeOK'
    BY <1>3 DEF SetJobStatus, TypeOK, Statuses, Active, workerVars, repoVars
  <1>4. ASSUME NEW result \in Reported, CompleteJob(j, w, t, result)
        PROVE  TypeOK'
    <2>1. [k \in {j} |-> result] \in [{j} -> Statuses]
      BY DEF Reported, Statuses, Settled
    <2>2. /\ Unlease({j}, [k \in {j} |-> result])
          /\ DropPointers({j})
          /\ CountRunning({j})
      BY <1>4 DEF CompleteJob
    <2>3. /\ status' \in [Jobs -> Statuses]
          /\ owner' \in [Jobs -> Workers \cup {NoWorker}]
          /\ leaseLeft' \in [Jobs -> -1 .. LeaseTicks]
      BY <2>1, <2>2, UnleaseType
    <2>4. /\ running' \in [Repos -> Nat]
          /\ workerStatus' \in [Workers -> {"absent", "idle", "busy"}]
          /\ currentJob' \in [Workers -> Jobs \cup {NoJob}]
      BY <2>2, CountRunningType, DropPointersType
    <2> QED
      BY <1>1, <1>4, <2>3, <2>4 DEF CompleteJob, TypeOK
  <1>5. CASE ReleaseJob(j, w, t)
    <2>1. [k \in {j} |-> "queued"] \in [{j} -> Statuses]
      BY DEF Statuses
    <2>2. /\ Unlease({j}, [k \in {j} |-> "queued"])
          /\ DropPointers({j})
          /\ CountQueue({j}, {})
          /\ CountRunning({j})
      BY <1>5 DEF ReleaseJob
    <2>3. /\ status' \in [Jobs -> Statuses]
          /\ owner' \in [Jobs -> Workers \cup {NoWorker}]
          /\ leaseLeft' \in [Jobs -> -1 .. LeaseTicks]
      BY <2>1, <2>2, UnleaseType
    <2>4. /\ queued' \in [Repos -> Nat]
          /\ running' \in [Repos -> Nat]
          /\ workerStatus' \in [Workers -> {"absent", "idle", "busy"}]
          /\ currentJob' \in [Workers -> Jobs \cup {NoJob}]
      BY <2>2, CountQueueType, CountRunningType, DropPointersType
    <2> QED
      BY <1>5, <2>3, <2>4 DEF ReleaseJob, TypeOK
  <1> QED
    BY <1>2, <1>3, <1>4, <1>5 DEF Callback

LEMMA TypeWorker ==
    ASSUME TypeOK, NEW w \in Workers, WorkerStep(w)
    PROVE  TypeOK'
  <1>1. CASE UpsertWorker(w)
    BY <1>1 DEF UpsertWorker, TypeOK, jobVars, repoVars
  <1>2. CASE ReconcileWorkerStartup(w)
    BY <1>2 DEF ReconcileWorkerStartup, TypeOK, jobVars, repoVars
  <1>3. ASSUME NEW j \in Jobs, LeaseJob(w, j)
        PROVE  TypeOK'
    BY <1>3, LimitsAssumption, SubmissionsAssumption
    DEF LeaseJob, TypeOK, Statuses, Active, AtLeastZero
  <1> QED
    BY <1>1, <1>2, <1>3, TypeRecovery, TypeCallback DEF WorkerStep

LEMMA TypeNext == TypeOK /\ [Next]_vars => TypeOK'
  <1> SUFFICES ASSUME TypeOK, [Next]_vars
               PROVE  TypeOK'
    OBVIOUS
  <1>1. CASE UNCHANGED vars
    BY <1>1 DEF TypeOK, vars, jobVars, workerVars, repoVars
  <1>2. CASE Next
    BY <1>2, TypeClient, TypeRecovery, TypeWorker DEF Next, PollRecovers
  <1> QED
    BY <1>1, <1>2

\* Whatever interleaving of clients, workers, sweeps and time runs, every
\* column of the store keeps its type: no status outside the vocabulary, no
\* negative counter, no owner or pointer to a row that cannot exist.
THEOREM TypeCorrect == Spec => []TypeOK
  BY TypeInit, TypeNext, PTL DEF Spec

-----------------------------------------------------------------------------
(* How one step changes the row of one job.  The properties below follow   *)
(* from this list and not from the actions.                                *)

Keeps(j) == /\ owner'[j] = owner[j]
            /\ attempts'[j] = attempts[j]
            /\ finisher'[j] = finisher[j]

Stays(j) == /\ status'[j] = status[j] \/ {status[j], status'[j]} \subseteq Active
            /\ Keeps(j)

Created(j) == /\ status[j] = "absent"
              /\ status'[j] = "queued"
              /\ Keeps(j)

Leased(j) == /\ status[j] = "queued"
             /\ status'[j] = "leased"
             /\ owner'[j] \in Workers
             /\ attempts'[j] = attempts[j] + 1
             /\ finisher'[j] = finisher[j]

TakenBack(j) == /\ status[j] \in Active
                /\ status'[j] \in {"queued", "worker_lost"}
                /\ owner'[j] = NoWorker
                /\ attempts'[j] = attempts[j]
                /\ finisher'[j] = finisher[j]

Finished(j) == /\ status[j] \in Active
               /\ status'[j] \in Reported
               /\ owner'[j] = NoWorker
               /\ attempts'[j] = attempts[j]
               /\ finisher'[j] = attempts[j]

Withdrawn(j) == /\ status[j] = "queued"
                /\ status'[j] \in {"cancelled", "superseded"}
                /\ owner'[j] \in {owner[j], NoWorker}
                /\ attempts'[j] = attempts[j]
                /\ finisher'[j] = finisher[j]

RowStep(j) == \/ Stays(j)
              \/ Created(j)
              \/ Leased(j)
              \/ TakenBack(j)
              \/ Finished(j)
              \/ Withdrawn(j)

\* Taking the lease from a set of active jobs by AfterLoss takes them back and
\* leaves the others alone.
LEMMA LossRows ==
    ASSUME TypeOK, NEW S \in SUBSET Jobs, \A j \in S : status[j] \in Active,
           Unlease(S, AfterLoss(S)), UNCHANGED <<attempts, finisher>>
    PROVE  \A j \in Jobs : Stays(j) \/ TakenBack(j)
  BY DEF Unlease, AfterLoss, Stays, TakenBack, Keeps, TypeOK

\* Every step of the store does one of the six things to every row.
LEMMA EveryRowSteps ==
    ASSUME TypeOK, [Next]_vars
    PROVE  \A j \in Jobs : RowStep(j)
  <1>1. CASE UNCHANGED vars
    BY <1>1 DEF vars, jobVars, RowStep, Stays, Keeps
  <1>2. ASSUME NEW j \in Jobs, NEW s \in Submissions,
               NEW f \in BOOLEAN, NEW p \in BOOLEAN, CreateOrGetJob(j, s, f, p)
        PROVE  \A k \in Jobs : RowStep(k)
    <2>1. PICK old \in SUBSET Jobs :
             /\ \A k \in old : status[k] = "queued"
             /\ status' = [k \in Jobs |-> IF k = j THEN "queued"
                                          ELSE IF k \in old THEN "superseded"
                                          ELSE status[k]]
      BY <1>2 DEF CreateOrGetJob, InsertJob, Outdated
    <2>2. /\ status[j] = "absent"
          /\ \A k \in Jobs : Keeps(k)
      BY <1>2 DEF CreateOrGetJob, InsertJob, NextIdentity, Keeps
    <2> QED
      BY <2>1, <2>2 DEF RowStep, Stays, Created, Withdrawn, Keeps, TypeOK
  <1>3. ASSUME NEW j \in Jobs, RequestCancelJob(j)
        PROVE  \A k \in Jobs : RowStep(k)
    BY <1>3 DEF RequestCancelJob, RowStep, Stays, Keeps
  <1>4. ASSUME NEW j \in Jobs, CancelQueuedJob(j)
        PROVE  \A k \in Jobs : RowStep(k)
    BY <1>4 DEF CancelQueuedJob, Unlease, RowStep, Stays, Withdrawn, Keeps, TypeOK
  <1>5. ASSUME NEW offline \in SUBSET Workers, ReconcileStaleWorkers(offline)
        PROVE  \A k \in Jobs : RowStep(k)
    BY <1>5 DEF ReconcileStaleWorkers, jobVars, RowStep, Stays, Keeps
  <1>6. CASE Tick
    BY <1>6 DEF Tick, RowStep, Stays, Keeps
  <1>7. CASE RecoverExpiredLeases
    BY <1>7, LossRows DEF RecoverExpiredLeases, Expired, RowStep
  <1>8. ASSUME NEW w \in Workers, RecoverWorkerJobs(w)
        PROVE  \A k \in Jobs : RowStep(k)
    BY <1>8, LossRows DEF RecoverWorkerJobs, HeldBy, RowStep
  <1>9. ASSUME NEW w \in Workers, UpsertWorker(w) \/ ReconcileWorkerStartup(w)
        PROVE  \A k \in Jobs : RowStep(k)
    BY <1>9
    DEF UpsertWorker, ReconcileWorkerStartup, jobVars, RowStep, Stays, Keeps
  <1>10. ASSUME NEW w \in Workers, NEW j \in Jobs, LeaseJob(w, j)
         PROVE  \A k \in Jobs : RowStep(k)
    BY <1>10 DEF LeaseJob, Candidates, RowStep, Stays, Leased, Keeps, TypeOK
  <1>11. ASSUME NEW w \in Workers, NEW j \in Jobs, NEW t \in 1 .. attempts[j],
                Callback(j, w, t)
         PROVE  \A k \in Jobs : RowStep(k)
    <2>1. CASE RenewLease(j, w, t)
      BY <2>1 DEF RenewLease, RowStep, Stays, Keeps
    <2>2. ASSUME NEW new \in {"downloading", "preparing", "running"},
                 SetJobStatus(j, w, t, new)
          PROVE  \A k \in Jobs : RowStep(k)
      BY <2>2 DEF SetJobStatus, Holds, Active, RowStep, Stays, Keeps, TypeOK
    <2>3. ASSUME NEW result \in Reported, CompleteJob(j, w, t, result)
          PROVE  \A k \in Jobs : RowStep(k)
      BY <2>3
      DEF CompleteJob, Holds, Unlease, RowStep, Stays, Finished, Keeps, TypeOK
    <2>4. CASE ReleaseJob(j, w, t)
      BY <2>4
      DEF ReleaseJob, Holds, Unlease, RowStep, Stays, TakenBack, Keeps, TypeOK
    <2> QED
      BY <1>11, <2>1, <2>2, <2>3, <2>4 DEF Callback
  <1> QED
    BY <1>1, <1>2, <1>3, <1>4, <1>5, <1>6, <1>7, <1>8, <1>9, <1>10, <1>11
    DEF Next, Client, WorkerStep, PollRecovers

-----------------------------------------------------------------------------
(* Ownership and results.  That a result belongs to the latest attempt     *)
(* needs to know that a job which can still be leased has no result, and   *)
(* that an active one was attempted; that a row not yet inserted is blank. *)

BlankUntilCreated ==
    \A j \in Jobs : status[j] = "absent" => attempts[j] = 0 /\ finisher[j] = 0

AttemptInv == /\ TypeOK
              /\ OwnedIffActive
              /\ ResultFromLatestAttempt
              /\ BlankUntilCreated

LEMMA AttemptInit == Init => AttemptInv
  <1> SUFFICES ASSUME Init
               PROVE  OwnedIffActive /\ ResultFromLatestAttempt /\ BlankUntilCreated
    BY TypeInit DEF AttemptInv
  <1> QED
    BY DEF Init, OwnedIffActive, ResultFromLatestAttempt, BlankUntilCreated,
           Active

LEMMA AttemptNext == AttemptInv /\ [Next]_vars => AttemptInv'
  <1> SUFFICES ASSUME AttemptInv, [Next]_vars
               PROVE  AttemptInv'
    OBVIOUS
  <1>1. TypeOK'
    BY TypeNext DEF AttemptInv
  <1>2. \A j \in Jobs : RowStep(j)
    BY EveryRowSteps DEF AttemptInv
  <1>3. ASSUME NEW j \in Jobs
        PROVE  /\ (status[j] \in Active <=> owner[j] # NoWorker)'
               /\ (status[j] \in Active => attempts[j] > 0)'
    <2>1. RowStep(j) /\ attempts[j] \in Nat
      BY <1>2 DEF AttemptInv, TypeOK
    <2>2. /\ status[j] \in Active <=> owner[j] # NoWorker
          /\ status[j] \in Active => attempts[j] > 0
      BY DEF AttemptInv, OwnedIffActive
    <2> QED
      BY <2>1, <2>2, WorkersAssumption
      DEF RowStep, Stays, Created, Leased, TakenBack, Finished, Withdrawn,
          Keeps, Active, Reported
  <1>4. ASSUME NEW j \in Jobs
        PROVE  /\ (finisher[j] # 0 => /\ finisher[j] = attempts[j]
                                      /\ status[j] \in Reported)'
               /\ (status[j] = "absent" => attempts[j] = 0 /\ finisher[j] = 0)'
    <2>1. RowStep(j)
      BY <1>2
    <2>2. /\ finisher[j] # 0 => /\ finisher[j] = attempts[j]
                                /\ status[j] \in Reported
          /\ status[j] = "absent" => attempts[j] = 0 /\ finisher[j] = 0
      BY DEF AttemptInv, ResultFromLatestAttempt, BlankUntilCreated
    <2> QED
      BY <2>1, <2>2
      DEF RowStep, Stays, Created, Leased, TakenBack, Finished, Withdrawn,
          Keeps, Active, Reported
  <1> QED
    BY <1>1, <1>3, <1>4
    DEF AttemptInv, OwnedIffActive, ResultFromLatestAttempt, BlankUntilCreated

\* Exactly the active jobs have an owner and a counted attempt, however leases,
\* recoveries, releases, results and cancellations interleave.
THEOREM Owned == Spec => []OwnedIffActive
  <1>1. AttemptInv => OwnedIffActive
    BY DEF AttemptInv
  <1> QED
    BY <1>1, AttemptInit, AttemptNext, PTL DEF Spec

\* The fence works: a result that a worker reports is stored only while the
\* attempt it belongs to is the latest one.
THEOREM AttemptsFenced == Spec => []ResultFromLatestAttempt
  <1>1. AttemptInv => ResultFromLatestAttempt
    BY DEF AttemptInv
  <1> QED
    BY <1>1, AttemptInit, AttemptNext, PTL DEF Spec

-----------------------------------------------------------------------------
(* Refinement of JobLease. *)

\* The epoch of at most one job changes in a step: only lease_job counts an
\* attempt, and it leases one job.
LEMMA OneLeasePerStep ==
    ASSUME TypeOK, [Next]_vars, NEW j \in Jobs, NEW k \in Jobs,
           attempts'[j] # attempts[j], attempts'[k] # attempts[k]
    PROVE  j = k
  <1>1. ASSUME UNCHANGED attempts
        PROVE  FALSE
    BY <1>1
  <1>2. CASE \E w \in Workers, i \in Jobs : LeaseJob(w, i)
    BY <1>2 DEF LeaseJob, TypeOK
  <1>3. ASSUME NEW w \in Workers, NEW i \in Jobs, NEW t \in 1 .. attempts[i],
               Callback(i, w, t)
        PROVE  FALSE
    BY <1>1, <1>3
    DEF Callback, RenewLease, SetJobStatus, CompleteJob, ReleaseJob
  <1>4. CASE UNCHANGED vars
    BY <1>1, <1>4 DEF vars, jobVars
  <1>5. CASE Client \/ Tick
    BY <1>1, <1>5
    DEF Client, CreateOrGetJob, InsertJob, RequestCancelJob, CancelQueuedJob,
        ReconcileStaleWorkers, Tick, jobVars
  <1>6. CASE PollRecovers
    BY <1>1, <1>6 DEF PollRecovers, RecoverExpiredLeases
  <1>7. ASSUME NEW w \in Workers,
               \/ RecoverWorkerJobs(w)
               \/ UpsertWorker(w)
               \/ ReconcileWorkerStartup(w)
        PROVE  FALSE
    BY <1>1, <1>7
    DEF RecoverWorkerJobs, UpsertWorker, ReconcileWorkerStartup, jobVars
  <1> QED
    BY <1>2, <1>3, <1>4, <1>5, <1>6, <1>7 DEF Next, WorkerStep

LEMMA LeaseInit == Init => Lease!Init
  BY DEF Init, Lease!Init, Phase

LEMMA LeaseNext == AttemptInv /\ [Next]_vars => [Lease!Next]_(Lease!vars)
  <1> SUFFICES ASSUME AttemptInv, [Next]_vars
               PROVE  Lease!Next
    OBVIOUS
  <1>0. AttemptInv'
    BY AttemptNext
  <1>1. ASSUME NEW j \in Jobs
        PROVE  Lease!Stay(j) \/ Lease!Step(j)
    <2>1. RowStep(j)
      BY EveryRowSteps DEF AttemptInv
    <2>2. /\ status[j] \in Active <=> owner[j] # NoWorker
          /\ finisher[j] # 0 => status[j] \in Reported
          /\ status[j] = "absent" => attempts[j] = 0 /\ finisher[j] = 0
          /\ status[j] \in Statuses
          /\ owner[j] \in Workers \cup {NoWorker}
      BY DEF AttemptInv, OwnedIffActive, ResultFromLatestAttempt,
             BlankUntilCreated, TypeOK
    <2>3. status'[j] \in Active <=> owner'[j] # NoWorker
      BY <1>0 DEF AttemptInv, OwnedIffActive
    <2> USE DEF Lease!Becomes, Phase
    <2>4. CASE Stays(j)
      BY <2>2, <2>4 DEF Stays, Keeps, Lease!Stay, Active
    <2>5. CASE Created(j)
      BY <2>2, <2>5 DEF Created, Keeps, Lease!Step, Lease!Offer, Active
    <2>6. CASE Leased(j)
      BY <2>2, <2>6
      DEF Leased, Lease!Step, Lease!Acquire, Active, Reported
    <2>7. CASE TakenBack(j)
      BY <2>2, <2>7
      DEF TakenBack, Lease!Step, Lease!Reopen, Lease!Withdraw, Active, Reported,
          Settled
    <2>8. CASE Finished(j)
      BY <2>2, <2>8
      DEF Finished, Lease!Step, Lease!Report, Active, Reported, Settled
    <2>9. CASE Withdrawn(j)
      BY <2>2, <2>3, <2>9
      DEF Withdrawn, Lease!Step, Lease!Withdraw, Active, Reported, Settled
    <2> QED
      BY <2>1, <2>4, <2>5, <2>6, <2>7, <2>8, <2>9 DEF RowStep
  <1>2. ASSUME NEW j \in Jobs, NEW k \in Jobs,
               attempts'[j] # attempts[j], attempts'[k] # attempts[k]
        PROVE  j = k
    BY <1>2, OneLeasePerStep DEF AttemptInv
  <1> QED
    BY <1>1, <1>2 DEF Lease!Next

\* The store implements JobLease: seen through phase, holder and epoch, every
\* job is offered once, held by one worker at a time, handed over only through
\* the queue and closed once, by its latest holder or by nobody.
THEOREM ImplementsJobLease == Spec => LeaseSpec
  BY LeaseInit, LeaseNext, AttemptInit, AttemptNext, PTL
  DEF Spec, LeaseSpec, Lease!Spec

-----------------------------------------------------------------------------
(* Worker pointers. *)

PointerInv == AttemptInv /\ PointerOwnsJob

\* Taking the lease from jobs and dropping the pointers at them leaves no
\* pointer behind, since a pointer names the owner's job.
LEMMA PointersDropped ==
    ASSUME TypeOK, PointerOwnsJob, NEW S \in SUBSET Jobs,
           NEW next \in [S -> Statuses], Unlease(S, next), DropPointers(S)
    PROVE  PointerOwnsJob'
  BY DEF TypeOK, PointerOwnsJob, Unlease, DropPointers

LEMMA PointerNext == PointerInv /\ [Next]_vars => PointerInv'
  <1> SUFFICES ASSUME PointerInv, [Next]_vars
               PROVE  PointerOwnsJob'
    BY AttemptNext DEF PointerInv
  <1>0. TypeOK /\ PointerOwnsJob
    BY DEF PointerInv, AttemptInv
  <1>1. CASE UNCHANGED vars
    BY <1>0, <1>1 DEF vars, jobVars, workerVars, PointerOwnsJob
  <1>2. ASSUME NEW j \in Jobs, NEW s \in Submissions,
               NEW f \in BOOLEAN, NEW p \in BOOLEAN, CreateOrGetJob(j, s, f, p)
        PROVE  PointerOwnsJob'
    BY <1>0, <1>2
    DEF CreateOrGetJob, InsertJob, Outdated, NextIdentity, workerVars,
        PointerOwnsJob, TypeOK, Active
  <1>3. ASSUME NEW j \in Jobs, RequestCancelJob(j)
        PROVE  PointerOwnsJob'
    BY <1>0, <1>3 DEF RequestCancelJob, workerVars, PointerOwnsJob
  <1>4. ASSUME NEW j \in Jobs, CancelQueuedJob(j)
        PROVE  PointerOwnsJob'
    BY <1>0, <1>4
    DEF CancelQueuedJob, Unlease, workerVars, PointerOwnsJob, TypeOK, Active
  <1>5. ASSUME NEW offline \in SUBSET Workers, ReconcileStaleWorkers(offline)
        PROVE  PointerOwnsJob'
    BY <1>0, <1>5
    DEF ReconcileStaleWorkers, jobVars, PointerOwnsJob, TypeOK
  <1>6. CASE Tick
    BY <1>0, <1>6 DEF Tick, workerVars, PointerOwnsJob
  <1>7. CASE RecoverExpiredLeases
    <2>1. Expired \in SUBSET Jobs
      BY DEF Expired
    <2> QED
      BY <1>0, <1>7, <2>1, AfterLossType, PointersDropped
      DEF RecoverExpiredLeases
  <1>8. ASSUME NEW w \in Workers, RecoverWorkerJobs(w)
        PROVE  PointerOwnsJob'
    BY <1>0, <1>8
    DEF RecoverWorkerJobs, Unlease, HeldBy, PointerOwnsJob, TypeOK
  <1>9. ASSUME NEW w \in Workers, UpsertWorker(w) \/ ReconcileWorkerStartup(w)
        PROVE  PointerOwnsJob'
    BY <1>0, <1>9
    DEF UpsertWorker, ReconcileWorkerStartup, jobVars, PointerOwnsJob, TypeOK
  <1>10. ASSUME NEW w \in Workers, NEW j \in Jobs, LeaseJob(w, j)
         PROVE  PointerOwnsJob'
    BY <1>0, <1>10
    DEF LeaseJob, Candidates, PointerOwnsJob, TypeOK, Active
  <1>11. ASSUME NEW w \in Workers, NEW j \in Jobs, NEW t \in 1 .. attempts[j],
                Callback(j, w, t)
         PROVE  PointerOwnsJob'
    <2>1. CASE RenewLease(j, w, t)
      BY <1>0, <2>1 DEF RenewLease, workerVars, PointerOwnsJob
    <2>2. ASSUME NEW new \in {"downloading", "preparing", "running"},
                 SetJobStatus(j, w, t, new)
          PROVE  PointerOwnsJob'
      BY <1>0, <2>2 DEF SetJobStatus, Active, workerVars, PointerOwnsJob, TypeOK
    <2>3. ASSUME NEW result \in Reported, CompleteJob(j, w, t, result)
          PROVE  PointerOwnsJob'
      <3>1. [k \in {j} |-> result] \in [{j} -> Statuses]
        BY DEF Reported, Statuses, Settled
      <3> QED
        BY <1>0, <2>3, <3>1, PointersDropped DEF CompleteJob
    <2>4. CASE ReleaseJob(j, w, t)
      <3>1. [k \in {j} |-> "queued"] \in [{j} -> Statuses]
        BY DEF Statuses
      <3> QED
        BY <1>0, <2>4, <3>1, PointersDropped DEF ReleaseJob
    <2> QED
      BY <1>11, <2>1, <2>2, <2>3, <2>4 DEF Callback
  <1> QED
    BY <1>1, <1>2, <1>3, <1>4, <1>5, <1>6, <1>7, <1>8, <1>9, <1>10, <1>11
    DEF Next, Client, WorkerStep, PollRecovers

\* A worker's current_job_id is never stale: it names a job that this worker
\* holds, for any number of workers registering, polling and reporting at once.
THEOREM PointersOwned == Spec => []PointerOwnsJob
  <1>1. Init => PointerInv
    BY AttemptInit DEF PointerInv, Init, PointerOwnsJob
  <1>2. PointerInv => PointerOwnsJob
    BY DEF PointerInv
  <1> QED
    BY <1>1, <1>2, PointerNext, PTL DEF Spec

-----------------------------------------------------------------------------
(* Settled jobs. *)

LEMMA SettledStep ==
    ASSUME TypeOK, [Next]_vars, NEW j \in Jobs, status[j] \in Settled
    PROVE  /\ status'[j] = status[j]
           /\ owner'[j] = owner[j]
           /\ attempts'[j] = attempts[j]
           /\ cancelFlag'[j] = cancelFlag[j]
           /\ supersededBy'[j] = supersededBy[j]
           /\ finisher'[j] = finisher[j]
  <1>1. RowStep(j)
    BY EveryRowSteps
  <1>2. Stays(j) /\ status'[j] = status[j]
    BY <1>1 DEF RowStep, Stays, Created, Leased, TakenBack, Finished, Withdrawn,
                Active, Settled
  <1> DEFINE Fixed == /\ cancelFlag'[j] = cancelFlag[j]
                      /\ supersededBy'[j] = supersededBy[j]
  <1>3. ASSUME NEW s \in Submissions, NEW k \in Jobs, NEW f \in BOOLEAN,
               NEW p \in BOOLEAN, CreateOrGetJob(k, s, f, p)
        PROVE  Fixed
    BY <1>3 DEF CreateOrGetJob, InsertJob, Outdated, Settled, TypeOK
  <1>4. ASSUME NEW k \in Jobs, RequestCancelJob(k)
        PROVE  Fixed
    BY <1>4 DEF RequestCancelJob, Active, Settled, TypeOK
  <1>5. ASSUME NEW k \in Jobs, NEW w \in Workers, NEW t, Callback(k, w, t)
        PROVE  Fixed
    BY <1>5 DEF Callback, RenewLease, SetJobStatus, CompleteJob, ReleaseJob
  <1>6. Fixed
    BY <1>3, <1>4, <1>5
    DEF Next, Client, CancelQueuedJob, ReconcileStaleWorkers, Tick, PollRecovers,
        RecoverExpiredLeases, WorkerStep, RecoverWorkerJobs, UpsertWorker,
        ReconcileWorkerStartup, LeaseJob, vars, jobVars
  <1> QED
    BY <1>2, <1>6 DEF Stays, Keeps

\* Whatever arrives late, a settled job keeps its status, owner, attempts,
\* cancel flag, superseder and deciding attempt.
THEOREM SettledNeverChanges == Spec => SettledIsFinal
  <1>1. TypeOK /\ [Next]_vars =>
          [\A j \in Jobs : status[j] \in Settled =>
              /\ status'[j] = status[j]
              /\ owner'[j] = owner[j]
              /\ attempts'[j] = attempts[j]
              /\ cancelFlag'[j] = cancelFlag[j]
              /\ supersededBy'[j] = supersededBy[j]
              /\ finisher'[j] = finisher[j]]_vars
    BY SettledStep
  <1> QED
    BY <1>1, TypeCorrect, PTL DEF Spec, SettledIsFinal

-----------------------------------------------------------------------------
(* Supersede links.  The superseding job is the newer one because rows are *)
(* inserted in the order of their identities.                              *)

CreatedInOrder ==
    \A j, k \in Jobs : j < k /\ status[k] # "absent" => status[j] # "absent"

LinkInv == TypeOK /\ CreatedInOrder /\ SupersedeLinks

\* What every step but the creation of a job does to the columns that the
\* links are made of.
LEMMA LinksUntouched ==
    ASSUME TypeOK, [Next]_vars,
           ~ \E j \in Jobs, s \in Submissions, f \in BOOLEAN, p \in BOOLEAN :
                CreateOrGetJob(j, s, f, p)
    PROVE  /\ UNCHANGED <<sub, supersededBy>>
           /\ \A j \in Jobs :
                 /\ status'[j] = "absent" <=> status[j] = "absent"
                 /\ status'[j] = "superseded" <=> status[j] = "superseded"
  <1>1. CASE UNCHANGED vars
    BY <1>1 DEF vars, jobVars
  <1>2. CASE \E j \in Jobs : RequestCancelJob(j) \/ CancelQueuedJob(j)
    BY <1>2 DEF RequestCancelJob, CancelQueuedJob, Unlease, TypeOK
  <1>3. CASE Tick \/ \E offline \in SUBSET Workers : ReconcileStaleWorkers(offline)
    BY <1>3 DEF Tick, ReconcileStaleWorkers, jobVars
  <1>4. CASE RecoverExpiredLeases \/ \E w \in Workers : RecoverWorkerJobs(w)
    <2>1. /\ Expired \in SUBSET Jobs
          /\ \A j \in Expired : status[j] \in Active
          /\ \A w \in Workers : /\ HeldBy(w) \in SUBSET Jobs
                               /\ \A j \in HeldBy(w) : status[j] \in Active
      BY DEF Expired, HeldBy
    <2>2. UNCHANGED <<sub, supersededBy, attempts, finisher>>
      BY <1>4 DEF RecoverExpiredLeases, RecoverWorkerJobs
    <2>3. \/ Unlease(Expired, AfterLoss(Expired))
          \/ \E w \in Workers : Unlease(HeldBy(w), AfterLoss(HeldBy(w)))
      BY <1>4 DEF RecoverExpiredLeases, RecoverWorkerJobs
    <2>4. \A j \in Jobs : Stays(j) \/ TakenBack(j)
      BY <2>1, <2>2, <2>3, LossRows
    <2> QED
      BY <2>2, <2>4 DEF Stays, TakenBack, Active
  <1>5. CASE \E w \in Workers : UpsertWorker(w) \/ ReconcileWorkerStartup(w)
    BY <1>5 DEF UpsertWorker, ReconcileWorkerStartup, jobVars
  <1>6. CASE \E w \in Workers, j \in Jobs : LeaseJob(w, j)
    BY <1>6 DEF LeaseJob, Candidates, TypeOK
  <1>7. ASSUME NEW w \in Workers, NEW j \in Jobs, NEW t \in 1 .. attempts[j],
               Callback(j, w, t)
        PROVE  /\ UNCHANGED <<sub, supersededBy>>
               /\ \A k \in Jobs :
                     /\ status'[k] = "absent" <=> status[k] = "absent"
                     /\ status'[k] = "superseded" <=> status[k] = "superseded"
    BY <1>7 DEF Callback, RenewLease, SetJobStatus, CompleteJob, ReleaseJob,
                Holds, Unlease, Active, Reported, TypeOK
  <1> QED
    BY <1>1, <1>2, <1>3, <1>4, <1>5, <1>6, <1>7
    DEF Next, Client, WorkerStep, PollRecovers

LEMMA LinkNext == LinkInv /\ [Next]_vars => LinkInv'
  <1> SUFFICES ASSUME LinkInv, [Next]_vars
               PROVE  CreatedInOrder' /\ SupersedeLinks'
    BY TypeNext DEF LinkInv
  <1>0. TypeOK /\ CreatedInOrder /\ SupersedeLinks
    BY DEF LinkInv
  <1>1. ASSUME NEW j \in Jobs, NEW s \in Submissions,
               NEW f \in BOOLEAN, NEW p \in BOOLEAN, CreateOrGetJob(j, s, f, p)
        PROVE  CreatedInOrder' /\ SupersedeLinks'
    <2> DEFINE old == IF p THEN Outdated(s) ELSE {}
    <2>1. /\ NextIdentity(j)
          /\ status' = [k \in Jobs |-> IF k = j THEN "queued"
                                       ELSE IF k \in old THEN "superseded"
                                       ELSE status[k]]
          /\ sub' = [sub EXCEPT ![j] = s]
          /\ supersededBy' = [k \in Jobs |-> IF k \in old THEN j
                                             ELSE supersededBy[k]]
      BY <1>1 DEF CreateOrGetJob, InsertJob
    <2>2. \A k \in old : /\ k \in Jobs
                         /\ status[k] = "queued"
                         /\ sub[k].repo = s.repo
                         /\ sub[k].branch = s.branch
                         /\ sub[k].profile = s.profile
                         /\ sub[k].key # s.key
      BY DEF Outdated
    <2> HIDE DEF old
    <2>3. Jobs \subseteq Nat \ {NoJob}
      BY JobsAssumption
    <2>4. CreatedInOrder'
      BY <1>0, <2>1, <2>2, <2>3 DEF CreatedInOrder, NextIdentity, TypeOK
    <2>5. ASSUME NEW k \in old
          PROVE  k < j
      <3>1. k \in Jobs /\ status[k] # "absent" /\ status[j] = "absent"
        BY <2>1, <2>2 DEF NextIdentity
      <3>2. k # j /\ ~ (j < k)
        BY <1>0, <3>1 DEF CreatedInOrder
      <3> QED
        BY <2>3, <3>1, <3>2
    <2>6. ASSUME NEW i \in Jobs
          PROVE  LET k == supersededBy'[i]
                 IN  /\ (status'[i] = "superseded") <=> (k # NoJob)
                     /\ k # NoJob => /\ i < k
                                     /\ status'[k] # "absent"
                                     /\ sub'[k].repo = sub'[i].repo
                                     /\ sub'[k].branch = sub'[i].branch
                                     /\ sub'[k].profile = sub'[i].profile
                                     /\ sub'[k].key # sub'[i].key
      <3>1. LET k == supersededBy[i]
            IN  /\ (status[i] = "superseded") <=> (k # NoJob)
                /\ k # NoJob => /\ i < k
                                /\ status[k] # "absent"
                                /\ sub[k].repo = sub[i].repo
                                /\ sub[k].branch = sub[i].branch
                                /\ sub[k].profile = sub[i].profile
                                /\ sub[k].key # sub[i].key
        BY <1>0 DEF SupersedeLinks
      <3>2. CASE i \in old
        BY <1>0, <2>1, <2>2, <2>3, <2>5, <3>2 DEF NextIdentity, TypeOK
      <3>3. CASE i = j
        BY <1>0, <2>1, <2>2, <3>1, <3>3 DEF NextIdentity, TypeOK
      <3>4. CASE i \notin old /\ i # j
        <4>1. supersededBy'[i] = supersededBy[i] /\ status'[i] = status[i]
          BY <2>1, <3>4
        <4>2. sub'[i] = sub[i]
          BY <1>0, <2>1, <3>4 DEF TypeOK
        <4>3. CASE supersededBy[i] = NoJob
          BY <3>1, <4>1, <4>3
        <4>4. CASE supersededBy[i] # NoJob
          <5> DEFINE k == supersededBy[i]
          <5>1. k \in Jobs /\ k # j
            BY <1>0, <2>1, <3>1, <4>4 DEF NextIdentity, TypeOK
          <5>2. sub'[k] = sub[k] /\ status'[k] # "absent"
            BY <1>0, <2>1, <3>1, <4>4, <5>1 DEF TypeOK
          <5> QED
            BY <3>1, <4>1, <4>2, <5>1, <5>2
        <4> QED
          BY <4>3, <4>4
      <3> QED
        BY <3>2, <3>3, <3>4
    <2> QED
      BY <2>4, <2>6 DEF SupersedeLinks
  <1>2. CASE ~ \E j \in Jobs, s \in Submissions, f \in BOOLEAN, p \in BOOLEAN :
                  CreateOrGetJob(j, s, f, p)
    <2>1. /\ sub' = sub /\ supersededBy' = supersededBy
          /\ \A j \in Jobs :
                /\ status'[j] = "absent" <=> status[j] = "absent"
                /\ status'[j] = "superseded" <=> status[j] = "superseded"
      BY <1>0, <1>2, LinksUntouched
    <2>2. \A j \in Jobs : supersededBy[j] # NoJob => supersededBy[j] \in Jobs
      BY <1>0 DEF TypeOK
    <2> QED
      BY <1>0, <2>1, <2>2 DEF CreatedInOrder, SupersedeLinks
  <1> QED
    BY <1>1, <1>2

\* A superseded job always leads to the newer job that replaced it, for the
\* same repository, branch and profile and another identity.
THEOREM Superseded == Spec => []SupersedeLinks
  <1>1. Init => LinkInv
    BY TypeInit DEF LinkInv, CreatedInOrder, SupersedeLinks, Init
  <1>2. LinkInv => SupersedeLinks
    BY DEF LinkInv
  <1> QED
    BY <1>1, <1>2, LinkNext, PTL DEF Spec

-----------------------------------------------------------------------------
(* Worker capacity. *)

LEMMA SomeJobsFinite ==
    ASSUME NEW S \in SUBSET Jobs
    PROVE  IsFiniteSet(S) /\ Cardinality(S) \in Nat
  BY JobsAssumption, FS_Subset, FS_CardinalityType

\* A step that attempts no job gives no worker a job.
LEMMA NoLeaseNoGrowth ==
    ASSUME TypeOK, OwnedIffActive, [Next]_vars, NEW w \in Workers,
           NEW i \in Jobs, \A j \in Jobs \ {i} : attempts'[j] = attempts[j]
    PROVE  HeldBy(w)' \subseteq HeldBy(w) \cup {i}
  <1> SUFFICES ASSUME NEW j \in Jobs, j # i, j \in HeldBy(w)'
               PROVE  j \in HeldBy(w)
    BY DEF HeldBy
  <1>1. RowStep(j) /\ attempts'[j] = attempts[j] /\ attempts[j] \in Nat
    BY EveryRowSteps DEF TypeOK
  <1>2. status'[j] \in Active /\ owner'[j] = w
    BY DEF HeldBy
  <1>3. Stays(j)
    BY <1>1, <1>2 DEF RowStep, Created, Leased, TakenBack, Finished, Withdrawn,
                      Active, Reported
  <1> QED
    BY <1>2, <1>3 DEF Stays, Keeps, HeldBy

CapacityInv == AttemptInv /\ \A w \in Workers : Cardinality(HeldBy(w)) <= Capacity[w]

LEMMA CapacityNext == CapacityInv /\ [Next]_vars => CapacityInv'
  <1> SUFFICES ASSUME CapacityInv, [Next]_vars, NEW w \in Workers
               PROVE  Cardinality(HeldBy(w)') <= Capacity[w]
    BY AttemptNext DEF CapacityInv
  <1>0. /\ TypeOK
        /\ OwnedIffActive
        /\ Cardinality(HeldBy(w)) <= Capacity[w]
        /\ Capacity[w] \in Nat
    BY RegistrationAssumption DEF CapacityInv, AttemptInv
  <1>1. HeldBy(w) \in SUBSET Jobs /\ HeldBy(w)' \in SUBSET Jobs
    BY DEF HeldBy
  <1>2. /\ IsFiniteSet(HeldBy(w))
        /\ Cardinality(HeldBy(w)) \in Nat
        /\ Cardinality(HeldBy(w)') \in Nat
    BY <1>1, SomeJobsFinite
  <1>3. ASSUME HeldBy(w)' \subseteq HeldBy(w)
        PROVE  Cardinality(HeldBy(w)') <= Capacity[w]
    <2>1. Cardinality(HeldBy(w)') <= Cardinality(HeldBy(w))
      BY <1>2, <1>3, FS_Subset
    <2> QED
      BY <1>0, <1>2, <2>1
  <1>4. ASSUME NEW j \in Jobs, LeaseJob(w, j)
        PROVE  Cardinality(HeldBy(w)') <= Capacity[w]
    <2>1. HeldBy(w)' \subseteq HeldBy(w) \cup {j}
      BY <1>0, <1>4, NoLeaseNoGrowth DEF LeaseJob, TypeOK
    <2>2. /\ IsFiniteSet(HeldBy(w) \cup {j})
          /\ Cardinality(HeldBy(w) \cup {j}) <= Cardinality(HeldBy(w)) + 1
      <3>1. /\ IsFiniteSet(HeldBy(w) \cup {j})
            /\ Cardinality(HeldBy(w) \cup {j}) =
                 IF j \in HeldBy(w) THEN Cardinality(HeldBy(w))
                                    ELSE Cardinality(HeldBy(w)) + 1
        BY <1>2, FS_AddElement, Zenon
      <3> QED
        BY <1>2, <3>1
    <2>3. Cardinality(HeldBy(w)') <= Cardinality(HeldBy(w) \cup {j})
      BY <2>1, <2>2, FS_Subset
    <2>4. Cardinality(HeldBy(w) \cup {j}) \in Nat
      BY <2>2, FS_CardinalityType
    <2>5. Cardinality(HeldBy(w)) < Capacity[w]
      BY <1>4 DEF LeaseJob
    <2> QED
      BY <1>0, <1>2, <2>2, <2>3, <2>4, <2>5
  <1>5. ASSUME NEW v \in Workers, NEW j \in Jobs, LeaseJob(v, j), v # w
        PROVE  HeldBy(w)' \subseteq HeldBy(w)
    <2>1. HeldBy(w)' \subseteq HeldBy(w) \cup {j}
      BY <1>0, <1>5, NoLeaseNoGrowth DEF LeaseJob, TypeOK
    <2>2. owner'[j] = v
      BY <1>0, <1>5 DEF LeaseJob, TypeOK
    <2> QED
      BY <1>5, <2>1, <2>2 DEF HeldBy
  <1>6. ASSUME \A j \in Jobs : attempts'[j] = attempts[j]
        PROVE  HeldBy(w)' \subseteq HeldBy(w)
    <2> SUFFICES ASSUME NEW j \in HeldBy(w)'
                 PROVE  j \in HeldBy(w)
      OBVIOUS
    <2>1. j \in Jobs /\ RowStep(j) /\ attempts[j] \in Nat
      BY <1>0, <1>1, EveryRowSteps DEF TypeOK
    <2>2. status'[j] \in Active /\ owner'[j] = w
      BY DEF HeldBy
    <2>3. Stays(j)
      BY <1>6, <2>1, <2>2
      DEF RowStep, Created, Leased, TakenBack, Finished, Withdrawn, Active,
          Reported
    <2> QED
      BY <2>1, <2>2, <2>3 DEF Stays, Keeps, HeldBy
  <1>7. \/ \A j \in Jobs : attempts'[j] = attempts[j]
        \/ \E v \in Workers, j \in Jobs : LeaseJob(v, j)
    BY <1>0
    DEF Next, Client, CreateOrGetJob, InsertJob, RequestCancelJob,
        CancelQueuedJob, ReconcileStaleWorkers, Tick, PollRecovers,
        RecoverExpiredLeases, WorkerStep, RecoverWorkerJobs, UpsertWorker,
        ReconcileWorkerStartup, Callback, RenewLease, SetJobStatus, CompleteJob,
        ReleaseJob, vars, jobVars
  <1> QED
    BY <1>3, <1>4, <1>5, <1>6, <1>7

\* No worker holds more jobs than the max_concurrent it registered, whatever
\* polls, recoveries and releases of all workers do at the same time.
THEOREM CapacityKept == Spec => []CapacityRespected
  <1>1. Init => CapacityInv
    <2> SUFFICES ASSUME Init, NEW w \in Workers
                 PROVE  Cardinality(HeldBy(w)) <= Capacity[w]
      BY AttemptInit DEF CapacityInv
    <2>1. HeldBy(w) = {}
      BY DEF Init, HeldBy, Active
    <2> QED
      BY <2>1, FS_EmptySet, RegistrationAssumption
  <1>2. CapacityInv => CapacityRespected
    BY DEF CapacityInv, CapacityRespected, HeldBy
  <1> QED
    BY <1>1, <1>2, CapacityNext, PTL DEF Spec

-----------------------------------------------------------------------------
(* Queue counters.  The MAX(0, ...) of _upsert_repo_queue_state makes a    *)
(* counter forget a decrement that came too early, so the counters are     *)
(* exact only because no transaction takes from a set what is not in it:   *)
(* what the lemmas below ask of the sets that join and leave.              *)

QueuedExact == \A r \in Repos : queued[r] = Cardinality(QueuedIn(r))
RunningExact == \A r \in Repos : running[r] = Cardinality(ActiveIn(r))

\* The clamp does nothing when a part of a set leaves it.
LEMMA MovedCount ==
    ASSUME NEW A \in SUBSET Jobs, NEW D \in SUBSET Jobs, NEW R \in SUBSET A,
           A \cap D = {}
    PROVE  /\ Cardinality((A \ R) \cup D)
                = AtLeastZero(Cardinality(A) + Cardinality(D) - Cardinality(R))
           /\ Cardinality((A \ R) \cup D)
                = AtLeastZero(Cardinality(A) - Cardinality(R)) + Cardinality(D)
  <1>1. /\ IsFiniteSet(A) /\ Cardinality(A) \in Nat
        /\ IsFiniteSet(D) /\ Cardinality(D) \in Nat
        /\ IsFiniteSet(R) /\ Cardinality(R) \in Nat
        /\ IsFiniteSet(A \ R) /\ Cardinality(A \ R) \in Nat
    BY SomeJobsFinite
  <1>2. Cardinality(A \ R) = Cardinality(A) - Cardinality(R)
    <2>1. A \cap R = R
      OBVIOUS
    <2> QED
      BY <1>1, <2>1, FS_Difference
  <1>3. Cardinality((A \ R) \cup D) = Cardinality(A \ R) + Cardinality(D)
    <2>1. (A \ R) \cap D = {}
      OBVIOUS
    <2>2. Cardinality((A \ R) \cup D)
            = Cardinality(A \ R) + Cardinality(D) - Cardinality((A \ R) \cap D)
      BY <1>1, FS_Union
    <2> QED
      BY <1>1, <2>1, <2>2, FS_EmptySet
  <1> QED
    BY <1>1, <1>2, <1>3 DEF AtLeastZero

\* A transaction that books the jobs of A into the queue and those of R out of
\* it keeps the counters exact if that is what it does to the rows.
LEMMA QueueBooked ==
    ASSUME QueuedExact, NEW A \in SUBSET Jobs, NEW R \in SUBSET Jobs,
           CountQueue(A, R), sub' = sub,
           \A j \in A : status[j] # "queued",
           \A j \in R : status[j] = "queued",
           \A j \in Jobs : status'[j] = "queued"
                           <=> (status[j] = "queued" /\ j \notin R) \/ j \in A
    PROVE  QueuedExact'
  <1> SUFFICES ASSUME NEW r \in Repos
               PROVE  queued'[r] = Cardinality(QueuedIn(r)')
    BY DEF QueuedExact
  <1>1. QueuedIn(r)' = (QueuedIn(r) \ OfRepo(R, r)) \cup OfRepo(A, r)
    BY DEF QueuedIn, OfRepo
  <1>2. /\ QueuedIn(r) \in SUBSET Jobs
        /\ OfRepo(A, r) \in SUBSET Jobs
        /\ OfRepo(R, r) \in SUBSET QueuedIn(r)
        /\ QueuedIn(r) \cap OfRepo(A, r) = {}
    BY DEF QueuedIn, OfRepo
  <1>3. queued'[r] = AtLeastZero(Cardinality(QueuedIn(r))
            + Cardinality(OfRepo(A, r)) - Cardinality(OfRepo(R, r)))
    BY DEF CountQueue, QueuedExact
  <1> QED
    BY <1>1, <1>2, <1>3, MovedCount

\* The same for the active jobs, which a set R of leaves.
LEMMA RunningBooked ==
    ASSUME TypeOK, RunningExact, NEW R \in SUBSET Jobs,
           CountRunning(R), sub' = sub,
           \A j \in R : status[j] \in Active,
           \A j \in Jobs : status'[j] \in Active
                           <=> status[j] \in Active /\ j \notin R
    PROVE  RunningExact'
  <1> SUFFICES ASSUME NEW r \in Repos
               PROVE  running'[r] = Cardinality(ActiveIn(r)')
    BY DEF RunningExact
  <1>1. ActiveIn(r)' = (ActiveIn(r) \ OfRepo(R, r)) \cup {}
    BY DEF ActiveIn, OfRepo
  <1>2. /\ ActiveIn(r) \in SUBSET Jobs
        /\ {} \in SUBSET Jobs
        /\ OfRepo(R, r) \in SUBSET ActiveIn(r)
        /\ ActiveIn(r) \cap {} = {}
    BY DEF ActiveIn, OfRepo
  <1>3. running'[r] = AtLeastZero(Cardinality(ActiveIn(r))
                                  - Cardinality(OfRepo(R, r)))
    BY DEF CountRunning, RunningExact
  <1>4. Cardinality(ActiveIn(r)')
          = AtLeastZero(Cardinality(ActiveIn(r)) - Cardinality(OfRepo(R, r)))
            + Cardinality({})
    BY <1>1, <1>2, MovedCount
  <1>5. Cardinality(ActiveIn(r)') \in Nat
    <2>1. ActiveIn(r)' \in SUBSET Jobs
      BY DEF ActiveIn
    <2> QED
      BY <2>1, SomeJobsFinite
  <1>6. Cardinality({}) = 0 /\ running'[r] \in Int
    <2>1. Cardinality(ActiveIn(r)) \in Nat /\ Cardinality(OfRepo(R, r)) \in Nat
      BY <1>2, SomeJobsFinite, CountType
    <2> QED
      BY <1>3, <2>1, FS_EmptySet DEF AtLeastZero
  <1> QED
    BY <1>3, <1>4, <1>6

\* A transaction that moves no job in or out of a set need not book it.
LEMMA QueueUntouched ==
    ASSUME QueuedExact, queued' = queued, sub' = sub,
           \A j \in Jobs : status'[j] = "queued" <=> status[j] = "queued"
    PROVE  QueuedExact'
  <1>1. ASSUME NEW r \in Repos
        PROVE  QueuedIn(r)' = QueuedIn(r)
    BY DEF QueuedIn
  <1> QED
    BY <1>1 DEF QueuedExact

LEMMA RunningUntouched ==
    ASSUME RunningExact, running' = running, sub' = sub,
           \A j \in Jobs : status'[j] \in Active <=> status[j] \in Active
    PROVE  RunningExact'
  <1>1. ASSUME NEW r \in Repos
        PROVE  ActiveIn(r)' = ActiveIn(r)
    BY DEF ActiveIn
  <1> QED
    BY <1>1 DEF RunningExact

\* The insert of a job books it and the jobs it supersedes.
LEMMA InsertCounted ==
    ASSUME TypeOK, QueuedExact, RunningExact, NEW j \in Jobs,
           NEW s \in Submissions, NEW p \in BOOLEAN, InsertJob(j, s, p)
    PROVE  QueuedExact' /\ RunningExact'
  <1> DEFINE old == IF p THEN Outdated(s) ELSE {}
  <1>1. /\ status[j] = "absent"
        /\ status' = [k \in Jobs |-> IF k = j THEN "queued"
                                     ELSE IF k \in old THEN "superseded"
                                     ELSE status[k]]
        /\ sub' = [sub EXCEPT ![j] = s]
        /\ queued' = [r \in Repos |->
              AtLeastZero(queued[r] - Cardinality(OfRepo(old, r)))
              + (IF s.repo = r THEN 1 ELSE 0)]
        /\ running' = running
    BY DEF InsertJob, NextIdentity
  <1>2. old \in SUBSET Jobs /\ \A k \in old : status[k] = "queued"
    BY DEF Outdated
  <1> HIDE DEF old
  <1>3. \A k \in Jobs : sub'[k] = IF k = j THEN s ELSE sub[k]
    BY <1>1 DEF TypeOK
  <1>4. ASSUME NEW r \in Repos
        PROVE  queued'[r] = Cardinality(QueuedIn(r)')
    <2> DEFINE new == IF s.repo = r THEN {j} ELSE {}
    <2>1. QueuedIn(r)' = (QueuedIn(r) \ OfRepo(old, r)) \cup new
      <3>1. ASSUME NEW k \in Jobs
            PROVE  k \in QueuedIn(r)'
                     <=> k \in (QueuedIn(r) \ OfRepo(old, r)) \cup new
        <4>1. CASE k = j
          BY <1>1, <1>3, <4>1 DEF QueuedIn
        <4>2. CASE k # j
          BY <1>1, <1>3, <4>2 DEF QueuedIn, OfRepo
        <4> QED
          BY <4>1, <4>2
      <3> QED
        BY <3>1 DEF QueuedIn
    <2>2. /\ QueuedIn(r) \in SUBSET Jobs
          /\ new \in SUBSET Jobs
          /\ OfRepo(old, r) \in SUBSET QueuedIn(r)
          /\ QueuedIn(r) \cap new = {}
      BY <1>1, <1>2 DEF QueuedIn, OfRepo
    <2>3. Cardinality(new) = IF s.repo = r THEN 1 ELSE 0
      BY FS_EmptySet, FS_Singleton
    <2> HIDE DEF new
    <2>4. Cardinality(QueuedIn(r)')
            = AtLeastZero(Cardinality(QueuedIn(r)) - Cardinality(OfRepo(old, r)))
              + Cardinality(new)
      BY <2>1, <2>2, MovedCount
    <2>5. queued'[r] = AtLeastZero(Cardinality(QueuedIn(r))
                                   - Cardinality(OfRepo(old, r)))
                       + (IF s.repo = r THEN 1 ELSE 0)
      BY <1>1 DEF QueuedExact
    <2> QED
      BY <2>3, <2>4, <2>5
  <1>5. ASSUME NEW r \in Repos
        PROVE  ActiveIn(r)' = ActiveIn(r)
    BY <1>1, <1>2, <1>3 DEF ActiveIn, Active, TypeOK
  <1> QED
    BY <1>1, <1>4, <1>5 DEF QueuedExact, RunningExact

\* A lease books one job out of the queue and into the running jobs.
LEMMA LeaseCounted ==
    ASSUME TypeOK, QueuedExact, RunningExact, NEW w \in Workers, NEW j \in Jobs,
           LeaseJob(w, j)
    PROVE  QueuedExact' /\ RunningExact'
  <1>1. /\ status[j] = "queued"
        /\ \A k \in Jobs : status'[k] = IF k = j THEN "leased" ELSE status[k]
        /\ sub' = sub
        /\ queued' = [queued EXCEPT ![sub[j].repo] = AtLeastZero(@ - 1)]
        /\ running' = [running EXCEPT ![sub[j].repo] = @ + 1]
    BY DEF LeaseJob, Candidates, TypeOK
  <1>2. ASSUME NEW r \in Repos
        PROVE  /\ queued'[r] = Cardinality(QueuedIn(r)')
               /\ running'[r] = Cardinality(ActiveIn(r)')
    <2>1. /\ QueuedIn(r) \in SUBSET Jobs /\ ActiveIn(r) \in SUBSET Jobs
          /\ queued[r] = Cardinality(QueuedIn(r))
          /\ running[r] = Cardinality(ActiveIn(r))
      BY DEF QueuedIn, ActiveIn, QueuedExact, RunningExact
    <2>2. /\ IsFiniteSet(QueuedIn(r)) /\ Cardinality(QueuedIn(r)) \in Nat
          /\ IsFiniteSet(ActiveIn(r)) /\ Cardinality(ActiveIn(r)) \in Nat
      BY <2>1, SomeJobsFinite
    <2>3. CASE r = sub[j].repo
      <3>1. /\ QueuedIn(r)' = QueuedIn(r) \ {j}
            /\ ActiveIn(r)' = ActiveIn(r) \cup {j}
            /\ j \in QueuedIn(r)
            /\ j \notin ActiveIn(r)
        BY <1>1, <2>3 DEF QueuedIn, ActiveIn, Active
      <3>2. /\ queued'[r] = AtLeastZero(queued[r] - 1)
            /\ running'[r] = running[r] + 1
        BY <1>1, <2>3 DEF TypeOK
      <3>3. /\ Cardinality(QueuedIn(r) \ {j}) = Cardinality(QueuedIn(r)) - 1
            /\ Cardinality(ActiveIn(r) \cup {j}) = Cardinality(ActiveIn(r)) + 1
        BY <2>2, <3>1, FS_AddElement, FS_RemoveElement
      <3>4. Cardinality(QueuedIn(r) \ {j}) \in Nat
        BY <2>2, FS_RemoveElement, FS_CardinalityType
      <3> QED
        BY <2>1, <2>2, <3>1, <3>2, <3>3, <3>4 DEF AtLeastZero
    <2>4. CASE r # sub[j].repo
      <3>1. QueuedIn(r)' = QueuedIn(r) /\ ActiveIn(r)' = ActiveIn(r)
        BY <1>1, <2>4 DEF QueuedIn, ActiveIn, Active
      <3>2. queued'[r] = queued[r] /\ running'[r] = running[r]
        BY <1>1, <2>4 DEF TypeOK
      <3> QED
        BY <2>1, <3>1, <3>2
    <2> QED
      BY <2>3, <2>4
  <1> QED
    BY <1>2 DEF QueuedExact, RunningExact

\* A recovery books the jobs it takes back out of the running ones, and those
\* of them that are tried again into the queue.
LEMMA LossCounted ==
    ASSUME TypeOK, QueuedExact, RunningExact, NEW S \in SUBSET Jobs,
           \A j \in S : status[j] \in Active,
           Unlease(S, AfterLoss(S)), CountQueue(Requeued(S), {}),
           CountRunning(S), sub' = sub
    PROVE  QueuedExact' /\ RunningExact'
  <1>1. \A j \in Jobs : status'[j] = IF j \in S THEN AfterLoss(S)[j] ELSE status[j]
    BY DEF Unlease
  <1>2. \A j \in S : AfterLoss(S)[j] \in {"queued", "worker_lost"}
    BY DEF AfterLoss
  <1>3. Requeued(S) \in SUBSET Jobs
    BY AfterLossType
  <1>4. /\ \A j \in Requeued(S) : status[j] # "queued"
        /\ \A j \in Jobs : status'[j] = "queued"
              <=> (status[j] = "queued" /\ j \notin {}) \/ j \in Requeued(S)
    BY <1>1, <1>2 DEF Requeued, Active
  <1>5. \A j \in Jobs : status'[j] \in Active <=> status[j] \in Active /\ j \notin S
    BY <1>1, <1>2 DEF Active
  <1>6. QueuedExact'
    BY <1>3, <1>4, QueueBooked
  <1>7. RunningExact'
    BY <1>5, RunningBooked
  <1> QED
    BY <1>6, <1>7

CountInv == TypeOK /\ QueuedExact /\ RunningExact

LEMMA CountNext == CountInv /\ [Next]_vars => CountInv'
  <1> SUFFICES ASSUME CountInv, [Next]_vars
               PROVE  QueuedExact' /\ RunningExact'
    BY TypeNext DEF CountInv
  <1>0. TypeOK /\ QueuedExact /\ RunningExact
    BY DEF CountInv
  <1>1. CASE UNCHANGED vars
    BY <1>0, <1>1, QueueUntouched, RunningUntouched DEF vars, jobVars, repoVars
  <1>2. ASSUME NEW j \in Jobs, NEW s \in Submissions,
               NEW f \in BOOLEAN, NEW p \in BOOLEAN, CreateOrGetJob(j, s, f, p)
        PROVE  QueuedExact' /\ RunningExact'
    BY <1>0, <1>2, InsertCounted DEF CreateOrGetJob
  <1>3. ASSUME NEW j \in Jobs, RequestCancelJob(j)
        PROVE  QueuedExact' /\ RunningExact'
    BY <1>0, <1>3, QueueUntouched, RunningUntouched DEF RequestCancelJob, repoVars
  <1>4. ASSUME NEW j \in Jobs, CancelQueuedJob(j)
        PROVE  QueuedExact' /\ RunningExact'
    <2>1. /\ status[j] = "queued"
          /\ \A k \in Jobs : status'[k] = IF k = j THEN "cancelled" ELSE status[k]
          /\ CountQueue({}, {j})
          /\ UNCHANGED <<sub, running>>
      BY <1>4 DEF CancelQueuedJob, Unlease
    <2>2. QueuedExact'
      BY <1>0, <2>1, QueueBooked
    <2>3. RunningExact'
      BY <1>0, <2>1, RunningUntouched DEF Active
    <2> QED
      BY <2>2, <2>3
  <1>5. ASSUME NEW offline \in SUBSET Workers, ReconcileStaleWorkers(offline)
        PROVE  QueuedExact' /\ RunningExact'
    BY <1>0, <1>5, QueueUntouched, RunningUntouched
    DEF ReconcileStaleWorkers, jobVars, repoVars
  <1>6. CASE Tick
    BY <1>0, <1>6, QueueUntouched, RunningUntouched DEF Tick, repoVars
  <1>7. CASE RecoverExpiredLeases
    <2>1. Expired \in SUBSET Jobs /\ \A j \in Expired : status[j] \in Active
      BY DEF Expired
    <2> QED
      BY <1>0, <1>7, <2>1, LossCounted DEF RecoverExpiredLeases
  <1>8. ASSUME NEW w \in Workers, RecoverWorkerJobs(w)
        PROVE  QueuedExact' /\ RunningExact'
    <2>1. HeldBy(w) \in SUBSET Jobs /\ \A j \in HeldBy(w) : status[j] \in Active
      BY DEF HeldBy
    <2> QED
      BY <1>0, <1>8, <2>1, LossCounted DEF RecoverWorkerJobs
  <1>9. ASSUME NEW w \in Workers, UpsertWorker(w) \/ ReconcileWorkerStartup(w)
        PROVE  QueuedExact' /\ RunningExact'
    BY <1>0, <1>9, QueueUntouched, RunningUntouched
    DEF UpsertWorker, ReconcileWorkerStartup, jobVars, repoVars
  <1>10. ASSUME NEW w \in Workers, NEW j \in Jobs, LeaseJob(w, j)
         PROVE  QueuedExact' /\ RunningExact'
    BY <1>0, <1>10, LeaseCounted
  <1>11. ASSUME NEW w \in Workers, NEW j \in Jobs, NEW t \in 1 .. attempts[j],
                Callback(j, w, t)
         PROVE  QueuedExact' /\ RunningExact'
    <2>1. CASE RenewLease(j, w, t)
      BY <1>0, <2>1, QueueUntouched, RunningUntouched DEF RenewLease, repoVars
    <2>2. ASSUME NEW new \in {"downloading", "preparing", "running"},
                 SetJobStatus(j, w, t, new)
          PROVE  QueuedExact' /\ RunningExact'
      <3>1. /\ status[j] \in Active
            /\ \A k \in Jobs : status'[k] = IF k = j THEN new ELSE status[k]
            /\ UNCHANGED <<sub, queued, running>>
        BY <1>0, <2>2 DEF SetJobStatus, Holds, repoVars, TypeOK
      <3>2. /\ \A k \in Jobs : status'[k] = "queued" <=> status[k] = "queued"
            /\ \A k \in Jobs : status'[k] \in Active <=> status[k] \in Active
        BY <3>1 DEF Active
      <3> QED
        BY <1>0, <3>1, <3>2, QueueUntouched, RunningUntouched
    <2>3. ASSUME NEW result \in Reported, CompleteJob(j, w, t, result)
          PROVE  QueuedExact' /\ RunningExact'
      <3>1. /\ status[j] \in Active
            /\ \A k \in Jobs : status'[k] = IF k = j THEN result ELSE status[k]
            /\ CountRunning({j})
            /\ UNCHANGED <<sub, queued>>
        BY <2>3 DEF CompleteJob, Holds, Unlease
      <3>2. /\ \A k \in Jobs : status'[k] = "queued" <=> status[k] = "queued"
            /\ \A k \in Jobs : status'[k] \in Active
                                <=> status[k] \in Active /\ k \notin {j}
        BY <3>1 DEF Active, Reported
      <3>3. QueuedExact'
        BY <1>0, <3>1, <3>2, QueueUntouched
      <3>4. RunningExact'
        BY <1>0, <3>1, <3>2, RunningBooked
      <3> QED
        BY <3>3, <3>4
    <2>4. CASE ReleaseJob(j, w, t)
      <3>1. /\ status[j] \in Active
            /\ \A k \in Jobs : status'[k] = IF k = j THEN "queued" ELSE status[k]
            /\ CountQueue({j}, {})
            /\ CountRunning({j})
            /\ sub' = sub
        BY <2>4 DEF ReleaseJob, Holds, Unlease
      <3>2. /\ status[j] # "queued"
            /\ \A k \in Jobs : status'[k] \in Active
                                <=> status[k] \in Active /\ k \notin {j}
        BY <3>1 DEF Active
      <3>3. QueuedExact'
        BY <1>0, <3>1, <3>2, QueueBooked
      <3>4. RunningExact'
        BY <1>0, <3>1, <3>2, RunningBooked
      <3> QED
        BY <3>3, <3>4
    <2> QED
      BY <1>11, <2>1, <2>2, <2>3, <2>4 DEF Callback
  <1> QED
    BY <1>1, <1>2, <1>3, <1>4, <1>5, <1>6, <1>7, <1>8, <1>9, <1>10, <1>11
    DEF Next, Client, WorkerStep, PollRecovers

\* For any number of jobs, workers and repositories, the two counters of a
\* repository are what counting its rows gives, and the clamp at zero of
\* _upsert_repo_queue_state never hides that a decrement came too early.
THEOREM CountersKept == Spec => []CountersExact
  <1>1. Init => CountInv
    <2> SUFFICES ASSUME Init
                 PROVE  QueuedExact /\ RunningExact
      BY TypeInit DEF CountInv
    <2>1. \A r : QueuedIn(r) = {} /\ ActiveIn(r) = {}
      BY DEF Init, QueuedIn, ActiveIn, Active
    <2> QED
      BY <2>1, FS_EmptySet DEF Init, QueuedExact, RunningExact
  <1>2. CountInv => CountersExact
    BY DEF CountInv, QueuedExact, RunningExact, CountersExact
  <1> QED
    BY <1>1, <1>2, CountNext, PTL DEF Spec

-----------------------------------------------------------------------------
(* Leases that are lost. *)

\* Without a new attempt no transaction revives a lease that has run out.
LEMMA LeaseOnlyRuns ==
    ASSUME TypeOK, [Next]_vars, NEW j \in Jobs, attempts'[j] = attempts[j],
           leaseLeft[j] <= 0
    PROVE  leaseLeft'[j] <= 0
  <1> USE DEF TypeOK
  <1>1. ASSUME NEW S \in SUBSET Jobs, NEW next, Unlease(S, next)
        PROVE  leaseLeft'[j] <= 0
    BY <1>1 DEF Unlease
  <1>2. CASE UNCHANGED leaseLeft
    BY <1>2
  <1>3. CASE Tick
    <2>1. leaseLeft[j] \in Int
      OBVIOUS
    <2> QED
      BY <1>3, <2>1 DEF Tick
  <1>4. ASSUME NEW k \in Jobs, CancelQueuedJob(k)
        PROVE  leaseLeft'[j] <= 0
    BY <1>1, <1>4 DEF CancelQueuedJob
  <1>5. CASE Client
    BY <1>2, <1>4, <1>5
    DEF Client, CreateOrGetJob, InsertJob, RequestCancelJob, ReconcileStaleWorkers,
        jobVars
  <1>6. CASE RecoverExpiredLeases \/ \E w \in Workers : RecoverWorkerJobs(w)
    BY <1>1, <1>6 DEF RecoverExpiredLeases, Expired, RecoverWorkerJobs, HeldBy
  <1>7. ASSUME NEW w \in Workers, NEW k \in Jobs, LeaseJob(w, k)
        PROVE  leaseLeft'[j] <= 0
    <2>1. k # j
      BY <1>7 DEF LeaseJob
    <2> QED
      BY <1>7, <2>1 DEF LeaseJob
  <1>8. ASSUME NEW w \in Workers, NEW k \in Jobs, NEW t, Callback(k, w, t)
        PROVE  leaseLeft'[j] <= 0
    BY <1>1, <1>2, <1>8
    DEF Callback, RenewLease, SetJobStatus, CompleteJob, ReleaseJob, Holds
  <1>9. ASSUME NEW w \in Workers, UpsertWorker(w) \/ ReconcileWorkerStartup(w)
        PROVE  leaseLeft'[j] <= 0
    BY <1>2, <1>9 DEF UpsertWorker, ReconcileWorkerStartup, jobVars
  <1> QED
    BY <1>2, <1>3, <1>5, <1>6, <1>7, <1>8, <1>9
    DEF Next, PollRecovers, WorkerStep, vars, jobVars

\* A cancel of an attempt is never taken back.
LEMMA CancelStays ==
    ASSUME TypeOK, [Next]_vars, NEW j \in Jobs, cancelFlag[j]
    PROVE  cancelFlag'[j]
  <1>1. ASSUME NEW k \in Jobs, RequestCancelJob(k)
        PROVE  cancelFlag'[j]
    BY <1>1 DEF RequestCancelJob, TypeOK
  <1> QED
    BY <1>1
    DEF Next, Client, CreateOrGetJob, InsertJob, CancelQueuedJob,
        ReconcileStaleWorkers, Tick, PollRecovers, RecoverExpiredLeases, WorkerStep,
        RecoverWorkerJobs, UpsertWorker, ReconcileWorkerStartup, LeaseJob, Callback,
        RenewLease, SetJobStatus, CompleteJob, ReleaseJob, vars, jobVars

LEMMA LostStep ==
    ASSUME TypeOK, [Next]_vars, NEW j \in Jobs, NEW w \in Workers,
           NEW t \in 1 .. attempts[j], ~ Holds(j, w, t)
    PROVE  ~ Holds(j, w, t)'
  <1> SUFFICES ASSUME Holds(j, w, t)'
               PROVE  FALSE
    OBVIOUS
  <1>1. /\ RowStep(j)
        /\ attempts[j] \in Nat /\ t <= attempts[j]
        /\ leaseLeft[j] \in Int
    BY EveryRowSteps DEF TypeOK
  <1>2. /\ status'[j] \in Active /\ owner'[j] = w
        /\ attempts'[j] = t /\ leaseLeft'[j] > 0
    BY DEF Holds
  <1>3. Stays(j)
    BY <1>1, <1>2
    DEF RowStep, Created, Leased, TakenBack, Finished, Withdrawn, Active, Reported
  <1>4. status[j] \in Active /\ owner[j] = w /\ attempts[j] = t
    BY <1>2, <1>3 DEF Stays, Keeps
  <1>5. leaseLeft[j] <= 0
    BY <1>1, <1>4 DEF Holds
  <1>6. leaseLeft'[j] <= 0
    BY <1>2, <1>4, <1>5, LeaseOnlyRuns
  <1> QED
    BY <1>2, <1>6, <1>1, TypeNext DEF TypeOK

\* An attempt that lost its lease, by time, by a recovery or by its result,
\* never gets it back: no renewal that comes late, no new lease and no other
\* worker's step makes the fence accept it again.
THEOREM LostForGood ==
    Spec => [][\A j \in Jobs, w \in Workers : \A t \in 1 .. attempts[j] :
                  ~ Holds(j, w, t) => ~ Holds(j, w, t)']_vars
  <1>1. TypeOK /\ [Next]_vars =>
          [\A j \in Jobs, w \in Workers : \A t \in 1 .. attempts[j] :
              ~ Holds(j, w, t) => ~ Holds(j, w, t)']_vars
    BY LostStep
  <1> QED
    BY <1>1, TypeCorrect, PTL DEF Spec

-----------------------------------------------------------------------------
(* The order of the queue. *)

\* repo_last_dispatched orders the repositories: servedAfter is a strict weak
\* order, in which those that were never served are alike.
ServedOrder ==
    \A p, q, r \in Repos :
        /\ r \notin servedAfter[r]
        /\ q \in servedAfter[p] /\ r \in servedAfter[q] => r \in servedAfter[p]
        /\ q \in servedAfter[p] => r \in servedAfter[p] \/ q \in servedAfter[r]

\* Serving a repository puts it behind all others.
LEMMA ServedOrderNext ==
    ASSUME TypeOK, [Next]_vars, ServedOrder
    PROVE  ServedOrder'
  <1>1. ASSUME UNCHANGED servedAfter
        PROVE  ServedOrder'
    BY <1>1 DEF ServedOrder
  <1>2. ASSUME NEW w \in Workers, NEW j \in Jobs, LeaseJob(w, j)
        PROVE  ServedOrder'
    <2>1. PICK s \in Repos :
             servedAfter' = [r \in Repos |-> IF r = s THEN {} ELSE servedAfter[r] \cup {s}]
      BY <1>2, SubmissionsAssumption DEF LeaseJob, TypeOK
    <2> QED
      BY <2>1 DEF ServedOrder
  <1> QED
    BY <1>1, <1>2
    DEF Next, Client, CreateOrGetJob, InsertJob, RequestCancelJob, CancelQueuedJob,
        ReconcileStaleWorkers, Tick, PollRecovers, RecoverExpiredLeases, WorkerStep,
        RecoverWorkerJobs, UpsertWorker, ReconcileWorkerStartup, Callback, RenewLease,
        SetJobStatus, CompleteJob, ReleaseJob, vars, repoVars

\* Of any two jobs one comes first, and the order has no cycle, whatever was
\* served before: the ORDER BY of lease_job leaves no choice between two
\* candidates, and never puts each of two repositories before the other.
THEOREM QueueIsOrdered ==
    Spec => [](\A i, j, k \in Jobs :
                  /\ i # j <=> Precedes(i, j) \/ Precedes(j, i)
                  /\ ~ (Precedes(i, j) /\ Precedes(j, i))
                  /\ Precedes(i, j) /\ Precedes(j, k) => Precedes(i, k))
  <1>1. ASSUME TypeOK, ServedOrder, NEW i \in Jobs, NEW j \in Jobs, NEW k \in Jobs
        PROVE  /\ i # j <=> Precedes(i, j) \/ Precedes(j, i)
               /\ ~ (Precedes(i, j) /\ Precedes(j, i))
               /\ Precedes(i, j) /\ Precedes(j, k) => Precedes(i, k)
    <2>1. \A n \in Jobs : /\ n \in Int
                          /\ sub[n].repo \in Repos
                          /\ sub[n].priority \in Int
      BY <1>1, JobsAssumption, SubmissionsAssumption DEF TypeOK
    <2>2. \A p, q, r \in Repos :
             /\ r \notin servedAfter[r]
             /\ q \in servedAfter[p] /\ r \in servedAfter[q] => r \in servedAfter[p]
             /\ q \in servedAfter[p] => r \in servedAfter[p] \/ q \in servedAfter[r]
      BY <1>1 DEF ServedOrder
    <2>3. ~ (Precedes(i, j) /\ Precedes(j, i))
      BY <2>1, <2>2 DEF Precedes
    <2>4. i # j <=> Precedes(i, j) \/ Precedes(j, i)
      BY <2>1, <2>2 DEF Precedes
    <2>5. Precedes(i, j) /\ Precedes(j, k) => Precedes(i, k)
      BY <2>1, <2>2 DEF Precedes
    <2> QED
      BY <2>3, <2>4, <2>5
  <1>2. Init => ServedOrder
    BY DEF Init, ServedOrder
  <1>3. TypeOK /\ ServedOrder /\ [Next]_vars => ServedOrder'
    BY ServedOrderNext
  <1>4. TypeOK /\ ServedOrder =>
          \A i, j, k \in Jobs :
              /\ i # j <=> Precedes(i, j) \/ Precedes(j, i)
              /\ ~ (Precedes(i, j) /\ Precedes(j, i))
              /\ Precedes(i, j) /\ Precedes(j, k) => Precedes(i, k)
    BY <1>1
  <1> QED
    BY <1>2, <1>3, <1>4, TypeCorrect, PTL DEF Spec
=============================================================================
