------------------------------- MODULE CIJobs -------------------------------
(***************************************************************************)
(* The Worker Job store of the controller: ci_database.py with the worker  *)
(* endpoints of routers/ci_worker.py that call it.                         *)
(*                                                                         *)
(* A function of the store writes in one SQLite transaction (BEGIN         *)
(* IMMEDIATE under _db_write_lock), so each is one action.  The endpoints  *)
(* register, reconcile, heartbeat and lease call two such functions; the   *)
(* two are separate actions that any number of threads interleave.         *)
(* A row of ci_jobs is spread over the functions below, one per column     *)
(* that the control flow reads; ci_workers and ci_repository_queue_state   *)
(* likewise.                                                               *)
(*                                                                         *)
(* Time is kept relative: leaseLeft[j] is lease_expires_at - now in ticks, *)
(* so that the store has finitely many states without a bound on how long  *)
(* it runs.  last_heartbeat only decides which workers look offline to     *)
(* reconcile_stale_workers and is not kept: any worker may look offline,   *)
(* since a source download renews the lease without a heartbeat.           *)
(* The random lease token of an attempt is represented by the number of    *)
(* the attempt, which lease_job increments in the same UPDATE.             *)
(***************************************************************************)
EXTENDS Integers, FiniteSets

CONSTANTS
    Jobs,          \* job identities, naturals in creation order (created_at)
    Workers,       \* worker identities
    Repos,         \* repositories
    Profiles,      \* CI profiles
    Submissions,   \* what create_or_get_job can be asked for
    Supports,      \* Supports[w]: the profiles worker w registers
    Capacity,      \* Capacity[w]: the max_concurrent worker w registers
    MaxAttempts,   \* ci_jobs.max_attempts, default 2
    LeaseTicks,    \* the 120 s of a lease
    LeaseBound,    \* bound of the model: attempts a released job may reach
    NoWorker       \* worker_id IS NULL

NoJob == 0

ASSUME JobsAssumption == Jobs \subseteq Nat \ {NoJob} /\ IsFiniteSet(Jobs)
ASSUME WorkersAssumption == NoWorker \notin Workers
ASSUME SubmissionsAssumption ==
    /\ Submissions # {}
    /\ \A s \in Submissions :
          /\ s.repo \in Repos
          /\ s.profile \in Profiles
          /\ s.priority \in Int
ASSUME RegistrationAssumption ==
    /\ Supports \in [Workers -> SUBSET Profiles]
    /\ Capacity \in [Workers -> Nat \ {0}]
ASSUME LimitsAssumption ==
    /\ MaxAttempts \in Nat \ {0}
    /\ LeaseTicks \in Nat \ {0}
    /\ LeaseBound \in Nat

VARIABLES
    status,         \* ci_jobs.status, "absent" while there is no row
    sub,            \* what the row was created from (meaningless while absent)
    owner,          \* ci_jobs.worker_id
    attempts,       \* ci_jobs.attempts
    leaseLeft,      \* ci_jobs.lease_expires_at, relative
    cancelFlag,     \* ci_jobs.cancel_requested
    supersededBy,   \* ci_jobs.superseded_by_job_id
    finisher,       \* history: the attempt whose callback settled the job
    workerStatus,   \* ci_workers.status, "absent" while there is no row
    currentJob,     \* ci_workers.current_job_id
    queued,         \* ci_repository_queue_state.queued_jobs
    running,        \* ci_repository_queue_state.running_jobs
    servedAfter     \* servedAfter[r]: repositories dispatched later than r

jobVars == <<status, sub, owner, attempts, leaseLeft, cancelFlag,
             supersededBy, finisher>>
workerVars == <<workerStatus, currentJob>>
repoVars == <<queued, running, servedAfter>>
vars == <<jobVars, workerVars, repoVars>>

Active == {"leased", "downloading", "preparing", "running"}
Settled == {"passed", "failed", "timed_out", "cancelled", "superseded",
            "worker_lost", "internal_error"}
Reported == {"passed", "failed", "timed_out", "cancelled", "internal_error"}
Statuses == {"absent", "queued"} \cup Active \cup Settled

TypeOK ==
    /\ status \in [Jobs -> Statuses]
    /\ sub \in [Jobs -> Submissions]
    /\ owner \in [Jobs -> Workers \cup {NoWorker}]
    /\ attempts \in [Jobs -> Nat]
    /\ leaseLeft \in [Jobs -> -1 .. LeaseTicks]
    /\ cancelFlag \in [Jobs -> BOOLEAN]
    /\ supersededBy \in [Jobs -> Jobs \cup {NoJob}]
    /\ finisher \in [Jobs -> Nat]
    /\ workerStatus \in [Workers -> {"absent", "idle", "busy"}]
    /\ currentJob \in [Workers -> Jobs \cup {NoJob}]
    /\ queued \in [Repos -> Nat]
    /\ running \in [Repos -> Nat]
    /\ servedAfter \in [Repos -> SUBSET Repos]

Init ==
    /\ status = [j \in Jobs |-> "absent"]
    /\ sub = [j \in Jobs |-> CHOOSE s \in Submissions : TRUE]
    /\ owner = [j \in Jobs |-> NoWorker]
    /\ attempts = [j \in Jobs |-> 0]
    /\ leaseLeft = [j \in Jobs |-> 0]
    /\ cancelFlag = [j \in Jobs |-> FALSE]
    /\ supersededBy = [j \in Jobs |-> NoJob]
    /\ finisher = [j \in Jobs |-> 0]
    /\ workerStatus = [w \in Workers |-> "absent"]
    /\ currentJob = [w \in Workers |-> NoJob]
    /\ queued = [r \in Repos |-> 0]
    /\ running = [r \in Repos |-> 0]
    /\ servedAfter = [r \in Repos |-> {}]

-----------------------------------------------------------------------------
(* Helpers shared by the operations.  An operator whose name begins with   *)
(* Faulty is the next one with a plausible bug; no specification uses it:  *)
(* it stands in for the correct one to see which property notices.         *)

QueuedIn(r) == {j \in Jobs : status[j] = "queued" /\ sub[j].repo = r}
ActiveIn(r) == {j \in Jobs : status[j] \in Active /\ sub[j].repo = r}
FaultyHeldBy(w) == {j \in Jobs : status[j] = "running" /\ owner[j] = w}
HeldBy(w) == {j \in Jobs : status[j] \in Active /\ owner[j] = w}
OfRepo(S, r) == {j \in S : sub[j].repo = r}

\* MAX(0, counter + delta) of _upsert_repo_queue_state
AtLeastZero(n) == IF n < 0 THEN 0 ELSE n

\* _upsert_repo_queue_state for every job that leaves or joins the queue or
\* the running set of its repository in one transaction
CountQueue(added, removed) ==
    queued' = [r \in Repos |-> AtLeastZero(queued[r]
        + Cardinality(OfRepo(added, r)) - Cardinality(OfRepo(removed, r)))]
CountRunning(removed) ==
    running' = [r \in Repos |->
        AtLeastZero(running[r] - Cardinality(OfRepo(removed, r)))]

\* A fence that asks who calls, not for which attempt.
FaultyHolds(j, w, t) ==
    /\ status[j] \in Active
    /\ owner[j] = w
    /\ leaseLeft[j] > 0

\* The condition _begin_job_write and renew_lease put on a worker callback:
\* the job is active and the caller shows the unexpired lease of its attempt.
Holds(j, w, t) ==
    /\ status[j] \in Active
    /\ owner[j] = w
    /\ attempts[j] = t
    /\ leaseLeft[j] > 0

\* SET status = next[j], worker_id = NULL, lease_token_hash = NULL,
\* lease_expires_at = NULL
Unlease(S, next) ==
    /\ status' = [j \in Jobs |-> IF j \in S THEN next[j] ELSE status[j]]
    /\ owner' = [j \in Jobs |-> IF j \in S THEN NoWorker ELSE owner[j]]
    /\ leaseLeft' = [j \in Jobs |-> IF j \in S THEN 0 ELSE leaseLeft[j]]

FaultyDropPointers(S) == UNCHANGED workerVars

\* UPDATE ci_workers SET status = 'idle', current_job_id = NULL
\* WHERE worker_id = owner AND current_job_id = job, for every job of S
DropPointers(S) ==
    LET dropped == {w \in Workers : currentJob[w] \in S
                                    /\ owner[currentJob[w]] = w}
    IN  /\ workerStatus' = [w \in Workers |->
              IF w \in dropped THEN "idle" ELSE workerStatus[w]]
        /\ currentJob' = [w \in Workers |->
              IF w \in dropped THEN NoJob ELSE currentJob[w]]

\* What becomes of an attempt that was lost: another try or worker_lost.
AfterLoss(S) == [j \in S |-> IF attempts[j] >= MaxAttempts
                             THEN "worker_lost" ELSE "queued"]

\* Counts the jobs that were given up as queued, too.
FaultyRequeued(S) == S
Requeued(S) == {j \in S : AfterLoss(S)[j] = "queued"}

-----------------------------------------------------------------------------
(* Creating jobs. *)

Reusable(s) == {j \in Jobs : /\ status[j] \in {"queued", "passed"} \cup Active
                             /\ sub[j].key = s.key}

FaultyOutdated(s) == {j \in Jobs : /\ status[j] = "queued"
                                   /\ sub[j].repo = s.repo
                                   /\ sub[j].branch = s.branch
                                   /\ sub[j].profile = s.profile}

\* Queued jobs of the same repository, branch and profile, other identity.
Outdated(s) == {j \in Jobs : /\ status[j] = "queued"
                             /\ sub[j].repo = s.repo
                             /\ sub[j].branch = s.branch
                             /\ sub[j].profile = s.profile
                             /\ sub[j].key # s.key}

NextIdentity(j) == /\ status[j] = "absent"
                   /\ \A k \in Jobs : k < j => status[k] # "absent"

\* The INSERT and the supersede UPDATEs of one transaction.
InsertJob(j, s, supersedePrevious) ==
    LET old == IF supersedePrevious THEN Outdated(s) ELSE {}
    IN  /\ NextIdentity(j)
        /\ status' = [k \in Jobs |-> IF k = j THEN "queued"
                                     ELSE IF k \in old THEN "superseded"
                                     ELSE status[k]]
        /\ sub' = [sub EXCEPT ![j] = s]
        /\ supersededBy' = [k \in Jobs |-> IF k \in old THEN j
                                           ELSE supersededBy[k]]
        /\ queued' = [r \in Repos |->
              AtLeastZero(queued[r] - Cardinality(OfRepo(old, r)))
              + (IF s.repo = r THEN 1 ELSE 0)]
        /\ UNCHANGED <<owner, attempts, leaseLeft, cancelFlag, finisher,
                       workerVars, running, servedAfter>>

\* create_or_get_job: without force_rerun a job of the same identity that is
\* queued, active or passed is returned instead, which changes nothing.
CreateOrGetJob(j, s, forceRerun, supersedePrevious) ==
    /\ forceRerun \/ Reusable(s) = {}
    /\ InsertJob(j, s, supersedePrevious)

-----------------------------------------------------------------------------
(* Leasing.  POST /jobs/lease runs recover_expired_leases and then          *)
(* lease_job, two transactions between which other threads write.          *)

\* Forgets the statuses between lease and run.
FaultyExpired == {j \in Jobs : status[j] \in {"leased", "running"}
                               /\ leaseLeft[j] < 0}

\* recover_expired_leases: lease_expires_at < now
Expired == {j \in Jobs : status[j] \in Active /\ leaseLeft[j] < 0}

RecoverExpiredLeases ==
    /\ Unlease(Expired, AfterLoss(Expired))
    /\ DropPointers(Expired)
    /\ CountQueue(Requeued(Expired), {})
    /\ CountRunning(Expired)
    /\ UNCHANGED <<sub, attempts, cancelFlag, supersededBy, finisher,
                   servedAfter>>

\* The first transaction of a poll, by whichever registered worker.
PollRecovers ==
    /\ \E w \in Workers : workerStatus[w] # "absent"
    /\ RecoverExpiredLeases

\* ORDER BY priority DESC, repo_last_dispatched ASC, created_at ASC
Precedes(j, k) ==
    LET earlier(r, q) == q \in servedAfter[r]
    IN  \/ sub[j].priority > sub[k].priority
        \/ /\ sub[j].priority = sub[k].priority
           /\ \/ earlier(sub[j].repo, sub[k].repo)
              \/ /\ ~ earlier(sub[k].repo, sub[j].repo)
                 /\ j < k

FaultyCandidates(w) == {j \in Jobs : status[j] \in {"queued", "leased"}
                                     /\ sub[j].profile \in Supports[w]}
Candidates(w) == {j \in Jobs : status[j] = "queued"
                               /\ sub[j].profile \in Supports[w]}

\* lease_job, when there is room and a candidate
LeaseJob(w, j) ==
    /\ workerStatus[w] # "absent"
    /\ Cardinality(HeldBy(w)) < Capacity[w]
    /\ j \in Candidates(w)
    /\ \A k \in Candidates(w) \ {j} : Precedes(j, k)
    /\ status' = [status EXCEPT ![j] = "leased"]
    /\ owner' = [owner EXCEPT ![j] = w]
    /\ attempts' = [attempts EXCEPT ![j] = @ + 1]
    /\ leaseLeft' = [leaseLeft EXCEPT ![j] = LeaseTicks]
    /\ workerStatus' = [workerStatus EXCEPT ![w] = "busy"]
    /\ currentJob' = [currentJob EXCEPT ![w] = j]
    /\ queued' = [queued EXCEPT ![sub[j].repo] = AtLeastZero(@ - 1)]
    /\ running' = [running EXCEPT ![sub[j].repo] = @ + 1]
    /\ servedAfter' = [r \in Repos |-> IF r = sub[j].repo THEN {}
                                       ELSE servedAfter[r] \cup {sub[j].repo}]
    /\ UNCHANGED <<sub, cancelFlag, supersededBy, finisher>>

-----------------------------------------------------------------------------
(* Worker registration, reconciliation and heartbeats. *)

\* recover_worker_jobs: first half of /workers/register and of
\* /workers/reconcile
RecoverWorkerJobs(w) ==
    LET lost == HeldBy(w)
    IN  /\ Unlease(lost, AfterLoss(lost))
        /\ CountQueue(Requeued(lost), {})
        /\ CountRunning(lost)
        /\ currentJob' = [currentJob EXCEPT ![w] = NoJob]
        /\ workerStatus' = [workerStatus EXCEPT ![w] =
              IF @ = "absent" THEN "absent" ELSE "idle"]
        /\ UNCHANGED <<sub, attempts, cancelFlag, supersededBy, finisher,
                       servedAfter>>

\* register_worker, the upsert: second half of /workers/register.  It keeps
\* current_job_id, which a lease may have set since the first half.
UpsertWorker(w) ==
    /\ workerStatus' = [workerStatus EXCEPT ![w] = "idle"]
    /\ UNCHANGED <<jobVars, currentJob, repoVars>>

\* reconcile_worker_startup: second half of /workers/reconcile
ReconcileWorkerStartup(w) ==
    /\ currentJob[w] # NoJob
    /\ workerStatus' = [workerStatus EXCEPT ![w] = "idle"]
    /\ currentJob' = [currentJob EXCEPT ![w] = NoJob]
    /\ UNCHANGED <<jobVars, repoVars>>

\* renew_lease: second half of /workers/heartbeat, and alone before a source
\* download and on an empty log upload
RenewLease(j, w, t) ==
    /\ Holds(j, w, t)
    /\ leaseLeft' = [leaseLeft EXCEPT ![j] = LeaseTicks]
    /\ UNCHANGED <<status, sub, owner, attempts, cancelFlag, supersededBy,
                   finisher, workerVars, repoVars>>

\* reconcile_stale_workers (the second definition of that name).  Its SELECT
\* of settled pointers and its UPDATEs are not one transaction; PointerOwnsJob
\* says that the SELECT finds no row, so nothing is carried from one to the
\* other and the function is one action.
ReconcileStaleWorkers(offline) ==
    LET stale(w) == \/ /\ currentJob[w] # NoJob
                       /\ status[currentJob[w]] \in Settled
                    \/ w \in offline /\ workerStatus[w] = "busy"
    IN  /\ workerStatus' = [w \in Workers |->
              IF stale(w) THEN "idle" ELSE workerStatus[w]]
        /\ currentJob' = [w \in Workers |->
              IF stale(w) THEN NoJob ELSE currentJob[w]]
        /\ UNCHANGED <<jobVars, repoVars>>

-----------------------------------------------------------------------------
(* Callbacks of the attempt that holds a job. *)

\* set_job_status and set_job_source_downloaded: running is entered from
\* downloading or preparing only, the others from any active status
SetJobStatus(j, w, t, new) ==
    /\ Holds(j, w, t)
    /\ new = "running" => status[j] \in {"downloading", "preparing"}
    /\ status' = [status EXCEPT ![j] = new]
    /\ UNCHANGED <<sub, owner, attempts, leaseLeft, cancelFlag, supersededBy,
                   finisher, workerVars, repoVars>>

\* complete_job
CompleteJob(j, w, t, result) ==
    /\ Holds(j, w, t)
    /\ Unlease({j}, [k \in {j} |-> result])
    /\ finisher' = [finisher EXCEPT ![j] = t]
    /\ DropPointers({j})
    /\ CountRunning({j})
    /\ UNCHANGED <<sub, attempts, cancelFlag, supersededBy, queued,
                   servedAfter>>

\* release_job: back to the queue whatever attempts says
ReleaseJob(j, w, t) ==
    /\ attempts[j] < LeaseBound
    /\ Holds(j, w, t)
    /\ Unlease({j}, [k \in {j} |-> "queued"])
    /\ DropPointers({j})
    /\ CountQueue({j}, {})
    /\ CountRunning({j})
    /\ UNCHANGED <<sub, attempts, cancelFlag, supersededBy, finisher,
                   servedAfter>>

-----------------------------------------------------------------------------
(* Cancellation by a client, and the passing of time. *)

\* request_cancel_job
RequestCancelJob(j) ==
    /\ status[j] \in Active
    /\ ~ cancelFlag[j]
    /\ cancelFlag' = [cancelFlag EXCEPT ![j] = TRUE]
    /\ UNCHANGED <<status, sub, owner, attempts, leaseLeft, supersededBy,
                   finisher, workerVars, repoVars>>

\* Cancels whatever the status has become since it was read.
FaultyCancelQueuedJob(j) ==
    /\ status[j] # "absent"
    /\ Unlease({j}, [k \in {j} |-> "cancelled"])
    /\ CountQueue({}, {j})
    /\ UNCHANGED <<sub, attempts, cancelFlag, supersededBy, finisher,
                   workerVars, running, servedAfter>>

\* cancel_queued_job
CancelQueuedJob(j) ==
    /\ status[j] = "queued"
    /\ Unlease({j}, [k \in {j} |-> "cancelled"])
    /\ CountQueue({}, {j})
    /\ UNCHANGED <<sub, attempts, cancelFlag, supersededBy, finisher,
                   workerVars, running, servedAfter>>

Tick ==
    /\ leaseLeft' = [j \in Jobs |->
          IF status[j] \in Active /\ leaseLeft[j] >= 0
          THEN leaseLeft[j] - 1 ELSE leaseLeft[j]]
    /\ UNCHANGED <<status, sub, owner, attempts, cancelFlag, supersededBy,
                   finisher, workerVars, repoVars>>

-----------------------------------------------------------------------------
(* The whole store.  A callback may come from any worker and with the      *)
(* lease of any attempt that was ever issued: the fence is what decides.   *)

Callback(j, w, t) ==
    \/ RenewLease(j, w, t)
    \/ \E new \in {"downloading", "preparing", "running"} :
          SetJobStatus(j, w, t, new)
    \/ \E result \in Reported : CompleteJob(j, w, t, result)
    \/ ReleaseJob(j, w, t)

Client ==
    \/ \E j \in Jobs, s \in Submissions, f \in BOOLEAN, p \in BOOLEAN :
          CreateOrGetJob(j, s, f, p)
    \/ \E j \in Jobs : RequestCancelJob(j) \/ CancelQueuedJob(j)
    \/ \E offline \in SUBSET Workers : ReconcileStaleWorkers(offline)

WorkerStep(w) ==
    \/ RecoverWorkerJobs(w)
    \/ UpsertWorker(w)
    \/ ReconcileWorkerStartup(w)
    \/ \E j \in Jobs : LeaseJob(w, j)
    \/ \E j \in Jobs : \E t \in 1 .. attempts[j] : Callback(j, w, t)

Next == Client \/ Tick \/ PollRecovers \/ \E w \in Workers : WorkerStep(w)

Spec == Init /\ [][Next]_vars
-----------------------------------------------------------------------------
(* Fairness and properties. *)

\* Every poll for work runs recover_expired_leases first, and the main loop of
\* an idle agent polls every poll_interval_seconds: as long as one registered
\* worker is alive, the recovery keeps being run.
PollFairness == WF_vars(PollRecovers)

FairSpec == Spec /\ PollFairness

\* The queue counters of a repository are the number of its queued and of its
\* leased or running jobs, whatever mix of leases, recoveries, releases,
\* completions, cancels and supersedes ran: the MAX(0, ...) of
\* _upsert_repo_queue_state never hides a lost update.
CountersExact ==
    \A r \in Repos : /\ queued[r] = Cardinality(QueuedIn(r))
                     /\ running[r] = Cardinality(ActiveIn(r))

\* A worker's current_job_id names a job this worker holds: neither a late
\* completion nor a lost lease leaves the pointer on a job that is settled,
\* queued again or held by another worker.
PointerOwnsJob ==
    \A w \in Workers :
        currentJob[w] # NoJob => /\ status[currentJob[w]] \in Active
                                 /\ owner[currentJob[w]] = w

\* Exactly the active jobs have an owner, and every attempt of theirs was
\* counted: the columns a transaction clears together stay together.
OwnedIffActive ==
    \A j \in Jobs : /\ status[j] \in Active <=> owner[j] # NoWorker
                    /\ status[j] \in Active => attempts[j] > 0

\* A worker never holds more jobs than the max_concurrent it registered,
\* although another worker's poll may recover and requeue in between.
CapacityRespected ==
    \A w \in Workers :
        Cardinality({j \in Jobs : status[j] \in Active /\ owner[j] = w})
            <= Capacity[w]

\* A result reported by a worker is the one of the latest attempt: a callback
\* of an attempt that lost its lease never decides the job.
ResultFromLatestAttempt ==
    \A j \in Jobs : finisher[j] # 0 => /\ finisher[j] = attempts[j]
                                       /\ status[j] \in Reported

\* A superseded job points at a newer job for the same repository, branch and
\* profile with another identity, and no other job points anywhere.
SupersedeLinks ==
    \A j \in Jobs :
        LET k == supersededBy[j]
        IN  /\ (status[j] = "superseded") <=> (k # NoJob)
            /\ k # NoJob => /\ j < k
                            /\ status[k] # "absent"
                            /\ sub[k].repo = sub[j].repo
                            /\ sub[k].branch = sub[j].branch
                            /\ sub[k].profile = sub[j].profile
                            /\ sub[k].key # sub[j].key

\* A settled job never changes again: no status, owner, attempt, cancel flag
\* or superseder is written to it by a late callback, a cancel or a recovery.
SettledIsFinal ==
    [][\A j \in Jobs : status[j] \in Settled =>
          /\ status'[j] = status[j]
          /\ owner'[j] = owner[j]
          /\ attempts'[j] = attempts[j]
          /\ cancelFlag'[j] = cancelFlag[j]
          /\ supersededBy'[j] = supersededBy[j]
          /\ finisher'[j] = finisher[j]]_vars

\* An attempt whose lease has expired does not keep its job forever: as long
\* as some worker polls, the job is queued again or given up as worker_lost,
\* unless another attempt already has it.
ExpiredLeaseRecovered ==
    \A j \in Jobs, t \in 1 .. MaxAttempts :
        (status[j] \in Active /\ leaseLeft[j] < 0 /\ attempts[j] = t)
            ~> ~ (status[j] \in Active /\ attempts[j] = t)

\* The store implements JobLease: what it promises about every job.
Phase(s) == IF s = "absent" THEN "none"
            ELSE IF s = "queued" THEN "open"
            ELSE IF s \in Active THEN "held"
            ELSE "closed"

Lease == INSTANCE JobLease WITH
    phase <- [j \in Jobs |-> Phase(status[j])],
    holder <- owner,
    epoch <- attempts,
    decidedBy <- finisher

LeaseSpec == Lease!Spec
=============================================================================
