----------------------------- MODULE CIRequests -----------------------------
(***************************************************************************)
(* The durable CI Requests of ci_request_store.py over the Worker Jobs of  *)
(* CIJobs, with the attestations of attestation_registry.py that a passed  *)
(* Request links to.                                                       *)
(*                                                                         *)
(* A Request exists before its job does: it is accepted, prepared by the   *)
(* preflight, and bound to its job by the transaction that creates the     *)
(* job.  From then on it is a projection of the job's row, which some job  *)
(* transactions bring up to date (reconcile_worker_request_in_db) and      *)
(* others do not.  Every action that is one transaction here is one there. *)
(*                                                                         *)
(* The phase of a Request is a function of its status, so only the status  *)
(* is kept.  A Request's key is the Request: the idempotency key of its    *)
(* job is "ci-request:" and its identity.                                  *)
(***************************************************************************)
EXTENDS CIJobs

CONSTANTS
    Requests,       \* identities of CI Requests
    RequestSub,     \* RequestSub[q]: repository, branch, profile, priority
    Supersedes,     \* Supersedes[q]: supersede_previous of its payload
    AutoCheck,      \* the profile repo-auto-check, the only attested one
    MaxDirect,      \* bound of the model: jobs without a Request
    MaxAttestations \* bound of the model: attestations of one job

ASSUME RequestsAssumption ==
    /\ RequestSub \in [Requests -> Submissions]
    /\ \A q \in Requests : RequestSub[q].key = q
    /\ Supersedes \in [Requests -> BOOLEAN]
    /\ MaxAttestations \in Nat

VARIABLES
    reqStatus,      \* ci_requests.status, "none" while there is no row
    revision,       \* ci_requests.revision
    boundJob,       \* ci_requests.worker_job_id
    linked,         \* ci_requests.attestation_id, 0 while it is not set
    proof,          \* the Git tree a finished job's summary shows
    attested        \* the job's rows of ci_tree_attestations

reqVars == <<reqStatus, revision, boundJob, linked>>
proofVars == <<proof, attested>>
allVars == <<vars, reqVars, proofVars>>

Waiting == {"accepted", "preparing"}
Projected == {"queued", "running"}
ReqTerminal == Settled \cup {"preflight_failed"}

\* The summary of a job has no tree (a profile that records none, a failure
\* before the checkout), the tree that the Request pinned (with exit code 0 if
\* the job passed), or another one.
Proofs == {"none", "match", "other"}

\* The attestations of a job are numbered in the order of created_at: how many
\* there are, and which are active and not expired.
Attestations == [minted : 0 .. MaxAttestations,
                 valid : SUBSET (1 .. MaxAttestations)]

ReqTypeOK ==
    /\ TypeOK
    /\ reqStatus \in [Requests -> {"none"} \cup Waiting \cup Projected \cup ReqTerminal]
    /\ revision \in [Requests -> Nat]
    /\ boundJob \in [Requests -> Jobs \cup {NoJob}]
    /\ linked \in [Requests -> 0 .. MaxAttestations]
    /\ proof \in [Jobs -> Proofs]
    /\ attested \in [Jobs -> Attestations]

ReqInit ==
    /\ Init
    /\ reqStatus = [q \in Requests |-> "none"]
    /\ revision = [q \in Requests |-> 0]
    /\ boundJob = [q \in Requests |-> NoJob]
    /\ linked = [q \in Requests |-> 0]
    /\ proof = [j \in Jobs |-> "none"]
    /\ attested = [j \in Jobs |-> [minted |-> 0, valid |-> {}]]

-----------------------------------------------------------------------------
(* The life of a Request before its job. *)

Advance(q, next) ==
    /\ reqStatus' = [reqStatus EXCEPT ![q] = next]
    /\ revision' = [revision EXCEPT ![q] = @ + 1]

\* create_or_get_ci_request; a replay of the same key changes nothing
CreateRequest(q) ==
    /\ reqStatus[q] = "none"
    /\ reqStatus' = [reqStatus EXCEPT ![q] = "accepted"]
    /\ UNCHANGED <<revision, boundJob, linked, proofVars, vars>>

\* The edges of _ALLOWED_TRANSITIONS that a caller of transition_ci_request
\* asks for: the dispatcher's two.
AllowedTransition(current, target) ==
    \/ current = "accepted" /\ target = "preparing"
    \/ current = "preparing" /\ target = "preflight_failed"

\* transition_ci_request by a caller who saw revision r
TransitionRequest(q, r, target) ==
    /\ revision[q] = r
    /\ AllowedTransition(reqStatus[q], target)
    /\ Advance(q, target)
    /\ UNCHANGED <<boundJob, linked, proofVars, vars>>

\* A dispatch whose job is created but whose Request keeps its status.
FaultyDispatchRequest(q, r, j) ==
    /\ reqStatus[q] = "preparing"
    /\ CreateOrGetJob(j, RequestSub[q], FALSE, Supersedes[q])
    /\ boundJob' = [boundJob EXCEPT ![q] = j]
    /\ UNCHANGED <<reqStatus, revision, linked, proofVars>>

\* dispatch_ci_request: job, binding and status in one transaction.  The job's
\* key is the Request's own, and OneJobPerRequest says that no job has it
\* before the dispatch, so that the branch that reuses a job does not occur.
DispatchRequest(q, r, j) ==
    /\ reqStatus[q] = "preparing"
    /\ revision[q] = r
    /\ CreateOrGetJob(j, RequestSub[q], FALSE, Supersedes[q])
    /\ boundJob' = [boundJob EXCEPT ![q] = j]
    /\ Advance(q, "queued")
    /\ UNCHANGED <<linked, proofVars>>

-----------------------------------------------------------------------------
(* Reconciliation of Requests with the rows their jobs have after a step.  *)

\* Copies whatever the job row says.
FaultySpeaks(s, p) == s \in Settled \cup {"queued", "running"}

\* What a job row says about its Request: nothing while it waits or is
\* leased, nothing when it shows another tree than the Request pinned, and
\* passed only with that tree.
Speaks(s, p) ==
    \/ s = "running" /\ p # "other"
    \/ s \in Settled /\ p # "other" /\ (s = "passed" => p = "match")

\* Whether reconcile_worker_request_in_db changes the status of Request q,
\* given its job's status s and proof p.
Moves(q, s, p) ==
    /\ Speaks(s, p)
    /\ reqStatus[q] \in Projected
    /\ reqStatus[q] # s

\* _matching_attestation_in_db: of the valid attestations the newest one
Newest(n, a) == n \in a.valid /\ \A m \in a.valid : m <= n

\* Whether it stores an attestation of the job, whose attestations are a: the
\* first link, and every later one that another attestation has to replace.
Links(q, s, p, a) ==
    /\ Speaks(s, p)
    /\ s = "passed"
    /\ reqStatus[q] \in Projected \cup {s}
    /\ \E n \in 1 .. MaxAttestations : Newest(n, a) /\ n # linked[q]

\* Reads the job row before the transaction's UPDATE, not after it.
FaultyReconcile(S) ==
    LET moved == {q \in Requests : boundJob[q] \in S
                      /\ Moves(q, status[boundJob[q]], proof[boundJob[q]])}
    IN  /\ reqStatus' = [q \in Requests |->
              IF q \in moved THEN status[boundJob[q]] ELSE reqStatus[q]]
        /\ revision' = [q \in Requests |->
              IF q \in moved THEN revision[q] + 1 ELSE revision[q]]
        /\ UNCHANGED <<boundJob, linked>>

\* reconcile_worker_request_in_db for the Requests of the jobs in S
Reconcile(S) ==
    LET now(q) == status'[boundJob[q]]
        shown(q) == proof'[boundJob[q]]
        seal(q) == attested'[boundJob[q]]
        moved == {q \in Requests : boundJob[q] \in S
                                   /\ Moves(q, now(q), shown(q))}
        sealed == {q \in Requests : boundJob[q] \in S
                                    /\ Links(q, now(q), shown(q), seal(q))}
    IN  /\ reqStatus' = [q \in Requests |->
              IF q \in moved THEN now(q) ELSE reqStatus[q]]
        /\ linked' = [q \in Requests |->
              IF q \in sealed
              THEN CHOOSE n \in 1 .. MaxAttestations : Newest(n, seal(q))
              ELSE linked[q]]
        /\ revision' = [q \in Requests |->
              IF q \in moved \cup sealed THEN revision[q] + 1 ELSE revision[q]]
        /\ UNCHANGED boundJob

-----------------------------------------------------------------------------
(* The transactions of the job store, with what they do to Requests.       *)

\* complete_job stores the summary and reconciles
FinishJob(j, w, t, result, p) ==
    /\ CompleteJob(j, w, t, result)
    /\ proof' = [proof EXCEPT ![j] = p]
    /\ UNCHANGED attested
    /\ Reconcile({j})

\* set_job_status reconciles when it entered running
StartRunning(j, w, t) ==
    /\ SetJobStatus(j, w, t, "running")
    /\ UNCHANGED proofVars
    /\ Reconcile({j})

\* Tells the Request at once, although a worker may still run the job.
FaultyCancelQueued(j) ==
    /\ CancelQueuedJob(j) \/ RequestCancelJob(j)
    /\ reqStatus' = [q \in Requests |->
          IF boundJob[q] = j THEN "cancelled" ELSE reqStatus[q]]
    /\ UNCHANGED <<revision, boundJob, linked, proofVars>>

\* cancel_queued_job
CancelQueued(j) ==
    /\ CancelQueuedJob(j)
    /\ UNCHANGED proofVars
    /\ Reconcile({j})

\* recover_expired_leases reconciles every job it takes back
RecoverExpired ==
    /\ PollRecovers
    /\ UNCHANGED proofVars
    /\ Reconcile(Expired)

\* recover_worker_jobs gives jobs up as worker_lost and does not reconcile
RecoverOfWorker(w) ==
    /\ RecoverWorkerJobs(w)
    /\ UNCHANGED <<reqVars, proofVars>>

\* The jobs that no Request asked for.
Direct == {j \in Jobs : status[j] # "absent" /\ sub[j].key \notin Requests}

\* create_or_get_job for a client of its own, POST /ci/jobs: its identity is
\* never one of a Request, but it may supersede the queued job of one.
CreateDirectJob(j, s, forceRerun, supersedePrevious) ==
    /\ s.key \notin Requests
    /\ Cardinality(Direct) < MaxDirect
    /\ CreateOrGetJob(j, s, forceRerun, supersedePrevious)

\* The other functions of the store, which leave the Requests alone.
OtherJobStep ==
    /\ \/ \E j \in Jobs, s \in Submissions, f \in BOOLEAN, p \in BOOLEAN :
             CreateDirectJob(j, s, f, p)
       \/ \E j \in Jobs : RequestCancelJob(j)
       \/ \E offline \in SUBSET Workers : ReconcileStaleWorkers(offline)
       \/ Tick
       \/ \E w \in Workers :
             \/ UpsertWorker(w)
             \/ ReconcileWorkerStartup(w)
             \/ \E j \in Jobs :
                   \/ LeaseJob(w, j)
                   \/ \E t \in 1 .. attempts[j] :
                         \/ RenewLease(j, w, t)
                         \/ \E new \in {"downloading", "preparing"} :
                               SetJobStatus(j, w, t, new)
                         \/ ReleaseJob(j, w, t)
    /\ UNCHANGED <<reqVars, proofVars>>

-----------------------------------------------------------------------------
(* Attestations and restarts. *)

\* create_attestation_for_passed_job, up to its commit: another attestation
\* with every call.  Those of a job without a Request are left out: nothing
\* here reads them.
CreateAttestation(j) ==
    /\ sub[j].key \in Requests
    /\ status[j] = "passed"
    /\ supersededBy[j] = NoJob
    /\ sub[j].profile = AutoCheck
    /\ proof[j] # "none"
    /\ attested[j].minted < MaxAttestations
    /\ LET n == attested[j].minted + 1
       IN  attested' = [attested EXCEPT ![j] =
              [minted |-> n, valid |-> @.valid \cup {n}]]
    /\ UNCHANGED <<vars, reqVars, proof>>

\* revoke_attestation, or the passing of expires_at
EndAttestation(j, n) ==
    /\ n \in attested[j].valid
    /\ attested' = [attested EXCEPT ![j].valid = @ \ {n}]
    /\ UNCHANGED <<vars, reqVars, proof>>

\* The transaction of its own in which that call reconciles the job: any time
\* later, or never when the process dies in between.  It may be that of one
\* attestation more, which has ended since.
ReconcileAttested(j) ==
    /\ attested[j].minted > 0
    /\ UNCHANGED <<vars, proofVars>>
    /\ Reconcile({j})

\* A repair that takes up the terminal Requests it should skip and not the
\* open ones.
FaultyPendingJobs ==
    {boundJob[q] : q \in {p \in Requests : reqStatus[p] = "passed" /\ linked[p] = 0}}

\* The jobs of reconcile_pending_worker_requests_in_db.
PendingJobs ==
    {boundJob[q] : q \in {p \in Requests :
        /\ boundJob[p] # NoJob
        /\ \/ reqStatus[p] \notin ReqTerminal
           \/ reqStatus[p] = "passed" /\ linked[p] = 0}}

\* init_db, which runs the repair whenever a controller process starts
StartController ==
    /\ UNCHANGED <<vars, proofVars>>
    /\ Reconcile(PendingJobs)

-----------------------------------------------------------------------------
RequestStep ==
    \/ \E q \in Requests : CreateRequest(q)
    \/ \E q \in Requests : \E r \in 0 .. revision[q] :
          \/ \E target \in {"preparing", "preflight_failed"} :
                TransitionRequest(q, r, target)
          \/ \E j \in Jobs : DispatchRequest(q, r, j)

JobStep ==
    \/ \E j \in Jobs, w \in Workers : \E t \in 1 .. attempts[j] :
          \/ \E result \in Reported, p \in Proofs : FinishJob(j, w, t, result, p)
          \/ StartRunning(j, w, t)
    \/ \E j \in Jobs : CancelQueued(j)
    \/ RecoverExpired
    \/ \E w \in Workers : RecoverOfWorker(w)
    \/ OtherJobStep

AttestationStep ==
    \E j \in Jobs :
        \/ CreateAttestation(j)
        \/ \E n \in 1 .. MaxAttestations : EndAttestation(j, n)
        \/ ReconcileAttested(j)

ReqNext == RequestStep \/ JobStep \/ AttestationStep \/ StartController

ReqSpec == ReqInit /\ [][ReqNext]_allVars

-----------------------------------------------------------------------------
(* Properties. *)

\* A bound Request has exactly the job that was created for it: one job per
\* Request, whatever retries, supersedes and losses happen, and no job of a
\* Request without a Request bound to it.
OneJobPerRequest ==
    \A j \in Jobs, q \in Requests :
        (status[j] # "absent" /\ sub[j].key = q) <=> (boundJob[q] = j)

\* A terminal Request says what its job says, and a Request that fails before
\* dispatch has no job.
TerminalTellsTheTruth ==
    \A q \in Requests :
        reqStatus[q] \in ReqTerminal =>
            IF boundJob[q] = NoJob THEN reqStatus[q] = "preflight_failed"
            ELSE reqStatus[q] = status[boundJob[q]]

\* A Request is behind its settled job only where no transaction reconciles:
\* the job was superseded, its worker was lost at a registration, or its
\* summary does not show the pinned tree.  No result that shows the tree, no
\* cancel and no expired lease leaves the Request behind.
LagOnlyWhereUnreconciled ==
    \A q \in Requests :
        LET j == boundJob[q]
        IN  j # NoJob /\ status[j] \in Settled /\ reqStatus[q] \notin ReqTerminal
            => \/ status[j] \in {"superseded", "worker_lost"}
               \/ proof[j] = "other"
               \/ status[j] = "passed" /\ proof[j] = "none"

\* A Request with a linked attestation passed, and so did its job, with the
\* pinned tree and without having been superseded, and the link is one of the
\* job's own attestations, whichever were made, replaced and ended since.
LinkedIsProven ==
    \A q \in Requests :
        linked[q] # 0 => LET j == boundJob[q]
                         IN  /\ reqStatus[q] = "passed"
                             /\ status[j] = "passed"
                             /\ proof[j] = "match"
                             /\ supersededBy[j] = NoJob
                             /\ linked[q] <= attested[j].minted

Rank(s) == IF s = "none" THEN 0
           ELSE IF s = "accepted" THEN 1
           ELSE IF s = "preparing" THEN 2
           ELSE IF s = "queued" THEN 3
           ELSE IF s = "running" THEN 4
           ELSE 5

\* A Request moves forward only, in status and revision: a terminal one keeps
\* its status, its job and its link, and no retry of the job takes a running
\* Request back to queued.
RequestMovesForward ==
    [][\A q \in Requests :
          /\ reqStatus'[q] # reqStatus[q] => Rank(reqStatus'[q]) > Rank(reqStatus[q])
          /\ revision'[q] >= revision[q]
          /\ boundJob[q] # NoJob => boundJob'[q] = boundJob[q]
          /\ linked[q] # 0 => linked'[q] # 0]_allVars

\* After a controller has started, only Requests whose job shows no or another
\* tree are still behind their settled jobs.
StartLeavesNoLag ==
    [][StartController =>
          \A q \in Requests :
              LET j == boundJob[q]
              IN  j # NoJob /\ status[j] \in Settled /\ Speaks(status[j], proof[j])
                  => reqStatus'[q] = status[j]]_allVars
=============================================================================
