------------------------- MODULE CIRequests_proofs -------------------------
(***************************************************************************)
(* Theorems about the durable CI Requests, for any Requests, jobs, workers *)
(* and limits, and about the dispatcher, for any controllers and threads.  *)
(* The Requests run over the job store, so what CIJobs_proofs says of a    *)
(* step of the store holds of every step here; the dispatcher runs the     *)
(* Requests, so what is proved of them holds of the dispatcher.            *)
(***************************************************************************)
EXTENDS CIDispatch, CIJobs_proofs

-----------------------------------------------------------------------------
(* The job store under the Requests. *)

\* The transactions of the store that insert no job.
QuietStep ==
    \/ \E j \in Jobs : RequestCancelJob(j) \/ CancelQueuedJob(j)
    \/ \E offline \in SUBSET Workers : ReconcileStaleWorkers(offline)
    \/ Tick
    \/ PollRecovers
    \/ \E w \in Workers : WorkerStep(w)

\* What a step here is for the store, and that only a dispatch binds a job.
LEMMA JobPart ==
    ASSUME ReqTypeOK, [ReqNext]_allVars
    PROVE  \/ UNCHANGED <<vars, boundJob>>
           \/ QuietStep /\ UNCHANGED boundJob
           \/ \E q \in Requests, r \in Nat, j \in Jobs : DispatchRequest(q, r, j)
           \/ \E j \in Jobs, s \in Submissions, f \in BOOLEAN, p \in BOOLEAN :
                 CreateDirectJob(j, s, f, p) /\ UNCHANGED <<reqVars, proofVars>>
  <1>1. CASE UNCHANGED allVars
    BY <1>1 DEF allVars, reqVars
  <1>2. CASE RequestStep
    <2>1. ASSUME NEW q \in Requests, NEW r \in 0 .. revision[q]
          PROVE  r \in Nat
      BY DEF ReqTypeOK
    <2> QED
      BY <1>2, <2>1 DEF RequestStep, CreateRequest, TransitionRequest
  <1>3. CASE AttestationStep \/ StartController
    BY <1>3
    DEF AttestationStep, CreateAttestation, EndAttestation, ReconcileAttested,
        StartController, Reconcile, reqVars
  <1>4. ASSUME NEW j \in Jobs, NEW w \in Workers, NEW t \in 1 .. attempts[j],
               \/ \E result \in Reported, p \in Proofs : FinishJob(j, w, t, result, p)
               \/ StartRunning(j, w, t)
        PROVE  QuietStep /\ UNCHANGED boundJob
    BY <1>4
    DEF FinishJob, StartRunning, QuietStep, WorkerStep, Callback, Reconcile
  <1>5. ASSUME \/ \E j \in Jobs : CancelQueued(j)
               \/ RecoverExpired
               \/ \E w \in Workers : RecoverOfWorker(w)
        PROVE  QuietStep /\ UNCHANGED boundJob
    BY <1>5
    DEF CancelQueued, RecoverExpired, RecoverOfWorker, QuietStep, WorkerStep,
        Reconcile, reqVars
  <1>6. ASSUME NEW w \in Workers,
               \/ UpsertWorker(w)
               \/ ReconcileWorkerStartup(w)
               \/ \E j \in Jobs :
                     \/ LeaseJob(w, j)
                     \/ \E t \in 1 .. attempts[j] :
                           \/ RenewLease(j, w, t)
                           \/ \E new \in {"downloading", "preparing"} :
                                 SetJobStatus(j, w, t, new)
                           \/ ReleaseJob(j, w, t)
        PROVE  QuietStep
    BY <1>6 DEF QuietStep, WorkerStep, Callback
  <1>7. CASE OtherJobStep
    <2>1. \/ QuietStep
          \/ \E j \in Jobs, s \in Submissions, f \in BOOLEAN, p \in BOOLEAN :
                CreateDirectJob(j, s, f, p)
      BY <1>6, <1>7 DEF OtherJobStep, QuietStep
    <2> QED
      BY <1>7, <2>1 DEF OtherJobStep, reqVars
  <1> QED
    BY <1>1, <1>2, <1>3, <1>4, <1>5, <1>7 DEF ReqNext, JobStep

\* A step here is a step of the store or leaves it alone.
LEMMA JobsStep ==
    ASSUME ReqTypeOK, [ReqNext]_allVars
    PROVE  [Next]_vars
  <1>1. ASSUME QuietStep
        PROVE  Next
    BY <1>1 DEF QuietStep, Next, Client
  <1>2. ASSUME NEW q \in Requests, NEW r \in Nat, NEW j \in Jobs,
               DispatchRequest(q, r, j)
        PROVE  Next
    BY <1>2, RequestsAssumption DEF DispatchRequest, Next, Client
  <1>3. ASSUME NEW j \in Jobs, NEW s \in Submissions, NEW f \in BOOLEAN,
               NEW p \in BOOLEAN, CreateDirectJob(j, s, f, p)
        PROVE  Next
    BY <1>3 DEF CreateDirectJob, Next, Client
  <1> QED
    BY JobPart, <1>1, <1>2, <1>3

\* Without an insert no job comes into being.
LEMMA QuietKeepsAbsent ==
    ASSUME TypeOK, QuietStep, NEW j \in Jobs, status[j] = "absent"
    PROVE  status'[j] = "absent"
  <1>1. ASSUME NEW k \in Jobs, RequestCancelJob(k) \/ CancelQueuedJob(k)
        PROVE  status'[j] = "absent"
    BY <1>1 DEF RequestCancelJob, CancelQueuedJob, Unlease
  <1>2. ASSUME \/ \E offline \in SUBSET Workers : ReconcileStaleWorkers(offline)
               \/ Tick
               \/ \E w \in Workers : UpsertWorker(w) \/ ReconcileWorkerStartup(w)
        PROVE  status'[j] = "absent"
    BY <1>2 DEF ReconcileStaleWorkers, Tick, UpsertWorker, ReconcileWorkerStartup, jobVars
  <1>3. CASE PollRecovers
    BY <1>3 DEF PollRecovers, RecoverExpiredLeases, Unlease, Expired, Active
  <1>4. ASSUME NEW w \in Workers, RecoverWorkerJobs(w)
        PROVE  status'[j] = "absent"
    BY <1>4 DEF RecoverWorkerJobs, Unlease, HeldBy, Active
  <1>5. ASSUME NEW w \in Workers, NEW k \in Jobs, LeaseJob(w, k)
        PROVE  status'[j] = "absent"
    BY <1>5 DEF LeaseJob, Candidates, TypeOK
  <1>6. ASSUME NEW w \in Workers, NEW k \in Jobs, NEW t \in 1 .. attempts[k],
               Callback(k, w, t)
        PROVE  status'[j] = "absent"
    BY <1>6
    DEF Callback, RenewLease, SetJobStatus, CompleteJob, ReleaseJob, Holds,
        Unlease, Active, TypeOK
  <1> QED
    BY <1>1, <1>2, <1>3, <1>4, <1>5, <1>6 DEF QuietStep, WorkerStep

\* Nor does a job change what it was created from.
LEMMA QuietKeepsSub == QuietStep => sub' = sub
  <1> SUFFICES ASSUME QuietStep
               PROVE  sub' = sub
    OBVIOUS
  <1>1. ASSUME NEW w \in Workers, NEW k \in Jobs, NEW t \in 1 .. attempts[k],
               Callback(k, w, t)
        PROVE  sub' = sub
    BY <1>1 DEF Callback, RenewLease, SetJobStatus, CompleteJob, ReleaseJob
  <1>2. ASSUME NEW w \in Workers, WorkerStep(w)
        PROVE  sub' = sub
    BY <1>1, <1>2
    DEF WorkerStep, RecoverWorkerJobs, UpsertWorker, ReconcileWorkerStartup,
        LeaseJob, jobVars
  <1> QED
    BY <1>2
    DEF QuietStep, RequestCancelJob, CancelQueuedJob, ReconcileStaleWorkers, Tick,
        PollRecovers, RecoverExpiredLeases, jobVars
-----------------------------------------------------------------------------
(* How one step changes the row of one Request. *)

KeptRow(q) == /\ reqStatus'[q] = reqStatus[q]
              /\ revision'[q] = revision[q]
              /\ boundJob'[q] = boundJob[q]
              /\ linked'[q] = linked[q]

Accepted(q) == /\ reqStatus[q] = "none"
               /\ reqStatus'[q] = "accepted"
               /\ revision'[q] = revision[q]
               /\ boundJob'[q] = boundJob[q]
               /\ linked'[q] = linked[q]

Advanced(q) == /\ AllowedTransition(reqStatus[q], reqStatus'[q])
               /\ revision'[q] = revision[q] + 1
               /\ boundJob'[q] = boundJob[q]
               /\ linked'[q] = linked[q]

Dispatched(q) == /\ reqStatus[q] = "preparing"
                 /\ reqStatus'[q] = "queued"
                 /\ revision'[q] = revision[q] + 1
                 /\ boundJob'[q] \in Jobs
                 /\ status'[boundJob'[q]] = "queued"
                 /\ linked'[q] = linked[q]

\* Reconciled with the row that job j has after the step.
FollowedJob(q, j) ==
    LET moves == Moves(q, status'[j], proof'[j])
        links == Links(q, status'[j], proof'[j], attested'[j])
    IN  /\ boundJob[q] = j
        /\ boundJob'[q] = j
        /\ moves => reqStatus'[q] = status'[j]
        /\ ~ moves => reqStatus'[q] = reqStatus[q]
        /\ links => linked'[q] \in 1 .. MaxAttestations /\ Newest(linked'[q], attested'[j])
        /\ ~ links => linked'[q] = linked[q]
        /\ moves \/ links => revision'[q] = revision[q] + 1
        /\ ~ moves /\ ~ links => revision'[q] = revision[q]

Followed(q) == \E j \in Jobs : FollowedJob(q, j)

\* A reconciliation of jobs touches the Requests bound to them and no other.
LEMMA ReconcileRows ==
    ASSUME ReqTypeOK, NEW S \in SUBSET Jobs, Reconcile(S), NEW q \in Requests
    PROVE  /\ boundJob[q] \in S => FollowedJob(q, boundJob[q])
           /\ boundJob[q] \notin S => KeptRow(q)
  <1> DEFINE j == boundJob[q]
             moves == Moves(q, status'[j], proof'[j])
             links == Links(q, status'[j], proof'[j], attested'[j])
  <1>1. /\ reqStatus'[q] = IF j \in S /\ moves THEN status'[j] ELSE reqStatus[q]
        /\ revision'[q] = IF j \in S /\ (moves \/ links)
                          THEN revision[q] + 1 ELSE revision[q]
        /\ boundJob'[q] = j
    BY DEF Reconcile
  <1>2. linked'[q] = IF j \in S /\ links
                     THEN CHOOSE n \in 1 .. MaxAttestations : Newest(n, attested'[j])
                     ELSE linked[q]
    BY DEF Reconcile
  <1>3. links => \E n \in 1 .. MaxAttestations : Newest(n, attested'[j])
    BY DEF Links
  <1>4. CASE j \in S
    <2>1. links => /\ linked'[q] \in 1 .. MaxAttestations
                   /\ Newest(linked'[q], attested'[j])
      BY <1>2, <1>3, <1>4
    <2> QED
      BY <1>1, <1>2, <1>4, <2>1 DEF FollowedJob
  <1>5. CASE j \notin S
    BY <1>1, <1>2, <1>5 DEF KeptRow
  <1> QED
    BY <1>4, <1>5

\* Every step does one of these five things to every Request.
LEMMA RequestRows ==
    ASSUME ReqTypeOK, [ReqNext]_allVars, NEW q \in Requests
    PROVE  \/ KeptRow(q)
           \/ Accepted(q)
           \/ Advanced(q)
           \/ Dispatched(q)
           \/ Followed(q)
  <1>0. \A S \in SUBSET Jobs : Reconcile(S) => KeptRow(q) \/ Followed(q)
    BY ReconcileRows DEF Followed
  <1>1. ASSUME UNCHANGED reqVars
        PROVE  KeptRow(q)
    BY <1>1 DEF reqVars, KeptRow
  <1>2. ASSUME NEW p \in Requests, CreateRequest(p)
        PROVE  KeptRow(q) \/ Accepted(q)
    BY <1>2 DEF CreateRequest, KeptRow, Accepted, ReqTypeOK
  <1>3. ASSUME NEW p \in Requests, NEW r \in 0 .. revision[p],
               NEW target \in {"preparing", "preflight_failed"},
               TransitionRequest(p, r, target)
        PROVE  KeptRow(q) \/ Advanced(q)
    BY <1>3
    DEF TransitionRequest, Advance, KeptRow, Advanced, ReqTypeOK
  <1>4. ASSUME NEW p \in Requests, NEW r \in 0 .. revision[p], NEW j \in Jobs,
               DispatchRequest(p, r, j)
        PROVE  KeptRow(q) \/ Dispatched(q)
    <2>1. status'[j] = "queued"
      BY <1>4 DEF DispatchRequest, CreateOrGetJob, InsertJob
    <2> QED
      BY <1>4, <2>1 DEF DispatchRequest, Advance, KeptRow, Dispatched, ReqTypeOK
  <1>5. CASE RequestStep
    BY <1>2, <1>3, <1>4, <1>5 DEF RequestStep
  <1>6. CASE JobStep
    <2>1. \A j \in Jobs : Reconcile({j}) => KeptRow(q) \/ Followed(q)
      BY <1>0
    <2>2. Reconcile(Expired) => KeptRow(q) \/ Followed(q)
      BY <1>0 DEF Expired
    <2> QED
      BY <1>1, <1>6, <2>1, <2>2
      DEF JobStep, FinishJob, StartRunning, CancelQueued, RecoverExpired,
          RecoverOfWorker, OtherJobStep
  <1>7. CASE AttestationStep
    BY <1>0, <1>1, <1>7
    DEF AttestationStep, CreateAttestation, EndAttestation, ReconcileAttested
  <1>8. CASE StartController
    <2>1. PendingJobs \in SUBSET Jobs
      BY DEF PendingJobs, ReqTypeOK
    <2> QED
      BY <1>0, <1>8, <2>1 DEF StartController
  <1> QED
    BY <1>1, <1>5, <1>6, <1>7, <1>8 DEF ReqNext, allVars

\* A transaction that settles a job brings its Request up to date, unless it
\* supersedes the job or gives it up as lost.
LEMMA SettlingReconciles ==
    ASSUME ReqTypeOK, [ReqNext]_allVars, NEW q \in Requests, NEW j \in Jobs,
           boundJob[q] = j, status[j] \notin Settled, status'[j] \in Settled
    PROVE  status'[j] \in {"superseded", "worker_lost"} \/ FollowedJob(q, j)
  <1>1. ASSUME NEW k \in Jobs, NEW x \in Submissions, NEW f \in BOOLEAN,
               NEW p \in BOOLEAN, CreateOrGetJob(k, x, f, p)
        PROVE  status'[j] = "superseded"
    BY <1>1 DEF CreateOrGetJob, InsertJob, Settled, ReqTypeOK, TypeOK
  <1>2. CASE RequestStep
    BY <1>1, <1>2, RequestsAssumption
    DEF RequestStep, CreateRequest, TransitionRequest, DispatchRequest, vars, jobVars
  <1>3. ASSUME NEW k \in Jobs, NEW w \in Workers, NEW t \in 1 .. attempts[k],
               NEW result \in Reported, NEW p \in Proofs,
               FinishJob(k, w, t, result, p)
        PROVE  FollowedJob(q, j)
    <2>1. k = j
      BY <1>3 DEF FinishJob, CompleteJob, Unlease
    <2> QED
      BY <1>3, <2>1, ReconcileRows DEF FinishJob
  <1>4. ASSUME NEW k \in Jobs, NEW w \in Workers, NEW t \in 1 .. attempts[k],
               NEW new \in {"downloading", "preparing", "running"},
               SetJobStatus(k, w, t, new)
        PROVE  FALSE
    BY <1>4 DEF SetJobStatus, Settled, ReqTypeOK, TypeOK
  <1>5. ASSUME NEW k \in Jobs, CancelQueued(k)
        PROVE  FollowedJob(q, j)
    <2>1. k = j
      BY <1>5 DEF CancelQueued, CancelQueuedJob, Unlease
    <2> QED
      BY <1>5, <2>1, ReconcileRows DEF CancelQueued
  <1>6. CASE RecoverExpired \/ \E w \in Workers : RecoverOfWorker(w)
    <2>1. PICK S \in SUBSET Jobs : Unlease(S, AfterLoss(S))
      BY <1>6
      DEF RecoverExpired, PollRecovers, RecoverExpiredLeases, Expired,
          RecoverOfWorker, RecoverWorkerJobs, HeldBy
    <2> QED
      BY <2>1 DEF Unlease, AfterLoss, Settled
  <1>7. ASSUME NEW k \in Jobs, NEW w \in Workers,
               \/ LeaseJob(w, k)
               \/ \E t \in 1 .. attempts[k] : RenewLease(k, w, t) \/ ReleaseJob(k, w, t)
        PROVE  FALSE
    BY <1>7 DEF LeaseJob, RenewLease, ReleaseJob, Unlease, Settled, ReqTypeOK, TypeOK
  <1>8. ASSUME NEW k \in Jobs, RequestCancelJob(k)
        PROVE  FALSE
    BY <1>8 DEF RequestCancelJob
  <1>9. ASSUME \/ Tick
               \/ \E offline \in SUBSET Workers : ReconcileStaleWorkers(offline)
               \/ \E w \in Workers : UpsertWorker(w) \/ ReconcileWorkerStartup(w)
        PROVE  FALSE
    BY <1>9
    DEF Tick, ReconcileStaleWorkers, UpsertWorker, ReconcileWorkerStartup, jobVars
  <1>10. CASE OtherJobStep
    BY <1>1, <1>4, <1>7, <1>8, <1>9, <1>10 DEF OtherJobStep, CreateDirectJob
  <1>11. CASE JobStep
    BY <1>3, <1>4, <1>5, <1>6, <1>10, <1>11 DEF JobStep, StartRunning
  <1>12. CASE UNCHANGED allVars \/ AttestationStep \/ StartController
    BY <1>12
    DEF allVars, vars, jobVars, AttestationStep, CreateAttestation, EndAttestation,
        ReconcileAttested, StartController
  <1> QED
    BY <1>2, <1>11, <1>12 DEF ReqNext

\* What a step does to the tree that a job's summary shows and to its
\* attestations.
LEMMA ProofRows ==
    ASSUME ReqTypeOK, [ReqNext]_allVars, NEW j \in Jobs
    PROVE  /\ proof'[j] = proof[j] \/ status[j] \in Active
           /\ \/ attested'[j] = attested[j]
              \/ /\ status[j] = "passed"
                 /\ supersededBy[j] = NoJob
                 /\ attested[j].minted < MaxAttestations
                 /\ attested'[j].minted = attested[j].minted + 1
                 /\ attested'[j].valid = attested[j].valid \cup {attested'[j].minted}
              \/ /\ attested'[j].minted = attested[j].minted
                 /\ attested'[j].valid \subseteq attested[j].valid
  <1>1. CASE UNCHANGED proofVars
    BY <1>1 DEF proofVars
  <1>2. ASSUME NEW k \in Jobs, NEW w \in Workers, NEW t \in 1 .. attempts[k],
               NEW result \in Reported, NEW p \in Proofs,
               FinishJob(k, w, t, result, p)
        PROVE  /\ proof'[j] = proof[j] \/ status[j] \in Active
               /\ attested'[j] = attested[j]
    BY <1>2 DEF FinishJob, CompleteJob, Holds, ReqTypeOK
  <1>3. CASE AttestationStep
    <2>1. /\ attested \in [Jobs -> Attestations]
          /\ attested[j] = [minted |-> attested[j].minted, valid |-> attested[j].valid]
      BY DEF ReqTypeOK, Attestations
    <2>2. ASSUME NEW k \in Jobs, CreateAttestation(k)
          PROVE  /\ proof' = proof
                 /\ k # j => attested'[j] = attested[j]
                 /\ k = j => /\ status[j] = "passed"
                             /\ supersededBy[j] = NoJob
                             /\ attested[j].minted < MaxAttestations
                             /\ attested'[j] =
                                   [minted |-> attested[j].minted + 1,
                                    valid |-> attested[j].valid
                                                \cup {attested[j].minted + 1}]
      BY <2>1, <2>2 DEF CreateAttestation
    <2>3. ASSUME NEW k \in Jobs, NEW n, EndAttestation(k, n)
          PROVE  /\ proof' = proof
                 /\ k # j => attested'[j] = attested[j]
                 /\ k = j => attested'[j] = [attested[j] EXCEPT !.valid = @ \ {n}]
      BY <2>1, <2>3 DEF EndAttestation
    <2>4. ASSUME NEW k \in Jobs, NEW n, EndAttestation(k, n)
          PROVE  \/ attested'[j] = attested[j]
                 \/ /\ attested'[j].minted = attested[j].minted
                    /\ attested'[j].valid \subseteq attested[j].valid
      BY <2>1, <2>3, <2>4
    <2>5. ASSUME NEW k \in Jobs, CreateAttestation(k)
          PROVE  \/ attested'[j] = attested[j]
                 \/ /\ status[j] = "passed"
                    /\ supersededBy[j] = NoJob
                    /\ attested[j].minted < MaxAttestations
                    /\ attested'[j].minted = attested[j].minted + 1
                    /\ attested'[j].valid = attested[j].valid \cup {attested'[j].minted}
      BY <2>2, <2>5
    <2>6. ASSUME NEW k \in Jobs, ReconcileAttested(k)
          PROVE  UNCHANGED proofVars
      BY <2>6 DEF ReconcileAttested
    <2>7. CASE \E k \in Jobs : CreateAttestation(k)
      BY <2>2, <2>5, <2>7
    <2>8. CASE \E k \in Jobs, n \in 1 .. MaxAttestations : EndAttestation(k, n)
      BY <2>3, <2>4, <2>8
    <2>9. CASE \E k \in Jobs : ReconcileAttested(k)
      BY <1>1, <2>6, <2>9
    <2> QED
      BY <1>3, <2>7, <2>8, <2>9 DEF AttestationStep
  <1>4. CASE RequestStep \/ StartController \/ UNCHANGED allVars
    BY <1>1, <1>4
    DEF RequestStep, CreateRequest, TransitionRequest, DispatchRequest,
        StartController, allVars
  <1>5. CASE JobStep
    BY <1>1, <1>2, <1>5
    DEF JobStep, StartRunning, CancelQueued, RecoverExpired, RecoverOfWorker,
        OtherJobStep
  <1> QED
    BY <1>3, <1>4, <1>5 DEF ReqNext
-----------------------------------------------------------------------------
(* The inductive invariant.  That a Request has one job needs to know which *)
(* Requests have none yet, and what a link means needs to know what an      *)
(* attestation means.                                                       *)

\* A Request has a job exactly from its dispatch on.
BoundWhenDispatched ==
    \A q \in Requests :
        boundJob[q] = NoJob <=>
            reqStatus[q] \in {"none", "preflight_failed"} \cup Waiting

\* Only a job that passed and was never superseded has an attestation.
AttestedPassed ==
    \A j \in Jobs :
        /\ attested[j].valid \subseteq 1 .. attested[j].minted
        /\ attested[j].minted # 0 => status[j] = "passed" /\ supersededBy[j] = NoJob

\* Only a Request that passed has a link.
LinkedPassed == \A q \in Requests : linked[q] # 0 => reqStatus[q] = "passed"

BindingInv == /\ ReqTypeOK
              /\ BoundWhenDispatched
              /\ LinkedPassed
              /\ OneJobPerRequest

ReqInv == /\ BindingInv
          /\ AttestedPassed
          /\ TerminalTellsTheTruth
          /\ LagOnlyWhereUnreconciled
          /\ LinkedIsProven

LEMMA ReqInvInit == ReqInit => ReqInv
  <1> SUFFICES ASSUME ReqInit
               PROVE  ReqInv
    OBVIOUS
  <1>1. ReqTypeOK
    BY TypeInit, RequestsAssumption DEF ReqInit, ReqTypeOK, Proofs, Attestations
  <1>2. /\ \A j \in Jobs : /\ status[j] = "absent" /\ j # NoJob
                           /\ attested[j] = [minted |-> 0, valid |-> {}]
        /\ \A q \in Requests : /\ reqStatus[q] = "none"
                               /\ revision[q] = 0
                               /\ boundJob[q] = NoJob
                               /\ linked[q] = 0
    BY JobsAssumption DEF ReqInit, Init
  <1>3. BindingInv
    BY <1>1, <1>2
    DEF BindingInv, BoundWhenDispatched, LinkedPassed, OneJobPerRequest
  <1> QED
    BY <1>2, <1>3
    DEF ReqInv, AttestedPassed, TerminalTellsTheTruth, LagOnlyWhereUnreconciled,
        LinkedIsProven, ReqTerminal, Settled

\* The columns of a Request stay well typed and in step with each other.
LEMMA RowInv ==
    ASSUME BindingInv, [ReqNext]_allVars, NEW q \in Requests
    PROVE  /\ reqStatus'[q] \in {"none"} \cup Waiting \cup Projected \cup ReqTerminal
           /\ revision'[q] \in Nat
           /\ boundJob'[q] \in Jobs \cup {NoJob}
           /\ boundJob'[q] = NoJob <=>
                 reqStatus'[q] \in {"none", "preflight_failed"} \cup Waiting
           /\ linked'[q] \in 0 .. MaxAttestations
           /\ linked'[q] # 0 => reqStatus'[q] = "passed"
  <1>0. /\ reqStatus[q] \in {"none"} \cup Waiting \cup Projected \cup ReqTerminal
        /\ revision[q] \in Nat
        /\ boundJob[q] \in Jobs \cup {NoJob}
        /\ boundJob[q] = NoJob <=>
              reqStatus[q] \in {"none", "preflight_failed"} \cup Waiting
        /\ linked[q] \in 0 .. MaxAttestations
        /\ linked[q] # 0 => reqStatus[q] = "passed"
    BY DEF BindingInv, ReqTypeOK, BoundWhenDispatched, LinkedPassed
  <1>1. CASE KeptRow(q)
    BY <1>0, <1>1 DEF KeptRow
  <1>2. CASE Accepted(q) \/ Advanced(q) \/ Dispatched(q)
    BY <1>0, <1>2, JobsAssumption
    DEF Accepted, Advanced, AllowedTransition, Dispatched, NoJob,
        Waiting, Projected, ReqTerminal, Settled
  <1>3. ASSUME NEW j \in Jobs, FollowedJob(q, j)
        PROVE  /\ reqStatus'[q] \in {"none"} \cup Waiting \cup Projected \cup ReqTerminal
               /\ revision'[q] \in Nat
               /\ boundJob'[q] \in Jobs \cup {NoJob}
               /\ boundJob'[q] = NoJob <=>
                     reqStatus'[q] \in {"none", "preflight_failed"} \cup Waiting
               /\ linked'[q] \in 0 .. MaxAttestations
               /\ linked'[q] # 0 => reqStatus'[q] = "passed"
    <2> DEFINE moves == Moves(q, status'[j], proof'[j])
               links == Links(q, status'[j], proof'[j], attested'[j])
    <2>1. /\ boundJob[q] = j
          /\ boundJob'[q] = j
          /\ moves => reqStatus'[q] = status'[j]
          /\ ~ moves => reqStatus'[q] = reqStatus[q]
          /\ links => linked'[q] \in 1 .. MaxAttestations
          /\ ~ links => linked'[q] = linked[q]
          /\ moves \/ links => revision'[q] = revision[q] + 1
          /\ ~ moves /\ ~ links => revision'[q] = revision[q]
      BY <1>3 DEF FollowedJob
    <2>2. moves => /\ status'[j] \in {"running"} \cup Settled
                   /\ reqStatus[q] \in Projected
                   /\ reqStatus[q] # status'[j]
      BY DEF Moves, Speaks
    <2>3. links => /\ status'[j] = "passed"
                   /\ moves \/ reqStatus[q] = "passed"
      BY DEF Links, Moves, Projected, Settled
    <2>4. j # NoJob
      BY JobsAssumption
    <2>5. linked'[q] # 0 => reqStatus'[q] = "passed"
      BY <1>0, <2>1, <2>2, <2>3 DEF Projected
    <2>6. linked'[q] \in 0 .. MaxAttestations /\ revision'[q] \in Nat
      BY <1>0, <2>1
    <2>7. CASE moves
      BY <1>0, <2>1, <2>2, <2>4, <2>5, <2>6, <2>7
      DEF Projected, Waiting, ReqTerminal, Settled
    <2>8. CASE ~ moves
      BY <1>0, <2>1, <2>4, <2>5, <2>6, <2>8
    <2> QED
      BY <2>7, <2>8
  <1> QED
    BY <1>1, <1>2, <1>3, RequestRows DEF Followed, BindingInv
\* The rows of a Request and of its job are still one to one.
LEMMA BindingStep ==
    ASSUME BindingInv, [ReqNext]_allVars
    PROVE  OneJobPerRequest'
  <1>0. /\ TypeOK
        /\ ReqTypeOK
        /\ OneJobPerRequest
        /\ BoundWhenDispatched
    BY DEF BindingInv, ReqTypeOK
  <1>1. \A j \in Jobs : status[j] # "absent" => status'[j] # "absent"
    <2> SUFFICES ASSUME NEW j \in Jobs, status[j] # "absent"
                 PROVE  status'[j] # "absent"
      OBVIOUS
    <2>1. RowStep(j)
      BY <1>0, JobsStep, EveryRowSteps
    <2> QED
      BY <2>1
      DEF RowStep, Stays, Created, Leased, TakenBack, Finished, Withdrawn, Keeps,
          Active, Reported
  <1>2. CASE UNCHANGED <<vars, boundJob>>
    BY <1>0, <1>2 DEF vars, jobVars, OneJobPerRequest
  <1>3. CASE QuietStep /\ UNCHANGED boundJob
    BY <1>0, <1>1, <1>3, QuietKeepsAbsent, QuietKeepsSub DEF OneJobPerRequest
  <1>4. ASSUME NEW j \in Jobs, NEW x \in Submissions, NEW f \in BOOLEAN,
               NEW p \in BOOLEAN, CreateOrGetJob(j, x, f, p),
               NEW k \in Jobs
        PROVE  /\ status[j] = "absent"
               /\ status'[j] # "absent"
               /\ sub'[j] = x
               /\ k # j => /\ sub'[k] = sub[k]
                           /\ (status'[k] = "absent") <=> (status[k] = "absent")
    BY <1>0, <1>4 DEF CreateOrGetJob, InsertJob, NextIdentity, Outdated, TypeOK
  <1>5. ASSUME NEW q \in Requests, NEW r \in Nat, NEW j \in Jobs,
               DispatchRequest(q, r, j)
        PROVE  OneJobPerRequest'
    <2>1. /\ boundJob[q] = NoJob
          /\ \A k \in Jobs : status[k] # "absent" => sub[k].key # q
      BY <1>0, <1>5, JobsAssumption
      DEF DispatchRequest, BoundWhenDispatched, Waiting, OneJobPerRequest
    <2>2. /\ boundJob'[q] = j
          /\ \A p \in Requests \ {q} : boundJob'[p] = boundJob[p]
      BY <1>0, <1>5 DEF DispatchRequest, ReqTypeOK
    <2>3. /\ RequestSub[q] \in Submissions
          /\ RequestSub[q].key = q
          /\ Supersedes[q] \in BOOLEAN
          /\ CreateOrGetJob(j, RequestSub[q], FALSE, Supersedes[q])
      BY <1>5, RequestsAssumption DEF DispatchRequest
    <2>4. \A k \in Jobs : /\ status[j] = "absent"
                          /\ status'[j] # "absent"
                          /\ sub'[j] = RequestSub[q]
                          /\ k # j => /\ sub'[k] = sub[k]
                                      /\ (status'[k] = "absent") <=> (status[k] = "absent")
      BY <1>4, <2>3
    <2> SUFFICES ASSUME NEW k \in Jobs, NEW p \in Requests
                 PROVE  (status'[k] # "absent" /\ sub'[k].key = p) <=> boundJob'[p] = k
      BY DEF OneJobPerRequest
    <2>5. (status[k] # "absent" /\ sub[k].key = p) <=> boundJob[p] = k
      BY <1>0 DEF OneJobPerRequest
    <2>6. CASE k = j
      BY <2>2, <2>3, <2>4, <2>5, <2>6
    <2>7. CASE k # j
      BY <2>1, <2>2, <2>4, <2>5, <2>7
    <2> QED
      BY <2>6, <2>7
  <1>6. ASSUME NEW j \in Jobs, NEW x \in Submissions, NEW f \in BOOLEAN,
               NEW p \in BOOLEAN,
               CreateDirectJob(j, x, f, p), UNCHANGED <<reqVars, proofVars>>
        PROVE  OneJobPerRequest'
    <2>1. /\ x.key \notin Requests
          /\ CreateOrGetJob(j, x, f, p)
          /\ boundJob' = boundJob
      BY <1>6 DEF CreateDirectJob, reqVars
    <2> SUFFICES ASSUME NEW k \in Jobs, NEW q \in Requests
                 PROVE  (status'[k] # "absent" /\ sub'[k].key = q) <=> boundJob'[q] = k
      BY DEF OneJobPerRequest
    <2>2. (status[k] # "absent" /\ sub[k].key = q) <=> boundJob[q] = k
      BY <1>0 DEF OneJobPerRequest
    <2>3. /\ status[j] = "absent"
          /\ status'[j] # "absent"
          /\ sub'[j] = x
          /\ k # j => /\ sub'[k] = sub[k]
                      /\ (status'[k] = "absent") <=> (status[k] = "absent")
      BY <1>4, <2>1
    <2> QED
      BY <2>1, <2>2, <2>3
  <1> QED
    BY <1>0, <1>2, <1>3, <1>5, <1>6, JobPart

\* The columns stay functions.
Columns(domain) ==
    /\ reqStatus = [q \in domain |-> reqStatus[q]]
    /\ revision = [q \in domain |-> revision[q]]
    /\ boundJob = [q \in domain |-> boundJob[q]]
    /\ linked = [q \in domain |-> linked[q]]

LEMMA ColumnsStay ==
    ASSUME ReqTypeOK, [ReqNext]_allVars
    PROVE  /\ Columns(Requests)'
           /\ proof' \in [Jobs -> Proofs]
           /\ attested' \in [Jobs -> Attestations]
  <1>0. Columns(Requests)
    BY DEF ReqTypeOK, Columns
  <1>1. UNCHANGED reqVars => Columns(Requests)'
    BY <1>0 DEF reqVars, Columns
  <1>2. ASSUME NEW S, Reconcile(S)
        PROVE  Columns(Requests)'
    BY <1>0, <1>2 DEF Reconcile, Columns
  <1>3. CASE RequestStep
    BY <1>0, <1>3
    DEF RequestStep, CreateRequest, TransitionRequest, DispatchRequest, Advance,
        Columns, proofVars, ReqTypeOK
  <1>4. CASE JobStep
    BY <1>1, <1>2, <1>4
    DEF JobStep, FinishJob, StartRunning, CancelQueued, RecoverExpired,
        RecoverOfWorker, OtherJobStep, proofVars, ReqTypeOK
  <1>5. CASE AttestationStep
    <2>1. ASSUME NEW k \in Jobs, CreateAttestation(k)
          PROVE  UNCHANGED <<reqVars, proof>> /\ attested' \in [Jobs -> Attestations]
      <3> DEFINE n == attested[k].minted + 1
                 a == [minted |-> n, valid |-> attested[k].valid \cup {n}]
      <3>1. /\ attested[k] \in Attestations
            /\ attested[k].minted < MaxAttestations
            /\ attested' = [attested EXCEPT ![k] = a]
            /\ UNCHANGED <<reqVars, proof>>
        BY <2>1 DEF CreateAttestation, ReqTypeOK
      <3>2. n \in 1 .. MaxAttestations /\ attested[k].valid \subseteq 1 .. MaxAttestations
        BY <3>1, RequestsAssumption DEF Attestations
      <3>3. a \in Attestations
        BY <3>2, RequestsAssumption DEF Attestations
      <3> QED
        BY <3>1, <3>3 DEF ReqTypeOK
    <2>2. ASSUME NEW k \in Jobs, NEW n, EndAttestation(k, n)
          PROVE  UNCHANGED <<reqVars, proof>> /\ attested' \in [Jobs -> Attestations]
      <3>1. /\ attested[k] \in Attestations
            /\ attested' = [attested EXCEPT ![k].valid = @ \ {n}]
            /\ UNCHANGED <<reqVars, proof>>
        BY <2>2 DEF EndAttestation, ReqTypeOK
      <3>2. [attested[k] EXCEPT !.valid = @ \ {n}] \in Attestations
        BY <3>1 DEF Attestations
      <3> QED
        BY <3>1, <3>2 DEF ReqTypeOK
    <2>3. ASSUME NEW k \in Jobs, ReconcileAttested(k)
          PROVE  Columns(Requests)' /\ UNCHANGED proofVars
      BY <1>2, <2>3 DEF ReconcileAttested
    <2> QED
      BY <1>1, <1>5, <2>1, <2>2, <2>3 DEF AttestationStep, proofVars, ReqTypeOK
  <1>7. CASE StartController
    BY <1>2, <1>7 DEF StartController, proofVars, ReqTypeOK
  <1>6. CASE UNCHANGED allVars
    BY <1>1, <1>6 DEF allVars, proofVars, ReqTypeOK
  <1> QED
    BY <1>3, <1>4, <1>5, <1>6, <1>7 DEF ReqNext

LEMMA BindingNext == BindingInv /\ [ReqNext]_allVars => BindingInv'
  <1> SUFFICES ASSUME BindingInv, [ReqNext]_allVars
               PROVE  BindingInv'
    OBVIOUS
  <1>1. OneJobPerRequest'
    BY BindingStep
  <1>2. /\ BoundWhenDispatched'
        /\ LinkedPassed'
    BY RowInv DEF BoundWhenDispatched, LinkedPassed
  <1>3. ReqTypeOK'
    <2>1. TypeOK'
      BY JobsStep, TypeNext DEF BindingInv, ReqTypeOK
    <2>2. \A q \in Requests :
             /\ reqStatus'[q] \in {"none"} \cup Waiting \cup Projected \cup ReqTerminal
             /\ revision'[q] \in Nat
             /\ boundJob'[q] \in Jobs \cup {NoJob}
             /\ linked'[q] \in 0 .. MaxAttestations
      BY RowInv
    <2>3. /\ Columns(Requests)'
          /\ proof' \in [Jobs -> Proofs]
          /\ attested' \in [Jobs -> Attestations]
      BY ColumnsStay DEF BindingInv
    <2> QED
      BY <2>1, <2>2, <2>3 DEF ReqTypeOK, Columns
  <1> QED
    BY <1>1, <1>2, <1>3 DEF BindingInv
\* What the columns of a Request and of its job say about each other stays
\* true.
LEMMA TruthStep ==
    ASSUME ReqInv, [ReqNext]_allVars, NEW q \in Requests
    PROVE  /\ reqStatus'[q] \in ReqTerminal =>
                 IF boundJob'[q] = NoJob THEN reqStatus'[q] = "preflight_failed"
                 ELSE reqStatus'[q] = status'[boundJob'[q]]
           /\ /\ boundJob'[q] # NoJob
              /\ status'[boundJob'[q]] \in Settled
              /\ reqStatus'[q] \notin ReqTerminal
              => \/ status'[boundJob'[q]] \in {"superseded", "worker_lost"}
                 \/ proof'[boundJob'[q]] = "other"
                 \/ status'[boundJob'[q]] = "passed" /\ proof'[boundJob'[q]] = "none"
  <1> DEFINE j == boundJob[q]
  <1>0. /\ ReqTypeOK /\ TypeOK
        /\ BindingInv
        /\ j \in Jobs \cup {NoJob}
        /\ reqStatus[q] \in {"none"} \cup Waiting \cup Projected \cup ReqTerminal
        /\ j = NoJob <=> reqStatus[q] \in {"none", "preflight_failed"} \cup Waiting
        /\ reqStatus[q] \in ReqTerminal =>
              IF j = NoJob THEN reqStatus[q] = "preflight_failed"
              ELSE reqStatus[q] = status[j]
        /\ j # NoJob /\ status[j] \in Settled /\ reqStatus[q] \notin ReqTerminal
           => \/ status[j] \in {"superseded", "worker_lost"}
              \/ proof[j] = "other"
              \/ status[j] = "passed" /\ proof[j] = "none"
    BY DEF ReqInv, BindingInv, ReqTypeOK, BoundWhenDispatched, TerminalTellsTheTruth,
           LagOnlyWhereUnreconciled
  <1>1. ASSUME j \in Jobs, status[j] \in Settled
        PROVE  status'[j] = status[j] /\ proof'[j] = proof[j]
    <2>1. status'[j] = status[j]
      BY <1>0, <1>1, JobsStep, SettledStep
    <2>2. status[j] \notin Active
      BY <1>1 DEF Settled, Active
    <2> QED
      BY <1>0, <1>1, <2>1, <2>2, ProofRows
  <1>2. ASSUME j \in Jobs, reqStatus[q] \in ReqTerminal
        PROVE  reqStatus[q] = status[j] /\ status[j] \in Settled
    BY <1>0, <1>2, JobsAssumption DEF ReqTerminal, TypeOK, Statuses, Active
  <1>3. ASSUME FollowedJob(q, j), j \in Jobs
        PROVE  /\ reqStatus'[q] \in ReqTerminal => reqStatus'[q] = status'[j]
               /\ status'[j] \in Settled /\ reqStatus'[q] \notin ReqTerminal
                  => \/ proof'[j] = "other"
                     \/ status'[j] = "passed" /\ proof'[j] = "none"
    <2>1. proof'[j] \in Proofs
      BY <1>0, <1>3, ColumnsStay
    <2>2. /\ Moves(q, status'[j], proof'[j]) => reqStatus'[q] = status'[j]
          /\ ~ Moves(q, status'[j], proof'[j]) => reqStatus'[q] = reqStatus[q]
      BY <1>3 DEF FollowedJob
    <2>3. CASE Moves(q, status'[j], proof'[j])
      BY <2>2, <2>3 DEF ReqTerminal
    <2>4. CASE ~ Moves(q, status'[j], proof'[j])
      <3>1. reqStatus[q] \in Projected \cup ReqTerminal
        BY <1>0, <1>3, JobsAssumption
      <3>2. reqStatus[q] \in ReqTerminal => reqStatus[q] = status'[j]
        BY <1>1, <1>2, <1>3
      <3>3. CASE /\ status'[j] \in Settled
                 /\ reqStatus'[q] \notin ReqTerminal
        <4>1. reqStatus[q] \in Projected /\ reqStatus[q] # status'[j]
          BY <2>2, <2>4, <3>1, <3>3 DEF Projected, Settled
        <4> QED
          BY <2>1, <2>4, <3>3, <4>1 DEF Moves, Speaks, Proofs
      <3> QED
        BY <2>2, <2>4, <3>2, <3>3
    <2> QED
      BY <2>3, <2>4
  <1>4. CASE KeptRow(q)
    <2>1. CASE j = NoJob
      BY <1>0, <1>4, <2>1 DEF KeptRow
    <2>2. CASE j \in Jobs
      <3>1. reqStatus[q] \in ReqTerminal => reqStatus[q] = status'[j]
        BY <1>1, <1>2, <2>2
      <3>2. CASE status[j] \in Settled
        BY <1>0, <1>1, <1>4, <2>2, <3>1, <3>2, JobsAssumption DEF KeptRow
      <3>3. CASE status[j] \notin Settled /\ status'[j] \in Settled
        BY <1>0, <1>3, <1>4, <2>2, <3>1, <3>3, SettlingReconciles, JobsAssumption
        DEF KeptRow
      <3> QED
        BY <1>4, <2>2, <3>1, <3>2, <3>3, JobsAssumption DEF KeptRow
    <2> QED
      BY <1>0, <2>1, <2>2
  <1>5. CASE Accepted(q) \/ Advanced(q)
    <2>1. j = NoJob /\ boundJob'[q] = NoJob
      BY <1>0, <1>5 DEF Accepted, Advanced, AllowedTransition, Waiting
    <2>2. reqStatus'[q] \in ReqTerminal => reqStatus'[q] = "preflight_failed"
      BY <1>5 DEF Accepted, Advanced, AllowedTransition, ReqTerminal, Settled
    <2> QED
      BY <2>1, <2>2
  <1>6. CASE Dispatched(q)
    BY <1>6 DEF Dispatched, ReqTerminal, Settled
  <1>7. CASE Followed(q)
    <2>1. FollowedJob(q, j) /\ j \in Jobs /\ boundJob'[q] = j
      BY <1>7 DEF Followed, FollowedJob
    <2> QED
      BY <1>3, <2>1, JobsAssumption
  <1> QED
    BY <1>0, <1>4, <1>5, <1>6, <1>7, RequestRows

\* A link and an attestation keep meaning what they say.
LEMMA LinkStep ==
    ASSUME ReqInv, [ReqNext]_allVars
    PROVE  AttestedPassed' /\ LinkedIsProven'
  <1>0. ReqTypeOK /\ TypeOK /\ BindingInv
    BY DEF ReqInv, BindingInv, ReqTypeOK
  <1>1. ASSUME NEW j \in Jobs
        PROVE  /\ attested'[j].valid \subseteq 1 .. attested'[j].minted
               /\ attested[j].minted <= attested'[j].minted
               /\ attested'[j].minted # 0 =>
                     status'[j] = "passed" /\ supersededBy'[j] = NoJob
    <2>1. /\ attested[j].valid \subseteq 1 .. attested[j].minted
          /\ attested[j].minted # 0 => status[j] = "passed" /\ supersededBy[j] = NoJob
      BY DEF ReqInv, AttestedPassed
    <2>2. attested[j].minted \in Nat
      BY <1>0, RequestsAssumption DEF ReqTypeOK, Attestations
    <2>3. /\ attested'[j].valid \subseteq 1 .. attested'[j].minted
          /\ attested[j].minted <= attested'[j].minted
          /\ attested'[j].minted # 0 => status[j] = "passed" /\ supersededBy[j] = NoJob
      BY <1>0, <2>1, <2>2, ProofRows
    <2>4. status[j] = "passed" => status[j] \in Settled
      BY DEF Settled
    <2> QED
      BY <1>0, <2>3, <2>4, JobsStep, SettledStep
  <1>2. ASSUME NEW q \in Requests, linked'[q] # 0
        PROVE  /\ reqStatus'[q] = "passed"
               /\ boundJob'[q] \in Jobs
               /\ proof'[boundJob'[q]] = "match"
               /\ linked'[q] <= attested'[boundJob'[q]].minted
    <2>1. reqStatus'[q] = "passed" /\ boundJob'[q] \in Jobs
      BY <1>0, <1>2, RowInv DEF Waiting
    <2>2. CASE linked'[q] = linked[q]
      <3> DEFINE j == boundJob[q]
      <3>1. /\ reqStatus[q] = "passed"
            /\ status[j] = "passed"
            /\ proof[j] = "match"
            /\ linked[q] <= attested[j].minted
        BY <1>2, <2>2 DEF ReqInv, LinkedIsProven
      <3>2. j \in Jobs
        BY <1>0, <3>1 DEF BindingInv, BoundWhenDispatched, ReqTypeOK, Waiting
      <3>3. boundJob'[q] = j
        BY <1>0, <3>1, RequestRows
        DEF KeptRow, Accepted, Advanced, AllowedTransition, Dispatched, Followed,
            FollowedJob
      <3>4. proof'[j] = "match"
        BY <1>0, <3>1, <3>2, ProofRows DEF Active
      <3>5. /\ linked[q] \in Nat
            /\ attested[j].minted \in Nat
            /\ attested'[j].minted \in Nat
        BY <1>0, <3>2, RequestsAssumption, ColumnsStay DEF ReqTypeOK, Attestations
      <3>6. linked[q] <= attested'[j].minted
        BY <1>1, <3>1, <3>2, <3>5
      <3> QED
        BY <2>1, <2>2, <3>3, <3>4, <3>6
    <2>3. CASE linked'[q] # linked[q]
      <3>1. ~ (KeptRow(q) \/ Accepted(q) \/ Advanced(q) \/ Dispatched(q))
        BY <2>3 DEF KeptRow, Accepted, Advanced, Dispatched
      <3>2. PICK j \in Jobs : FollowedJob(q, j)
        BY <1>0, <3>1, RequestRows DEF Followed
      <3>3. /\ boundJob'[q] = j
            /\ Links(q, status'[j], proof'[j], attested'[j])
            /\ linked'[q] \in attested'[j].valid
        BY <2>3, <3>2 DEF FollowedJob, Newest
      <3>4. proof'[j] \in Proofs
        BY <1>0, ColumnsStay
      <3>5. linked'[q] \in 1 .. attested'[j].minted
        BY <1>1, <3>3
      <3>6. attested'[j].minted \in Nat
        BY <1>0, RequestsAssumption, ColumnsStay DEF Attestations
      <3>7. linked'[q] <= attested'[j].minted
        BY <3>5, <3>6
      <3>8. proof'[j] = "match"
        BY <3>3, <3>4 DEF Links, Speaks, Proofs, Settled
      <3> QED
        BY <2>1, <3>3, <3>7, <3>8
    <2> QED
      BY <2>2, <2>3
  <1>3. AttestedPassed'
    BY <1>1 DEF AttestedPassed
  <1>4. ASSUME NEW q \in Requests, linked'[q] # 0
        PROVE  /\ status'[boundJob'[q]] = "passed"
               /\ supersededBy'[boundJob'[q]] = NoJob
    <2>1. /\ boundJob'[q] \in Jobs
          /\ linked'[q] <= attested'[boundJob'[q]].minted
      BY <1>2, <1>4
    <2>2. linked'[q] \in Nat /\ attested'[boundJob'[q]].minted \in Nat
      BY <1>0, <2>1, RowInv, ColumnsStay, RequestsAssumption DEF Attestations
    <2>3. attested'[boundJob'[q]].minted # 0
      BY <1>4, <2>1, <2>2
    <2> QED
      BY <1>1, <2>1, <2>3
  <1> QED
    BY <1>2, <1>3, <1>4 DEF LinkedIsProven

LEMMA ReqInvNext == ReqInv /\ [ReqNext]_allVars => ReqInv'
  <1>1. ASSUME ReqInv, [ReqNext]_allVars
        PROVE  TerminalTellsTheTruth' /\ LagOnlyWhereUnreconciled'
    BY <1>1, TruthStep DEF TerminalTellsTheTruth, LagOnlyWhereUnreconciled
  <1> QED
    BY <1>1, BindingNext, LinkStep DEF ReqInv

-----------------------------------------------------------------------------
(* The theorems. *)

LEMMA ReqInvariant == ReqSpec => []ReqInv
  BY ReqInvInit, ReqInvNext, PTL DEF ReqSpec

\* Every row of the Requests, the jobs and the attestations stays well typed.
THEOREM RequestsTypeCorrect == ReqSpec => []ReqTypeOK
  <1>1. ReqInv => ReqTypeOK
    BY DEF ReqInv, BindingInv
  <1> QED
    BY <1>1, ReqInvariant, PTL

\* Under the Requests the job store runs as it does alone, so that everything
\* proved of CIJobs!Spec holds here.
THEOREM RequestsRunJobs == ReqSpec => Spec
  <1>1. ReqInit => Init
    BY DEF ReqInit
  <1>2. ReqTypeOK /\ [ReqNext]_allVars => [Next]_vars
    BY JobsStep
  <1> QED
    BY <1>1, <1>2, RequestsTypeCorrect, PTL DEF ReqSpec, Spec

\* Whatever is retried, superseded or lost, a Request has one job and a job of
\* a Request one Request.
THEOREM OneJob == ReqSpec => []OneJobPerRequest
  <1>1. ReqInv => OneJobPerRequest
    BY DEF ReqInv, BindingInv
  <1> QED
    BY <1>1, ReqInvariant, PTL

\* A terminal Request says what its job says.
THEOREM TerminalTruth == ReqSpec => []TerminalTellsTheTruth
  <1>1. ReqInv => TerminalTellsTheTruth
    BY DEF ReqInv
  <1> QED
    BY <1>1, ReqInvariant, PTL

\* A Request lags behind its settled job only where no transaction reconciles.
THEOREM LagBounded == ReqSpec => []LagOnlyWhereUnreconciled
  <1>1. ReqInv => LagOnlyWhereUnreconciled
    BY DEF ReqInv
  <1> QED
    BY <1>1, ReqInvariant, PTL

\* A link to an attestation proves what it claims.
THEOREM LinksProven == ReqSpec => []LinkedIsProven
  <1>1. ReqInv => LinkedIsProven
    BY DEF ReqInv
  <1> QED
    BY <1>1, ReqInvariant, PTL

\* One step takes no Request back, in status, revision, job or link.
LEMMA ForwardStep ==
    ASSUME ReqInv, [ReqNext]_allVars, NEW q \in Requests
    PROVE  /\ reqStatus'[q] # reqStatus[q] => Rank(reqStatus'[q]) > Rank(reqStatus[q])
           /\ revision'[q] >= revision[q]
           /\ boundJob[q] # NoJob => boundJob'[q] = boundJob[q]
           /\ linked[q] # 0 => linked'[q] # 0
  <1>0. /\ ReqTypeOK
        /\ revision[q] \in Int
        /\ boundJob[q] = NoJob <=>
              reqStatus[q] \in {"none", "preflight_failed"} \cup Waiting
    BY DEF ReqInv, BindingInv, ReqTypeOK, BoundWhenDispatched
  <1>1. CASE KeptRow(q)
    BY <1>0, <1>1 DEF KeptRow
  <1>2. CASE Accepted(q) \/ Advanced(q) \/ Dispatched(q)
    BY <1>0, <1>2 DEF Accepted, Advanced, AllowedTransition, Dispatched, Rank, Waiting
  <1>3. ASSUME NEW j \in Jobs, FollowedJob(q, j)
        PROVE  /\ reqStatus'[q] # reqStatus[q] => Rank(reqStatus'[q]) > Rank(reqStatus[q])
               /\ revision'[q] >= revision[q]
               /\ boundJob'[q] = boundJob[q]
               /\ linked[q] # 0 => linked'[q] # 0
    <2>1. reqStatus'[q] # reqStatus[q] =>
            /\ reqStatus[q] \in Projected
            /\ reqStatus'[q] \in {"running"} \cup Settled
            /\ reqStatus'[q] # reqStatus[q]
      BY <1>3 DEF FollowedJob, Moves, Speaks
    <2>2. reqStatus'[q] # reqStatus[q] => Rank(reqStatus'[q]) > Rank(reqStatus[q])
      BY <2>1 DEF Rank, Projected, Settled
    <2> QED
      BY <1>0, <1>3, <2>2 DEF FollowedJob
  <1> QED
    BY <1>0, <1>1, <1>2, <1>3, RequestRows DEF Followed

\* Requests move forward only.
THEOREM Forward == ReqSpec => RequestMovesForward
  <1>1. ReqInv /\ [ReqNext]_allVars =>
          [\A q \in Requests :
              /\ reqStatus'[q] # reqStatus[q] => Rank(reqStatus'[q]) > Rank(reqStatus[q])
              /\ revision'[q] >= revision[q]
              /\ boundJob[q] # NoJob => boundJob'[q] = boundJob[q]
              /\ linked[q] # 0 => linked'[q] # 0]_allVars
    BY ForwardStep
  <1> QED
    BY <1>1, ReqInvariant, PTL DEF ReqSpec, RequestMovesForward

\* The repair at a start of the controller reaches every Request whose job
\* settled with the pinned tree.
LEMMA StartStep ==
    ASSUME ReqInv, StartController, NEW q \in Requests,
           boundJob[q] # NoJob, status[boundJob[q]] \in Settled,
           Speaks(status[boundJob[q]], proof[boundJob[q]])
    PROVE  reqStatus'[q] = status[boundJob[q]]
  <1> DEFINE j == boundJob[q]
  <1>1. /\ ReqTypeOK
        /\ j \in Jobs
        /\ PendingJobs \in SUBSET Jobs
        /\ reqStatus[q] \in Projected \cup ReqTerminal
        /\ reqStatus[q] \in ReqTerminal => reqStatus[q] = status[j]
    BY DEF ReqInv, BindingInv, ReqTypeOK, BoundWhenDispatched, TerminalTellsTheTruth,
           PendingJobs
  <1>2. Reconcile(PendingJobs) /\ status' = status /\ proof' = proof
    BY DEF StartController, vars, jobVars, proofVars
  <1>3. CASE j \in PendingJobs
    <2>1. FollowedJob(q, j)
      BY <1>1, <1>2, <1>3, ReconcileRows
    <2> QED
      BY <1>1, <1>2, <2>1 DEF FollowedJob, Moves
  <1>4. CASE j \notin PendingJobs
    <2>1. reqStatus[q] \in ReqTerminal
      BY <1>4 DEF PendingJobs
    <2>2. reqStatus'[q] = reqStatus[q]
      BY <1>1, <1>2, <1>4, ReconcileRows DEF KeptRow
    <2> QED
      BY <1>1, <2>1, <2>2
  <1> QED
    BY <1>3, <1>4

\* A start of the controller leaves no Request behind that it can bring up to
\* date.
THEOREM StartRepairs == ReqSpec => StartLeavesNoLag
  <1>1. ReqInv /\ [ReqNext]_allVars =>
          [StartController =>
              \A q \in Requests :
                  LET j == boundJob[q]
                  IN  j # NoJob /\ status[j] \in Settled /\ Speaks(status[j], proof[j])
                      => reqStatus'[q] = status[j]]_allVars
    BY StartStep
  <1> QED
    BY <1>1, ReqInvariant, PTL DEF ReqSpec, StartLeavesNoLag

\* A Request that waits for its dispatch finds no job of its identity in the
\* store, however many controllers dispatch it and whatever jobs clients
\* create: the branch of dispatch_ci_request that binds an existing job is
\* never taken, which is why DispatchRequest has no such branch.
THEOREM NothingToReuse ==
    ReqSpec => [](\A q \in Requests :
        reqStatus[q] \in {"none", "preflight_failed"} \cup Waiting
            => Reusable(RequestSub[q]) = {})
  <1>1. ReqInv => \A q \in Requests :
            reqStatus[q] \in {"none", "preflight_failed"} \cup Waiting
                => Reusable(RequestSub[q]) = {}
    <2> SUFFICES ASSUME ReqInv, NEW q \in Requests, NEW j \in Reusable(RequestSub[q]),
                        reqStatus[q] \in {"none", "preflight_failed"} \cup Waiting
                 PROVE  FALSE
      OBVIOUS
    <2>1. boundJob[q] = NoJob
      BY DEF ReqInv, BindingInv, BoundWhenDispatched
    <2>2. j \in Jobs /\ status[j] # "absent" /\ sub[j].key = q
      BY RequestsAssumption DEF Reusable, Active
    <2>3. boundJob[q] = j
      BY <2>2 DEF ReqInv, BindingInv, OneJobPerRequest
    <2> QED
      BY <2>1, <2>2, <2>3, JobsAssumption
  <1> QED
    BY <1>1, ReqInvariant, PTL

-----------------------------------------------------------------------------
(* The dispatcher: what its steps are for the Requests.                    *)

\* A thread has a Request in hand exactly while it is busy.
HandlesWhenBusy ==
    \A g \in Controllers, t \in Threads :
        handled[g][t] = NoRequest <=> at[g][t] = "free"

LEMMA RevisionIsNatural ==
    ASSUME ReqTypeOK, NEW q \in Requests
    PROVE  revision[q] \in Nat
  BY DEF ReqTypeOK

LEMMA SeenIsNatural ==
    ASSUME DispatchTypeOK, NEW g \in Controllers, NEW t \in Threads
    PROVE  seen[g][t] \in Nat
  BY DEF DispatchTypeOK

\* The threads of the dispatcher, the processes and the pushes ask the store
\* for nothing but the transactions of CIRequests.
LEMMA RequestPart ==
    ASSUME DispatchTypeOK, HandlesWhenBusy, [DispatchNext]_dispatchVars
    PROVE  [ReqNext]_allVars
  <1>0. \A q \in Requests : revision[q] \in Nat
    BY RevisionIsNatural DEF DispatchTypeOK
  <1>1. CASE UNCHANGED dispatchVars
    BY <1>1 DEF dispatchVars
  <1>2. ASSUME NEW q \in Requests, NEW r, NEW target \in {"preparing", "preflight_failed"},
               TransitionRequest(q, r, target)
        PROVE  ReqNext
    <2>1. r = revision[q] /\ revision[q] \in Nat
      BY <1>0, <1>2 DEF TransitionRequest
    <2>2. r \in 0 .. revision[q]
      BY <2>1
    <2> QED
      BY <1>2, <2>2 DEF ReqNext, RequestStep
  <1>3. ASSUME NEW q \in Requests, NEW r, NEW j \in Jobs, DispatchRequest(q, r, j)
        PROVE  ReqNext
    <2>1. r = revision[q] /\ revision[q] \in Nat
      BY <1>0, <1>3 DEF DispatchRequest
    <2>2. r \in 0 .. revision[q]
      BY <2>1
    <2> QED
      BY <1>3, <2>2 DEF ReqNext, RequestStep
  <1>4. ASSUME NEW g \in Controllers, ProcessStep(g)
        PROVE  [ReqNext]_allVars
    <2>1. CASE Boot(g)
      BY <2>1 DEF Boot, ReqNext
    <2>2. CASE \E q \in Requests : Accept(g, q)
      BY <2>2 DEF Accept, ReqNext, RequestStep
    <2>3. CASE \/ Serve(g) \/ MaintainLease(g) \/ Crash(g)
               \/ \E q \in Requests : Replay(g, q)
      BY <2>3 DEF Serve, MaintainLease, Crash, Replay
    <2> QED
      BY <1>4, <2>1, <2>2, <2>3 DEF ProcessStep
  <1>5. ASSUME NEW g \in Controllers, NEW t \in Threads, ThreadStep(g, t)
        PROVE  [ReqNext]_allVars
    <2>1. at[g][t] # "free" => handled[g][t] \in Requests
      BY DEF HandlesWhenBusy, DispatchTypeOK
    <2>2. CASE Advancing(g, t)
      BY <1>2, <2>1, <2>2 DEF Advancing, Step, Fail
    <2>3. CASE Reject(g, t)
      BY <1>2, <2>1, <2>3 DEF Reject, Step, Fail
    <2>4. CASE Dispatch(g, t)
      BY <1>3, <2>1, <2>4 DEF Dispatch, Step, Fail
    <2>5. CASE \/ \E q \in Requests : Take(g, t, q)
               \/ Read(g, t) \/ Preflight(g, t) \/ Discard(g, t)
      BY <2>5 DEF Take, Read, Preflight, Discard
    <2> QED
      BY <1>5, <2>2, <2>3, <2>4, <2>5 DEF ThreadStep
  <1>6. CASE LeaseExpires \/ \E q \in Requests : Push(q)
    BY <1>6 DEF LeaseExpires, Push
  <1>7. CASE JobsGoOn
    BY <1>7 DEF JobsGoOn, ReqNext
  <1> QED
    BY <1>1, <1>4, <1>5, <1>6, <1>7 DEF DispatchNext

-----------------------------------------------------------------------------
(* How one step changes what a process knows.  The steps of the threads    *)
(* are put in a form that says which row of at, handled and seen changes.  *)

\* Every other thread of every process keeps its place and its Request.
OthersStay(g, t) ==
    \A h \in Controllers, u \in Threads : <<h, u>> # <<g, t>> =>
        /\ at'[h][u] = at[h][u]
        /\ handled'[h][u] = handled[h][u]
        /\ seen'[h][u] = seen[h][u]

ThreadsStay ==
    \A h \in Controllers, u \in Threads :
        /\ at'[h][u] = at[h][u]
        /\ handled'[h][u] = handled[h][u]
        /\ seen'[h][u] = seen[h][u]

\* A thread takes a Request from the backlog of its process.
Takes(g, t) ==
    /\ at[g][t] = "free"
    /\ at'[g][t] = "read"
    /\ handled'[g][t] \in backlog[g]
    /\ seen'[g][t] = seen[g][t]
    /\ backlog' = [backlog EXCEPT ![g] = @ \ {handled'[g][t]}]
    /\ scheduled' = scheduled

\* A thread moves on with the Request it has.
Carries(g, t) ==
    /\ at[g][t] # "free"
    /\ at'[g][t] # "free"
    /\ handled'[g][t] = handled[g][t]
    /\ UNCHANGED <<backlog, scheduled>>

\* A thread lets go of its Request.
LetsGo(g, t) ==
    /\ at[g][t] # "free"
    /\ at'[g][t] = "free"
    /\ handled'[g][t] = NoRequest
    /\ seen'[g][t] = 0
    /\ backlog' = backlog
    /\ scheduled' = [scheduled EXCEPT ![g] = @ \ {handled[g][t]}]

LEMMA ThreadRows ==
    ASSUME DispatchTypeOK, NEW g \in Controllers, NEW t \in Threads,
           ThreadStep(g, t)
    PROVE  /\ OthersStay(g, t)
           /\ Takes(g, t) \/ Carries(g, t) \/ LetsGo(g, t)
  <1> USE DEF DispatchTypeOK, OthersStay
  <1>1. ASSUME NEW q \in Requests, Take(g, t, q)
        PROVE  OthersStay(g, t) /\ Takes(g, t)
    BY <1>1 DEF Take, Step, Takes
  <1>2. CASE Read(g, t)
    BY <1>2 DEF Read, Step, Carries
  <1>3. CASE Advancing(g, t)
    BY <1>3 DEF Advancing, Fail, Step, Carries
  <1>4. CASE Preflight(g, t)
    BY <1>4 DEF Preflight, Step, Carries
  <1>5. CASE Reject(g, t)
    BY <1>5 DEF Reject, Fail, Step, Carries
  <1>6. CASE Dispatch(g, t)
    BY <1>6 DEF Dispatch, Fail, Step, Carries
  <1>7. CASE Discard(g, t)
    BY <1>7 DEF Discard, Step, LetsGo
  <1> QED
    BY <1>1, <1>2, <1>3, <1>4, <1>5, <1>6, <1>7 DEF ThreadStep

\* What the steps outside the threads do to the threads and the queues: a
\* crash empties its process, some steps schedule, the others do nothing.
Emptied(g) ==
    /\ \A h \in Controllers, u \in Threads :
          IF h = g
          THEN at'[h][u] = "free" /\ handled'[h][u] = NoRequest /\ seen'[h][u] = 0
          ELSE /\ at'[h][u] = at[h][u]
               /\ handled'[h][u] = handled[h][u]
               /\ seen'[h][u] = seen[h][u]
    /\ backlog' = [backlog EXCEPT ![g] = {}]
    /\ scheduled' = [scheduled EXCEPT ![g] = {}]
    /\ UNCHANGED allVars

Schedules(g) == \E S \in SUBSET Requests :
    /\ ThreadsStay
    /\ Schedule(g, S)
    /\ \A q \in S : reqStatus'[q] # "none"

Quiet == ThreadsStay /\ UNCHANGED <<backlog, scheduled>>

LEMMA OutsideRows ==
    ASSUME DispatchTypeOK, [DispatchNext]_dispatchVars,
           ~ \E g \in Controllers, t \in Threads : ThreadStep(g, t)
    PROVE  \/ Quiet
           \/ \E g \in Controllers : Schedules(g) \/ Emptied(g)
  <1>1. ASSUME UNCHANGED <<threadVars, backlog, scheduled>>
        PROVE  Quiet
    BY <1>1 DEF threadVars, Quiet, ThreadsStay
  <1>2. CASE UNCHANGED dispatchVars
    BY <1>1, <1>2 DEF dispatchVars, processVars
  <1>3. ASSUME NEW g \in Controllers, ProcessStep(g)
        PROVE  Quiet \/ Schedules(g) \/ Emptied(g)
    <2>1. CASE Boot(g) \/ MaintainLease(g)
      BY <1>1, <2>1 DEF Boot, MaintainLease
    <2>2. CASE Serve(g)
      <3>1. \A q \in {p \in Requests : reqStatus[p] \in Waiting} : reqStatus'[q] # "none"
        BY <2>2 DEF Serve, allVars, reqVars, Waiting
      <3> QED
        BY <1>1, <2>2, <3>1 DEF Serve, Schedules, ThreadsStay, threadVars
    <2>3. CASE Crash(g)
      BY <2>3 DEF Crash, Emptied, DispatchTypeOK
    <2>4. ASSUME NEW q \in Requests, Accept(g, q)
          PROVE  Schedules(g)
      <3>1. reqStatus'[q] # "none"
        BY <2>4 DEF Accept, CreateRequest, DispatchTypeOK, ReqTypeOK
      <3> QED
        BY <2>4, <3>1 DEF Accept, Schedules, ThreadsStay, threadVars
    <2>5. ASSUME NEW q \in Requests, Replay(g, q)
          PROVE  Schedules(g)
      <3>1. reqStatus'[q] # "none"
        BY <2>5 DEF Replay, allVars, reqVars, Waiting
      <3> QED
        BY <2>5, <3>1 DEF Replay, Schedules, ThreadsStay, threadVars
    <2> QED
      BY <1>3, <2>1, <2>2, <2>3, <2>4, <2>5 DEF ProcessStep
  <1>4. CASE LeaseExpires \/ JobsGoOn \/ \E q \in Requests : Push(q)
    BY <1>1, <1>4 DEF LeaseExpires, JobsGoOn, Push, processVars
  <1> QED
    BY <1>2, <1>3, <1>4 DEF DispatchNext

-----------------------------------------------------------------------------
(* The revision a thread read is a fence.                                  *)

FencedPlaces == {"advance", "preflight", "reject", "dispatch"}

\* The status that a Request had when a thread read it on its way to a place.
StatusAt(place) == IF place = "advance" THEN "accepted" ELSE "preparing"

\* What a thread at a place that read revision r knows of its Request, which
\* has status s and revision n now.
Knows(place, r, s, n) ==
    place \in FencedPlaces => r <= n /\ (r = n => s = StatusAt(place))

\* A thread never remembers a revision from the future, and while no revision
\* has passed since it read its Request, the Request has the status that the
\* transition the thread will ask for starts from.
FencedByRevision ==
    \A g \in Controllers, t \in Threads :
        handled[g][t] # NoRequest =>
            Knows(at[g][t], seen[g][t],
                  reqStatus[handled[g][t]], revision[handled[g][t]])

\* No change of status after the first leaves the revision as it was.
LEMMA RevisionTells ==
    ASSUME ReqTypeOK, [ReqNext]_allVars, NEW q \in Requests
    PROVE  /\ revision[q] \in Nat
           /\ revision'[q] \in {revision[q], revision[q] + 1}
           /\ reqStatus'[q] # reqStatus[q] =>
                 revision'[q] = revision[q] + 1 \/ reqStatus[q] = "none"
           /\ reqStatus[q] # "none" => reqStatus'[q] # "none"
  <1>1. revision[q] \in Nat
    BY DEF ReqTypeOK
  <1>2. CASE KeptRow(q) \/ Accepted(q) \/ Advanced(q) \/ Dispatched(q)
    BY <1>1, <1>2 DEF KeptRow, Accepted, Advanced, AllowedTransition, Dispatched
  <1>3. ASSUME NEW j \in Jobs, FollowedJob(q, j)
        PROVE  /\ revision'[q] \in {revision[q], revision[q] + 1}
               /\ reqStatus'[q] # reqStatus[q] => revision'[q] = revision[q] + 1
               /\ reqStatus[q] # "none" => reqStatus'[q] # "none"
    BY <1>3 DEF FollowedJob, Moves, Speaks, Settled
  <1> QED
    BY <1>1, <1>2, <1>3, RequestRows DEF Followed

\* What a thread knows stays true whatever happens to its Request.
LEMMA KnowsStays ==
    ASSUME ReqTypeOK, [ReqNext]_allVars, NEW q \in Requests, NEW place,
           NEW r \in Nat, Knows(place, r, reqStatus[q], revision[q])
    PROVE  Knows(place, r, reqStatus'[q], revision'[q])
  BY RevisionTells DEF Knows, StatusAt, FencedPlaces

\* A step of a thread leaves it knowing as much as its new place needs.
LEMMA ThreadKnows ==
    ASSUME DispatchTypeOK, HandlesWhenBusy, FencedByRevision,
           NEW g \in Controllers, NEW t \in Threads, ThreadStep(g, t),
           NEW q \in Requests, handled'[g][t] = q
    PROVE  Knows(at'[g][t], seen'[g][t], reqStatus'[q], revision'[q])
  <1> USE DEF Knows, StatusAt, FencedPlaces
  <1>1. /\ revision[q] \in Nat
        /\ seen[g][t] \in Nat
        /\ q # NoRequest
    BY DispatchAssumption, RevisionIsNatural, SeenIsNatural DEF DispatchTypeOK
  <1>2. handled[g][t] = q =>
            Knows(at[g][t], seen[g][t], reqStatus[q], revision[q])
    BY <1>1 DEF FencedByRevision
  <1>3. /\ at \in [Controllers -> [Threads -> {"free", "read", "advance", "reread",
                      "preflight", "reject", "dispatch", "discard"}]]
        /\ handled \in [Controllers -> [Threads -> Requests \cup {NoRequest}]]
        /\ seen \in [Controllers -> [Threads -> Nat]]
        /\ reqStatus \in [Requests -> {"none"} \cup Waiting \cup Projected \cup ReqTerminal]
        /\ revision \in [Requests -> Nat]
    BY DEF DispatchTypeOK, ReqTypeOK
  <1>4. ASSUME NEW p \in Requests, Take(g, t, p)
        PROVE  at'[g][t] \notin FencedPlaces
    BY <1>1, <1>3, <1>4 DEF Take, Step
  <1>5. CASE Read(g, t)
    <2>1. /\ handled[g][t] = q
          /\ seen'[g][t] = revision[q]
          /\ reqStatus'[q] = reqStatus[q] /\ revision'[q] = revision[q]
      BY <1>1, <1>3, <1>5 DEF Read, allVars, reqVars
    <2>2. \/ at'[g][t] = "advance" /\ reqStatus[q] = "accepted"
          \/ at'[g][t] = "preflight" /\ reqStatus[q] = "preparing"
          \/ at'[g][t] = "discard"
      BY <1>1, <1>3, <1>5, <2>1 DEF Read, Step
    <2> QED
      BY <1>1, <1>2, <1>3, <2>1, <2>2
  <1>6. CASE Advancing(g, t)
    <2>1. handled[g][t] = q
      BY <1>1, <1>3, <1>6 DEF Advancing, Fail
    <2>2. CASE /\ Step(g, t, "advance", "preflight")
               /\ TransitionRequest(q, seen[g][t], "preparing")
               /\ seen' = [seen EXCEPT ![g][t] = @ + 1]
      <3>1. /\ at'[g][t] = "preflight"
            /\ seen'[g][t] = seen[g][t] + 1
            /\ revision'[q] = revision[q] + 1
            /\ revision[q] = seen[g][t]
            /\ reqStatus'[q] = "preparing"
        BY <1>1, <1>2, <1>3, <2>2 DEF Step, TransitionRequest, Advance
      <3> QED
        BY <1>1, <3>1
    <2>3. CASE Step(g, t, "advance", "reread") \/ Fail(g, t, "advance")
      BY <1>1, <1>2, <1>3, <2>3 DEF Step, Fail
    <2> QED
      BY <1>6, <2>1, <2>2, <2>3 DEF Advancing
  <1>7. CASE Preflight(g, t)
    <2>1. /\ handled[g][t] = q
          /\ seen'[g][t] = seen[g][t]
          /\ reqStatus'[q] = reqStatus[q] /\ revision'[q] = revision[q]
      BY <1>1, <1>3, <1>7 DEF Preflight, allVars, reqVars
    <2>2. at[g][t] = "preflight" /\ at'[g][t] \in {"dispatch", "reject"}
      BY <1>1, <1>3, <1>7 DEF Preflight, Step
    <2> QED
      BY <1>1, <1>2, <1>3, <2>1, <2>2
  <1>8. CASE Reject(g, t) \/ Dispatch(g, t) \/ Discard(g, t)
    BY <1>1, <1>3, <1>8 DEF Reject, Dispatch, Discard, Fail, Step
  <1> QED
    BY <1>4, <1>5, <1>6, <1>7, <1>8 DEF ThreadStep

LEMMA FenceNext ==
    ASSUME DispatchTypeOK, HandlesWhenBusy, FencedByRevision,
           [DispatchNext]_dispatchVars, DispatchTypeOK'
    PROVE  FencedByRevision'
  <1>0. ReqTypeOK /\ [ReqNext]_allVars
    BY RequestPart DEF DispatchTypeOK
  <1>1. ASSUME NEW g \in Controllers, NEW t \in Threads,
               handled'[g][t] = handled[g][t], at'[g][t] = at[g][t],
               seen'[g][t] = seen[g][t], handled[g][t] # NoRequest
        PROVE  Knows(at'[g][t], seen'[g][t],
                     reqStatus'[handled'[g][t]], revision'[handled'[g][t]])
    <2>1. /\ handled[g][t] \in Requests
          /\ Knows(at[g][t], seen[g][t],
                   reqStatus[handled[g][t]], revision[handled[g][t]])
      BY <1>1 DEF DispatchTypeOK, FencedByRevision
    <2> QED
      BY <1>0, <1>1, <2>1, SeenIsNatural, KnowsStays
  <1>2. ASSUME NEW g \in Controllers, NEW t \in Threads, ThreadStep(g, t)
        PROVE  FencedByRevision'
    <2>1. OthersStay(g, t)
      BY <1>2, ThreadRows
    <2>2. ASSUME NEW h \in Controllers, NEW u \in Threads, handled'[h][u] # NoRequest
          PROVE  Knows(at'[h][u], seen'[h][u],
                       reqStatus'[handled'[h][u]], revision'[handled'[h][u]])
      <3>1. handled'[h][u] \in Requests
        BY <2>2 DEF DispatchTypeOK
      <3>2. CASE h = g /\ u = t
        BY <1>2, <3>1, <3>2, ThreadKnows
      <3>3. CASE <<h, u>> # <<g, t>>
        BY <1>1, <2>1, <2>2, <3>3 DEF OthersStay
      <3> QED
        BY <3>2, <3>3
    <2> QED
      BY <2>2 DEF FencedByRevision
  <1>3. CASE Quiet \/ \E g \in Controllers : Schedules(g)
    BY <1>1, <1>3 DEF Quiet, Schedules, ThreadsStay, FencedByRevision
  <1>4. ASSUME NEW g \in Controllers, Emptied(g)
        PROVE  FencedByRevision'
    BY <1>1, <1>4 DEF Emptied, FencedByRevision
  <1> QED
    BY <1>2, <1>3, <1>4, OutsideRows

-----------------------------------------------------------------------------
(* The queues and the threads of a process.                                *)

\* What is scheduled was accepted before.
ScheduledExist ==
    \A g \in Controllers : \A q \in scheduled[g] : reqStatus[q] # "none"

QueueInv == HandlesWhenBusy /\ OneThreadPerRequest /\ ScheduledExist

\* OneThreadPerRequest for one process with backlog b, scheduled Requests s
\* and the Requests h in the hands of its threads.
OneEach(b, s, h) ==
    /\ \A q : q \in s <=> q \in b \/ (q # NoRequest /\ \E t \in Threads : h[t] = q)
    /\ \A t, u \in Threads :
          h[t] # NoRequest => /\ h[t] \notin b
                              /\ t # u => h[t] # h[u]

LEMMA OneEachSays ==
    OneThreadPerRequest
        <=> \A g \in Controllers : OneEach(backlog[g], scheduled[g], handled[g])
  BY DEF OneThreadPerRequest, OneEach

LEMMA OneEachSaysNext ==
    OneThreadPerRequest'
        <=> \A g \in Controllers : OneEach(backlog'[g], scheduled'[g], handled'[g])
  BY DEF OneThreadPerRequest, OneEach

\* Scheduling adds only Requests that no thread has.
LEMMA SchedulingKeepsEach ==
    ASSUME NEW b, NEW s, NEW h, OneEach(b, s, h), NEW S, NEW h2,
           \A t \in Threads : h2[t] = h[t]
    PROVE  OneEach(b \cup (S \ s), s \cup (S \ s), h2)
  BY DEF OneEach

LEMMA TakingKeepsEach ==
    ASSUME NEW b, NEW s, NEW h, OneEach(b, s, h), NEW t \in Threads, NEW h2,
           h[t] = NoRequest, h2[t] \in b, h2[t] # NoRequest,
           \A u \in Threads \ {t} : h2[u] = h[u]
    PROVE  OneEach(b \ {h2[t]}, s, h2)
  BY DEF OneEach

LEMMA LettingGoKeepsEach ==
    ASSUME NEW b, NEW s, NEW h, OneEach(b, s, h), NEW t \in Threads, NEW h2,
           h[t] # NoRequest, h2[t] = NoRequest,
           \A u \in Threads \ {t} : h2[u] = h[u]
    PROVE  OneEach(b, s \ {h[t]}, h2)
  BY DEF OneEach

LEMMA SameEach ==
    ASSUME NEW b, NEW s, NEW h, OneEach(b, s, h), NEW h2,
           \A u \in Threads : h2[u] = h[u]
    PROVE  OneEach(b, s, h2)
  BY DEF OneEach

LEMMA QueueNext ==
    ASSUME DispatchTypeOK, QueueInv, [DispatchNext]_dispatchVars
    PROVE  QueueInv'
  <1>0. /\ HandlesWhenBusy /\ ScheduledExist
        /\ \A g \in Controllers : OneEach(backlog[g], scheduled[g], handled[g])
        /\ NoRequest \notin Requests
        /\ backlog \in [Controllers -> SUBSET Requests]
        /\ scheduled \in [Controllers -> SUBSET Requests]
    BY OneEachSays, DispatchAssumption DEF QueueInv, DispatchTypeOK
  <1>1. \A q \in Requests : reqStatus[q] # "none" => reqStatus'[q] # "none"
    BY <1>0, RequestPart, RevisionTells DEF DispatchTypeOK
  <1>2. ASSUME NEW g \in Controllers, NEW t \in Threads, ThreadStep(g, t)
        PROVE  QueueInv'
    <2>1. OthersStay(g, t) /\ (Takes(g, t) \/ Carries(g, t) \/ LetsGo(g, t))
      BY <1>2, ThreadRows
    <2>2. HandlesWhenBusy'
      BY <1>0, <2>1 DEF OthersStay, Takes, Carries, LetsGo, HandlesWhenBusy
    <2>3. ScheduledExist'
      BY <1>0, <1>1, <2>1 DEF Takes, Carries, LetsGo, ScheduledExist
    <2>4. ASSUME NEW h \in Controllers, h # g
          PROVE  OneEach(backlog'[h], scheduled'[h], handled'[h])
      <3>1. /\ backlog'[h] = backlog[h]
            /\ scheduled'[h] = scheduled[h]
            /\ \A u \in Threads : handled'[h][u] = handled[h][u]
        BY <1>0, <2>1, <2>4 DEF OthersStay, Takes, Carries, LetsGo
      <3>2. OneEach(backlog[h], scheduled[h], handled[h])
        BY <1>0
      <3>3. OneEach(backlog[h], scheduled[h], handled'[h])
        BY <3>1, <3>2, SameEach
      <3> QED
        BY <3>1, <3>3
    <2>5. OneEach(backlog'[g], scheduled'[g], handled'[g])
      <3>1. \A u \in Threads \ {t} : handled'[g][u] = handled[g][u]
        BY <2>1 DEF OthersStay
      <3>2. OneEach(backlog[g], scheduled[g], handled[g])
        BY <1>0
      <3>3. CASE Takes(g, t)
        <4>1. /\ handled[g][t] = NoRequest
              /\ handled'[g][t] \in backlog[g]
              /\ handled'[g][t] # NoRequest
          BY <1>0, <3>3 DEF Takes, HandlesWhenBusy
        <4>2. /\ backlog'[g] = backlog[g] \ {handled'[g][t]}
              /\ scheduled'[g] = scheduled[g]
          BY <1>0, <3>3 DEF Takes
        <4>3. OneEach(backlog[g] \ {handled'[g][t]}, scheduled[g], handled'[g])
          BY <3>1, <3>2, <4>1, TakingKeepsEach
        <4> QED
          BY <4>2, <4>3
      <3>4. CASE Carries(g, t)
        <4>1. \A u \in Threads : handled'[g][u] = handled[g][u]
          BY <3>1, <3>4 DEF Carries
        <4>2. OneEach(backlog[g], scheduled[g], handled'[g])
          BY <3>2, <4>1, SameEach
        <4> QED
          BY <3>4, <4>2 DEF Carries
      <3>5. CASE LetsGo(g, t)
        <4>1. handled[g][t] # NoRequest /\ handled'[g][t] = NoRequest
          BY <1>0, <3>5 DEF LetsGo, HandlesWhenBusy
        <4>2. /\ backlog'[g] = backlog[g]
              /\ scheduled'[g] = scheduled[g] \ {handled[g][t]}
          BY <1>0, <3>5 DEF LetsGo
        <4>3. OneEach(backlog[g], scheduled[g] \ {handled[g][t]}, handled'[g])
          BY <3>1, <3>2, <4>1, LettingGoKeepsEach
        <4> QED
          BY <4>2, <4>3
      <3> QED
        BY <2>1, <3>3, <3>4, <3>5
    <2>6. OneThreadPerRequest'
      BY <2>4, <2>5, OneEachSaysNext
    <2> QED
      BY <2>2, <2>3, <2>6 DEF QueueInv
  <1>3. CASE Quiet
    <2>1. HandlesWhenBusy' /\ ScheduledExist'
      BY <1>0, <1>1, <1>3 DEF Quiet, ThreadsStay, HandlesWhenBusy, ScheduledExist
    <2>2. ASSUME NEW g \in Controllers
          PROVE  OneEach(backlog'[g], scheduled'[g], handled'[g])
      BY <1>0, <1>3, SameEach DEF Quiet, ThreadsStay
    <2> QED
      BY <2>1, <2>2, OneEachSaysNext DEF QueueInv
  <1>4. ASSUME NEW g \in Controllers, Schedules(g)
        PROVE  QueueInv'
    <2>1. PICK S \in SUBSET Requests :
             /\ ThreadsStay
             /\ Schedule(g, S)
             /\ \A q \in S : reqStatus'[q] # "none"
      BY <1>4 DEF Schedules
    <2>2. \A h \in Controllers :
             /\ backlog'[h] = IF h = g THEN backlog[g] \cup (S \ scheduled[g])
                                       ELSE backlog[h]
             /\ scheduled'[h] = IF h = g THEN scheduled[g] \cup (S \ scheduled[g])
                                         ELSE scheduled[h]
      BY <1>0, <2>1 DEF Schedule
    <2>3. HandlesWhenBusy'
      BY <1>0, <2>1 DEF ThreadsStay, HandlesWhenBusy
    <2>4. ScheduledExist'
      BY <1>0, <1>1, <2>1, <2>2 DEF ScheduledExist
    <2>5. ASSUME NEW h \in Controllers
          PROVE  OneEach(backlog'[h], scheduled'[h], handled'[h])
      <3>1. /\ OneEach(backlog[h], scheduled[h], handled[h])
            /\ \A u \in Threads : handled'[h][u] = handled[h][u]
        BY <1>0, <2>1 DEF ThreadsStay
      <3>2. CASE h = g
        <4>1. OneEach(backlog[h] \cup (S \ scheduled[h]),
                      scheduled[h] \cup (S \ scheduled[h]), handled'[h])
          BY <3>1, SchedulingKeepsEach
        <4> QED
          BY <2>2, <3>2, <4>1
      <3>3. CASE h # g
        <4>1. OneEach(backlog[h], scheduled[h], handled'[h])
          BY <3>1, SameEach
        <4> QED
          BY <2>2, <3>3, <4>1
      <3> QED
        BY <3>2, <3>3
    <2> QED
      BY <2>3, <2>4, <2>5, OneEachSaysNext DEF QueueInv
  <1>5. ASSUME NEW g \in Controllers, Emptied(g)
        PROVE  QueueInv'
    <2>1. HandlesWhenBusy'
      BY <1>0, <1>5 DEF Emptied, HandlesWhenBusy
    <2>2. ScheduledExist'
      BY <1>0, <1>1, <1>5 DEF Emptied, ScheduledExist
    <2>3. ASSUME NEW h \in Controllers
          PROVE  OneEach(backlog'[h], scheduled'[h], handled'[h])
      <3>1. CASE h = g
        <4>1. /\ backlog'[h] = {} /\ scheduled'[h] = {}
              /\ \A u \in Threads : handled'[h][u] = NoRequest
          BY <1>0, <1>5, <3>1 DEF Emptied
        <4> QED
          BY <4>1 DEF OneEach
      <3>2. CASE h # g
        <4>1. /\ backlog'[h] = backlog[h] /\ scheduled'[h] = scheduled[h]
              /\ \A u \in Threads : handled'[h][u] = handled[h][u]
          BY <1>0, <1>5, <3>2 DEF Emptied
        <4> QED
          BY <1>0, <4>1, SameEach
      <3> QED
        BY <3>1, <3>2
    <2> QED
      BY <2>1, <2>2, <2>3, OneEachSaysNext DEF QueueInv
  <1> QED
    BY <1>2, <1>3, <1>4, <1>5, OutsideRows

-----------------------------------------------------------------------------
(* Types.  The rows of the Requests keep theirs by the invariant of the     *)
(* Requests, under which the dispatcher runs.                               *)

LEMMA ProcessTypes ==
    ASSUME DispatchTypeOK, [DispatchNext]_dispatchVars,
           ~ \E g \in Controllers, t \in Threads : ThreadStep(g, t)
    PROVE  /\ head' \in [Branches -> Requests \cup {NoRequest}]
           /\ proc' \in [Controllers -> {"down", "booting", "serving"}]
           /\ leader' \in Controllers \cup {NoLeader}
           /\ elected' \in [Controllers -> BOOLEAN]
           /\ backlog' \in [Controllers -> SUBSET Requests]
           /\ scheduled' \in [Controllers -> SUBSET Requests]
           /\ crashes' \in 0 .. MaxCrashes
           /\ failures' \in 0 .. MaxFailures
           /\ at' \in [Controllers -> [Threads -> {"free", "read", "advance", "reread",
                  "preflight", "reject", "dispatch", "discard"}]]
           /\ handled' \in [Controllers -> [Threads -> Requests \cup {NoRequest}]]
           /\ seen' \in [Controllers -> [Threads -> Nat]]
  <1> USE DEF DispatchTypeOK
  <1>1. CASE UNCHANGED dispatchVars
    BY <1>1 DEF dispatchVars, processVars, threadVars, boundVars
  <1>2. ASSUME NEW g \in Controllers, Boot(g) \/ MaintainLease(g)
        PROVE  /\ UNCHANGED <<head, backlog, scheduled, threadVars, boundVars>>
               /\ proc' \in [Controllers -> {"down", "booting", "serving"}]
               /\ leader' \in Controllers \cup {NoLeader}
               /\ elected' \in [Controllers -> BOOLEAN]
    <2>1. CASE MaintainLease(g)
      BY <2>1 DEF MaintainLease
    <2>2. CASE Boot(g)
      <3> DEFINE free == leader \in {g, NoLeader}
      <3>1. free \in BOOLEAN
        OBVIOUS
      <3>2. elected' = [elected EXCEPT ![g] = free]
        BY <2>2 DEF Boot
      <3> HIDE DEF free
      <3>3. elected' \in [Controllers -> BOOLEAN]
        BY <3>1, <3>2
      <3>4. /\ UNCHANGED <<head, backlog, scheduled, threadVars, boundVars>>
            /\ proc' \in [Controllers -> {"down", "booting", "serving"}]
            /\ leader' \in Controllers \cup {NoLeader}
        BY <2>2 DEF Boot
      <3> QED
        BY <3>3, <3>4
    <2> QED
      BY <1>2, <2>1, <2>2
  <1>3. ASSUME NEW g \in Controllers, NEW S \in SUBSET Requests, Schedule(g, S)
        PROVE  /\ backlog' \in [Controllers -> SUBSET Requests]
               /\ scheduled' \in [Controllers -> SUBSET Requests]
    BY <1>3 DEF Schedule
  <1>4. ASSUME NEW g \in Controllers, Serve(g)
        PROVE  /\ UNCHANGED <<head, leader, elected, threadVars, boundVars>>
               /\ proc' \in [Controllers -> {"down", "booting", "serving"}]
               /\ backlog' \in [Controllers -> SUBSET Requests]
               /\ scheduled' \in [Controllers -> SUBSET Requests]
    BY <1>3, <1>4 DEF Serve
  <1>5. ASSUME NEW g \in Controllers, NEW q \in Requests, Accept(g, q) \/ Replay(g, q)
        PROVE  /\ UNCHANGED <<head, proc, leader, elected, threadVars, boundVars>>
               /\ backlog' \in [Controllers -> SUBSET Requests]
               /\ scheduled' \in [Controllers -> SUBSET Requests]
    <2>1. {q} \in SUBSET Requests
      OBVIOUS
    <2> QED
      BY <1>3, <1>5, <2>1 DEF Accept, Replay
  <1>6. ASSUME NEW g \in Controllers, Crash(g)
        PROVE  /\ UNCHANGED <<head, leader, failures>>
               /\ proc' \in [Controllers -> {"down", "booting", "serving"}]
               /\ elected' \in [Controllers -> BOOLEAN]
               /\ backlog' \in [Controllers -> SUBSET Requests]
               /\ scheduled' \in [Controllers -> SUBSET Requests]
               /\ crashes' \in 0 .. MaxCrashes
    BY <1>6, DispatchAssumption DEF Crash
  <1>7. ASSUME NEW g \in Controllers, Crash(g)
        PROVE  /\ at' \in [Controllers -> [Threads -> {"free", "read", "advance",
                      "reread", "preflight", "reject", "dispatch", "discard"}]]
               /\ handled' \in [Controllers -> [Threads -> Requests \cup {NoRequest}]]
               /\ seen' \in [Controllers -> [Threads -> Nat]]
    BY <1>7 DEF Crash
  <1>8. ASSUME NEW q \in Requests, Push(q)
        PROVE  /\ UNCHANGED <<processVars, threadVars, boundVars>>
               /\ head' \in [Branches -> Requests \cup {NoRequest}]
    <2>1. PICK c \in {q, NoRequest} : head' = [head EXCEPT ![BranchOf(q)] = c]
      BY <1>8 DEF Push
    <2>2. UNCHANGED <<processVars, threadVars, boundVars>>
      BY <1>8 DEF Push
    <2> QED
      BY <2>1, <2>2
  <1>9. CASE LeaseExpires
    BY <1>9 DEF LeaseExpires, threadVars, boundVars
  <1>10. CASE JobsGoOn
    BY <1>10 DEF JobsGoOn, processVars, threadVars, boundVars
  <1> QED
    BY <1>1, <1>2, <1>4, <1>5, <1>6, <1>7, <1>8, <1>9, <1>10
    DEF DispatchNext, ProcessStep, processVars, threadVars, boundVars

LEMMA ThreadTypes ==
    ASSUME DispatchTypeOK, HandlesWhenBusy, FencedByRevision, ReqTypeOK',
           NEW g \in Controllers, NEW t \in Threads, ThreadStep(g, t)
    PROVE  /\ UNCHANGED <<head, proc, leader, elected, crashes>>
           /\ backlog' \in [Controllers -> SUBSET Requests]
           /\ scheduled' \in [Controllers -> SUBSET Requests]
           /\ failures' \in 0 .. MaxFailures
           /\ at' \in [Controllers -> [Threads -> {"free", "read", "advance", "reread",
                  "preflight", "reject", "dispatch", "discard"}]]
           /\ handled' \in [Controllers -> [Threads -> Requests \cup {NoRequest}]]
           /\ seen' \in [Controllers -> [Threads -> Nat]]
  <1> USE DEF DispatchTypeOK
  <1> DEFINE Places == {"free", "read", "advance", "reread", "preflight", "reject",
                        "dispatch", "discard"}
  <1>1. /\ \E from \in Places, to \in Places : Step(g, t, from, to)
        /\ crashes' = crashes
        /\ failures' \in {failures, failures + 1}
        /\ failures' # failures => failures < MaxFailures
    BY DEF ThreadStep, Take, Read, Advancing, Preflight, Reject, Dispatch, Discard,
           Fail, boundVars
  <1>2. /\ UNCHANGED <<head, proc, leader, elected>>
        /\ at' \in [Controllers -> [Threads -> Places]]
        /\ failures' \in 0 .. MaxFailures
    <2>1. PICK from \in Places, to \in Places : Step(g, t, from, to)
      BY <1>1
    <2>2. at' = [at EXCEPT ![g][t] = to] /\ UNCHANGED <<head, proc, leader, elected>>
      BY <2>1 DEF Step
    <2>3. failures' \in 0 .. MaxFailures
      BY <1>1, DispatchAssumption
    <2> QED
      BY <2>2, <2>3
  <1>4. /\ backlog' \in [Controllers -> SUBSET Requests]
        /\ scheduled' \in [Controllers -> SUBSET Requests]
        /\ handled' \in [Controllers -> [Threads -> Requests \cup {NoRequest}]]
    <2>1. CASE \E q \in Requests : Take(g, t, q)
      BY <2>1 DEF Take
    <2>2. CASE Discard(g, t)
      BY <2>2 DEF Discard
    <2>3. CASE Read(g, t) \/ Advancing(g, t) \/ Preflight(g, t) \/ Reject(g, t)
               \/ Dispatch(g, t)
      BY <2>3 DEF Read, Advancing, Preflight, Reject, Dispatch, Fail
    <2> QED
      BY <2>1, <2>2, <2>3 DEF ThreadStep
  <1>3. seen' \in [Controllers -> [Threads -> Nat]]
    <2>1. CASE Read(g, t)
      <3>1. handled[g][t] \in Requests
        BY <2>1 DEF Read, Step, HandlesWhenBusy
      <3>2. revision[handled[g][t]] \in Nat
        BY <3>1 DEF ReqTypeOK
      <3> QED
        BY <2>1, <3>2 DEF Read
    <2>2. CASE Advancing(g, t)
      <3>1. handled[g][t] \in Requests
        BY <2>2 DEF Advancing, Fail, Step, HandlesWhenBusy
      <3>2. CASE /\ TransitionRequest(handled[g][t], seen[g][t], "preparing")
                 /\ seen' = [seen EXCEPT ![g][t] = @ + 1]
        <4>1. seen[g][t] + 1 \in Nat
          BY SeenIsNatural
        <4> QED
          BY <3>2, <4>1
      <3>3. CASE seen' = seen
        BY <3>3
      <3> QED
        BY <2>2, <3>2, <3>3 DEF Advancing, Fail
    <2>3. CASE Discard(g, t)
      BY <2>3 DEF Discard
    <2>4. CASE \/ \E q \in Requests : Take(g, t, q)
               \/ Preflight(g, t) \/ Reject(g, t) \/ Dispatch(g, t)
      BY <2>4 DEF Take, Preflight, Reject, Dispatch, Fail
    <2> QED
      BY <2>1, <2>2, <2>3, <2>4 DEF ThreadStep
  <1> QED
    BY <1>1, <1>2, <1>3, <1>4

-----------------------------------------------------------------------------
(* The invariant and the theorems of the dispatcher. *)

DispatchInv == DispatchTypeOK /\ ReqInv /\ QueueInv /\ FencedByRevision

LEMMA DispatchInvInit == DispatchInit => DispatchInv
  <1> SUFFICES ASSUME DispatchInit
               PROVE  DispatchInv
    OBVIOUS
  <1>1. ReqInv /\ ReqTypeOK
    BY ReqInvInit DEF DispatchInit, ReqInv, BindingInv
  <1>2. DispatchTypeOK
    BY <1>1, DispatchAssumption DEF DispatchInit, DispatchTypeOK
  <1>3. QueueInv /\ FencedByRevision
    BY DEF DispatchInit, QueueInv, HandlesWhenBusy, OneThreadPerRequest,
           ScheduledExist, FencedByRevision
  <1> QED
    BY <1>1, <1>2, <1>3 DEF DispatchInv

LEMMA DispatchInvNext == DispatchInv /\ [DispatchNext]_dispatchVars => DispatchInv'
  <1> SUFFICES ASSUME DispatchInv, [DispatchNext]_dispatchVars
               PROVE  DispatchInv'
    OBVIOUS
  <1>0. /\ DispatchTypeOK /\ ReqInv /\ QueueInv /\ FencedByRevision
        /\ HandlesWhenBusy
    BY DEF DispatchInv, QueueInv
  <1>1. [ReqNext]_allVars
    BY <1>0, RequestPart
  <1>2. ReqInv' /\ ReqTypeOK'
    BY <1>0, <1>1, ReqInvNext DEF ReqInv, BindingInv
  <1>3. DispatchTypeOK'
    <2>1. CASE \E g \in Controllers, t \in Threads : ThreadStep(g, t)
      <3>1. PICK g \in Controllers, t \in Threads : ThreadStep(g, t)
        BY <2>1
      <3> QED
        BY <1>0, <1>2, <3>1, ThreadTypes DEF DispatchTypeOK
    <2>2. CASE ~ \E g \in Controllers, t \in Threads : ThreadStep(g, t)
      BY <1>0, <1>2, <2>2, ProcessTypes DEF DispatchTypeOK
    <2> QED
      BY <2>1, <2>2
  <1>4. QueueInv' /\ FencedByRevision'
    BY <1>0, <1>3, QueueNext, FenceNext
  <1> QED
    BY <1>2, <1>3, <1>4 DEF DispatchInv

LEMMA DispatchInvariant == DispatchSpec => []DispatchInv
  BY DispatchInvInit, DispatchInvNext, PTL DEF DispatchSpec

\* Whatever processes start, crash and serve at the same time, every column
\* and every local of a thread stays well typed.
THEOREM DispatchTypeCorrect == DispatchSpec => []DispatchTypeOK
  <1>1. DispatchInv => DispatchTypeOK
    BY DEF DispatchInv
  <1> QED
    BY <1>1, DispatchInvariant, PTL

\* In each of any number of controllers with any number of threads, a Request
\* is in one thread's hands at a time, and exactly the Requests that wait or
\* are in hand are scheduled, so that a replay neither starts a second
\* preflight nor is swallowed for good.
THEOREM OneThread == DispatchSpec => []OneThreadPerRequest
  <1>1. DispatchInv => OneThreadPerRequest
    BY DEF DispatchInv, QueueInv
  <1> QED
    BY <1>1, DispatchInvariant, PTL

\* The revision is a sufficient fence: a thread whose revision is still the
\* current one asks only for a transition that is allowed, whatever other
\* controllers, cancels and repairs did in between.
THEOREM RevisionFences == DispatchSpec => []FencedByRevision
  <1>1. DispatchInv => FencedByRevision
    BY DEF DispatchInv
  <1> QED
    BY <1>1, DispatchInvariant, PTL

\* The dispatcher implements CIRequests: whatever its processes and threads do,
\* the database sees transactions of the Requests.
THEOREM DispatcherRunsRequests == DispatchSpec => ReqSpec
  <1>1. DispatchInit => ReqInit
    BY DEF DispatchInit
  <1>2. DispatchInv /\ [DispatchNext]_dispatchVars => [ReqNext]_allVars
    BY RequestPart DEF DispatchInv, QueueInv
  <1> QED
    BY <1>1, <1>2, DispatchInvariant, PTL DEF DispatchSpec, ReqSpec

\* So what was proved of the Requests and of the jobs holds with several
\* controllers and their threads, through crashes and restarts: one job per
\* Request, no terminal Request that lies, none behind its job but where
\* nothing reconciles, no link without a proof, no Request that goes back, a
\* start that repairs; and the jobs are counted, owned and settled as before.
THEOREM DispatcherKeepsPromises ==
    DispatchSpec => /\ []OneJobPerRequest
                    /\ []TerminalTellsTheTruth
                    /\ []LagOnlyWhereUnreconciled
                    /\ []LinkedIsProven
                    /\ RequestMovesForward
                    /\ StartLeavesNoLag
                    /\ []CountersExact
                    /\ []PointerOwnsJob
                    /\ []ResultFromLatestAttempt
                    /\ SettledIsFinal
  BY DispatcherRunsRequests, RequestsRunJobs, OneJob, TerminalTruth, LagBounded,
     LinksProven, Forward, StartRepairs, CountersKept, PointersOwned, AttemptsFenced,
     SettledNeverChanges, PTL
=============================================================================
