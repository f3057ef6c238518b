# TLA+ verification of the GitHub controller, its CI and its deployments

The repository is a controller (`services/github-action-service/app`) that lets
tools drive GitHub repositories, development tasks, a private CI and
deployments, and the worker agents that run CI jobs and deployments for it. This
directory holds TLA+ modules of its protocols, the TLC runs that check them on
small instances, and TLAPS proofs of what matters most. `PROJECT.json` lists the
components, the source lines of every definition, and the hazards the properties are for.

## The system

| Component | State | Operations | Hard behaviour |
|---|---|---|---|
| CI job store, `ci_database.py` + `routers/ci_worker.py` | `ci_jobs`, `ci_workers`, `ci_repository_queue_state` in SQLite | create or reuse, supersede, lease, renew, status, complete, release, cancel, recover | late callbacks of lost attempts, leases that expire, endpoints made of two transactions, counters kept by increments |
| CI Requests, `ci_request_store.py` | `ci_requests` with revision | accept, transition, dispatch, reconcile, repair | a projection of the job row that only some transactions keep up to date |
| Attestations, `attestation_registry.py` | `ci_tree_attestations` | create for a passed job with every call, revoke, expire, link | created and linked in two transactions, replaced by newer ones |
| Dispatcher, `ci_request_dispatch.py`, `ci_mcp.py` | `_QUEUE`, `_SCHEDULED`, thread locals | schedule, preflight, dispatch, recover | memory lost in a crash, several threads and processes on one Request, a branch that moves during the preflight |
| Runtime generations, `runtime_generation.py`, `main.py` | leader lease | acquire, maintain, expire | who resumes what after a restart |
| Worker agent, `private_ci_agent` | `_current_job_id`, `_current_lease_token`, `_cancel_event` | register, reconcile, lease, execute, report, heartbeat | two threads without a lock, lost requests and responses, signals, crashes |
| Test deployments, `deployment_service.py`, `manual_release_reconciliation.py`, `deploy_worker.py`, `deploy_executor.py` | `deployments`, the status file with the registry of releases, checkouts | start, roll back, cancel, claim, delegate, progress, complete, fail, acknowledge, reconcile by hand | cancel against progress, two programs on one table and one file, a list that gets old, lost callbacks, crashes |
| Infrastructure deployments, `infrastructure_deployment_service.py` and `_store.py`, `infrastructure_deploy_executor.py`, `deploy_mygithub12_isolated.sh` | `infrastructure_deployments`, a heartbeat row, the executor and its script | plan, start, claim, progress, complete, fail, recover | the Controller that keeps the rows is replaced by the deployment it records; callbacks carry no claim; answers are lost or late |
| Workspaces and development sessions, `mygithub12_workspace.py`, `development_session_store.py`, `development_orchestrator.py`, `development_managed_merge.py`, the recoveries | `task_workspaces`, `development_sessions`, two rows about one branch | prepare, write, validate, observe, pull request, merge, close, renew, refresh, five recoveries | compare-and-set on two revisions in two transactions, a branch and a base that others move, restarts in the middle of a write |
| Convergence, `development_converge.py`, `development_convergence_store.py` | `development_convergences` | one call that moves a Run as far as the facts allow | overlapping calls with old copies, bindings that arrive late or twice |
| Repository index, `mygithub12.py` | `indexes`, `jobs`, builder threads | ask, build, reuse a tree, prune, cancel, recover | threads that know nothing of what the row became |
| Durable writes and prepared change sets, `mygithub10.py`, `mcp_server.py`, `mygithub12_dx_mcp.py`, `development_change_set_store.py`, `github_client.py` | `mygithub10_operations`, `prepared_change_sets`, artifacts | prepare, claim, commit, verify, finish, join, record, replay, recover | a crash between the GitHub write and its record, a retry under the same key while the first call goes on |
| Idempotency middleware | `idempotency` | claim, complete, release, clean up | a shared connection, a claim left behind by a crash |
| Failure packs, other GitHub access, the rest of the MCP surface | various | parsing, HTTP | see `PROJECT.json` |

How they interact: a task is prepared (a workspace and its session), changed by
durable writes (an operation row, a commit on the task branch, then the workspace row, then the
session row), validated, and merged. `start_private_ci_job` stores a CI Request and wakes the
dispatcher; a preparation thread runs the preflight against GitHub and
dispatches the Request, which creates its job in the same transaction. An agent
polls, which first recovers expired leases and then leases a job; its heartbeat
thread renews the lease and hears of cancels; its callbacks move the job, and
the job transactions project the result onto the Request. A passed job is
attested, and the attestation is linked to the Request. A convergence asks for the index of the head, runs
the analysis, asks for CI, and binds the evidence to the session; a merge wants that evidence. Deployments read
jobs and attestations as evidence, and one kind of them replaces the Controller itself.

What makes each part correct: a job is held by one attempt at a time and
decided once, by the attempt that holds it (job store); a Request has one job,
moves forward, and says what its job says (Requests); a waiting Request is
prepared, by one thread of a process at a time, whatever dies (dispatcher); an
attempt nobody wants ends, one nobody works on is recovered, and a healthy one
is left alone (agent); one deployment of an environment at a time, a cancel
that is not forgotten by the callbacks, a script that runs once, and a registry
that names live releases only (test deployments); one active row, a recovery only from a
switch that is proven, an outcome only with its proof (infrastructure); a revision that names what
the row says, a head that only moves forward, a merge of exactly the validated head (sessions);
evidence of this head and no other, and Runs that advance and end (convergence); no write done twice,
taken twice or reported before it is done (durable writes).

## Modules

| Module | Models | Composes |
|---|---|---|
| `JobLease` | abstract: what the store promises about one job (offered once, held under growing epochs, closed once) | |
| `CIJobs` | the job store; one action per transaction | implements `JobLease` (`LeaseSpec`) |
| `CIRequests` | Requests and attestations over the jobs | extends `CIJobs` |
| `CIDispatch` | controller processes, preparation threads, branch heads, leader lease | extends `CIRequests` |
| `CIAgent` | agent processes with main and heartbeat thread | extends `CIJobs` |
| `Deployments` | test deployments: controller, queue consumer, executor, status file | |
| `InfraDeployments` | infrastructure deployments: Controller, executor, script, network | |
| `Revisioned` | abstract: a row under compare-and-set, whose revision names its content | |
| `DevSessions` | workspace and session of one task, branch, bases, validations, pull request | both rows implement `Revisioned` (`RowsAreRevisioned`) |
| `CodeIndex` | snapshots, index jobs, builder threads | |
| `Convergence` | Runs, their calls, CI Requests and the session as they see them | extends `CodeIndex` |
| `WriteOnce` | abstract: a write is pushed once, taken once, joined, told | |
| `DurableWrites` | operation rows, prepared change sets, the commit and the two rows | implements `WriteOnce` (`WrittenOnce`) |
| `MC*` | small instances for TLC | |
| `CIJobs_proofs` | theorems about `CIJobs` | |
| `CIRequests_proofs` | theorems about `CIRequests` and `CIDispatch` | uses `CIJobs_proofs` |
| `CIAgent_proofs` | theorems about `CIAgent` | uses `CIJobs_proofs` |
| `Deployments_proofs` | theorems about `Deployments` | |
| `InfraDeployments_proofs` | theorems about `InfraDeployments` | |
| `DurableWrites_proofs` | theorems about `DurableWrites` | |
| `DevSessions_proofs` | theorems about `DevSessions` | |
| `Convergence_proofs` | theorems about `Convergence` and `CodeIndex` | |

**`CIJobs`.** The columns of `ci_jobs` that decide anything are functions over
job identities (`status`, `owner`, `attempts`, `leaseLeft`, `cancelFlag`,
`supersededBy`), and so are the worker rows (`workerStatus`, `currentJob`) and the
repository counters (`queued`, `running`, and `servedAfter` for the order of
`last_dispatched_at`). A function of `ci_database.py` runs in one `BEGIN
IMMEDIATE` transaction under `_db_write_lock`, hence one action each; endpoints
that call two functions (`/register`, `/reconcile`, `/heartbeat`, `/lease`) are two
actions. The random lease token of an attempt is the number of the attempt.
Lease times are relative, so time needs no bound: a lease is valid above 0,
recoverable below 0, and neither at 0, as in the two strict comparisons of the
code. Callbacks come from any worker with the token of any earlier attempt:
`Holds` is the fence. `finisher` is a history variable, the attempt whose report
settled the job.

**`CIRequests`.** A Request's row is `reqStatus`, `revision`, `boundJob`, `linked`; its phase is a
function of the status. `Speaks`, `Moves` and `Links` split the conditions of
`reconcile_worker_request_in_db`; `Reconcile(S)` is that function for the jobs of
`S`, and every job transaction that calls it has an action here that does, while
`recover_worker_jobs` and the supersede of an insert do not. `attested` numbers the attestations of a job in the order in which they were
made, any number of them, and `linked` is the number of the one a Request shows: every reconciliation links the newest valid one again. `proof` is the Git tree in
the summary of a finished job: none, the pinned one, or another. `CreateDirectJob` is the older
way to a job, without a Request, which can supersede a Request's queued job.

**`CIDispatch`.** `backlog` and `scheduled` are `_QUEUE` and `_SCHEDULED`, `at`, `handled` and
`seen` the position and locals of a thread; `seen` is the revision with which the
thread asks for its transitions. `head` is the commit a branch stands at on GitHub
(external): pushes move it at any time. A crash empties the memory of a process. `elected` is what
`acquire_leader` answered at startup.

**`CIAgent`.** The main thread is a program counter, one step for every assignment to a
global the heartbeat thread reads and for every HTTP call; the heartbeat thread
likewise. A lease token is the attempt it was issued for, job and number, since a random token tells the
attempts of all jobs apart. A call may be lost before or after it took effect. The source comes from the mirror or from the controller
(`Download`), the fast and the OpenAPI check conclude without a look at the cancel event (`Conclude`), and an exception ends a job anywhere (`Break`). What the agent never reaches (its
`release_job`, the heartbeat that the main loop would send itself) is not a step.

**`Deployments`.** `row` is the table, one record per identity, in the order of `created_at`; of
`current_step` and `log_revision` it keeps what some test in the code tells apart, of the log
whether it has `DELEGATED_CLAIM_MARKER`, of the finish times which deployments finished after the
cancel (`followers`). A tool call or callback that commits once is one action; `closing` is a completion
between its two commits and the replacement of the file, and while it lasts no other callback runs
(`LoopFree`), because callbacks are `async` functions without an `await`. `plan` is what `start_test_deployment`
read before it took the lock, `ticket` what a manual preflight showed the operator. `agent` is `process_once`: poll, claim,
delegate, and before, between and after these a `write_status` of three steps
(`ReadPrior`, `Truncate`, `WritePayload`; a torn file reads as one that says nothing). `todo` is the list the executor
fetched, `exec` the deployment in its hands, `checkouts` the directories under its root (external to the code they belong
to, and what makes a second checkout fail), `script` how far the deployment script got, which goes on when the executor dies
or turns away, as it does when the Controller refuses a progress report or the report is lost (`ProgressLost`).
`stranded` is a history variable: what a fault of the executor hit.

**`InfraDeployments`.** `row` keeps of a deployment its status and step, whether it is a recovery and of which row
(`of`), its commit, the build its planner expected, whether its log has the marker of the switch, and its revision. A handler does not await and is one
action; `ask` is the plan of a start between `plan_infrastructure_deployment` and the insert, which repeats two of its
checks. `exec` is the executor with the number of script phases it has reported, `script` the script and the phases it printed;
the executor reads them one by one, and each goes out as a request with an answer. `late` are requests that the executor no longer waits for:
a lost answer means the handler ran and the executor does not know, a delayed request is handled at any later time. The
script stops the Controller (`build = NoBuild`) and starts the target build; the rows survive. `left` marks a script that the executor
stopped reading and which runs on. An operator may deploy by hand while nothing is claimed, or while the Controller is down.

**`Revisioned`, `DevSessions`.** One task: `ws` and `sess` are the two rows, `git` the head of the task branch and `base` the
heads of the base branches (external), `req` a validation for each session revision it started at. A commit stands for its tree; `Child` and `Before` are the commit graph. A
lease is the workspace revision it was granted at, so that time needs no counter. A call which reads and then
writes under compare-and-set on what it read is one action; a call with several effects (a write, a
validation, a merge, a close) pauses in between with what it read in `call[c]`. The five
recoveries (`recover_…` of head, rewritten history, advanced base, changed base branch and missing session) check everything again in
their transaction and are one action each. Pushes, lapses and restarts come at any time.

**`CodeIndex`, `Convergence`.** `converge_task` waits for nothing: a call reads the Run and the session, moves the Run as far as it can,
and returns. `call[c]` holds its copies; a revision is modelled by what it is for: `fresh` and `sfresh` tell whether the copy is
still the row, and every write makes the other copies stale. `TryWrite` is one compare-and-set and its
one repetition on a mismatch. Stages are the analysis callbacks. An index job is the pair of key and commit that names it;
its thread builds or copies the snapshot of an equal tree, then prunes to `KeepLimit`. The look at the index and the request for it are two
steps, and it may come in between. The head of an open session is pinned; what other workspaces and jobs pin is any set of commits, and that the session's own pin
lapses with its lease and grace is an upset. So is a call under the same key in another mode or on another base, and a status that cannot be read. CI Requests move as `CIRequests` allows.

**`WriteOnce`, `DurableWrites`.** Five kinds of requests (prepared change sets, direct edits, puts, generated files, plain commits) share the
branch; what differs is what is checked before and after the operation row is started, and who updates the session. Commits are
numbered along the branch. Every SQLite transaction and every GitHub write is a step, a crash drops all calls between any two of them, and
operations and claims grow old (`old`, `stale`: 300 s). `taken`, `joined` and `told` are history variables: which requests the workspace
took, the session joined, and were answered with success. A call quotes head and revisions, which every tool but `commit_github_files` demands; a call of that one which does without
is promised nothing, and is to the others a move of the branch (`OutsidePush`), and of the workspace row alone (`TakeUnquoted`). Requests are repeated by several callers under the same key, or another one.

## Runs

Every bound is a constant of the configuration.

| Run | Question | Instance | Result |
|---|---|---|---|
| `ci_jobs_safety` | do rows, pointers, counters and fences survive every interleaving? | 2 workers (symmetric), 2 repositories, 2 jobs, 3 submissions of which two supersede each other, 2 attempts | holds |
| `ci_requests_safety` | do Requests follow their jobs? | 1 worker, 2 Requests of one branch, 2 jobs, of which one may be without a Request (`MaxDirect`), 2 attempts, 2 attestations of a job | holds |
| `ci_agent_live` | do unwanted attempts end and orphaned ones get recovered? | 1 agent, 1 job, 2 attempts, 1 stop or crash | holds |
| `ci_dispatch_live` | is every waiting Request prepared once and in the end? | 2 controllers, 2 threads each, 1 Request, 1 crash, 1 database error | holds |
| `deployments_safety` | do cancels, outcomes, scripts and the registry survive every interleaving? | 2 deployments, the second maybe a rollback, 2 commits, 1 crash or lost call | holds |
| `deployments_live` | does a queued deployment end? | 1 deployment that comes about in any way, idle polls, 2 faults | holds |
| `infra_deployments` | is one row active, every recovery and outcome proven, and does a row end? | 3 rows, 2 builds, 2 clients, 1 fault of any kind | holds |
| `dev_sessions_pair` | do the two rows agree whenever a revision says so? | 2 writes at a time (symmetric), 2 base branches, 5 commits, 1 foreign push, 4 revisions of each row | holds |
| `dev_sessions_merge` | is exactly the validated head merged? | 1 caller, 1 commit of the task, 3 workspace and 6 session revisions, 1 foreign push | holds |
| `change_sets` | is a change written, taken and told of once, and does a claim settle? | 2 callers, a request of any of the five kinds, a prepared one under two keys, 2 faults or moves of others | holds |
| `convergence` | does evidence fit its head, and do Runs advance and end? | 2 callers of one full Run, another caller of the index, 2 commits with one tree, 1 upset | holds |
| `convergence_fast` | does a fast Run end when its CI passed? | 1 caller, no fault | violated |

Why the bounds are enough. *CI*: two jobs are needed for a supersede, for a full worker
and for a pointer that moves on; two workers for a requeued job in other hands;
two attempts for a late callback and for the end of the attempts; `LeaseBound`
caps only `release_job`, which ignores `max_attempts`. Two Requests of one branch and one
direct job give every supersede. Two attestations of a job give a link that a newer one replaces, and one that ended before; those of a job without a Request are left out, because no Request shows them; `MaxAttestations`
is 0 in the instance of the dispatcher, which reads no attestation. Two threads and two controllers give the races
of the dispatcher; one crash and one database error at any moment are each enough
to lose the memory that the liveness properties are about. The agent's liveness
needs one worker: agents meet only in the store, where `PollRecovers` and `Client` stand for
everybody else. *Test deployments*: two give a second one beside an active one, a list whose second
entry gets old, a rollback to the release of the other, and a successor that lets a cancel be acknowledged; `Ways`
says how each may come about, two commits are needed for a main that moves after the plan. A rollback does not take the last identity while a plan is held. Idle polls write
the status file too; they matter to the registry and to what the agent holds, and are taken in the instances with one deployment.
*Infrastructure*: three rows give a deployment, the recovery of it, and a recovery of that recovery; two builds a switch; two clients two plans
that race for one insert; one fault is a crash, a lost or late request, unreadable output, a move of main or an operator. With two faults the
instance has 6.3 million states and also holds. *Sessions*: two writes at a time and each of the recoveries once on a branch that is rewritten,
on a base that advances, on another base; four revisions let a write, a recovery and a second write follow the preparation; the merging instance has the
longest way of a task (prepare, write, fast and full validation, pull request, merge, close), for which six session revisions are needed.
*Writes*: one request at a time reaches every step of its kind, and two callers with shared and different keys reach every replay, recovery and race; two faults are, for instance, a crash and
a refresh after it. *Convergence*: an upset is a fault, a call begun while another is under way, or a move of the branch; one of any kind lets two calls overlap at any point. Two keys
with one upset and one key with two upsets are too large for a run; of each a part (0.7 and 1.1 million states) was searched by hand, without an error.

`CHECK_DEADLOCK` is off where the system may really stop or its bounds stop it: in `deployments_safety` identities are not used again,
in `infra_deployments` and the two of the sessions the rows or revisions run out, in `change_sets` a request that was
answered need not be repeated, and in `convergence_fast` a Run that is behind.

Each property of a passing run also has a mutant (an operator `Faulty...` before
the operator it replaces): a plausible bug of the code under which that property fails.

Each module also has a `TypeOK` that says what its variables may hold (`ReqTypeOK`, `AgentTypeOK`, `DispatchTypeOK` where it extends
another). They are proved, for any values of the constants, and are not repeated as invariants of the runs.
`OwnedIffActive`, which the proofs of `CIJobs` rest on, is proved as well.

### Fairness

- `PollFairness`: the main loop of an idle agent polls every
  `poll_interval_seconds`, and every poll runs `recover_expired_leases` first.
- `AgentFairness`: the process is restarted by systemd (`Restart=always`), every HTTP call ends
  after its timeout, containers of a cancelled job are killed, so the main thread
  goes on, except that containers nobody cancelled may run on. The heartbeat loop
  goes on (weak) and gets through now and then (strong, the only
  assumption about the network). Time passes.
- `RunningFairness`: the container runtime starts a controller when none is up;
  threads go on, because GitHub calls time out and database errors are bounded by `MaxFailures`.
- `FairSpec` (`Deployments`): the controller ends a completion it began, the agent and the executor loop
  and are started again by systemd (`Restart=always`), the executor's timer ends a script that does not end.
  Users, pushes and the switch to the new release are owed nothing.
- `ReplayFairness`: only in `PatientSpec`: the client asks again while its Request waits.
  `WaitingEnds` needs it, and `RestartResumes` is what is claimed without it.
- `Fairness` (`InfraDeployments`): the executor goes on while it lives (its loop, its bounded attempts), and a script ends
  or is timed out. A dead executor is not owed a restart: what it held is `Orphan`.
- `Fairness` (`DurableWrites`): a call that is under way goes on (its GitHub calls time out), a claim grows old, and the
  caller of a prepared write repeats it, as `ClaimSettles` asks of it.
- `Fairness` (`Convergence`): callers call a Run that exists again and again (strong, because another call's turn may disable theirs), calls under way end, builder
  threads and the CI control plane get their turns. That an attestation appears, that the session takes over a new head and that anything goes well is
  not assumed: `Held` names the cases in which a Run need not end.

## Disagreements found

The run `convergence_fast` shows one: a fast Run whose CI passed is asked for the attestation and the evidence of a full one
in every call, which no fast CI has, and never ends, while `development_converge.py:1639` says that a passed fast CI needs no attestation.

Four definitions of the modules state what the repository's docs and comments say, and TLC refutes them. No run of the project repeats
this; each can be checked by hand with its MC module.

- `CIAgent`, `StaleCancelSparesFreshLease`: `_request_cancel` tests the current job and sets the event
  in two steps, without a lock. The main thread may report its job, lease the
  next, and clear the event in between; the fresh lease is then cancelled. The
  same happens with a second lease of the same job, since only job ids are compared. `CancelSparesWanted` proves
  that there is no other way: an attempt whose own token the heartbeat carried is killed only if it is cancelled or has lost its lease.
- `CIDispatch`, `HeadSupersedesOld`: the head is checked in the preflight and not again in the
  dispatch transaction, so an old head's Request can supersede the queued job of the new head.
- `CIDispatch`, `RestartResumes`: only a process elected at startup resumes Requests, and a
  replacement of a crashed controller usually has another generation id and meets the
  unexpired lease of its predecessor. Taking the lease later resumes nothing.
- `Deployments`, `RegistryNotErased`: `write_status` reads the status file before it takes a lock that the controller does not
  take, and the controller replaces the file by another one in between. A release that was registered then is
  gone from the registry, and can no longer be rolled back to.

What the models follow although a reader of the code may not expect it:

- Test deployments: the test for an active
  deployment lists neither `claimed` nor `running`, so that two may be active; the delegation overwrites whatever
  became of the row since the claim, a cancel or an outcome included (hence the premise of `CallbacksKeepOutcome`); a manual release is
  passed before it is registered and failed when that fails, so that for a moment a row says passed that will not (the exception that it makes);
  a script whose executor turned away goes on beside the next deployment, and nobody registers what it releases;
  a rollback is executed as an ordinary deployment of the head of main, and fails when the two differ.
- Infrastructure deployments: a row whose claim was answered into the void, or whose executor died or gave up, stays claimed or running for good, and every
  later start is refused with `ALREADY_ACTIVE`. When the output of a script cannot be decoded the executor reports a failure and the
  script goes on, so that two scripts may overlap (the premise of `SwitchesExpected`). The progress report of the switch is best effort: when it is
  lost the log has no marker, and the deployment cannot be recovered.
- Durable writes: `recover_executing_write` finds the operation by its key and does not compare the request; a direct tool that is repeated fails its preflight before it
  gets to the replay; `put_generated_files` is answered with success by a replay before the session joined (hence `Joining <- Prepared`); a retry that finds the operation verified on GitHub and
  the workspace revision gone records a committed change set as failed although a first call, still under way, brought the rows along; a claimant slower than 300 s
  meets a released claim and records a failure for what it wrote.
- Convergence: a call that loses its compare-and-set twice in the CI track marks the Run failed while the CI goes on; a call with an old copy may block a Run;
  a Run with a bound index job never asks for the index again, also after the job was lost in a restart; an analysis stage that is ready can be
  set back to failed by an older call (both are in `Held`); a job whose index was pruned since is replayed as completed.

## Proofs

All theorems hold for any set of jobs, workers, repositories, submissions,
requests, deployments, clients and any limits that satisfy the named assumptions of the modules
(finite naturals as job identities, capacities of at least one, and so on).

`CIJobs_proofs`: `TypeCorrect` first; then `Owned` (owner, status and attempt count move together), which is
inductive with the types; on it rests `AttemptsFenced`: a settled report carries the
number of the latest attempt, because only queued jobs are leased and `Holds`
compares the attempt. `PointersOwned` needs `Owned`: every transaction that takes an active
job from its owner drops the owner's pointer, or is the owner's own registration.
`SettledNeverChanges` is an action property and follows step by step from the types and
`Owned`. `ImplementsJobLease` maps phase, holder, epoch and decision to `JobLease` and shows that
every transaction maps to a step in which each job makes a step of its own or stays, and at most one job is acquired.

`Superseded` is proved with the strengthening that identities are used in order and that a
superseder exists and never changes what it was created from, `CapacityKept` by counting with the theorems
on finite cardinalities. `CountersKept` needs the exact counters themselves as the invariant, besides the types: only
while a counter is the number of the jobs it counts does the clamp of `_upsert_repo_queue_state` never cut anything off.
`MovedCount` is the one fact about cardinalities (a set that loses some of its members and gains others); `QueueBooked`
and `RunningBooked` apply it to what a transaction books, `QueueUntouched` and `RunningUntouched` to those that book nothing,
and each transaction then shows that the sets it books are the ones that left and joined. `LostForGood` is an action property:
an attempt that was issued and does not hold its job now never will again, because a new lease counts a new attempt
and nothing else makes a lease that ran out valid (`LeaseOnlyRuns`). `QueueIsOrdered` rests on `ServedOrder`: `servedAfter`,
which stands for the times in `last_dispatched_at`, is a strict weak order of the repositories, as times are.

`CIRequests_proofs` proves the properties of the run `ci_requests_safety` for any Requests, jobs and workers.
`RequestsRunJobs` says first that the store under the Requests behaves as `CIJobs` alone, so that what is proved there
may be used here. `RequestRows` is the counterpart of `EveryRowSteps`: a step keeps a Request, accepts it, advances it by
one of the dispatcher's two edges, dispatches it, or lets it follow the row its job has after the step; every later lemma
splits on these five and not on the actions. `SettlingReconciles` is the one fact that needs all actions again: a
transaction that settles a job reconciles its Request unless it supersedes the job or gives it up at a registration.
The inductive invariant `ReqInv` adds three facts to the properties: which statuses have no job yet
(`BoundWhenDispatched`, without which a dispatch could meet a job of its own key), that only a passed Request has a link (`LinkedPassed`) and
that only a job that passed and was not superseded has an attestation (`AttestedPassed`).
It rests on the keys: that of a Request's job is the Request (`RequestsAssumption`; the code composes
`ci-request:` and the identity), and a direct submission never has such a key (the guard of `CreateDirectJob`; the
code composes repository, commit and profile). `NothingToReuse` is a consequence for the model itself: the branch of
`dispatch_ci_request` that binds an existing job, which `DispatchRequest` does not have, is never taken.

The same module proves that the dispatcher implements the Requests (`DispatcherRunsRequests`), for any number of controllers and threads, so
that `DispatcherKeepsPromises` carries the theorems above over to it. The step of a thread is one of three for the queues
(`Takes`, `Carries`, `LetsGo`), a step outside the threads schedules, empties a process or is quiet. `OneThread` needs that a thread
has a Request exactly while it is busy (`HandlesWhenBusy`) and that a scheduled Request exists (`ScheduledExist`). `RevisionFences` says why
the threads need no lock: `Knows` relates the revision that a thread read to the row as it is now, and while the two are equal the row has the
status that the thread's transition starts from, since every change of status after the first takes a new revision (`RevisionTells`). The types of
the dispatcher need both, because a thread adds one to the revision it read.

`CIAgent_proofs` proves that the agents implement the store (`AgentsRunJobs`), for any number of agents, stops and crashes;
`AgentsKeepPromises` carries the theorems of `CIJobs_proofs` over. A poll needs a registered worker (`Registered`), a callback an attempt that was
issued, which the lease itself tells (`HeldWasIssued`). What is in an agent's hands is described by where its main thread is: `GotWhileBusy` and
`GlobalsFollow` say which of the two globals shows the attempt at which place, `AttemptsIssued` that the attempt was issued
and, if it is the current one of an active job, to this worker, `AttemptsExclusive` that no other agent has it. `AgentRows` puts a step as
one of three for one agent (`Takes`, `Works`, `Empty`). `AttemptsHaveOneAgent` and `IdleHasNoJob` follow; the latter is why the model has no step for
the `release_job` at the end of `main()` and the heartbeat of the main loop. `CancelSparesWanted` follows a heartbeat from the read of the token
to the event: an answer that asks to cancel is right about the attempt it was asked for and stays right (`AnswersAreRight`, from
`LostForGood` and the cancel flag, which is never cleared), and an attempt that comes into the agent's hands after the test is never the one
of the heartbeat (`CancelsConcern`). `AttemptsBounded` holds for the agents and not for the store alone, where a release puts back
a job whatever its attempts: `StoreStep` are the transactions without it, and `TriesLeft` says that a queued job has an attempt left.

`Deployments_proofs` proves all safety properties of `deployments_safety`, for any number of deployments and faults.
None of them is inductive. `DepInv` adds to the types: a row that nobody took up has no checkout and a waiting one no marker
(`NotBegun`); no such row is in the hands of the executor, on its list, between the agent's claim and delegation, or in a
completion (`Held`), which holds because an acknowledgement, the only step back to such a row, needs the marker
that a delegation sets, a list names a row once, and a completion occupies the event loop; a release made by hand has no checkout and is out of
everybody's way (`ByHand`); and every release that the status file or somebody about to write it knows is live
(`KnownIsLive`), from which the preparation learns that the script of its deployment has not run. `RowStep` lists the ways in which
a status changes and `Frame` which actions change which variable; the lemmas after them split on these.

`InfraDeployments_proofs` proves all five safety properties of `infra_deployments`, for any number of rows, clients and faults, and that
the script of a deployment is launched once (`LaunchedOnce`). Since callbacks carry no claim, what protects a row is not a fence but that a request tells the
truth for good: `Sound(m)` says of a request that what it reports has happened to the script of its deployment and
stays so, `LateSound` that every request on its way is sound, `LiveIsRead` that the executor is at a point at which what it sends next
is sound too. `PlansSound` says the same of a plan between its check and its insert (failed rows and their markers stay), `MarkedSound` that a
marker in a log was printed by the script (`LinePrinted`, `InOrder`, `ScriptLog`), `BuildExpected` that until the script
stops the Controller its build is the expected one, unless a script was left running. With the types, `OneActive` and `RecoverySound` these make the inductive
invariant `InfraInv`. `RowStep`, `Frame` and the summaries after them (`RowsForward`, `ScriptsForward`, `ExecForward`, `Taken`) say once how
each variable may change.

`DurableWrites_proofs` proves that `DurableWrites` implements `WriteOnce` (`WritesOnce`), for any clients, requests, keys and faults. A
commit goes on top of the head that the caller quoted, and the head only grows; so once a request has its commit its quoted head is behind, and
no retry under any key pushes again. In the same way the workspace takes a request at the revision that the call read, and the revision only
grows. `WritesInv` says this with the types, and that calls, operations and rows tell of a request only what happened to it
(`CallSound`, `OpSound`, `RowSound`): that keys of different requests differ makes an operation speak of one request. `Frame` says which steps change which
variable, `Grows` what every step leaves as it is, so that the call of a client which does not act stays sound (`StaysSound`); every
action is then looked at once, for the call that acts.

`DevSessions_proofs` proves all six properties of `dev_sessions_pair` and `dev_sessions_merge`, for any commits with any ancestry, any base branches
and any number of clients and revisions. It assumes that `Before` is irreflexive and transitive and contains `Child`, that the base branches stay in `Trunk`, and
that revision 1 exists. The three invariants are not inductive: a call that pauses writes later what it read before. What saves the rows is that both
take a new revision with every change, so that what a call read together with a revision is still so as long as the row has it, and its compare-and-set fails otherwise.
`CallSound` says what each paused call relies on in this way: a write that its workspace is active and its head the session's, a pushed commit that it
continues that head, the sync after it that the workspace still has the commit, a validation that its Request names the session's head.
`RowsSound` orders the rows (no session without a workspace, no reference to a later revision, no lease after a close), `ReqSound` says that the last
validation that started belongs to a revision that the session had, from which the `CHOOSE` of `Generation` gets its witness. Each action is shown once to be a
`RowsStep` (the rows keep the invariant, take one revision, go forward, become ready with a proof); the six properties follow from that.

`Convergence_proofs` proves both safety properties of `convergence`, for any callers, keys, stages, commits and faults. It needs that the key
`NoRun` is none and that `"index"` is not the name of a callback (`ConvergenceAssumption`). A call works from copies of its Run, of its Request and of the session, and may be
overtaken between any two of its steps. `Knows` says what it has learned when it is at a place, in terms of the rows as they are now and not of its copies: at `finalize`
that a Request which it saw pass has passed and its job is bound, from `proven` on that an attestation it saw is recorded in the Run, at `bindev` that the
evidence is for the head of its copy of the session. This stays so whatever the others do, because Runs and Requests only move on (`Later`, `ReqLater`); the
lemma `FollowsSound` says so once for all other calls. `CallSound` adds that a fresh copy is the row, which the compare-and-set writes and the write to the
session use: `TryWriteMoves` goes through the outcomes of such a write, its repetition and its failure included, and each of the 22 steps of a call then only shows what it writes and what it
knows next. `RowSound` and `RequestSound` say what a Run with a job, an attestation or a passed end tells of its Request.

Only model-checked is liveness, since fairness and ENABLED are out of the prover's reach: `UnwantedAttemptStops`,
`OrphanedAttemptRecovered`, `WaitingEnds`, `DeploymentSettles`, `DeploymentEnds`, `ClaimSettles`, `RunSettles`. Every safety property that
a run checks is also a theorem.

## Not modelled

Log text, steps and their cursors, events, the long poll, retention cleanup,
release artifacts, the one-off backfill of legacy jobs, standby roles, the
local execution of `auto_gupiao` deployments, the checks of a manual release's evidence, the CI gate of a deployment
plan (taken to pass), the length limit of a deployment's log (which could cut off a marker), the `convergence_id`
argument of `converge_task` (its tool in `mygithub12_dx_mcp.py` never passes it, only a test does), the staging of uploads and the parsing of patches,
the key under which a change set is prepared, validations with several Requests, the planning of a resume (which recovery it
proposes), the scope, overlap and review checks of a merge, the queries over the index, the failure packs, and the
components marked `not_modelled` in `PROJECT.json` with their reasons. Clock skew is
left out: the controller's clock alone decides about leases. SQLite is taken to serialise
transactions, as `BEGIN IMMEDIATE` promises.

A commit stands for its tree in `DevSessions`, and a head for its number in `DurableWrites`, where the branch only moves forward: that somebody rewrites
history during a write is in `DevSessions`. One task, one branch and one session are modelled: rows of different tasks share no state but the
index, which `Convergence` has.

## Plan

Done: the modules above, their runs, and the theorems about all of them. Left, in this order:

1. More theorems: what keeps a test deployment from being lost between its two programs, and what the five recoveries leave of a session.
2. Composition: a merging instance of `DevSessions` with two callers (more than 10 million states as the module stands), and `Convergence` over `DevSessions` instead of its own session.
3. The `idempotency` table with its shared connection, and the terminal set of a validation with several Requests.
