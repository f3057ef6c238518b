---------------------------- MODULE Deployments ----------------------------
(***************************************************************************)
(* Deployments of frankichen/sxt to the environment gongshi-test: the      *)
(* controller's deployment_service.py and manual_release_reconciliation.py,*)
(* the queue consumer deploy_worker.py in its claim_only mode, and the WSL *)
(* executor deploy_executor.py.  The first and the third share a table and *)
(* both write the status file; the executor reaches them by callbacks.     *)
(*                                                                         *)
(* The callbacks run on the controller's event loop, one to its end before *)
(* the next; the tools that start, cancel and roll back run in threads     *)
(* beside it.  Whatever commits once is one action.  Completing a          *)
(* deployment commits twice and then replaces the status file.  The agent  *)
(* commits its claim and its delegation apart and writes the status file   *)
(* before, between and after, in three steps each time.  The executor      *)
(* works through a list it fetched once, one deployment at a time.         *)
(*                                                                         *)
(* A release is named by the deployment that made it; 0 was there before.  *)
(* The CI gate of a plan is taken to pass, CANCEL_ACK_GRACE_SECONDS to end *)
(* at any time.                                                            *)
(***************************************************************************)
EXTENDS Integers, Sequences, FiniteSets

CONSTANTS
    Deployments,    \* identities, naturals in the order of created_at
    Commits,        \* commits of main, naturals in their order
    Ways,           \* bound of the model: how each deployment may come about
    IdlePolls,      \* bound of the model: are polls that find no row taken
    MaxFaults       \* bound of the model: crashes and lost callbacks

NoDeployment == 0
NoRelease == -1
NoTicket == -2
Releases == {0} \cup Deployments

ASSUME DeploymentsAssumption ==
    /\ Deployments \subseteq Nat \ {0}
    /\ IsFiniteSet(Deployments)
    /\ Commits \subseteq Nat
    /\ 0 \in Commits
    /\ Ways \in [Deployments -> SUBSET {"start", "rollback", "manual"}]
    /\ IdlePolls \in BOOLEAN
    /\ MaxFaults \in Nat

VARIABLES
    row,            \* the table of deployments
    main,           \* head of the branch main
    file,           \* the status file: current release, verified releases
    plan,           \* the plan that a call of start_test_deployment holds
    ticket,         \* the release that a manual preflight reported as current
    closing,        \* the completion that the controller is in the middle of
    agent,          \* the queue consumer
    todo,           \* rows the executor fetched and did not take up yet
    exec,           \* the deployment it executes, and how far it is
    checkouts,      \* deployments with a checkout directory
    script,         \* how far the deployment script of each one got
    stranded,       \* history: deployments that a fault of the executor hit
    faults          \* faults so far

controllerVars == <<main, plan, ticket, closing>>
executorVars == <<todo, exec, checkouts, script, stranded>>
vars == <<row, controllerVars, file, agent, executorVars, faults>>

Terminal == {"passed", "failed", "cancelled"}
Statuses == {"absent", "queued", "claimed", "running", "cancel_requested"} \cup Terminal

Rows == [status : Statuses,
         step : {"none", "claimed", "working", "closed"},  \* current_step
         revision : 0 .. 2,         \* log_revision, 2 for any later one
         marked : BOOLEAN,          \* the log has DELEGATED_CLAIM_MARKER
         scope : {"fullstack", "rollback"},
         commit : Commits,
         before : Releases \cup {NoRelease},    \* current_release_before
         cancelled : BOOLEAN,       \* cancel_requested
         followers : SUBSET Deployments]    \* finished_at >= cancel_requested_at

Files == [current : Releases \cup {NoRelease}, releases : SUBSET Releases]

\* A truncated status file reads like one that says nothing.
Torn == [current |-> NoRelease, releases |-> {}]

NoPlan == [commit |-> -1, before |-> NoRelease]
Plans == {NoPlan} \cup [commit : Commits, before : Releases \cup {NoRelease}]

NotClosing == [job |-> NoDeployment, next |-> "none"]
Closings == {NotClosing} \cup
    [job : Deployments, next : {"finish", "persist", "persist_manual"}]

Idle == [at |-> "idle", job |-> NoDeployment, retained |-> NoRelease,
         prior |-> Torn, write |-> "done"]
Agents == {Idle} \cup
    [at : {"polled", "claimed", "delegated"},
     job : Deployments \cup {NoDeployment},
     retained : Releases \cup {NoRelease},      \* of process_once
     prior : Files,                             \* of write_status
     write : {"read", "truncate", "write", "done"}]

Resting == [at |-> "idle", job |-> NoDeployment]
Executions == {Resting} \cup
    [at : {"prepare", "validate", "script", "completing", "failing"}, job : Deployments]

TypeOK ==
    /\ row \in [Deployments -> Rows]
    /\ main \in Commits
    /\ file \in Files
    /\ plan \in Plans
    /\ ticket \in Releases \cup {NoRelease, NoTicket}
    /\ closing \in Closings
    /\ agent \in Agents
    /\ todo \in Seq([job : Deployments, cancel : BOOLEAN])
    /\ exec \in Executions
    /\ checkouts \in SUBSET Deployments
    /\ script \in [Deployments -> {"none", "running", "switched", "over"}]
    /\ stranded \in SUBSET Deployments
    /\ faults \in 0 .. MaxFaults

Init ==
    /\ row = [d \in Deployments |->
          [status |-> "absent", step |-> "none", revision |-> 0, marked |-> FALSE,
           scope |-> "fullstack", commit |-> 0, before |-> NoRelease,
           cancelled |-> FALSE, followers |-> {}]]
    /\ main = 0
    /\ file = [current |-> 0, releases |-> {0}]
    /\ plan = NoPlan
    /\ ticket = NoTicket
    /\ closing = NotClosing
    /\ agent = Idle
    /\ todo = <<>>
    /\ exec = Resting
    /\ checkouts = {}
    /\ script = [d \in Deployments |-> "none"]
    /\ stranded = {}
    /\ faults = 0

Fault ==
    /\ faults < MaxFaults
    /\ faults' = faults + 1

-----------------------------------------------------------------------------
(* The tools: start, roll back, cancel.  Here and below, an operator Faulty  *)
(* is the next one with a plausible bug; no specification uses it.         *)

ReleaseCommit(r) == IF r = 0 THEN 0 ELSE row[r].commit

\* _release_snapshot: the current release, if the file has it verified
Current == IF file.current \in file.releases THEN file.current ELSE NoRelease

\* The INSERT of a row, with the next identity.
Insert(d, new, kind, sha, release) ==
    /\ row[d].status = "absent"
    /\ \A e \in Deployments : e < d => row[e].status # "absent"
    /\ row' = [row EXCEPT ![d] =
          [@ EXCEPT !.status = new, !.scope = kind, !.commit = sha, !.before = release,
                    !.step = IF new = "passed" THEN "closed" ELSE "none",
                    !.revision = IF new = "passed" THEN 1 ELSE 0]]

\* What start_test_deployment reads before it takes the lock.
PlanTestDeployment ==
    /\ \E d \in Deployments : row[d].status = "absent" /\ "start" \in Ways[d]
    /\ plan = NoPlan
    /\ plan' = [commit |-> main, before |-> Current]
    /\ UNCHANGED <<row, main, ticket, closing, file, agent, executorVars, faults>>

\* The statuses it takes for active, as far as a row here ever has them.
StartBlocking == {"queued", "cancel_requested"}

MayStart(force) ==
    /\ \A e \in Deployments : row[e].status \notin StartBlocking
    /\ force \/ \A e \in Deployments :
                    ~ (row[e].status = "passed" /\ row[e].commit = plan.commit)

\* The rest of it, under the lock that a manual release holds to its end.
StartTestDeployment(d, force) ==
    /\ plan # NoPlan
    /\ "start" \in Ways[d]
    /\ closing.next # "persist_manual"
    /\ MayStart(force)
    /\ Insert(d, "queued", "fullstack", plan.commit, plan.before)
    /\ plan' = NoPlan
    /\ UNCHANGED <<main, ticket, closing, file, agent, executorVars, faults>>

RefuseStart ==
    /\ plan # NoPlan
    /\ ~ MayStart(FALSE)
    /\ plan' = NoPlan
    /\ UNCHANGED <<row, main, ticket, closing, file, agent, executorVars, faults>>

\* Queued whatever else is active.  As a bound of the model it leaves an identity
\* to a plan that is held.
RollbackTestDeployment(d, target) ==
    /\ "rollback" \in Ways[d]
    /\ plan = NoPlan \/ \E e \in Deployments \ {d} : row[e].status = "absent"
    /\ file.current # NoRelease
    /\ target \in file.releases \ {file.current}
    /\ Insert(d, "queued", "rollback", ReleaseCommit(target), file.current)
    /\ UNCHANGED <<controllerVars, file, agent, executorVars, faults>>

FaultyCancelTestDeployment(d) ==
    /\ row[d].status \in {"queued", "claimed", "running"}
    /\ row' = [row EXCEPT ![d] =
          IF @.status \in {"queued", "claimed"}
          THEN [@ EXCEPT !.status = "cancelled", !.step = "closed", !.cancelled = TRUE]
          ELSE [@ EXCEPT !.status = "cancel_requested", !.cancelled = TRUE]]
    /\ UNCHANGED <<controllerVars, file, agent, executorVars, faults>>

CancelTestDeployment(d) ==
    /\ row[d].status \in {"queued", "claimed", "running"}
    /\ row' = [row EXCEPT ![d] =
          IF @.status = "queued"
          THEN [@ EXCEPT !.status = "cancelled", !.step = "closed", !.cancelled = TRUE]
          ELSE [@ EXCEPT !.status = "cancel_requested", !.cancelled = TRUE]]
    /\ UNCHANGED <<controllerVars, file, agent, executorVars, faults>>

MainMoves(sha) ==
    /\ sha > main
    /\ main' = sha
    /\ UNCHANGED <<row, plan, ticket, closing, file, agent, executorVars, faults>>

-----------------------------------------------------------------------------
(* The callbacks.                                                          *)

Later(n) == IF n < 2 THEN n + 1 ELSE n

\* The event loop is free for a callback.
LoopFree == closing = NotClosing

\* A deployment nobody began whose cancel waits for the executor: every
\* callback but the acknowledgement is refused.
CancelPending(d) == row[d].status = "cancel_requested" /\ row[d].step = "claimed"

FaultyUpdated(r, new, at) ==
    IF r.status = "cancelled" THEN r
    ELSE [r EXCEPT !.status = new, !.step = at, !.revision = Later(@)]

\* _deployment_callback_update: a terminal row stays as it is, and progress
\* does not take back a cancel.
Updated(r, new, at) ==
    IF r.status \in Terminal
    THEN r
    ELSE [r EXCEPT !.status = IF @ = "cancel_requested" /\ new = "running" THEN @ ELSE new,
                   !.step = at,
                   !.revision = Later(@)]

Progress(d) == row' = [row EXCEPT ![d] = Updated(@, "running", "working")]

\* fail_test_deployment; nothing here reads the finished_at of a failed row.
Fail(d) == row' = [row EXCEPT ![d] = Updated(@, "failed", "closed")]

\* complete_test_deployment up to its first commit
Complete(d) ==
    /\ row' = [row EXCEPT ![d] = Updated(@, "passed", "closed")]
    /\ closing' = IF row[d].status \in Terminal
                  THEN closing
                  ELSE [job |-> d, next |-> "finish"]

Finished(d) ==
    [e \in Deployments |->
        IF row[e].cancelled THEN [row[e] EXCEPT !.followers = @ \cup {d}] ELSE row[e]]

\* The second commit of complete_test_deployment: finished_at, and the step
\* again, whatever the agent made of the row since.
FinishComplete ==
    /\ closing.next = "finish"
    /\ row' = [Finished(closing.job) EXCEPT ![closing.job].step = "closed"]
    /\ closing' = [closing EXCEPT !.next = "persist"]
    /\ UNCHANGED <<main, plan, ticket, file, agent, executorVars, faults>>

\* _persist_release_snapshot: what the agent writes between its read and its
\* replacement of the file is replaced.
PersistRelease ==
    /\ closing.next \in {"persist", "persist_manual"}
    /\ file' = [current |-> closing.job, releases |-> file.releases \cup {closing.job}]
    /\ closing' = NotClosing
    /\ UNCHANGED <<row, main, plan, ticket, agent, executorVars, faults>>

\* Without the file: for a manual release the row is failed.
PersistFails ==
    /\ closing.next \in {"persist", "persist_manual"}
    /\ Fault
    /\ row' = [row EXCEPT ![closing.job].status =
                  IF closing.next = "persist_manual" THEN "failed" ELSE @]
    /\ closing' = NotClosing
    /\ UNCHANGED <<main, plan, ticket, file, agent, executorVars>>

\* The controller dies: the threads of the tools and the completion are gone.
ControllerCrash ==
    /\ plan # NoPlan \/ closing # NotClosing
    /\ Fault
    /\ plan' = NoPlan
    /\ closing' = NotClosing
    /\ UNCHANGED <<row, main, ticket, file, agent, executorVars>>

\* The release before is in place and holds another commit.
OriginalUnchanged(d) ==
    /\ row[d].before # NoRelease
    /\ Current = row[d].before
    /\ ReleaseCommit(Current) # row[d].commit

\* _verified_successor_for_unstarted_cancel: the current release is that of
\* another deployment of the same commit, which finished after the cancel.
Successor(d) ==
    /\ Current \in Deployments \ {d, row[d].before}
    /\ Current \in row[d].followers
    /\ row[Current].status = "passed"
    /\ row[Current].commit = row[d].commit
    /\ row[Current].scope = row[d].scope

\* acknowledge_cancelled_deployment, when it accepts
Acknowledge(d) ==
    /\ row[d].scope = "fullstack"
    /\ CancelPending(d)
    /\ row[d].revision = 1
    /\ row[d].marked
    /\ OriginalUnchanged(d) \/ Successor(d)
    /\ row' = [row EXCEPT ![d] =
          [@ EXCEPT !.status = "cancelled", !.step = "closed",
                    !.revision = Later(row[d].revision)]]

-----------------------------------------------------------------------------
(* A release that an operator deploys by hand.                             *)

\* ACTIVE_STATUSES of the manual reconciliation
NothingActive ==
    \A d \in Deployments :
        row[d].status \notin {"queued", "claimed", "running", "cancel_requested"}

PreflightManualRelease ==
    /\ \E d \in Deployments : "manual" \in Ways[d]
    /\ LoopFree
    /\ ticket = NoTicket
    /\ NothingActive
    /\ ticket' = Current
    /\ UNCHANGED <<row, main, plan, closing, file, agent, executorVars, faults>>

\* reconcile_manual_release of release d, which is live: its row is new, or
\* one that passed before and whose registration was lost.
ReconcileManualRelease(d) ==
    /\ "manual" \in Ways[d]
    /\ LoopFree
    /\ ticket # NoTicket
    /\ NothingActive
    /\ ticket = Current
    /\ Current # d
    /\ \/ /\ Insert(d, "passed", "fullstack", main, Current)
          /\ script' = [script EXCEPT ![d] = "switched"]
       \/ /\ row[d].status = "passed"
          /\ row[d].commit = main
          /\ script[d] = "switched"
          /\ UNCHANGED <<row, script>>
    /\ ticket' = NoTicket
    /\ closing' = [job |-> d, next |-> "persist_manual"]
    /\ UNCHANGED <<main, plan, file, agent, todo, exec, checkouts, stranded, faults>>

\* Refused, or given up by the operator.
DropTicket ==
    /\ ticket # NoTicket
    /\ ticket' = NoTicket
    /\ UNCHANGED <<row, main, plan, closing, file, agent, executorVars, faults>>

-----------------------------------------------------------------------------
(* The agent: process_once and write_status.                               *)

Queued == {d \in Deployments : row[d].status = "queued"}

\* The query for the oldest row, and the read of the release to retain.
Polled(d) == [at |-> "polled", job |-> d, retained |-> file.current,
              prior |-> Torn, write |-> "read"]

Poll ==
    /\ agent = Idle
    /\ \/ \E d \in Queued :
              /\ \A e \in Queued : d <= e
              /\ agent' = Polled(d)
       \/ /\ Queued = {}
          /\ IdlePolls
          /\ agent' = Polled(NoDeployment)
    /\ UNCHANGED <<row, controllerVars, file, executorVars, faults>>

ReadPrior ==
    /\ agent.write = "read"
    /\ agent' = [agent EXCEPT !.prior = file, !.write = "truncate"]
    /\ UNCHANGED <<row, controllerVars, file, executorVars, faults>>

\* Open and truncate the file that has the name now.
Truncate ==
    /\ agent.write = "truncate"
    /\ file' = Torn
    /\ agent' = [agent EXCEPT !.write = "write"]
    /\ UNCHANGED <<row, controllerVars, executorVars, faults>>

FaultyPayload ==
    [current |-> IF agent.at = "claimed" THEN agent.job ELSE agent.prior.current,
     releases |-> agent.prior.releases]

Payload ==
    [current |-> IF agent.retained # NoRelease THEN agent.retained ELSE agent.prior.current,
     releases |-> agent.prior.releases]

\* Into the file that was opened: lost, if the controller replaced it since.
WritePayload ==
    /\ agent.write = "write"
    /\ file' = IF file = Torn THEN Payload ELSE file
    /\ agent' = IF agent.at = "delegated"
                THEN Idle
                ELSE [agent EXCEPT !.write = "done", !.prior = Torn]
    /\ UNCHANGED <<row, controllerVars, executorVars, faults>>

FaultyClaim ==
    /\ agent.at = "polled"
    /\ agent.write = "done"
    /\ \/ /\ agent.job # NoDeployment
          /\ row' = [row EXCEPT ![agent.job] =
                [@ EXCEPT !.status = "claimed", !.step = "claimed"]]
          /\ agent' = [agent EXCEPT !.at = "claimed", !.write = "read"]
       \/ /\ agent.job = NoDeployment
          /\ agent' = Idle
          /\ UNCHANGED row
    /\ UNCHANGED <<controllerVars, file, executorVars, faults>>

\* The row is read again, and claimed if it is queued still.
Claim ==
    /\ agent.at = "polled"
    /\ agent.write = "done"
    /\ \/ /\ agent.job \in Queued
          /\ row' = [row EXCEPT ![agent.job] =
                [@ EXCEPT !.status = "claimed", !.step = "claimed"]]
          /\ agent' = [agent EXCEPT !.at = "claimed", !.write = "read"]
       \/ /\ agent.job \notin Queued
          /\ agent' = Idle
          /\ UNCHANGED row
    /\ UNCHANGED <<controllerVars, file, executorVars, faults>>

\* Whatever became of the row since the claim.
Delegate ==
    /\ agent.at = "claimed"
    /\ agent.write = "done"
    /\ row' = [row EXCEPT ![agent.job] =
          [@ EXCEPT !.status = "running", !.step = "claimed",
                    !.revision = Later(row[agent.job].revision),
                    !.marked = TRUE]]
    /\ agent' = [agent EXCEPT !.at = "delegated", !.job = NoDeployment, !.write = "read"]
    /\ UNCHANGED <<controllerVars, file, executorVars, faults>>

AgentCrash ==
    /\ agent # Idle
    /\ Fault
    /\ agent' = Idle
    /\ UNCHANGED <<row, controllerVars, file, executorVars>>

-----------------------------------------------------------------------------
(* The executor.                                                           *)

FaultyListed(d) ==
    \/ row[d].status = "running" /\ row[d].step = "claimed"
    \/ row[d].scope = "fullstack" /\ CancelPending(d) /\ row[d].revision = 1

\* list_delegated_deployments
Listed(d) ==
    \/ row[d].status \in {"running", "claimed"} /\ row[d].step = "claimed"
    \/ row[d].scope = "fullstack" /\ CancelPending(d) /\ row[d].revision = 1

\* The rows of a set in the order of created_at.
Orders(S) ==
    {ids \in [1 .. Cardinality(S) -> S] :
        \A i, j \in 1 .. Cardinality(S) : i < j => ids[i] < ids[j]}

Fetch ==
    /\ LoopFree
    /\ exec = Resting
    /\ todo = <<>>
    /\ \E d \in Deployments : Listed(d)
    /\ \E ids \in Orders({d \in Deployments : Listed(d)}) :
          todo' = [i \in DOMAIN ids |->
                      [job |-> ids[i], cancel |-> row[ids[i]].status = "cancel_requested"]]
    /\ UNCHANGED <<row, controllerVars, file, agent, exec, checkouts, script, stranded, faults>>

TakesUp(cancel) ==
    /\ exec = Resting
    /\ todo # <<>>
    /\ Head(todo).cancel = cancel
    /\ todo' = Tail(todo)

\* acknowledge_unstarted_cancellation: accepted, or refused and left pending
AcknowledgeCancel ==
    /\ LoopFree
    /\ TakesUp(TRUE)
    /\ LET d == Head(todo).job
       IN  \/ d \notin checkouts /\ row[d].before # NoRelease /\ Acknowledge(d)
           \/ UNCHANGED row
    /\ UNCHANGED <<controllerVars, file, agent, exec, checkouts, script, stranded, faults>>

\* The first callback of execute: without it nothing is checked out.
Begin ==
    /\ LoopFree
    /\ TakesUp(FALSE)
    /\ LET d == Head(todo).job
       IN  \/ /\ CancelPending(d)
              /\ UNCHANGED <<row, exec>>
           \/ /\ ~ CancelPending(d)
              /\ Progress(d)
              /\ exec' = [at |-> "prepare", job |-> d]
    /\ UNCHANGED <<controllerVars, file, agent, checkouts, script, stranded, faults>>

\* Its answer is lost, and the call or only the answer was.
BeginLost ==
    /\ LoopFree
    /\ TakesUp(FALSE)
    /\ Fault
    /\ LET d == Head(todo).job
       IN  \/ UNCHANGED <<row, stranded>>
           \/ /\ ~ CancelPending(d)
              /\ Progress(d)
              /\ stranded' = stranded \cup {d}
    /\ UNCHANGED <<controllerVars, file, agent, exec, checkouts, script>>

FaultyPrepare ==
    /\ exec.at = "prepare"
    /\ row[exec.job].commit = main
    /\ checkouts' = checkouts \cup {exec.job}
    /\ exec' = [exec EXCEPT !.at = "validate"]
    /\ UNCHANGED <<row, controllerVars, file, agent, todo, script, stranded, faults>>

\* prepare_workspace: the checkout is new and of the head of main.
Prepare ==
    /\ exec.at = "prepare"
    /\ exec.job \notin checkouts
    /\ row[exec.job].commit = main
    /\ checkouts' = checkouts \cup {exec.job}
    /\ exec' = [exec EXCEPT !.at = "validate"]
    /\ UNCHANGED <<row, controllerVars, file, agent, todo, script, stranded, faults>>

\* A refusal or an error of the preparation, before or after the clone.
PrepareFails ==
    /\ exec.at = "prepare"
    /\ \/ UNCHANGED checkouts
       \/ row[exec.job].commit = main /\ checkouts' = checkouts \cup {exec.job}
    /\ exec' = [exec EXCEPT !.at = "failing"]
    /\ UNCHANGED <<row, controllerVars, file, agent, todo, script, stranded, faults>>

\* The callbacks that report the checkout, and the start of its script.
StartScript ==
    /\ LoopFree
    /\ exec.at = "validate"
    /\ \/ /\ ~ CancelPending(exec.job)
          /\ Progress(exec.job)
          /\ script' = [script EXCEPT ![exec.job] = "running"]
          /\ exec' = [exec EXCEPT !.at = "script"]
       \/ /\ CancelPending(exec.job)
          /\ exec' = [exec EXCEPT !.at = "failing"]
          /\ UNCHANGED <<row, script>>
    /\ UNCHANGED <<controllerVars, file, agent, todo, checkouts, stranded, faults>>

\* A line of the script: if it is refused, the script is left to itself.
ScriptProgress ==
    /\ LoopFree
    /\ exec.at = "script"
    /\ \/ /\ ~ CancelPending(exec.job)
          /\ Progress(exec.job)
          /\ UNCHANGED exec
       \/ /\ CancelPending(exec.job)
          /\ exec' = [exec EXCEPT !.at = "failing"]
          /\ UNCHANGED row
    /\ UNCHANGED <<controllerVars, file, agent, todo, checkouts, script, stranded, faults>>

\* A progress report is given up after its retries, and the call or only the
\* answer was lost: no script is started, or one is left to itself.
ProgressLost ==
    /\ exec.at \in {"validate", "script"}
    /\ Fault
    /\ exec' = [exec EXCEPT !.at = "failing"]
    /\ \/ UNCHANGED row
       \/ LoopFree /\ ~ CancelPending(exec.job) /\ Progress(exec.job)
    /\ UNCHANGED <<controllerVars, file, agent, todo, checkouts, script, stranded>>

\* The script makes its release the live one, watched by the executor or not.
ScriptSwitches(d) ==
    /\ script[d] = "running"
    /\ script' = [script EXCEPT ![d] = "switched"]
    /\ UNCHANGED <<row, controllerVars, file, agent, todo, exec, checkouts, stranded, faults>>

\* The evidence of its output is complete, or its end was another one.
ScriptExits ==
    /\ exec.at = "script"
    /\ \/ /\ script[exec.job] = "switched"
          /\ exec' = [exec EXCEPT !.at = "completing"]
          /\ UNCHANGED script
       \/ /\ exec' = [exec EXCEPT !.at = "failing"]
          /\ script' = [script EXCEPT ![exec.job] = "over"]
    /\ UNCHANGED <<row, controllerVars, file, agent, todo, checkouts, stranded, faults>>

ReportComplete ==
    /\ LoopFree
    /\ exec.at = "completing"
    /\ \/ /\ ~ CancelPending(exec.job)
          /\ Complete(exec.job)
          /\ exec' = Resting
       \/ /\ CancelPending(exec.job)
          /\ exec' = [exec EXCEPT !.at = "failing"]
          /\ UNCHANGED <<row, closing>>
    /\ UNCHANGED <<main, plan, ticket, file, agent, todo, checkouts, script, stranded, faults>>

CompleteLost ==
    /\ LoopFree
    /\ exec.at = "completing"
    /\ Fault
    /\ exec' = [exec EXCEPT !.at = "failing"]
    /\ \/ UNCHANGED <<row, closing>>
       \/ ~ CancelPending(exec.job) /\ Complete(exec.job)
    /\ UNCHANGED <<main, plan, ticket, file, agent, todo, checkouts, script, stranded>>

\* What a dead executor leaves: its list and its script.
Dead ==
    /\ exec' = Resting
    /\ todo' = <<>>

\* A refused report ends the process; it is started again.
ReportFailed ==
    /\ LoopFree
    /\ exec.at = "failing"
    /\ \/ /\ ~ CancelPending(exec.job)
          /\ Fail(exec.job)
          /\ exec' = Resting
          /\ UNCHANGED todo
       \/ /\ CancelPending(exec.job)
          /\ Dead
          /\ UNCHANGED row
    /\ UNCHANGED <<controllerVars, file, agent, checkouts, script, stranded, faults>>

\* The process ends, in the middle of anything.
ExecutorCrash ==
    /\ exec # Resting
    /\ Fault
    /\ Dead
    /\ stranded' = stranded \cup {exec.job}
    /\ UNCHANGED <<row, controllerVars, file, agent, checkouts, script>>

-----------------------------------------------------------------------------
Users ==
    \/ PlanTestDeployment
    \/ RefuseStart
    \/ \E d \in Deployments, force \in BOOLEAN : StartTestDeployment(d, force)
    \/ \E d \in Deployments, target \in Releases : RollbackTestDeployment(d, target)
    \/ \E d \in Deployments : CancelTestDeployment(d)
    \/ \E sha \in Commits : MainMoves(sha)
    \/ PreflightManualRelease
    \/ \E d \in Deployments : ReconcileManualRelease(d)
    \/ DropTicket

Controller == FinishComplete \/ PersistRelease

Agent == Poll \/ ReadPrior \/ Truncate \/ WritePayload \/ Claim \/ Delegate

Executor ==
    \/ Fetch \/ AcknowledgeCancel \/ Begin
    \/ Prepare \/ PrepareFails \/ StartScript \/ ScriptProgress \/ ScriptExits
    \/ ReportComplete \/ ReportFailed

Faults ==
    \/ PersistFails \/ ControllerCrash \/ AgentCrash
    \/ BeginLost \/ ProgressLost \/ CompleteLost \/ ExecutorCrash

Next ==
    \/ Users
    \/ Controller
    \/ Agent
    \/ Executor
    \/ \E d \in Deployments : ScriptSwitches(d)
    \/ Faults

Spec == Init /\ [][Next]_vars

\* The controller's loop, and two processes that loop forever and that systemd
\* starts again; a script ends, by itself or by the executor's timer.
FairSpec ==
    /\ Spec
    /\ WF_vars(Controller)
    /\ WF_vars(Agent)
    /\ WF_vars(Fetch \/ AcknowledgeCancel \/ Begin)
    /\ WF_vars(Prepare \/ PrepareFails \/ StartScript)
    /\ WF_vars(ScriptExits)
    /\ WF_vars(ReportComplete \/ ReportFailed)

-----------------------------------------------------------------------------
(* Properties.                                                             *)

\* A deployment that was cancelled never had a checkout: the acknowledgement
\* of a cancel, sent by the executor from a list it fetched before, is only
\* accepted for a deployment that no execution of the row has begun
\* (acknowledge_cancelled_deployment against execute and the agent).
CancelledNeverRan ==
    \A d \in Deployments : row[d].status = "cancelled" => d \notin checkouts

\* A cancelled deployment is never taken up again, whoever still holds it: the
\* agent that read it as queued, the executor that has it on its list.
CancelledIsFinal ==
    [][\A d \in Deployments :
          row[d].status = "cancelled" => row'[d].status = "cancelled"]_vars

\* But for the agent's delegation, which writes whatever became of the row, no
\* step takes back a cancel or an outcome (_deployment_callback_update, the
\* tools and the fault paths), however late, lost or repeated its call is.  One
\* outcome has an exception of its own: the row of a manual release that passed
\* fails, when the registration that follows it fails (reconcile_manual_release).
CallbacksKeepOutcome ==
    [][agent' = agent =>
          \A d \in Deployments :
              /\ row[d].status \in {"failed", "cancelled"} => row'[d].status = row[d].status
              /\ row[d].status = "passed" =>
                     \/ row'[d].status = "passed"
                     \/ /\ closing = [job |-> d, next |-> "persist_manual"]
                        /\ closing' = NotClosing
                        /\ row'[d].status = "failed"
              /\ row[d].status = "cancel_requested" =>
                     row'[d].status \in {"cancel_requested"} \cup Terminal]_vars

\* The script of a deployment is started at most once, even when the row is
\* delegated again after its execution began.
ScriptStartsOnce ==
    [][\A d \in Deployments :
          script[d] # "none" => script'[d] # "running" \/ script[d] = "running"]_vars

\* The status file never names a release that did not become the live one:
\* neither the agent's retained value nor a report that comes late puts a
\* queued target or a failed one there.
RegistryOnlyVerified ==
    file.releases \cup {file.current}
        \subseteq {0, NoRelease} \cup {d \in Deployments : script[d] = "switched"}

\* A queued deployment ends, or is cancelled, or a fault of the executor hit it:
\* a crash of the agent between its claim and its delegation loses nothing.
DeploymentSettles ==
    \A d \in Deployments :
        row[d].status = "queued" ~>
            \/ row[d].status \in Terminal
            \/ row[d].cancelled
            \/ d \in stranded

\* "Agent liveness updates must not erase the verified release registry"
\* (write_status): whenever nobody is in the middle of writing the status file,
\* it lists every release whose deployment passed.
RegistryNotErased ==
    closing = NotClosing /\ agent.write # "write" =>
        {d \in Deployments : row[d].status = "passed"} \subseteq file.releases
=============================================================================
