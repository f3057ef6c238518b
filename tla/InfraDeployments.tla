-------------------------- MODULE InfraDeployments --------------------------
(***************************************************************************)
(* The self-deployment of MyGitHub12: the rows of                          *)
(* infrastructure_deployments (infrastructure_deployment_service.py over   *)
(* infrastructure_deployment_store.py), the fixed executor that works them *)
(* off (infrastructure_deploy_executor.py), and the script it runs, which  *)
(* stops the Controller that keeps the rows and starts another build.      *)
(*                                                                         *)
(* One Controller runs at a time and its callback handlers do not await    *)
(* in between, so that each handler is one step.  The executor waits for   *)
(* the answer of one request before it sends the next, but an answer may   *)
(* be lost, and a request it stopped waiting for may be handled later:     *)
(* late holds those.  No callback shows a claim or an attempt.             *)
(*                                                                         *)
(* The CI gate, the tree and the policy of the repository are taken to be  *)
(* in order, since the CI job that a row names has passed for good.        *)
(***************************************************************************)
EXTENDS Integers, Sequences, FiniteSets

CONSTANTS
    Deployments,    \* identities of rows, naturals in creation order
    Commits,
    Clients,        \* callers of start_infrastructure_deployment
    NoBuild,        \* no Controller is running
    MaxFaults       \* bound of the model: crashes, lost answers, delays,
                    \* unreadable output, moves of main, steps of an operator

None == 0

ASSUME InfraAssumption ==
    /\ Deployments \subseteq Nat \ {None}
    /\ NoBuild \notin Commits
    /\ MaxFaults \in Nat

VARIABLES
    row,            \* the rows of infrastructure_deployments
    heart,          \* state of the executor's heartbeat row
    main,           \* head of main on GitHub
    build,          \* runtime_build_sha of the Controller
    ask,            \* per client: the plan of a start under way
    exec,           \* the executor: where it is, its deployment, the phases
                    \* of the script that it has reported
    script,         \* the script of each deployment: where it is, the phases
                    \* it printed, whether the executor left it running
    late,           \* requests the executor no longer waits for
    faults

vars == <<row, heart, main, build, ask, exec, script, late, faults>>

-----------------------------------------------------------------------------
Active(d) == row[d].status \in {"queued", "claimed", "running"}
TerminalStatuses == {"passed", "failed"}
Ended(d) == row[d].status \in TerminalStatuses
Up == build # NoBuild

NoRow == [status |-> "none", step |-> "none", recovery |-> FALSE, of |-> None,
          commit |-> NoBuild, expected |-> NoBuild, marked |-> FALSE, rev |-> 0]
NoAsk == [of |-> None, commit |-> NoBuild, expected |-> NoBuild]
Polling == [at |-> "poll", job |-> None, read |-> 0]
NoScript == [at |-> "none", said |-> <<>>, left |-> FALSE]

Init ==
    /\ row = [d \in Deployments |-> NoRow]
    /\ heart = "unknown"
    /\ main \in Commits
    /\ build \in Commits
    /\ ask = [c \in Clients |-> NoAsk]
    /\ exec = Polling
    /\ script = [d \in Deployments |-> NoScript]
    /\ late = {}
    /\ faults = 0

Fault == faults < MaxFaults /\ faults' = faults + 1

-----------------------------------------------------------------------------
(* start_infrastructure_deployment: a plan, then the insert.               *)

\* Faulty: the evidence of the switch is not asked for.
FaultyRecoverySource(s, commit) ==
    /\ s \in Deployments
    /\ row[s].status = "failed"
    /\ row[s].commit = commit

\* The source of a recovery failed for the same commit, after the marker of
\* the switch or in a recovery of its own.
RecoverySource(s, commit) ==
    /\ s \in Deployments
    /\ row[s].status = "failed"
    /\ row[s].commit = commit
    /\ row[s].marked \/ (row[s].recovery /\ row[s].of # None)

\* A recovery wants the target to run already, any other deployment does not.
Eligible(commit, of) ==
    IF of = None THEN build # commit
                 ELSE RecoverySource(of, commit) /\ build = commit

PlanDeployment(c, commit, of) ==
    /\ Up /\ ask[c] = NoAsk
    /\ commit = main
    /\ Eligible(commit, of)
    /\ \A d \in Deployments : ~ Active(d)
    /\ heart = "idle"
    /\ ask' = [ask EXCEPT ![c] = [of |-> of, commit |-> commit, expected |-> build]]
    /\ UNCHANGED <<row, heart, main, build, exec, script, late, faults>>

\* The identity that the next row gets.
New(d) == /\ row[d].status = "none"
          /\ \A e \in Deployments : row[e].status = "none" => d <= e

\* Faulty: the check of the plan is trusted.
FaultyMayInsert(c) == build = ask[c].expected

MayInsert(c) ==
    /\ \A d \in Deployments : ~ Active(d)
    /\ build = ask[c].expected

StartDeployment(c) ==
    /\ Up /\ ask[c] # NoAsk
    /\ ask' = [ask EXCEPT ![c] = NoAsk]
    /\ \E d \in Deployments :
          /\ New(d)
          /\ row' = IF MayInsert(c)
                      THEN [row EXCEPT ![d] =
                              [NoRow EXCEPT !.status = "queued", !.step = "queued",
                                            !.recovery = ask[c].of # None, !.of = ask[c].of,
                                            !.commit = ask[c].commit,
                                            !.expected = ask[c].expected]]
                      ELSE row
    /\ UNCHANGED <<heart, main, build, exec, script, late, faults>>

-----------------------------------------------------------------------------
(* The callback handlers.  A request tells what it is, the deployment and, *)
(* for a progress, the step; a claim names no deployment.                  *)

Request(op, d, step) == [op |-> op, job |-> d, step |-> step]

Revised(d, status, step, marked) ==
    row' = [row EXCEPT ![d].status = status, ![d].step = step,
                       ![d].marked = marked, ![d].rev = @ + 1]

Queued == {d \in Deployments : row[d].status = "queued"}
Oldest == CHOOSE d \in Queued : \A e \in Queued : d <= e

\* Faulty: the build that the planner expected is not compared again.
FaultyStale(d) == main # row[d].commit

\* What changed since the plan.
Stale(d) ==
    \/ main # row[d].commit
    \/ build # row[d].expected
    \/ /\ row[d].recovery
       /\ \/ ~ RecoverySource(row[d].of, row[d].commit)
          \/ build # row[d].commit

Claimable == IF Queued = {} THEN None
             ELSE IF Stale(Oldest) THEN None ELSE Oldest

\* Faulty: a deployment whose target changed is passed over.
FaultyClaim ==
    /\ heart' = IF Claimable = None THEN "idle" ELSE "running"
    /\ IF Claimable = None THEN UNCHANGED row
       ELSE Revised(Oldest, "claimed", "claimed", row[Oldest].marked)

Claim ==
    /\ heart' = IF Claimable = None THEN "idle" ELSE "running"
    /\ IF Queued = {} THEN UNCHANGED row
       ELSE IF Claimable = None
         THEN Revised(Oldest, "failed", "preflight", row[Oldest].marked)
       ELSE Revised(Oldest, "claimed", "claimed", row[Oldest].marked)

Progress(d, step) ==
    /\ IF row[d].status \in {"claimed", "running"}
         THEN Revised(d, "running", step, row[d].marked \/ step = "controller_switch")
         ELSE UNCHANGED row
    /\ UNCHANGED heart

\* What complete asks for besides a row that is not settled.
Completable(d) ==
    /\ row[d].status \in {"claimed", "running"}
    /\ build = row[d].commit

\* Faulty: a settled row is completed again.
FaultyComplete(d) ==
    IF build = row[d].commit
      THEN Revised(d, "passed", "completed", row[d].marked) /\ heart' = "idle"
      ELSE UNCHANGED <<row, heart>>

Complete(d) ==
    IF Completable(d)
      THEN Revised(d, "passed", "completed", row[d].marked) /\ heart' = "idle"
      ELSE UNCHANGED <<row, heart>>

Fail(d) ==
    IF Ended(d) THEN UNCHANGED <<row, heart>>
    ELSE Revised(d, "failed", "failed", row[d].marked) /\ heart' = "idle"

Serve(m) ==
    /\ Up
    /\ \/ m.op = "claim" /\ Claim
       \/ m.op = "progress" /\ Progress(m.job, m.step)
       \/ m.op = "complete" /\ Complete(m.job)
       \/ m.op = "fail" /\ Fail(m.job)

\* The answer is not an error.
Accepts(m) == m.op = "complete" => Ended(m.job) \/ Completable(m.job)

-----------------------------------------------------------------------------
(* The executor.                                                           *)

\* The request that the executor waits for, by where it is.
Pending ==
    CASE exec.at = "poll" -> Request("claim", None, "")
      [] exec.at = "source" -> Request("progress", exec.job, "source_prepare")
      [] exec.at = "checked" -> Request("progress", exec.job, "validation")
      [] exec.at = "line" ->
           Request("progress", exec.job, script[exec.job].said[exec.read + 1])
      [] exec.at = "complete" -> Request("complete", exec.job, "")
      [] exec.at = "failing" -> Request("fail", exec.job, "")

Waiting == exec.at \in {"poll", "source", "checked", "line", "complete", "failing"}
Goto(at) == [exec EXCEPT !.at = at]

\* Where it goes on after the answer.
Answered ==
    CASE exec.at = "poll" ->
           IF Claimable = None THEN Polling
           ELSE [Polling EXCEPT !.at = "source", !.job = Claimable]
      [] exec.at = "source" -> Goto("prepare")
      [] exec.at = "checked" -> Goto("launch")
      [] exec.at = "line" -> [exec EXCEPT !.at = "watch", !.read = @ + 1]
      [] OTHER -> Polling

CallController ==
    /\ Waiting /\ Serve(Pending) /\ Accepts(Pending)
    /\ exec' = Answered
    /\ UNCHANGED <<main, build, ask, script, late, faults>>

\* The answer is lost; the executor sends the request again.
AnswerLost ==
    /\ Waiting /\ Serve(Pending) /\ Fault
    /\ UNCHANGED <<main, build, ask, exec, script, late>>

\* The request is on its way for longer than the executor waits.
RequestDelayed ==
    /\ Waiting /\ Up /\ Fault
    /\ late' = late \cup {Pending}
    /\ UNCHANGED <<row, heart, main, build, ask, exec, script>>

LateRequest ==
    /\ \E m \in late : Serve(m) /\ late' = late \ {m}
    /\ UNCHANGED <<main, build, ask, exec, script, faults>>

\* Every attempt failed.  A progress is given up, a completion becomes a
\* failure, and after a failure that nobody took the process ends and systemd
\* starts it again.  (So it does after a claim; it polls either way.)
GiveUp ==
    /\ exec.at \in {"source", "checked", "line", "complete", "failing"}
    /\ \/ ~ Up
       \/ ~ Accepts(Pending)
    /\ exec' = IF exec.at = "complete" THEN Goto("failing") ELSE Answered
    /\ UNCHANGED <<row, heart, main, build, ask, script, late, faults>>

\* prepare_workspace: the mirror is fetched, its main must be the target.
PrepareWorkspace ==
    /\ exec.at = "prepare"
    /\ \/ main = row[exec.job].commit /\ exec' = Goto("checked")
       \/ exec' = Goto("failing")
    /\ UNCHANGED <<row, heart, main, build, ask, script, late, faults>>

Launch ==
    /\ exec.at = "launch"
    /\ exec' = Goto("watch")
    /\ script' = [script EXCEPT ![exec.job] = [NoScript EXCEPT !.at = "begun"]]
    /\ UNCHANGED <<row, heart, main, build, ask, late, faults>>

\* Faulty: the exit code is not looked at.
FaultyVerdict(d) == IF Up THEN {"complete", "failing"} ELSE {"failing"}

\* Exit code and health evidence.
Verdict(d) == IF script[d].at = "ok" /\ Up THEN {"complete", "failing"} ELSE {"failing"}

\* The output is read to its end, then the exit code.
Watch ==
    /\ exec.at = "watch"
    /\ IF exec.read < Len(script[exec.job].said)
         THEN exec' = Goto("line")
         ELSE /\ script[exec.job].at \in {"ok", "bad"}
              /\ \E at \in Verdict(exec.job) : exec' = Goto(at)
    /\ UNCHANGED <<row, heart, main, build, ask, script, late, faults>>

\* A line that cannot be decoded: a failure is reported, the script goes on.
OutputUnreadable ==
    /\ exec.at = "watch" /\ Fault
    /\ exec' = Goto("failing")
    /\ script' = [script EXCEPT ![exec.job].left = @ \/ script[exec.job].at \notin {"ok", "bad"}]
    /\ UNCHANGED <<row, heart, main, build, ask, late>>

\* _running_heartbeat_loop.
HeartBeat ==
    /\ exec.job # None /\ Up
    /\ heart' = "running"
    /\ UNCHANGED <<row, main, build, ask, exec, script, late, faults>>

\* The process dies with what it runs.
ExecutorDies ==
    /\ exec.job # None /\ Fault
    /\ exec' = Polling
    /\ script' = IF script[exec.job].at \in {"none", "ok"} THEN script
                 ELSE [script EXCEPT ![exec.job].at = "bad"]
    /\ UNCHANGED <<row, heart, main, build, ask, late>>

ExecutorStep ==
    CallController \/ GiveUp \/ PrepareWorkspace \/ Launch \/ Watch

-----------------------------------------------------------------------------
(* apply-fixes.sh in fail-stop mode.                                       *)

At(d, at) == script[d].at = at
Says(d, at, phase) ==
    script' = [script EXCEPT ![d].at = at, ![d].said = Append(@, phase)]

\* A parent build that is the target itself means a recovery.
SameBuild(d) == row[d].expected = row[d].commit

\* A restart of the Controller ends the calls and requests it had.
Restarted(b) ==
    /\ build' = b
    /\ ask' = [c \in Clients |-> NoAsk]
    /\ late' = {}

AnnounceSwitch(d) ==
    /\ At(d, "begun") /\ ~ SameBuild(d)
    /\ Says(d, "marked", "controller_switch")
    /\ UNCHANGED <<row, heart, main, build, ask, exec, late, faults>>

StopController(d) ==
    /\ At(d, "marked") /\ Up
    /\ script' = [script EXCEPT ![d].at = "stopped"]
    /\ Restarted(NoBuild)
    /\ UNCHANGED <<row, heart, main, exec, faults>>

StartController(d) ==
    /\ At(d, "stopped") /\ ~ Up
    /\ Says(d, "started", "health")
    /\ Restarted(row[d].commit)
    /\ UNCHANGED <<row, heart, main, exec, faults>>

RecoverInPlace(d) ==
    /\ At(d, "begun") /\ SameBuild(d) /\ Up
    /\ Says(d, "started", "health")
    /\ UNCHANGED <<row, heart, main, build, ask, exec, late, faults>>

ScriptEnds(d) ==
    /\ \/ At(d, "started") /\ script' = [script EXCEPT ![d].at = "ok"]
       \/ /\ script[d].at \notin {"none", "ok", "bad"}
          /\ script' = [script EXCEPT ![d].at = "bad"]
    /\ UNCHANGED <<row, heart, main, build, ask, exec, late, faults>>

ScriptStep(d) ==
    \/ AnnounceSwitch(d) \/ StopController(d) \/ StartController(d)
    \/ RecoverInPlace(d) \/ ScriptEnds(d)

-----------------------------------------------------------------------------
(* The world around.                                                       *)

MainMoves ==
    /\ Fault
    /\ main' \in Commits \ {main}
    /\ UNCHANGED <<row, heart, build, ask, exec, script, late>>

\* Somebody deploys by hand: when the Controller is down, or while no
\* deployment is under way.
OperatorDeploys ==
    /\ Fault
    /\ ~ Up \/ \A d \in Deployments : row[d].status \notin {"claimed", "running"}
    /\ \E b \in Commits \ {build} : Restarted(b)
    /\ UNCHANGED <<row, heart, main, exec, script>>

World ==
    \/ AnswerLost \/ RequestDelayed \/ LateRequest \/ OutputUnreadable
    \/ HeartBeat \/ ExecutorDies \/ MainMoves \/ OperatorDeploys

Next ==
    \/ \E c \in Clients, b \in Commits, of \in Deployments \cup {None} :
          PlanDeployment(c, b, of)
    \/ \E c \in Clients : StartDeployment(c)
    \/ ExecutorStep
    \/ \E d \in Deployments : ScriptStep(d)
    \/ World

\* The executor goes on while it lives, its attempts are bounded, and a script
\* ends or is timed out.
Fairness ==
    /\ WF_vars(ExecutorStep)
    /\ \A d \in Deployments : WF_vars(ScriptStep(d))

Spec == Init /\ [][Next]_vars
FairSpec == Spec /\ Fairness

-----------------------------------------------------------------------------
(* Properties.                                                             *)

Steps == {"none", "queued", "claimed", "preflight", "source_prepare", "validation",
          "controller_switch", "health", "completed", "failed"}

Rows == [status : {"none", "queued", "claimed", "running", "passed", "failed"},
         step : Steps, recovery : BOOLEAN, of : Deployments \cup {None},
         commit : Commits \cup {NoBuild}, expected : Commits \cup {NoBuild},
         marked : BOOLEAN, rev : Nat]

Requests == [op : {"claim", "progress", "complete", "fail"},
             job : Deployments \cup {None}, step : {""} \cup Steps]

Plans == [of : Deployments \cup {None}, commit : Commits \cup {NoBuild},
          expected : Commits \cup {NoBuild}]

Places == {"poll", "source", "prepare", "checked", "launch", "watch", "line",
           "complete", "failing"}

Scripts == [at : {"none", "begun", "marked", "stopped", "started", "ok", "bad"},
            said : Seq({"controller_switch", "health"}), left : BOOLEAN]

\* Every variable has a value of its kind, and the executor has a deployment
\* whenever it does not poll.
TypeOK ==
    /\ row \in [Deployments -> Rows]
    /\ heart \in {"unknown", "idle", "running"}
    /\ main \in Commits
    /\ build \in Commits \cup {NoBuild}
    /\ ask \in [Clients -> Plans]
    /\ exec \in [at : Places, job : Deployments \cup {None}, read : Nat]
    /\ exec.job = None <=> exec.at = "poll"
    /\ script \in [Deployments -> Scripts]
    /\ late \in SUBSET Requests
    /\ \A m \in late : m.op # "claim" => m.job \in Deployments
    /\ faults \in Nat

\* At most one deployment is queued, claimed or running, whoever planned at
\* the same time (section 3.8 of the contract).
OneActive ==
    \A d, e \in Deployments : Active(d) /\ Active(e) => d = e

\* A recovery goes back, over recoveries that failed, to a failed deployment
\* of the same commit whose script had come to the switch; whatever callbacks
\* are lost or late, no other evidence starts one.
RecoverySound ==
    \A d \in Deployments : row[d].recovery =>
        LET s == row[d].of IN
        /\ s \in Deployments /\ s < d
        /\ row[s].status = "failed" /\ row[s].commit = row[d].commit
        /\ \/ row[s].recovery
           \/ Len(script[s].said) > 0 /\ script[s].said[1] = "controller_switch"

\* A deployment passes only if its script ended well, and the Controller that
\* takes the completion runs its commit (section 6 of the contract).
PassedIsProven ==
    [][ \A d \in Deployments :
          row[d].status # "passed" /\ row'[d].status = "passed" =>
             script[d].at = "ok" /\ build = row[d].commit ]_vars

\* The script of a deployment stops no other build than the one its planner
\* expected, unless a script that an earlier failure left behind is about.
SwitchesExpected ==
    [][ \A d \in Deployments :
          At(d, "marked") /\ script'[d].at = "stopped" =>
             \/ build = row[d].expected
             \/ \E e \in Deployments : script[e].left ]_vars

\* Nobody holds the deployment any more: it was claimed by a request whose
\* answer got lost, or the executor died or gave up.
Orphan(d) == row[d].status \in {"claimed", "running"} /\ exec.job # d

\* Every deployment passes or fails, unless it is orphaned or the Controller
\* is down.
DeploymentEnds ==
    \A d \in Deployments : Active(d) ~> Ended(d) \/ Orphan(d) \/ ~ Up

\* A row keeps its revision only as it is, and its outcome for good: a waiter
\* that quotes the revision misses nothing, and no late progress, completion
\* or failure changes a deployment that has ended.
RowsAreRevisioned ==
    [][ \A d \in Deployments :
          row'[d] # row[d] /\ row[d].status # "none" =>
             row'[d].rev = row[d].rev + 1 /\ ~ Ended(d) ]_vars
=============================================================================
