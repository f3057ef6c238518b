------------------------------ MODULE CIAgent ------------------------------
(***************************************************************************)
(* The worker agent, main.py of private_ci_agent, against the job store of *)
(* CIJobs: one process per worker, with its main thread and its heartbeat  *)
(* thread.                                                                 *)
(*                                                                         *)
(* The two threads share the globals _current_job_id, _current_lease_token *)
(* and _cancel_event without a lock, so every read and every write of one  *)
(* of them is a step of its own.  An HTTP call that only posts and whose   *)
(* failure is swallowed either takes effect at the controller or does not; *)
(* the agent goes on in the same way.  A heartbeat and a lease are asked   *)
(* for, served and answered, and each part may be lost.                    *)
(*                                                                         *)
(* The agent has no step for release_job: it is called at the end of       *)
(* main() for a job that is still current, and _run_job_lifecycle has      *)
(* always cleared the current job by then.  For the same reason the        *)
(* heartbeat that the main loop sends itself never happens.                *)
(*                                                                         *)
(* A lease token is random, so it tells the attempts of all jobs apart: it *)
(* is represented by the attempt it was issued for, job and number.        *)
(***************************************************************************)
EXTENDS CIJobs

CONSTANT MaxStops   \* bound of the model: stops and crashes of an agent

ASSUME StopsAssumption == MaxStops \in Nat

VARIABLES
    pc,             \* where the main thread is
    serving,        \* _running: no signal to stop has arrived
    got,            \* the attempt that lease_job returned
    agentJob,       \* _current_job_id
    agentToken,     \* _current_lease_token, NoAttempt if it is None
    cancelEvent,    \* _cancel_event
    verdict,        \* the status that the main thread is about to report
    hbPc,           \* where the heartbeat thread is
    hbJob,          \* job_at_send
    hbToken,        \* token_at_send
    hbAnswer,       \* cancel_requested of the response
    stops           \* stops and crashes so far

mainVars == <<pc, serving, got, agentJob, agentToken, cancelEvent, verdict, stops>>
hbVars == <<hbPc, hbJob, hbToken, hbAnswer>>
agentVars == <<vars, mainVars, hbVars>>

NoAttempt == [job |-> NoJob, number |-> 0]
Attempt == [job : Jobs \cup {NoJob}, number : Nat]

Booting == {"register", "upsert", "reconcile", "clear"}
Taking == {"leased", "tokenless", "uncleared"}
Working == {"fetch", "download", "prepare", "check", "announce", "execute", "report"}
Cleaning == {"cleanup", "cleaned"}
Looping == {"idle", "leasing"} \cup Taking \cup Working \cup Cleaning

AgentTypeOK ==
    /\ TypeOK
    /\ pc \in [Workers -> {"down"} \cup Booting \cup Looping]
    /\ serving \in [Workers -> BOOLEAN]
    /\ got \in [Workers -> Attempt]
    /\ agentJob \in [Workers -> Jobs \cup {NoJob}]
    /\ agentToken \in [Workers -> Attempt]
    /\ cancelEvent \in [Workers -> BOOLEAN]
    /\ verdict \in [Workers -> Reported]
    /\ hbPc \in [Workers -> {"rest", "token", "sent", "answered", "cancel"}]
    /\ hbJob \in [Workers -> Jobs \cup {NoJob}]
    /\ hbToken \in [Workers -> Attempt]
    /\ hbAnswer \in [Workers -> BOOLEAN]
    /\ stops \in [Workers -> 0 .. MaxStops]

AgentInit ==
    /\ Init
    /\ pc = [w \in Workers |-> "down"]
    /\ serving = [w \in Workers |-> TRUE]
    /\ got = [w \in Workers |-> NoAttempt]
    /\ agentJob = [w \in Workers |-> NoJob]
    /\ agentToken = [w \in Workers |-> NoAttempt]
    /\ cancelEvent = [w \in Workers |-> FALSE]
    /\ verdict = [w \in Workers |-> "internal_error"]
    /\ hbPc = [w \in Workers |-> "rest"]
    /\ hbJob = [w \in Workers |-> NoJob]
    /\ hbToken = [w \in Workers |-> NoAttempt]
    /\ hbAnswer = [w \in Workers |-> FALSE]
    /\ stops = [w \in Workers |-> 0]

\* The main thread of w goes from one place to another.
Go(w, from, to) == /\ pc[w] = from
                   /\ pc' = [pc EXCEPT ![w] = to]

-----------------------------------------------------------------------------
(* Start, stop and crash. *)

Start(w) ==
    /\ Go(w, "down", "register")
    /\ UNCHANGED <<vars, serving, got, agentJob, agentToken, cancelEvent,
                   verdict, stops, hbVars>>

\* POST /workers/register: two transactions at the controller, after which
\* the response may be lost and the registration tried again
RegisterRecovers(w) ==
    /\ Go(w, "register", "upsert")
    /\ RecoverWorkerJobs(w)
    /\ UNCHANGED <<serving, got, agentJob, agentToken, cancelEvent, verdict,
                   stops, hbVars>>

RegisterUpserts(w) ==
    /\ Go(w, "upsert", "reconcile") \/ Go(w, "upsert", "register")
    /\ UpsertWorker(w)
    /\ UNCHANGED <<serving, got, agentJob, agentToken, cancelEvent, verdict,
                   stops, hbVars>>

\* POST /workers/reconcile, once; a failure is not fatal
ReconcileRecovers(w) ==
    /\ \/ Go(w, "reconcile", "clear") /\ RecoverWorkerJobs(w)
       \/ Go(w, "reconcile", "idle") /\ UNCHANGED vars
    /\ UNCHANGED <<serving, got, agentJob, agentToken, cancelEvent, verdict,
                   stops, hbVars>>

ReconcileClears(w) ==
    /\ Go(w, "clear", "idle")
    /\ IF currentJob[w] = NoJob THEN UNCHANGED vars ELSE ReconcileWorkerStartup(w)
    /\ UNCHANGED <<serving, got, agentJob, agentToken, cancelEvent, verdict,
                   stops, hbVars>>

\* signal_handler, between any two steps of the main thread
Signal(w) ==
    /\ pc[w] # "down"
    /\ serving[w]
    /\ stops[w] < MaxStops
    /\ serving' = [serving EXCEPT ![w] = FALSE]
    /\ cancelEvent' = [cancelEvent EXCEPT ![w] = @ \/ agentJob[w] # NoJob]
    /\ stops' = [stops EXCEPT ![w] = @ + 1]
    /\ UNCHANGED <<vars, pc, got, agentJob, agentToken, verdict, hbVars>>

\* What a process that is gone leaves behind: nothing.
Forget(w) ==
    /\ serving' = [serving EXCEPT ![w] = TRUE]
    /\ got' = [got EXCEPT ![w] = NoAttempt]
    /\ agentJob' = [agentJob EXCEPT ![w] = NoJob]
    /\ agentToken' = [agentToken EXCEPT ![w] = NoAttempt]
    /\ cancelEvent' = [cancelEvent EXCEPT ![w] = FALSE]
    /\ verdict' = [verdict EXCEPT ![w] = "internal_error"]
    /\ hbPc' = [hbPc EXCEPT ![w] = "rest"]
    /\ hbJob' = [hbJob EXCEPT ![w] = NoJob]
    /\ hbToken' = [hbToken EXCEPT ![w] = NoAttempt]
    /\ hbAnswer' = [hbAnswer EXCEPT ![w] = FALSE]
    /\ UNCHANGED vars

\* The main loop ends when _running is false.
Exit(w) == /\ ~ serving[w]
           /\ Go(w, "idle", "down")
           /\ Forget(w)
           /\ UNCHANGED stops

Crash(w) == /\ pc[w] # "down"
            /\ stops[w] < MaxStops
            /\ pc' = [pc EXCEPT ![w] = "down"]
            /\ stops' = [stops EXCEPT ![w] = @ + 1]
            /\ Forget(w)

-----------------------------------------------------------------------------
(* Taking a job. *)

\* POST /jobs/lease, its first transaction
Poll(w) ==
    /\ serving[w]
    /\ Go(w, "idle", "leasing")
    /\ RecoverExpiredLeases
    /\ UNCHANGED <<serving, got, agentJob, agentToken, cancelEvent, verdict,
                   stops, hbVars>>

\* Its second transaction found a job and the response arrived.
LeaseArrives(w, j) ==
    /\ Go(w, "leasing", "leased")
    /\ LeaseJob(w, j)
    /\ got' = [got EXCEPT ![w] = [job |-> j, number |-> attempts'[j]]]
    /\ UNCHANGED <<serving, agentJob, agentToken, cancelEvent, verdict, stops,
                   hbVars>>

\* The response was lost, after the transaction or before it, or it had no job.
LeaseFails(w) ==
    /\ Go(w, "leasing", "idle")
    /\ UNCHANGED vars \/ \E j \in Jobs : LeaseJob(w, j)
    /\ UNCHANGED <<serving, got, agentJob, agentToken, cancelEvent, verdict,
                   stops, hbVars>>

\* _current_job_id = job.job_id; _current_lease_token = job.lease_token;
\* _cancel_event.clear()
SetJob(w) ==
    /\ Go(w, "leased", "tokenless")
    /\ agentJob' = [agentJob EXCEPT ![w] = got[w].job]
    /\ UNCHANGED <<vars, serving, got, agentToken, cancelEvent, verdict, stops,
                   hbVars>>

SetToken(w) ==
    /\ Go(w, "tokenless", "uncleared")
    /\ agentToken' = [agentToken EXCEPT ![w] = got[w]]
    /\ UNCHANGED <<vars, serving, got, agentJob, cancelEvent, verdict, stops,
                   hbVars>>

ClearCancel(w) ==
    /\ Go(w, "uncleared", "fetch")
    /\ cancelEvent' = [cancelEvent EXCEPT ![w] = FALSE]
    /\ UNCHANGED <<vars, serving, got, agentJob, agentToken, verdict, stops,
                   hbVars>>

-----------------------------------------------------------------------------
(* Working on it: _execute_job and JobExecutor.execute. *)

\* update_job_status, which swallows its failure
Announce(w, from, to, new) ==
    /\ Go(w, from, to)
    /\ UNCHANGED vars \/ SetJobStatus(got[w].job, w, got[w].number, new)
    /\ UNCHANGED <<serving, got, agentJob, agentToken, cancelEvent, verdict,
                   stops, hbVars>>

\* download_source_archive with the lease of the attempt, or the local mirror,
\* which asks the controller for nothing (source_mirror_enabled says which of
\* the two; here it may be either); a refusal or a failure is reported as failed
Download(w) ==
    /\ \/ /\ Go(w, "download", "prepare")
          /\ UNCHANGED vars \/ RenewLease(got[w].job, w, got[w].number)
          /\ UNCHANGED verdict
       \/ /\ Go(w, "download", "report")
          /\ UNCHANGED vars \/ RenewLease(got[w].job, w, got[w].number)
          /\ verdict' = [verdict EXCEPT ![w] = "failed"]
    /\ UNCHANGED <<serving, got, agentJob, agentToken, cancelEvent, stops, hbVars>>

\* The test of _cancelled() before anything is executed, and what may end the
\* job after it: the contract gate and an error of the configuration.
CheckCancelled(w) ==
    /\ \/ /\ cancelEvent[w]
          /\ Go(w, "check", "report")
          /\ verdict' = [verdict EXCEPT ![w] = "cancelled"]
       \/ /\ ~ cancelEvent[w]
          /\ Go(w, "check", "announce")
          /\ UNCHANGED verdict
       \/ /\ ~ cancelEvent[w]
          /\ Go(w, "check", "report")
          /\ verdict' = [verdict EXCEPT ![w] = "failed"]
    /\ UNCHANGED <<vars, serving, got, agentJob, agentToken, cancelEvent, stops,
                   hbVars>>

\* The containers have ended, by themselves or because of a cancel, and a status
\* is decided on.  The fast and the OpenAPI check decide by their steps, whether
\* they were killed or not, and the others look at _cancelled() before they
\* hash their evidence; it is cancelled only if there was a cancel.
Conclude(w) ==
    /\ Go(w, "execute", "report")
    /\ \E v \in Reported :
          /\ v = "cancelled" => cancelEvent[w]
          /\ verdict' = [verdict EXCEPT ![w] = v]
    /\ UNCHANGED <<vars, serving, got, agentJob, agentToken, cancelEvent, stops,
                   hbVars>>

\* An exception anywhere in _execute_job, which _run_job_lifecycle reports.
Break(w) ==
    /\ \E from \in Working \ {"report"} : Go(w, from, "report")
    /\ verdict' = [verdict EXCEPT ![w] = "internal_error"]
    /\ UNCHANGED <<vars, serving, got, agentJob, agentToken, cancelEvent, stops,
                   hbVars>>

\* finish_job, which swallows its failure
Report(w) ==
    /\ Go(w, "report", "cleanup")
    /\ UNCHANGED vars \/ CompleteJob(got[w].job, w, got[w].number, verdict[w])
    /\ verdict' = [verdict EXCEPT ![w] = "internal_error"]
    /\ UNCHANGED <<serving, got, agentJob, agentToken, cancelEvent, stops, hbVars>>

\* _cleanup_current_job: _current_job_id = None; _current_lease_token = None
DropJob(w) ==
    /\ Go(w, "cleanup", "cleaned")
    /\ agentJob' = [agentJob EXCEPT ![w] = NoJob]
    /\ UNCHANGED <<vars, serving, got, agentToken, cancelEvent, verdict, stops,
                   hbVars>>

DropToken(w) ==
    /\ Go(w, "cleaned", "idle")
    /\ agentToken' = [agentToken EXCEPT ![w] = NoAttempt]
    /\ got' = [got EXCEPT ![w] = NoAttempt]
    /\ UNCHANGED <<vars, serving, agentJob, cancelEvent, verdict, stops, hbVars>>

-----------------------------------------------------------------------------
(* The heartbeat thread: heartbeat_loop and _request_cancel. *)

Beat(w, from, to) == /\ pc[w] \in Looping
                     /\ hbPc[w] = from
                     /\ hbPc' = [hbPc EXCEPT ![w] = to]

\* The locals of an iteration of heartbeat_loop go with it.
Rest(w, from) == /\ Beat(w, from, "rest")
                 /\ hbJob' = [hbJob EXCEPT ![w] = NoJob]
                 /\ hbToken' = [hbToken EXCEPT ![w] = NoAttempt]
                 /\ hbAnswer' = [hbAnswer EXCEPT ![w] = FALSE]

ReadJob(w) ==
    /\ Beat(w, "rest", "token")
    /\ hbJob' = [hbJob EXCEPT ![w] = agentJob[w]]
    /\ UNCHANGED <<vars, mainVars, hbToken, hbAnswer>>

ReadToken(w) ==
    /\ Beat(w, "token", "sent")
    /\ hbToken' = [hbToken EXCEPT ![w] = agentToken[w]]
    /\ UNCHANGED <<vars, mainVars, hbJob, hbAnswer>>

\* The job that was read is active under the token that was read after it.
HeartbeatHolds(w) ==
    hbToken[w].job = hbJob[w] /\ Holds(hbJob[w], w, hbToken[w].number)

\* Does not tell an agent that its lease is lost.
FaultyServe(w, answer) ==
    LET j == hbJob[w]
    IN  \/ j = NoJob /\ ~ answer /\ UNCHANGED vars
        \/ /\ j # NoJob /\ hbToken[w].job = j
           /\ RenewLease(j, w, hbToken[w].number)
           /\ answer = cancelFlag[j]
        \/ j # NoJob /\ ~ HeartbeatHolds(w) /\ answer = cancelFlag[j] /\ UNCHANGED vars

\* POST /workers/heartbeat for the attempt that was read: what it answers, and
\* whether it renews.  Without a job it answers that there is nothing to do;
\* without a lease, or with one that is not current, to cancel.
Serve(w, answer) ==
    LET j == hbJob[w]
    IN  \/ j = NoJob /\ ~ answer /\ UNCHANGED vars
        \/ /\ j # NoJob /\ hbToken[w].job = j
           /\ RenewLease(j, w, hbToken[w].number)
           /\ answer = cancelFlag[j]
        \/ j # NoJob /\ ~ HeartbeatHolds(w) /\ answer /\ UNCHANGED vars

HeartbeatAnswered(w) ==
    /\ Beat(w, "sent", "answered")
    /\ \E answer \in BOOLEAN :
          /\ Serve(w, answer)
          /\ hbAnswer' = [hbAnswer EXCEPT ![w] = answer]
    /\ UNCHANGED <<mainVars, hbJob, hbToken>>

\* The request or the response is lost.
HeartbeatFails(w) ==
    /\ Rest(w, "sent")
    /\ UNCHANGED vars \/ \E answer \in BOOLEAN : Serve(w, answer)
    /\ UNCHANGED mainVars

\* The response asks to cancel the job that is current now.
Concerns(w) == hbAnswer[w] /\ hbJob[w] # NoJob /\ agentJob[w] = hbJob[w]

Judge(w) ==
    /\ IF Concerns(w)
       THEN Beat(w, "answered", "cancel") /\ UNCHANGED <<hbJob, hbToken, hbAnswer>>
       ELSE Rest(w, "answered")
    /\ UNCHANGED <<vars, mainVars>>

\* _cancel_event.set(); the containers of the job are killed
ApplyCancel(w) ==
    /\ Rest(w, "cancel")
    /\ cancelEvent' = [cancelEvent EXCEPT ![w] = TRUE]
    /\ UNCHANGED <<vars, pc, serving, got, agentJob, agentToken, verdict, stops>>

-----------------------------------------------------------------------------
MainStep(w) ==
    \/ Start(w) \/ RegisterRecovers(w) \/ RegisterUpserts(w)
    \/ ReconcileRecovers(w) \/ ReconcileClears(w)
    \/ Exit(w) \/ Poll(w) \/ LeaseFails(w) \/ \E j \in Jobs : LeaseArrives(w, j)
    \/ SetJob(w) \/ SetToken(w) \/ ClearCancel(w)
    \/ Announce(w, "fetch", "download", "downloading")
    \/ Download(w)
    \/ Announce(w, "prepare", "check", "preparing")
    \/ CheckCancelled(w)
    \/ Announce(w, "announce", "execute", "running")
    \/ Conclude(w) \/ Break(w) \/ Report(w) \/ DropJob(w) \/ DropToken(w)

HeartbeatStep(w) ==
    \/ ReadJob(w) \/ ReadToken(w) \/ HeartbeatAnswered(w) \/ HeartbeatFails(w)
    \/ Judge(w) \/ ApplyCancel(w)

\* Clients, the passing of time, and polls of workers that are not modelled.
Surroundings ==
    /\ Client \/ Tick \/ PollRecovers
    /\ UNCHANGED <<mainVars, hbVars>>

AgentNext ==
    \/ \E w \in Workers :
          MainStep(w) \/ HeartbeatStep(w) \/ Signal(w) \/ Crash(w)
    \/ Surroundings

AgentSpec == AgentInit /\ [][AgentNext]_agentVars

\* systemd restarts the process, a call ends after 30 s at the latest, and the
\* containers of a cancelled job are killed: the main thread always goes on,
\* except that containers that nobody cancelled may run for as long as they
\* like.  The heartbeat loop goes on and a call of it gets through now and
\* then.  Time passes.
AgentFairness ==
    /\ \A w \in Workers :
          /\ WF_agentVars(MainStep(w) /\ (pc[w] = "execute" => cancelEvent[w]))
          /\ WF_agentVars(HeartbeatStep(w))
          /\ SF_agentVars(HeartbeatAnswered(w))
    /\ WF_agentVars(Tick /\ UNCHANGED <<mainVars, hbVars>>)

FairAgentSpec == AgentSpec /\ AgentFairness

-----------------------------------------------------------------------------
(* Properties. *)

WorksOn(w, j, t) == pc[w] \in Taking \cup Working /\ got[w] = [job |-> j, number |-> t]

\* An attempt that somebody cancelled, or that lost its lease, is not executed
\* forever: a heartbeat tells the agent, even if a cancel that came while the
\* job was being taken was cleared again.
UnwantedAttemptStops ==
    \A w \in Workers, j \in Jobs : \A t \in 1 .. MaxAttempts :
        (WorksOn(w, j, t) /\ (cancelFlag[j] \/ ~ Holds(j, w, t)))
            ~> ~ WorksOn(w, j, t)

\* An attempt that its agent does not work on does not keep the job: after a
\* lost lease response, a lost report or a crash no heartbeat renews the lease,
\* it expires and the job is queued again or given up.
OrphanedAttemptRecovered ==
    \A w \in Workers, j \in Jobs : \A t \in 1 .. MaxAttempts :
        (Holds(j, w, t) /\ ~ WorksOn(w, j, t))
            ~> ~ (status[j] \in Active /\ attempts[j] = t)

\* What the comment in _request_cancel says: the cancel that answers a
\* heartbeat for an earlier lease does not kill a fresh lease that started
\* after the heartbeat was sent.
StaleCancelSparesFreshLease ==
    [][\A w \in Workers :
          (ApplyCancel(w) /\ pc[w] \in Working /\ hbToken[w] # NoAttempt)
              => got[w] = hbToken[w] /\ got[w].job = hbJob[w]]_agentVars
=============================================================================
