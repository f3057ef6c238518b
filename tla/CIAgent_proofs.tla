-------------------------- MODULE CIAgent_proofs --------------------------
(***************************************************************************)
(* Theorems about the worker agents against the job store, for any number  *)
(* of workers, jobs and attempts, and for any number of stops and crashes. *)
(***************************************************************************)
EXTENDS CIAgent, CIJobs_proofs

-----------------------------------------------------------------------------
(* What an agent knows.  A job is in hand from the answer to the lease to  *)
(* the end of the cleanup; the globals follow it, each with its delay.     *)

Busy == Taking \cup Working \cup Cleaning
JobShown == Busy \ {"leased", "cleaned"}
TokenShown == Busy \ {"leased", "tokenless"}

\* An agent that polls, reconciles or works has a row in ci_workers.
Registered ==
    \A w \in Workers :
        pc[w] \in Looping \cup {"reconcile", "clear"} => workerStatus[w] # "absent"

GotWhileBusy ==
    \A w \in Workers :
        IF pc[w] \in Busy THEN got[w].job \in Jobs ELSE got[w] = NoAttempt

GlobalsFollow ==
    \A w \in Workers :
        /\ agentJob[w] = IF pc[w] \in JobShown THEN got[w].job ELSE NoJob
        /\ agentToken[w] = IF pc[w] \in TokenShown THEN got[w] ELSE NoAttempt

\* The attempt in hand was issued, and as long as it is the current one of an
\* active job, to this worker.
AttemptsIssued ==
    \A w \in Workers, j \in Jobs :
        got[w].job = j =>
            /\ got[w].number \in 1 .. attempts[j]
            /\ got[w].number = attempts[j] /\ status[j] \in Active => owner[j] = w

\* No attempt is in the hands of two agents.
AttemptsExclusive ==
    \A v, w \in Workers : v # w /\ got[v] # NoAttempt => got[v] # got[w]

-----------------------------------------------------------------------------
(* What the steps of the agents are for the store. *)

\* A callback with the lease that is current is a callback of an attempt that
\* was issued.
LEMMA HeldWasIssued ==
    ASSUME AttemptInv, NEW j \in Jobs, NEW w \in Workers, NEW t, Holds(j, w, t)
    PROVE  t \in 1 .. attempts[j]
  <1>1. attempts[j] \in Nat /\ attempts[j] > 0 /\ t = attempts[j]
    BY DEF AttemptInv, TypeOK, OwnedIffActive, Holds
  <1> QED
    BY <1>1

\* The transactions that the agents and their surroundings ask for: those of
\* the store but for a release.
Reports(j, w, t) ==
    \/ RenewLease(j, w, t)
    \/ \E new \in {"downloading", "preparing", "running"} : SetJobStatus(j, w, t, new)
    \/ \E result \in Reported : CompleteJob(j, w, t, result)

Polls(w) ==
    \/ RecoverWorkerJobs(w)
    \/ UpsertWorker(w)
    \/ ReconcileWorkerStartup(w)
    \/ \E j \in Jobs : LeaseJob(w, j)

StoreStep ==
    \/ Client \/ Tick \/ PollRecovers
    \/ \E w \in Workers : Polls(w)
    \/ \E w \in Workers, j \in Jobs, t \in Nat : Reports(j, w, t)

LEMMA StoreStepIsNext ==
    ASSUME AttemptInv, [StoreStep]_vars
    PROVE  [Next]_vars
  <1>1. ASSUME NEW j \in Jobs, NEW w \in Workers, NEW t \in Nat, Reports(j, w, t)
        PROVE  Next
    <2>1. Holds(j, w, t)
      BY <1>1 DEF Reports, RenewLease, SetJobStatus, CompleteJob
    <2>2. t \in 1 .. attempts[j]
      BY <2>1, HeldWasIssued
    <2>3. Callback(j, w, t)
      BY <1>1 DEF Reports, Callback
    <2> QED
      BY <2>2, <2>3 DEF Next, WorkerStep
  <1>2. ASSUME NEW w \in Workers, Polls(w)
        PROVE  Next
    BY <1>2 DEF Polls, Next, WorkerStep
  <1> QED
    BY <1>1, <1>2 DEF StoreStep, Next

LEMMA ReportStep ==
    ASSUME NEW j \in Jobs, NEW w \in Workers, NEW t \in Nat, Reports(j, w, t)
    PROVE  StoreStep
  BY DEF StoreStep

LEMMA MainStorePart ==
    ASSUME AgentTypeOK, Registered, GotWhileBusy, NEW w \in Workers, MainStep(w)
    PROVE  [StoreStep]_vars
  <1>0. /\ pc[w] \in Busy => got[w].job \in Jobs
        /\ got[w].number \in Nat
    BY DEF GotWhileBusy, AgentTypeOK, Attempt
  <1>1. CASE Start(w) \/ Exit(w) \/ SetJob(w) \/ SetToken(w) \/ ClearCancel(w)
             \/ CheckCancelled(w) \/ Conclude(w) \/ Break(w) \/ DropJob(w)
             \/ DropToken(w)
    BY <1>1 DEF Start, Exit, Forget, SetJob, SetToken, ClearCancel, CheckCancelled,
                Conclude, Break, DropJob, DropToken
  <1>2. CASE RegisterRecovers(w) \/ RegisterUpserts(w) \/ ReconcileRecovers(w)
             \/ ReconcileClears(w)
    BY <1>2 DEF RegisterRecovers, RegisterUpserts, ReconcileRecovers,
                ReconcileClears, StoreStep, Polls
  <1>3. CASE Poll(w)
    <2>1. pc[w] = "idle" /\ RecoverExpiredLeases
      BY <1>3 DEF Poll, Go
    <2>2. workerStatus[w] # "absent"
      BY <2>1 DEF Registered, Looping
    <2> QED
      BY <2>1, <2>2 DEF StoreStep, PollRecovers
  <1>4. CASE LeaseFails(w) \/ \E j \in Jobs : LeaseArrives(w, j)
    BY <1>4 DEF LeaseFails, LeaseArrives, StoreStep, Polls
  <1>5. ASSUME NEW from \in Working, NEW to,
               NEW new \in {"downloading", "preparing", "running"},
               Announce(w, from, to, new)
        PROVE  [StoreStep]_vars
    <2>1. got[w].job \in Jobs
      BY <1>0, <1>5 DEF Announce, Go, Busy
    <2> QED
      BY <1>0, <1>5, <2>1, ReportStep DEF Announce, Reports
  <1>6. CASE Download(w)
    <2>1. got[w].job \in Jobs
      BY <1>0, <1>6 DEF Download, Go, Busy, Working
    <2> QED
      BY <1>0, <1>6, <2>1, ReportStep DEF Download, Reports
  <1>7. CASE Report(w)
    <2>1. got[w].job \in Jobs
      BY <1>0, <1>7 DEF Report, Go, Busy, Working
    <2>2. verdict[w] \in Reported
      BY DEF AgentTypeOK
    <2> QED
      BY <1>0, <1>7, <2>1, <2>2, ReportStep DEF Report, Reports
  <1> QED
    BY <1>1, <1>2, <1>3, <1>4, <1>5, <1>6, <1>7 DEF MainStep, Working

LEMMA ServeStorePart ==
    ASSUME AgentTypeOK, NEW w \in Workers, NEW answer, Serve(w, answer)
    PROVE  [StoreStep]_vars
  <1>1. /\ hbJob[w] # NoJob => hbJob[w] \in Jobs
        /\ hbToken[w].number \in Nat
    BY DEF AgentTypeOK, Attempt
  <1> QED
    BY <1>1, ReportStep DEF Serve, Reports

\* The agents ask the store for nothing but its transactions, and none of them
\* is a release.
LEMMA StoreSteps ==
    ASSUME AgentTypeOK, Registered, GotWhileBusy, [AgentNext]_agentVars
    PROVE  [StoreStep]_vars
  <1>1. CASE UNCHANGED agentVars
    BY <1>1 DEF agentVars
  <1>2. ASSUME NEW w \in Workers, HeartbeatStep(w)
        PROVE  [StoreStep]_vars
    BY <1>2, ServeStorePart
    DEF HeartbeatStep, ReadJob, ReadToken, HeartbeatAnswered, HeartbeatFails, Judge,
        ApplyCancel
  <1>3. ASSUME NEW w \in Workers, Signal(w) \/ Crash(w)
        PROVE  [StoreStep]_vars
    BY <1>3 DEF Signal, Crash, Forget
  <1>4. CASE Surroundings
    BY <1>4 DEF Surroundings, StoreStep
  <1> QED
    BY <1>1, <1>2, <1>3, <1>4, MainStorePart DEF AgentNext

LEMMA StorePart ==
    ASSUME AgentTypeOK, AttemptInv, Registered, GotWhileBusy,
           [AgentNext]_agentVars
    PROVE  [Next]_vars
  BY StoreSteps, StoreStepIsNext

-----------------------------------------------------------------------------
(* What a step does to the hands of the agents. *)

\* Only w moves; the other agents keep the place and the attempt they have.
OthersKeep(w) ==
    \A v \in Workers \ {w} : /\ pc'[v] = pc[v]
                             /\ got'[v] = got[v]
                             /\ agentJob'[v] = agentJob[v]
                             /\ agentToken'[v] = agentToken[v]

\* w takes an attempt that the store has just issued to it.
Takes(w) ==
    \E j \in Jobs :
        /\ pc[w] \notin Busy
        /\ pc'[w] = "leased"
        /\ got'[w] = [job |-> j, number |-> attempts'[j]]
        /\ attempts'[j] = attempts[j] + 1
        /\ owner'[j] = w
        /\ agentJob'[w] = agentJob[w]
        /\ agentToken'[w] = agentToken[w]

\* w goes on with the attempt it has; which global it has written depends on
\* where it is.
Works(w) ==
    /\ pc[w] \in Busy
    /\ pc'[w] \in Busy
    /\ got'[w] = got[w]
    /\ agentJob'[w] = IF pc'[w] \in JobShown THEN got[w].job ELSE NoJob
    /\ agentToken'[w] = IF pc'[w] \in TokenShown THEN got[w] ELSE NoAttempt

\* w is without an attempt after the step.
Empty(w) ==
    /\ pc'[w] \notin Busy
    /\ got'[w] = NoAttempt
    /\ agentJob'[w] = NoJob
    /\ agentToken'[w] = NoAttempt

LEMMA ShownWhileBusy == JobShown \subseteq Busy /\ TokenShown \subseteq Busy
  BY DEF JobShown, TokenShown

LEMMA MainRows ==
    ASSUME AgentTypeOK, GotWhileBusy, GlobalsFollow, NEW w \in Workers, MainStep(w)
    PROVE  OthersKeep(w) /\ (Takes(w) \/ Works(w) \/ Empty(w))
  <1> USE DEF OthersKeep, AgentTypeOK
  <1>0. /\ IF pc[w] \in Busy THEN got[w].job \in Jobs ELSE got[w] = NoAttempt
        /\ agentJob[w] = IF pc[w] \in JobShown THEN got[w].job ELSE NoJob
        /\ agentToken[w] = IF pc[w] \in TokenShown THEN got[w] ELSE NoAttempt
    BY DEF GotWhileBusy, GlobalsFollow
  <1> DEFINE Kept == UNCHANGED <<got, agentJob, agentToken>>
  <1> USE DEF Busy, JobShown, TokenShown, Taking, Working, Cleaning
  <1>1. ASSUME Kept, NEW from \in {"down", "register", "upsert", "reconcile", "clear",
                                   "idle", "leasing"},
               NEW to \in {"down", "register", "upsert", "reconcile", "clear",
                           "idle", "leasing"},
               Go(w, from, to)
        PROVE  OthersKeep(w) /\ Empty(w)
    BY <1>0, <1>1 DEF Go, Empty
  <1>2. ASSUME Kept, NEW from \in {"fetch", "download", "prepare", "check", "announce",
                                   "execute", "report"},
               NEW to \in {"fetch", "download", "prepare", "check", "announce",
                           "execute", "report", "cleanup"},
               Go(w, from, to)
        PROVE  OthersKeep(w) /\ Works(w)
    BY <1>0, <1>2 DEF Go, Works
  <1>3. CASE Start(w) \/ RegisterRecovers(w) \/ RegisterUpserts(w)
             \/ ReconcileRecovers(w) \/ ReconcileClears(w) \/ Poll(w) \/ LeaseFails(w)
    BY <1>1, <1>3 DEF Start, RegisterRecovers, RegisterUpserts, ReconcileRecovers,
                      ReconcileClears, Poll, LeaseFails
  <1>4. CASE Exit(w)
    BY <1>4 DEF Exit, Forget, Go, Empty
  <1>5. ASSUME NEW j \in Jobs, LeaseArrives(w, j)
        PROVE  OthersKeep(w) /\ Takes(w)
    <2>1. attempts'[j] = attempts[j] + 1 /\ owner'[j] = w
      BY <1>5 DEF LeaseArrives, LeaseJob, TypeOK
    <2> QED
      BY <1>5, <2>1 DEF LeaseArrives, Go, Takes
  <1>6. CASE SetJob(w)
    BY <1>0, <1>6 DEF SetJob, Go, Works
  <1>7. CASE SetToken(w)
    BY <1>0, <1>7 DEF SetToken, Go, Works
  <1>8. CASE ClearCancel(w)
    BY <1>0, <1>8 DEF ClearCancel, Go, Works
  <1>9. CASE \/ Announce(w, "fetch", "download", "downloading")
             \/ Announce(w, "prepare", "check", "preparing")
             \/ Announce(w, "announce", "execute", "running")
    BY <1>2, <1>9 DEF Announce
  <1>10. CASE Download(w) \/ CheckCancelled(w) \/ Conclude(w) \/ Break(w) \/ Report(w)
    BY <1>2, <1>10 DEF Download, CheckCancelled, Conclude, Break, Report
  <1>11. CASE DropJob(w)
    BY <1>0, <1>11 DEF DropJob, Go, Works
  <1>12. CASE DropToken(w)
    BY <1>0, <1>12 DEF DropToken, Go, Empty
  <1> QED
    BY <1>3, <1>4, <1>5, <1>6, <1>7, <1>8, <1>9, <1>10, <1>11, <1>12 DEF MainStep

\* Every step of the composition leaves all hands alone or moves one agent.
LEMMA AgentRows ==
    ASSUME AgentTypeOK, GotWhileBusy, GlobalsFollow, [AgentNext]_agentVars
    PROVE  \/ UNCHANGED <<pc, got, agentJob, agentToken>>
           \/ \E w \in Workers :
                 OthersKeep(w) /\ (Takes(w) \/ Works(w) \/ Empty(w))
  <1>1. CASE UNCHANGED agentVars
    BY <1>1 DEF agentVars, mainVars
  <1>2. ASSUME NEW w \in Workers, HeartbeatStep(w)
        PROVE  UNCHANGED <<pc, got, agentJob, agentToken>>
    BY <1>2
    DEF HeartbeatStep, ReadJob, ReadToken, HeartbeatAnswered, HeartbeatFails, Judge,
        ApplyCancel, mainVars
  <1>3. ASSUME NEW w \in Workers, Signal(w)
        PROVE  UNCHANGED <<pc, got, agentJob, agentToken>>
    BY <1>3 DEF Signal
  <1>4. ASSUME NEW w \in Workers, Crash(w)
        PROVE  OthersKeep(w) /\ Empty(w)
    BY <1>4
    DEF Crash, Forget, OthersKeep, Empty, AgentTypeOK, Busy, Taking, Working, Cleaning
  <1>5. CASE Surroundings
    BY <1>5 DEF Surroundings, mainVars
  <1> QED
    BY <1>1, <1>2, <1>3, <1>4, <1>5, MainRows DEF AgentNext

-----------------------------------------------------------------------------
(* The hands stay as they should be. *)

LEMMA FollowNext ==
    ASSUME AgentTypeOK, GotWhileBusy, GlobalsFollow, [AgentNext]_agentVars
    PROVE  GotWhileBusy' /\ GlobalsFollow'
  <1>1. CASE UNCHANGED <<pc, got, agentJob, agentToken>>
    BY <1>1 DEF GotWhileBusy, GlobalsFollow
  <1>2. ASSUME NEW w \in Workers, OthersKeep(w), Takes(w) \/ Works(w) \/ Empty(w)
        PROVE  GotWhileBusy' /\ GlobalsFollow'
    <2>1. ASSUME NEW v \in Workers \ {w}
          PROVE  /\ IF pc'[v] \in Busy THEN got'[v].job \in Jobs
                                       ELSE got'[v] = NoAttempt
                 /\ agentJob'[v] = IF pc'[v] \in JobShown THEN got'[v].job ELSE NoJob
                 /\ agentToken'[v] = IF pc'[v] \in TokenShown THEN got'[v] ELSE NoAttempt
      BY <1>2, <2>1 DEF GotWhileBusy, GlobalsFollow, OthersKeep
    <2>2. /\ IF pc'[w] \in Busy THEN got'[w].job \in Jobs ELSE got'[w] = NoAttempt
          /\ agentJob'[w] = IF pc'[w] \in JobShown THEN got'[w].job ELSE NoJob
          /\ agentToken'[w] = IF pc'[w] \in TokenShown THEN got'[w] ELSE NoAttempt
      <3>1. CASE Takes(w)
        <4>1. /\ "leased" \in Busy
              /\ "leased" \notin JobShown
              /\ "leased" \notin TokenShown
          BY DEF Busy, JobShown, TokenShown, Taking
        <4> QED
          BY <3>1, <4>1, ShownWhileBusy DEF Takes, GlobalsFollow
      <3>2. CASE Works(w)
        BY <3>2 DEF Works, GotWhileBusy
      <3>3. CASE Empty(w)
        BY <3>3, ShownWhileBusy DEF Empty
      <3> QED
        BY <1>2, <3>1, <3>2, <3>3
    <2> QED
      BY <2>1, <2>2 DEF GotWhileBusy, GlobalsFollow
  <1> QED
    BY <1>1, <1>2, AgentRows

\* What an attempt that was issued is worth after a step of the store that
\* does not hand it to somebody else.
LEMMA IssuedStays ==
    ASSUME TypeOK, [Next]_vars, NEW w \in Workers, NEW j \in Jobs,
           NEW n \in 1 .. attempts[j],
           n = attempts[j] /\ status[j] \in Active => owner[j] = w
    PROVE  /\ n \in 1 .. attempts'[j]
           /\ n = attempts'[j] /\ status'[j] \in Active => owner'[j] = w
  <1>1. RowStep(j) /\ attempts[j] \in Nat /\ n \in Nat /\ n <= attempts[j] /\ n >= 1
    BY EveryRowSteps DEF TypeOK
  <1> QED
    BY <1>1
    DEF RowStep, Stays, Created, Leased, TakenBack, Finished, Withdrawn, Keeps,
        Active, Reported

LEMMA IssuedNext ==
    ASSUME AgentTypeOK, [Next]_vars, GotWhileBusy, GlobalsFollow, AttemptsIssued,
           [AgentNext]_agentVars
    PROVE  AttemptsIssued'
  <1>0. TypeOK /\ NoJob \notin Jobs
    BY JobsAssumption DEF AgentTypeOK
  <1>1. ASSUME NEW v \in Workers, got'[v] = got[v], NEW j \in Jobs, got'[v].job = j
        PROVE  /\ got'[v].number \in 1 .. attempts'[j]
               /\ got'[v].number = attempts'[j] /\ status'[j] \in Active
                     => owner'[j] = v
    <2>1. /\ got[v].number \in 1 .. attempts[j]
          /\ got[v].number = attempts[j] /\ status[j] \in Active => owner[j] = v
      BY <1>1 DEF AttemptsIssued
    <2> QED
      BY <1>0, <1>1, <2>1, IssuedStays
  <1>2. ASSUME NEW v \in Workers, Takes(v), NEW j \in Jobs, got'[v].job = j
        PROVE  /\ got'[v].number \in 1 .. attempts'[j]
               /\ got'[v].number = attempts'[j] /\ status'[j] \in Active
                     => owner'[j] = v
    BY <1>0, <1>2 DEF Takes, TypeOK
  <1>3. ASSUME NEW v \in Workers, Empty(v)
        PROVE  got'[v].job \notin Jobs
    BY <1>0, <1>3 DEF Empty, NoAttempt
  <1>4. CASE UNCHANGED <<pc, got, agentJob, agentToken>>
    BY <1>1, <1>4 DEF AttemptsIssued
  <1>5. ASSUME NEW w \in Workers, OthersKeep(w), Takes(w) \/ Works(w) \/ Empty(w)
        PROVE  AttemptsIssued'
    <2>1. \A v \in Workers : got'[v] = got[v] \/ Takes(v) \/ Empty(v)
      BY <1>5 DEF OthersKeep, Works
    <2> QED
      BY <1>1, <1>2, <1>3, <2>1 DEF AttemptsIssued
  <1> QED
    BY <1>4, <1>5, AgentRows

LEMMA ExclusiveNext ==
    ASSUME AgentTypeOK, GotWhileBusy, GlobalsFollow, AttemptsIssued,
           AttemptsExclusive, [AgentNext]_agentVars
    PROVE  AttemptsExclusive'
  <1>0. TypeOK /\ got \in [Workers -> Attempt]
    BY DEF AgentTypeOK
  <1>1. CASE UNCHANGED <<pc, got, agentJob, agentToken>>
    BY <1>1 DEF AttemptsExclusive
  <1>2. ASSUME NEW w \in Workers, OthersKeep(w), Takes(w)
        PROVE  AttemptsExclusive'
    <2>1. ASSUME NEW v \in Workers \ {w}
          PROVE  got'[v] # got'[w]
      <3>1. PICK j \in Jobs : got'[w] = [job |-> j, number |-> attempts[j] + 1]
        BY <1>2 DEF Takes
      <3>2. got[v].job = j => got[v].number \in 1 .. attempts[j]
        BY DEF AttemptsIssued
      <3>3. attempts[j] \in Nat
        BY <1>0 DEF TypeOK
      <3> QED
        BY <1>2, <3>1, <3>2, <3>3 DEF OthersKeep
    <2> QED
      BY <1>2, <2>1 DEF AttemptsExclusive, OthersKeep
  <1>3. ASSUME NEW w \in Workers, OthersKeep(w), Works(w) \/ Empty(w)
        PROVE  AttemptsExclusive'
    BY <1>3 DEF AttemptsExclusive, OthersKeep, Works, Empty
  <1> QED
    BY <1>1, <1>2, <1>3, AgentRows

\* No transaction of the store removes a worker.
LEMMA RegistrationStays ==
    ASSUME [Next]_vars, NEW w \in Workers, workerStatus[w] # "absent", TypeOK
    PROVE  workerStatus'[w] # "absent"
  <1> USE DEF TypeOK
  <1>1. CASE UNCHANGED vars
    BY <1>1 DEF vars, workerVars
  <1>2. CASE Client
    BY <1>2 DEF Client, CreateOrGetJob, InsertJob, RequestCancelJob, CancelQueuedJob,
                ReconcileStaleWorkers, workerVars
  <1>3. CASE Tick \/ PollRecovers
    BY <1>3 DEF Tick, PollRecovers, RecoverExpiredLeases, DropPointers, workerVars
  <1>4. ASSUME NEW v \in Workers, NEW j \in Jobs, NEW t, Callback(j, v, t)
        PROVE  workerStatus'[w] # "absent"
    BY <1>4 DEF Callback, RenewLease, SetJobStatus, CompleteJob, ReleaseJob,
                DropPointers, workerVars
  <1>5. ASSUME NEW v \in Workers, WorkerStep(v)
        PROVE  workerStatus'[w] # "absent"
    BY <1>4, <1>5 DEF WorkerStep, RecoverWorkerJobs, UpsertWorker,
                      ReconcileWorkerStartup, LeaseJob
  <1> QED
    BY <1>1, <1>2, <1>3, <1>5 DEF Next

LEMMA RegisteredNext ==
    ASSUME AgentTypeOK, GotWhileBusy, Registered, [Next]_vars, [AgentNext]_agentVars
    PROVE  Registered'
  <1> DEFINE Needs == Looping \cup {"reconcile", "clear"}
  <1>0. TypeOK
    BY DEF AgentTypeOK
  <1>1. ASSUME NEW w \in Workers, pc'[w] \in Needs
        PROVE  pc[w] \in Needs \/ workerStatus'[w] # "absent"
    <2> USE <1>1 DEF AgentTypeOK, Looping, Taking, Working, Cleaning
    <2>1. CASE pc' = pc
      BY <2>1
    <2>2. ASSUME NEW v \in Workers, NEW from, NEW to, Go(v, from, to),
                 v = w => from \in Needs \/ to \notin Needs
          PROVE  pc[w] \in Needs
      BY <2>2 DEF Go
    <2>3. ASSUME NEW v \in Workers, MainStep(v)
          PROVE  pc[w] \in Needs \/ workerStatus'[w] # "absent"
      <3>1. CASE RegisterUpserts(v)
        BY <1>0, <3>1 DEF RegisterUpserts, UpsertWorker, Go, TypeOK
      <3>2. CASE Start(v) \/ RegisterRecovers(v)
        BY <2>2, <3>2 DEF Start, RegisterRecovers
      <3>3. CASE ~ (Start(v) \/ RegisterRecovers(v) \/ RegisterUpserts(v))
        <4>1. \E from \in Needs : \E to : Go(v, from, to)
          BY <2>3, <3>3
          DEF MainStep, ReconcileRecovers, ReconcileClears, Exit, Poll, LeaseFails,
              LeaseArrives, SetJob, SetToken, ClearCancel, Announce, Download,
              CheckCancelled, Conclude, Break, Report, DropJob, DropToken
        <4> QED
          BY <2>2, <4>1
      <3> QED
        BY <3>1, <3>2, <3>3
    <2>4. ASSUME NEW v \in Workers, Crash(v)
          PROVE  pc[w] \in Needs
      BY <2>4 DEF Crash
    <2>5. ASSUME NEW v \in Workers, HeartbeatStep(v) \/ Signal(v)
          PROVE  pc' = pc
      BY <2>5
      DEF HeartbeatStep, ReadJob, ReadToken, HeartbeatAnswered, HeartbeatFails, Judge,
          ApplyCancel, mainVars, Signal
    <2>6. UNCHANGED agentVars \/ Surroundings => pc' = pc
      BY DEF agentVars, mainVars, Surroundings
    <2> QED
      BY <2>1, <2>3, <2>4, <2>5, <2>6 DEF AgentNext
  <1> QED
    BY <1>0, <1>1, RegistrationStays DEF Registered

-----------------------------------------------------------------------------
(* Types. *)

LocalTypes ==
    /\ pc \in [Workers -> {"down"} \cup Booting \cup Looping]
    /\ serving \in [Workers -> BOOLEAN]
    /\ got \in [Workers -> Attempt]
    /\ agentJob \in [Workers -> Jobs \cup {NoJob}]
    /\ agentToken \in [Workers -> Attempt]
    /\ cancelEvent \in [Workers -> BOOLEAN]
    /\ verdict \in [Workers -> Reported]
    /\ stops \in [Workers -> 0 .. MaxStops]

HeartbeatTypes ==
    /\ hbPc \in [Workers -> {"rest", "token", "sent", "answered", "cancel"}]
    /\ hbJob \in [Workers -> Jobs \cup {NoJob}]
    /\ hbToken \in [Workers -> Attempt]
    /\ hbAnswer \in [Workers -> BOOLEAN]

LEMMA AttemptTypes ==
    /\ NoAttempt \in Attempt
    /\ \A a \in Attempt : a.job \in Jobs \cup {NoJob} /\ a.number \in Nat
  BY DEF NoAttempt, Attempt

LEMMA ForgetTypes ==
    ASSUME AgentTypeOK, NEW w \in Workers, Forget(w)
    PROVE  /\ serving' \in [Workers -> BOOLEAN]
           /\ got' \in [Workers -> Attempt]
           /\ agentJob' \in [Workers -> Jobs \cup {NoJob}]
           /\ agentToken' \in [Workers -> Attempt]
           /\ cancelEvent' \in [Workers -> BOOLEAN]
           /\ verdict' \in [Workers -> Reported]
           /\ HeartbeatTypes'
  BY AttemptTypes DEF Forget, AgentTypeOK, HeartbeatTypes, Reported

LEMMA MainTypes ==
    ASSUME AgentTypeOK, TypeOK', NEW w \in Workers, MainStep(w)
    PROVE  LocalTypes' /\ HeartbeatTypes'
  <1> USE DEF AgentTypeOK, LocalTypes, HeartbeatTypes
  <1>1. pc' \in [Workers -> {"down"} \cup Booting \cup Looping]
    <2>1. \E from, to \in {"down"} \cup Booting \cup Looping : Go(w, from, to)
      BY DEF MainStep, Start, RegisterRecovers, RegisterUpserts, ReconcileRecovers,
             ReconcileClears, Exit, Poll, LeaseFails, LeaseArrives, SetJob, SetToken,
             ClearCancel, Announce, Download, CheckCancelled, Conclude, Break, Report,
             DropJob, DropToken, Booting, Looping, Taking, Working, Cleaning
    <2> QED
      BY <2>1 DEF Go
  <1>2. CASE Exit(w)
    BY <1>1, <1>2, ForgetTypes DEF Exit
  <1>3. CASE Start(w) \/ RegisterRecovers(w) \/ RegisterUpserts(w)
             \/ ReconcileRecovers(w) \/ ReconcileClears(w) \/ Poll(w) \/ LeaseFails(w)
    BY <1>1, <1>3 DEF Start, RegisterRecovers, RegisterUpserts, ReconcileRecovers,
                      ReconcileClears, Poll, LeaseFails, hbVars
  <1>4. ASSUME NEW j \in Jobs, LeaseArrives(w, j)
        PROVE  LocalTypes' /\ HeartbeatTypes'
    <2>1. [job |-> j, number |-> attempts'[j]] \in Attempt
      BY DEF TypeOK, Attempt
    <2> QED
      BY <1>1, <1>4, <2>1 DEF LeaseArrives, hbVars
  <1>5. CASE SetJob(w) \/ SetToken(w) \/ ClearCancel(w) \/ DropJob(w) \/ DropToken(w)
    BY <1>1, <1>5, AttemptTypes
    DEF SetJob, SetToken, ClearCancel, DropJob, DropToken, hbVars
  <1>6. CASE \/ Announce(w, "fetch", "download", "downloading")
             \/ Announce(w, "prepare", "check", "preparing")
             \/ Announce(w, "announce", "execute", "running")
    BY <1>1, <1>6 DEF Announce, hbVars
  <1>7. CASE Download(w) \/ CheckCancelled(w) \/ Conclude(w) \/ Break(w) \/ Report(w)
    <2>1. verdict' \in [Workers -> Reported]
      BY <1>7 DEF Download, CheckCancelled, Conclude, Break, Report, Reported
    <2> QED
      BY <1>1, <1>7, <2>1 DEF Download, CheckCancelled, Conclude, Break, Report, hbVars
  <1> QED
    BY <1>2, <1>3, <1>4, <1>5, <1>6, <1>7 DEF MainStep

LEMMA HeartbeatStepTypes ==
    ASSUME AgentTypeOK, NEW w \in Workers, HeartbeatStep(w)
    PROVE  LocalTypes' /\ HeartbeatTypes'
  <1> USE DEF AgentTypeOK, LocalTypes, HeartbeatTypes
  <1>1. ASSUME NEW from, Rest(w, from)
        PROVE  HeartbeatTypes'
    BY <1>1, AttemptTypes DEF Rest, Beat
  <1>2. CASE ReadJob(w) \/ ReadToken(w)
    BY <1>2 DEF ReadJob, ReadToken, Beat, mainVars
  <1>3. CASE HeartbeatAnswered(w)
    BY <1>3 DEF HeartbeatAnswered, Beat, mainVars
  <1>4. CASE HeartbeatFails(w)
    BY <1>1, <1>4 DEF HeartbeatFails, mainVars
  <1>5. CASE Judge(w)
    BY <1>1, <1>5 DEF Judge, Beat, mainVars
  <1>6. CASE ApplyCancel(w)
    BY <1>1, <1>6 DEF ApplyCancel
  <1> QED
    BY <1>2, <1>3, <1>4, <1>5, <1>6 DEF HeartbeatStep

LEMMA StopTypes ==
    ASSUME AgentTypeOK, NEW w \in Workers, Signal(w) \/ Crash(w)
    PROVE  LocalTypes' /\ HeartbeatTypes'
  <1> USE DEF AgentTypeOK, LocalTypes, HeartbeatTypes
  <1>1. stops' \in [Workers -> 0 .. MaxStops]
    BY StopsAssumption DEF Signal, Crash
  <1>2. CASE Crash(w)
    BY <1>1, <1>2, ForgetTypes DEF Crash
  <1>3. CASE Signal(w)
    <2> DEFINE set == cancelEvent[w] \/ agentJob[w] # NoJob
    <2>1. set \in BOOLEAN /\ cancelEvent' = [cancelEvent EXCEPT ![w] = set]
      BY <1>3 DEF Signal
    <2> HIDE DEF set
    <2>2. cancelEvent' \in [Workers -> BOOLEAN]
      BY <2>1
    <2> QED
      BY <1>1, <1>3, <2>2 DEF Signal, hbVars
  <1> QED
    BY <1>2, <1>3

LEMMA AgentTypeNext ==
    ASSUME AgentTypeOK, TypeOK', [AgentNext]_agentVars
    PROVE  AgentTypeOK'
  <1>1. CASE UNCHANGED <<mainVars, hbVars>>
    BY <1>1 DEF AgentTypeOK, mainVars, hbVars
  <1>2. LocalTypes' /\ HeartbeatTypes' => AgentTypeOK'
    BY DEF AgentTypeOK, LocalTypes, HeartbeatTypes
  <1> QED
    BY <1>1, <1>2, MainTypes, HeartbeatStepTypes, StopTypes
    DEF AgentNext, Surroundings, agentVars

-----------------------------------------------------------------------------
(* The invariant and the theorems. *)

HandsInv == Registered /\ GotWhileBusy /\ GlobalsFollow /\ AttemptsIssued
            /\ AttemptsExclusive

AgentInv == AgentTypeOK /\ AttemptInv /\ HandsInv

LEMMA AgentInvInit == AgentInit => AgentInv
  <1> SUFFICES ASSUME AgentInit
               PROVE  AgentInv
    OBVIOUS
  <1>1. AttemptInv /\ TypeOK
    BY AttemptInit DEF AgentInit, AttemptInv
  <1>2. AgentTypeOK
    BY <1>1, AttemptTypes, StopsAssumption DEF AgentInit, AgentTypeOK, Reported
  <1>3. \A w \in Workers : /\ pc[w] = "down"
                           /\ got[w] = NoAttempt
                           /\ agentJob[w] = NoJob
                           /\ agentToken[w] = NoAttempt
    BY DEF AgentInit
  <1>4. "down" \notin Looping /\ "down" \notin Busy
    BY DEF Looping, Busy, Taking, Working, Cleaning
  <1>5. NoAttempt.job \notin Jobs
    BY JobsAssumption DEF NoAttempt
  <1>6. Registered
    BY <1>3, <1>4 DEF Registered
  <1>7. HandsInv
    BY <1>3, <1>4, <1>5, <1>6, ShownWhileBusy
    DEF HandsInv, GotWhileBusy, GlobalsFollow, AttemptsIssued, AttemptsExclusive
  <1> QED
    BY <1>1, <1>2, <1>7 DEF AgentInv

LEMMA AgentInvNext == AgentInv /\ [AgentNext]_agentVars => AgentInv'
  <1> SUFFICES ASSUME AgentInv, [AgentNext]_agentVars
               PROVE  AgentInv'
    OBVIOUS
  <1>0. /\ AgentTypeOK /\ AttemptInv /\ Registered /\ GotWhileBusy /\ GlobalsFollow
        /\ AttemptsIssued /\ AttemptsExclusive
    BY DEF AgentInv, HandsInv
  <1>1. [Next]_vars
    BY <1>0, StorePart
  <1>2. AttemptInv' /\ TypeOK'
    BY <1>0, <1>1, AttemptNext DEF AttemptInv
  <1>3. AgentTypeOK'
    BY <1>0, <1>2, AgentTypeNext
  <1>4. HandsInv'
    BY <1>0, <1>1, RegisteredNext, FollowNext, IssuedNext, ExclusiveNext DEF HandsInv
  <1> QED
    BY <1>2, <1>3, <1>4 DEF AgentInv

LEMMA AgentInvariant == AgentSpec => []AgentInv
  BY AgentInvInit, AgentInvNext, PTL DEF AgentSpec

\* Whatever the two threads of every agent do, and whenever it stops or
\* crashes, every global of the process and every column of the store stays
\* well typed.
THEOREM AgentTypeCorrect == AgentSpec => []AgentTypeOK
  <1>1. AgentInv => AgentTypeOK
    BY DEF AgentInv
  <1> QED
    BY <1>1, AgentInvariant, PTL

\* The agents implement the store: polls, reports and heartbeats with the
\* globals as the two threads happen to read them are transactions of CIJobs,
\* for a worker that is registered and an attempt that was issued.
THEOREM AgentsRunJobs == AgentSpec => Spec
  <1>1. AgentInit => Init
    BY DEF AgentInit
  <1>2. AgentInv /\ [AgentNext]_agentVars => [Next]_vars
    BY StorePart DEF AgentInv, HandsInv
  <1> QED
    BY <1>1, <1>2, AgentInvariant, PTL DEF AgentSpec, Spec

\* So what the store promises about any callers it promises to the agents:
\* exact counters, pointers and owners that agree, room for every job, results
\* of the latest attempt only, settled jobs that stay settled.
THEOREM AgentsKeepPromises ==
    AgentSpec => /\ []CountersExact
                 /\ []PointerOwnsJob
                 /\ []OwnedIffActive
                 /\ []CapacityRespected
                 /\ []ResultFromLatestAttempt
                 /\ []SupersedeLinks
                 /\ SettledIsFinal
                 /\ LeaseSpec
  BY AgentsRunJobs, CountersKept, PointersOwned, Owned, CapacityKept, AttemptsFenced,
     Superseded, SettledNeverChanges, ImplementsJobLease, PTL

\* Two agents never work on the same attempt, although an agent whose lease
\* ran out goes on working while the job is leased to another: each has an
\* attempt of its own, and the one that has the current attempt of an active
\* job is the owner that the store knows.
THEOREM AttemptsHaveOneAgent ==
    AgentSpec =>
        [](\A v, w \in Workers, j \in Jobs, t \in Nat :
              WorksOn(w, j, t) =>
                  /\ WorksOn(v, j, t) => v = w
                  /\ t \in 1 .. attempts[j]
                  /\ t = attempts[j] /\ status[j] \in Active => owner[j] = w)
  <1>1. ASSUME AgentInv,
               NEW v \in Workers, NEW w \in Workers, NEW j \in Jobs, NEW t \in Nat,
               WorksOn(w, j, t)
        PROVE  /\ WorksOn(v, j, t) => v = w
               /\ t \in 1 .. attempts[j]
               /\ t = attempts[j] /\ status[j] \in Active => owner[j] = w
    <2>1. got[w] = [job |-> j, number |-> t]
      BY <1>1 DEF WorksOn
    <2>2. got[w].job = j /\ got[w].number = t /\ got[w] # NoAttempt
      BY <2>1, JobsAssumption DEF NoAttempt
    <2>3. AttemptsIssued /\ AttemptsExclusive
      BY <1>1 DEF AgentInv, HandsInv
    <2>4. WorksOn(v, j, t) => v = w
      BY <2>1, <2>2, <2>3 DEF AttemptsExclusive, WorksOn
    <2> QED
      BY <2>2, <2>3, <2>4 DEF AttemptsIssued
  <1>2. AgentInv => \A v, w \in Workers, j \in Jobs, t \in Nat :
              WorksOn(w, j, t) =>
                  /\ WorksOn(v, j, t) => v = w
                  /\ t \in 1 .. attempts[j]
                  /\ t = attempts[j] /\ status[j] \in Active => owner[j] = w
    BY <1>1
  <1> QED
    BY <1>2, AgentInvariant, PTL

\* Between two jobs the globals are clear: when the main loop comes round, no
\* job is current and no token is left, so that neither release_job at the end
\* of main() nor the heartbeat that the main loop sends itself is ever called,
\* and a heartbeat that reads both globals then asks for nothing.
THEOREM IdleHasNoJob ==
    AgentSpec => [](\A w \in Workers :
        pc[w] \in {"idle", "leasing"} =>
            agentJob[w] = NoJob /\ agentToken[w] = NoAttempt)
  <1>1. AgentInv => \A w \in Workers :
            pc[w] \in {"idle", "leasing"} =>
                agentJob[w] = NoJob /\ agentToken[w] = NoAttempt
    <2>1. \A p \in {"idle", "leasing"} : p \notin JobShown /\ p \notin TokenShown
      BY DEF JobShown, TokenShown, Busy, Taking, Working, Cleaning
    <2> QED
      BY <2>1 DEF AgentInv, HandsInv, GlobalsFollow
  <1> QED
    BY <1>1, AgentInvariant, PTL

-----------------------------------------------------------------------------
(* Heartbeats and cancels. *)

\* The attempt a of w is cancelled or has lost its lease.
Unwanted(a, w) == cancelFlag[a.job] \/ ~ Holds(a.job, w, a.number)

\* A token that a heartbeat carries was issued.
SentWasIssued ==
    \A w \in Workers :
        hbToken[w] # NoAttempt => /\ hbToken[w].job \in Jobs
                                  /\ hbToken[w].number \in 1 .. attempts[hbToken[w].job]

\* An answer that asks to cancel is right about the attempt it was asked for.
AnswersAreRight ==
    \A w \in Workers :
        (/\ hbPc[w] \in {"answered", "cancel"} /\ hbAnswer[w]
         /\ hbToken[w] # NoAttempt /\ hbToken[w].job = hbJob[w])
            => Unwanted(hbToken[w], w)

\* After the test of _request_cancel: if the agent still has the attempt of
\* the heartbeat, then the heartbeat asked for the job of that attempt.
CancelsConcern ==
    \A w \in Workers :
        hbPc[w] = "cancel" =>
            /\ hbAnswer[w]
            /\ got[w] # NoAttempt /\ got[w] = hbToken[w] => hbToken[w].job = hbJob[w]

CancelInv == SentWasIssued /\ AnswersAreRight /\ CancelsConcern

\* What a step does to the heartbeat of w.
BeatKept(w) == /\ hbPc'[w] = hbPc[w]
               /\ hbJob'[w] = hbJob[w]
               /\ hbToken'[w] = hbToken[w]
               /\ hbAnswer'[w] = hbAnswer[w]

BeatEnds(w) == hbPc'[w] = "rest" /\ hbToken'[w] = NoAttempt

BeatReads(w) == /\ hbPc'[w] \in {"token", "sent"}
                /\ hbToken'[w] \in {hbToken[w], agentToken[w]}

BeatAnswered(w) ==
    /\ hbPc'[w] = "answered"
    /\ hbJob'[w] = hbJob[w]
    /\ hbToken'[w] = hbToken[w]
    /\ hbAnswer'[w] /\ hbToken[w].job = hbJob[w] => Unwanted(hbToken[w], w)'

BeatJudged(w) ==
    /\ hbPc[w] = "answered" /\ hbPc'[w] = "cancel"
    /\ hbJob'[w] = hbJob[w]
    /\ hbToken'[w] = hbToken[w]
    /\ hbAnswer'[w] = hbAnswer[w]
    /\ got'[w] = got[w]
    /\ Concerns(w)

LEMMA HeartbeatStepRows ==
    ASSUME AgentTypeOK, NEW v \in Workers, HeartbeatStep(v), NEW w \in Workers
    PROVE  \/ BeatKept(w) \/ BeatEnds(w) \/ BeatReads(w) \/ BeatAnswered(w)
           \/ BeatJudged(w)
  <1> USE DEF AgentTypeOK
  <1>1. ASSUME NEW from, Rest(v, from)
        PROVE  BeatKept(w) \/ BeatEnds(w)
    BY <1>1 DEF Rest, Beat, BeatKept, BeatEnds
  <1>2. CASE ReadJob(v) \/ ReadToken(v)
    BY <1>2 DEF ReadJob, ReadToken, Beat, BeatKept, BeatReads
  <1>3. CASE HeartbeatAnswered(v)
    <2>1. PICK answer \in BOOLEAN :
             Serve(v, answer) /\ hbAnswer' = [hbAnswer EXCEPT ![v] = answer]
      BY <1>3 DEF HeartbeatAnswered
    <2>2. /\ hbPc' = [hbPc EXCEPT ![v] = "answered"]
          /\ UNCHANGED <<hbJob, hbToken>>
      BY <1>3 DEF HeartbeatAnswered, Beat
    <2>3. answer /\ hbToken[v].job = hbJob[v] => Unwanted(hbToken[v], v)'
      <3>1. CASE /\ hbToken[v].job = hbJob[v]
                 /\ RenewLease(hbJob[v], v, hbToken[v].number)
                 /\ answer = cancelFlag[hbJob[v]]
        BY <2>2, <3>1 DEF RenewLease, Unwanted
      <3>2. CASE ~ HeartbeatHolds(v) /\ UNCHANGED vars
        BY <2>2, <3>2 DEF HeartbeatHolds, Unwanted, Holds, vars, jobVars
      <3> QED
        BY <2>1, <3>1, <3>2 DEF Serve
    <2>4. CASE w = v
      BY <2>1, <2>2, <2>3, <2>4 DEF BeatAnswered
    <2>5. CASE w # v
      BY <2>1, <2>2, <2>5 DEF BeatKept
    <2> QED
      BY <2>4, <2>5
  <1>4. CASE HeartbeatFails(v) \/ ApplyCancel(v)
    BY <1>1, <1>4 DEF HeartbeatFails, ApplyCancel
  <1>5. CASE Judge(v)
    <2>1. CASE Concerns(v)
      BY <1>5, <2>1 DEF Judge, Beat, mainVars, BeatKept, BeatJudged
    <2>2. CASE ~ Concerns(v)
      BY <1>1, <1>5, <2>2 DEF Judge
    <2> QED
      BY <2>1, <2>2
  <1> QED
    BY <1>2, <1>3, <1>4, <1>5 DEF HeartbeatStep

LEMMA BeatRows ==
    ASSUME AgentTypeOK, [AgentNext]_agentVars, NEW w \in Workers
    PROVE  \/ BeatKept(w) \/ BeatEnds(w) \/ BeatReads(w) \/ BeatAnswered(w)
           \/ BeatJudged(w)
  <1>1. ASSUME UNCHANGED hbVars
        PROVE  BeatKept(w)
    BY <1>1 DEF hbVars, BeatKept
  <1>2. ASSUME NEW v \in Workers, Forget(v)
        PROVE  BeatKept(w) \/ BeatEnds(w)
    BY <1>2 DEF Forget, AgentTypeOK, BeatKept, BeatEnds
  <1>3. ASSUME NEW v \in Workers, MainStep(v)
        PROVE  UNCHANGED hbVars \/ Forget(v)
    BY <1>3
    DEF MainStep, Start, RegisterRecovers, RegisterUpserts, ReconcileRecovers,
        ReconcileClears, Exit, Poll, LeaseFails, LeaseArrives, SetJob, SetToken,
        ClearCancel, Announce, Download, CheckCancelled, Conclude, Break, Report, DropJob,
        DropToken
  <1>4. ASSUME NEW v \in Workers, Signal(v) \/ Crash(v)
        PROVE  UNCHANGED hbVars \/ Forget(v)
    BY <1>4 DEF Signal, Crash
  <1>5. UNCHANGED agentVars \/ Surroundings => UNCHANGED hbVars
    BY DEF agentVars, Surroundings
  <1> QED
    BY <1>1, <1>2, <1>3, <1>4, <1>5, HeartbeatStepRows DEF AgentNext

LEMMA CancelNext ==
    ASSUME AgentInv, CancelInv, [AgentNext]_agentVars
    PROVE  CancelInv'
  <1>0. /\ AgentTypeOK /\ AttemptInv /\ Registered /\ GotWhileBusy /\ GlobalsFollow
        /\ AttemptsIssued /\ TypeOK
    BY DEF AgentInv, HandsInv, AgentTypeOK
  <1>1. [Next]_vars
    BY <1>0, StorePart
  <1> SUFFICES ASSUME NEW w \in Workers
               PROVE  /\ hbToken'[w] # NoAttempt =>
                            /\ hbToken'[w].job \in Jobs
                            /\ hbToken'[w].number \in 1 .. attempts'[hbToken'[w].job]
                      /\ (/\ hbPc'[w] \in {"answered", "cancel"} /\ hbAnswer'[w]
                          /\ hbToken'[w] # NoAttempt /\ hbToken'[w].job = hbJob'[w])
                               => Unwanted(hbToken[w], w)'
                      /\ hbPc'[w] = "cancel" =>
                            /\ hbAnswer'[w]
                            /\ got'[w] # NoAttempt /\ got'[w] = hbToken'[w] =>
                                  hbToken'[w].job = hbJob'[w]
    BY DEF CancelInv, SentWasIssued, AnswersAreRight, CancelsConcern
  <1>2. ASSUME NEW a \in {hbToken[w], agentToken[w]}, a # NoAttempt
        PROVE  /\ a.job \in Jobs
               /\ a.number \in 1 .. attempts[a.job]
               /\ a.number \in 1 .. attempts'[a.job]
    <2>1. a.job \in Jobs /\ a.number \in 1 .. attempts[a.job]
      <3>1. CASE a = hbToken[w]
        BY <1>2, <3>1 DEF CancelInv, SentWasIssued
      <3>2. CASE a = agentToken[w]
        <4>1. pc[w] \in Busy /\ a = got[w]
          BY <1>0, <1>2, <3>2, ShownWhileBusy DEF GlobalsFollow
        <4>2. got[w].job \in Jobs
          BY <1>0, <4>1 DEF GotWhileBusy
        <4> QED
          BY <1>0, <4>1, <4>2 DEF AttemptsIssued
      <3> QED
        BY <1>2, <3>1, <3>2
    <2>2. attempts[a.job] \in Nat /\ RowStep(a.job)
      BY <1>0, <1>1, <2>1, EveryRowSteps DEF TypeOK
    <2>3. attempts'[a.job] \in {attempts[a.job], attempts[a.job] + 1}
      BY <2>2 DEF RowStep, Stays, Created, Leased, TakenBack, Finished, Withdrawn, Keeps
    <2> QED
      BY <2>1, <2>2, <2>3
  <1>3. ASSUME hbToken[w] # NoAttempt, Unwanted(hbToken[w], w), hbToken'[w] = hbToken[w]
        PROVE  Unwanted(hbToken[w], w)'
    <2>1. PICK j \in Jobs : hbToken[w].job = j
      BY <1>2, <1>3
    <2>2. PICK t \in 1 .. attempts[j] : hbToken[w].number = t
      BY <1>2, <1>3, <2>1
    <2>3. cancelFlag[j] => cancelFlag'[j]
      BY <1>0, <1>1, CancelStays
    <2>4. ~ Holds(j, w, t) => ~ Holds(j, w, t)'
      BY <1>0, <1>1, LostStep
    <2> QED
      BY <1>3, <2>1, <2>2, <2>3, <2>4 DEF Unwanted, Holds
  <1>4. hbToken[w] # NoAttempt /\ got'[w] = hbToken[w] => got'[w] = got[w]
    <2>1. got'[w] \in {got[w], NoAttempt} \/ Takes(w)
      BY <1>0, AgentRows DEF OthersKeep, Works, Empty
    <2>2. ASSUME Takes(w), hbToken[w] # NoAttempt
          PROVE  got'[w] # hbToken[w]
      <3>1. PICK j \in Jobs : got'[w] = [job |-> j, number |-> attempts[j] + 1]
        BY <2>2 DEF Takes
      <3>2. attempts[j] \in Nat
        BY <1>0 DEF TypeOK
      <3> QED
        BY <1>2, <2>2, <3>1, <3>2
    <2> QED
      BY <2>1, <2>2
  <1>5. CASE BeatKept(w)
    BY <1>2, <1>3, <1>4, <1>5
    DEF BeatKept, CancelInv, AnswersAreRight, CancelsConcern
  <1>6. CASE BeatEnds(w)
    BY <1>6 DEF BeatEnds
  <1>7. CASE BeatReads(w)
    BY <1>2, <1>7 DEF BeatReads
  <1>8. CASE BeatAnswered(w)
    BY <1>2, <1>8 DEF BeatAnswered
  <1>9. CASE BeatJudged(w)
    <2>1. got[w] # NoAttempt /\ got[w] = hbToken[w] => hbToken[w].job = hbJob[w]
      BY <1>0, <1>9 DEF BeatJudged, Concerns, GlobalsFollow
    <2> QED
      BY <1>2, <1>3, <1>9, <2>1
      DEF BeatJudged, Concerns, CancelInv, AnswersAreRight
  <1> QED
    BY <1>0, <1>5, <1>6, <1>7, <1>8, <1>9, BeatRows

LEMMA CancelInvariant == AgentSpec => []CancelInv
  <1>1. AgentInit => CancelInv
    BY DEF AgentInit, CancelInv, SentWasIssued, AnswersAreRight, CancelsConcern
  <1>2. AgentInv /\ CancelInv /\ [AgentNext]_agentVars => CancelInv'
    BY CancelNext
  <1> QED
    BY <1>1, <1>2, AgentInvariant, PTL DEF AgentSpec

\* The race in _request_cancel has one way to kill a job that is wanted: when
\* the cancel event is set for an attempt whose own token the heartbeat
\* carried, that attempt is cancelled or has lost its lease, however late the
\* answer came.  An attempt that is wanted is killed only by a heartbeat that had
\* read the token before the main thread stored the one of this attempt.
THEOREM CancelSparesWanted ==
    AgentSpec => [][\A w \in Workers :
        (ApplyCancel(w) /\ got[w] # NoAttempt /\ got[w] = hbToken[w])
            => \/ cancelFlag[got[w].job]
               \/ ~ Holds(got[w].job, w, got[w].number)]_agentVars
  <1>1. ASSUME CancelInv, NEW w \in Workers, ApplyCancel(w), got[w] # NoAttempt,
               got[w] = hbToken[w]
        PROVE  Unwanted(got[w], w)
    <2>1. hbPc[w] = "cancel"
      BY <1>1 DEF ApplyCancel, Rest, Beat
    <2> QED
      BY <1>1, <2>1 DEF CancelInv, AnswersAreRight, CancelsConcern
  <1>2. CancelInv => [\A w \in Workers :
            (ApplyCancel(w) /\ got[w] # NoAttempt /\ got[w] = hbToken[w])
                => \/ cancelFlag[got[w].job]
                   \/ ~ Holds(got[w].job, w, got[w].number)]_agentVars
    BY <1>1 DEF Unwanted
  <1> QED
    BY <1>2, CancelInvariant, PTL

-----------------------------------------------------------------------------
(* How often a job is attempted. *)

\* A job that can be leased has an attempt left.
TriesLeft ==
    \A j \in Jobs : /\ attempts[j] <= MaxAttempts
                    /\ status[j] = "queued" => attempts[j] < MaxAttempts

\* Without releases, a job goes back to the queue only with an attempt left.
LEMMA RequeuedWithTries ==
    ASSUME TypeOK, [StoreStep]_vars, NEW j \in Jobs,
           status[j] \in Active, status'[j] = "queued"
    PROVE  attempts[j] < MaxAttempts
  <1> USE DEF TypeOK, Active
  <1>0. attempts[j] \in Nat /\ MaxAttempts \in Nat
    BY LimitsAssumption
  <1>1. ASSUME NEW S \in SUBSET Jobs, Unlease(S, AfterLoss(S))
        PROVE  attempts[j] < MaxAttempts
    BY <1>0, <1>1 DEF Unlease, AfterLoss
  <1>2. CASE PollRecovers
    BY <1>1, <1>2 DEF PollRecovers, RecoverExpiredLeases, Expired
  <1>3. ASSUME NEW w \in Workers, Polls(w)
        PROVE  attempts[j] < MaxAttempts
    BY <1>1, <1>3
    DEF Polls, RecoverWorkerJobs, HeldBy, UpsertWorker, ReconcileWorkerStartup,
        LeaseJob, jobVars
  <1>4. ASSUME NEW k \in Jobs, NEW w \in Workers, NEW t \in Nat, Reports(k, w, t)
        PROVE  FALSE
    BY <1>4
    DEF Reports, RenewLease, SetJobStatus, CompleteJob, Unlease, Reported
  <1>5. ASSUME NEW k \in Jobs, NEW s \in Submissions, NEW f \in BOOLEAN,
               NEW p \in BOOLEAN, CreateOrGetJob(k, s, f, p)
        PROVE  FALSE
    BY <1>5 DEF CreateOrGetJob, InsertJob, NextIdentity
  <1>6. ASSUME NEW k \in Jobs, RequestCancelJob(k) \/ CancelQueuedJob(k)
        PROVE  FALSE
    BY <1>6 DEF RequestCancelJob, CancelQueuedJob, Unlease
  <1>7. CASE \/ \E offline \in SUBSET Workers : ReconcileStaleWorkers(offline)
             \/ Tick \/ UNCHANGED vars
    BY <1>7 DEF ReconcileStaleWorkers, Tick, vars, jobVars
  <1> QED
    BY <1>2, <1>3, <1>4, <1>5, <1>6, <1>7 DEF StoreStep, Client

LEMMA TriesNext ==
    ASSUME AgentInv, TriesLeft, [AgentNext]_agentVars
    PROVE  TriesLeft'
  <1>0. /\ AgentTypeOK /\ AttemptInv /\ Registered /\ GotWhileBusy /\ TypeOK
        /\ MaxAttempts \in Nat \ {0}
    BY LimitsAssumption DEF AgentInv, HandsInv, AgentTypeOK
  <1>1. [StoreStep]_vars /\ [Next]_vars
    BY <1>0, StoreSteps, StorePart
  <1> SUFFICES ASSUME NEW j \in Jobs
               PROVE  /\ attempts'[j] <= MaxAttempts
                      /\ status'[j] = "queued" => attempts'[j] < MaxAttempts
    BY DEF TriesLeft
  <1>2. /\ attempts[j] \in Nat
        /\ attempts[j] <= MaxAttempts
        /\ status[j] = "queued" => attempts[j] < MaxAttempts
        /\ status[j] = "absent" => attempts[j] = 0
    BY <1>0 DEF TypeOK, TriesLeft, AttemptInv, BlankUntilCreated
  <1>3. RowStep(j)
    BY <1>0, <1>1, EveryRowSteps
  <1>4. status[j] \in Active /\ status'[j] = "queued" => attempts[j] < MaxAttempts
    BY <1>0, <1>1, RequeuedWithTries
  <1> QED
    BY <1>0, <1>2, <1>3, <1>4
    DEF RowStep, Stays, Created, Leased, TakenBack, Finished, Withdrawn, Keeps,
        Active, Reported

\* With the agents, whatever crashes and whatever calls are lost, no job is
\* attempted more often than max_attempts: release_job alone puts a job back
\* without an attempt left, and no agent calls it.
THEOREM AttemptsBounded ==
    AgentSpec => [](\A j \in Jobs : attempts[j] <= MaxAttempts)
  <1>1. AgentInit => TriesLeft
    BY LimitsAssumption DEF AgentInit, Init, TriesLeft
  <1>2. AgentInv /\ TriesLeft /\ [AgentNext]_agentVars => TriesLeft'
    BY TriesNext
  <1>3. TriesLeft => \A j \in Jobs : attempts[j] <= MaxAttempts
    BY DEF TriesLeft
  <1> QED
    BY <1>1, <1>2, <1>3, AgentInvariant, PTL DEF AgentSpec
=============================================================================
