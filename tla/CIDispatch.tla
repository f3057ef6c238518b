----------------------------- MODULE CIDispatch -----------------------------
(***************************************************************************)
(* The background dispatcher of ci_request_dispatch.py over the CI         *)
(* Requests of CIRequests: the controller processes that accept Requests,  *)
(* their preparation threads, the preflight against GitHub, restarts, and  *)
(* the leader lease of runtime_generation.py that decides which process    *)
(* takes up the Requests of an earlier one.                                *)
(*                                                                         *)
(* Several controller processes (generations) may serve the one database.  *)
(* The queue, _SCHEDULED and the locals of the threads are memory of a     *)
(* process; a thread reads a Request once and asks for its transitions     *)
(* with the revision it read.  _QUEUE is a set: threads may take its       *)
(* Requests in any order.                                                  *)
(***************************************************************************)
EXTENDS CIRequests

CONSTANTS
    Controllers,    \* runtime generations
    Threads,        \* preparation threads of each, _WORKER_COUNT
    NoRequest,
    NoLeader,
    MaxCrashes,     \* bound of the model: crashes of all controllers
    MaxFailures     \* bound of the model: database errors in a thread

ASSUME DispatchAssumption ==
    /\ NoRequest \notin Requests
    /\ NoLeader \notin Controllers
    /\ MaxCrashes \in Nat
    /\ MaxFailures \in Nat

VARIABLES
    head,           \* GitHub: the Request at whose commit a branch stands,
                    \* NoRequest at any other commit
    proc,           \* down, booting, serving
    leader,         \* runtime_leader_leases.generation_id while not expired
    elected,        \* maintenance_leader["acquired"] of a process
    backlog,        \* _QUEUE
    scheduled,      \* _SCHEDULED
    at,             \* where a thread is
    handled,        \* the Request it handles
    seen,           \* the revision it read
    crashes,
    failures

processVars == <<proc, leader, elected, backlog, scheduled>>
threadVars == <<at, handled, seen>>
boundVars == <<crashes, failures>>
dispatchVars == <<allVars, head, processVars, threadVars, boundVars>>

BranchOf(q) == <<RequestSub[q].repo, RequestSub[q].branch>>
Branches == {BranchOf(q) : q \in Requests}

DispatchTypeOK ==
    /\ ReqTypeOK
    /\ head \in [Branches -> Requests \cup {NoRequest}]
    /\ proc \in [Controllers -> {"down", "booting", "serving"}]
    /\ leader \in Controllers \cup {NoLeader}
    /\ elected \in [Controllers -> BOOLEAN]
    /\ backlog \in [Controllers -> SUBSET Requests]
    /\ scheduled \in [Controllers -> SUBSET Requests]
    /\ at \in [Controllers -> [Threads -> {"free", "read", "advance", "reread",
                  "preflight", "reject", "dispatch", "discard"}]]
    /\ handled \in [Controllers -> [Threads -> Requests \cup {NoRequest}]]
    /\ seen \in [Controllers -> [Threads -> Nat]]
    /\ crashes \in 0 .. MaxCrashes
    /\ failures \in 0 .. MaxFailures

DispatchInit ==
    /\ ReqInit
    /\ head = [b \in Branches |-> NoRequest]
    /\ proc = [g \in Controllers |-> "down"]
    /\ leader = NoLeader
    /\ elected = [g \in Controllers |-> FALSE]
    /\ backlog = [g \in Controllers |-> {}]
    /\ scheduled = [g \in Controllers |-> {}]
    /\ at = [g \in Controllers |-> [t \in Threads |-> "free"]]
    /\ handled = [g \in Controllers |-> [t \in Threads |-> NoRequest]]
    /\ seen = [g \in Controllers |-> [t \in Threads |-> 0]]
    /\ crashes = 0
    /\ failures = 0

-----------------------------------------------------------------------------
(* Processes. *)

\* schedule_ci_request_preparation for every Request of S
Schedule(g, S) ==
    LET new == S \ scheduled[g]
    IN  /\ scheduled' = [scheduled EXCEPT ![g] = @ \cup new]
        /\ backlog' = [backlog EXCEPT ![g] = @ \cup new]

\* lifespan up to acquire_leader: the repair of init_db, and the lease if no
\* other generation holds it
Boot(g) ==
    /\ proc[g] = "down"
    /\ proc' = [proc EXCEPT ![g] = "booting"]
    /\ StartController
    /\ elected' = [elected EXCEPT ![g] = leader \in {g, NoLeader}]
    /\ leader' = IF leader = NoLeader THEN g ELSE leader
    /\ UNCHANGED <<head, backlog, scheduled, threadVars, boundVars>>

\* The rest of lifespan: recover_pending_ci_requests, by an elected process.
Serve(g) ==
    /\ proc[g] = "booting"
    /\ proc' = [proc EXCEPT ![g] = "serving"]
    /\ IF elected[g]
       THEN Schedule(g, {q \in Requests : reqStatus[q] \in Waiting})
       ELSE UNCHANGED <<backlog, scheduled>>
    /\ UNCHANGED <<allVars, head, leader, elected, threadVars, boundVars>>

\* maintain_leader_lease keeps or takes the lease and does nothing else
MaintainLease(g) ==
    /\ proc[g] = "serving"
    /\ leader = NoLeader
    /\ leader' = g
    /\ UNCHANGED <<allVars, head, proc, elected, backlog, scheduled, threadVars,
                   boundVars>>

LeaseExpires ==
    /\ leader # NoLeader
    /\ leader' = NoLeader
    /\ UNCHANGED <<allVars, head, proc, elected, backlog, scheduled, threadVars,
                   boundVars>>

Crash(g) ==
    /\ proc[g] # "down"
    /\ crashes < MaxCrashes
    /\ crashes' = crashes + 1
    /\ proc' = [proc EXCEPT ![g] = "down"]
    /\ elected' = [elected EXCEPT ![g] = FALSE]
    /\ backlog' = [backlog EXCEPT ![g] = {}]
    /\ scheduled' = [scheduled EXCEPT ![g] = {}]
    /\ at' = [at EXCEPT ![g] = [t \in Threads |-> "free"]]
    /\ handled' = [handled EXCEPT ![g] = [t \in Threads |-> NoRequest]]
    /\ seen' = [seen EXCEPT ![g] = [t \in Threads |-> 0]]
    /\ UNCHANGED <<allVars, head, leader, failures>>

\* start_private_ci_job: a new Request is stored and then scheduled; dying in
\* between is the same as dying right after.
Accept(g, q) ==
    /\ proc[g] = "serving"
    /\ CreateRequest(q)
    /\ Schedule(g, {q})
    /\ UNCHANGED <<head, proc, leader, elected, threadVars, boundVars>>

\* start_private_ci_job with a key that is known already
Replay(g, q) ==
    /\ proc[g] = "serving"
    /\ reqStatus[q] \in Waiting
    /\ q \notin scheduled[g]
    /\ Schedule(g, {q})
    /\ UNCHANGED <<allVars, head, proc, leader, elected, threadVars, boundVars>>

\* A push moves the branch to the commit of a Request or to another one.
Push(q) ==
    /\ \E c \in {q, NoRequest} \ {head[BranchOf(q)]} :
          head' = [head EXCEPT ![BranchOf(q)] = c]
    /\ UNCHANGED <<allVars, processVars, threadVars, boundVars>>

-----------------------------------------------------------------------------
(* process_ci_request, by thread t of process g. *)

Step(g, t, from, to) ==
    /\ at[g][t] = from
    /\ at' = [at EXCEPT ![g][t] = to]
    /\ UNCHANGED <<head, proc, leader, elected>>

\* The database refuses a transaction; process_ci_request gives up.
Fail(g, t, from) ==
    /\ failures < MaxFailures
    /\ failures' = failures + 1
    /\ Step(g, t, from, "discard")
    /\ UNCHANGED <<allVars, backlog, scheduled, handled, seen, crashes>>

\* _QUEUE.get(), forgetting at once that the Request is scheduled.
FaultyTake(g, t, q) ==
    /\ proc[g] = "serving"
    /\ q \in backlog[g]
    /\ Step(g, t, "free", "read")
    /\ backlog' = [backlog EXCEPT ![g] = @ \ {q}]
    /\ scheduled' = [scheduled EXCEPT ![g] = @ \ {q}]
    /\ handled' = [handled EXCEPT ![g][t] = q]
    /\ UNCHANGED <<allVars, seen, boundVars>>

Take(g, t, q) ==
    /\ proc[g] = "serving"
    /\ q \in backlog[g]
    /\ Step(g, t, "free", "read")
    /\ backlog' = [backlog EXCEPT ![g] = @ \ {q}]
    /\ handled' = [handled EXCEPT ![g][t] = q]
    /\ UNCHANGED <<allVars, scheduled, seen, boundVars>>

\* get_ci_request, at the start and after a conflict
Read(g, t) ==
    LET q == handled[g][t]
    IN  /\ \/ Step(g, t, "read", "advance") /\ reqStatus[q] = "accepted"
           \/ Step(g, t, "read", "preflight") /\ reqStatus[q] = "preparing"
           \/ Step(g, t, "read", "discard") /\ reqStatus[q] \notin Waiting
           \/ Step(g, t, "reread", "preflight") /\ reqStatus[q] = "preparing"
           \/ Step(g, t, "reread", "discard") /\ reqStatus[q] # "preparing"
        /\ seen' = [seen EXCEPT ![g][t] = revision[q]]
        /\ UNCHANGED <<allVars, backlog, scheduled, handled, boundVars>>

Advancing(g, t) ==
    LET q == handled[g][t]
    IN  \/ /\ Step(g, t, "advance", "preflight")
           /\ TransitionRequest(q, seen[g][t], "preparing")
           /\ seen' = [seen EXCEPT ![g][t] = @ + 1]
           /\ UNCHANGED <<backlog, scheduled, handled, boundVars>>
        \/ /\ Step(g, t, "advance", "reread")
           /\ revision[q] # seen[g][t]
           /\ UNCHANGED <<allVars, backlog, scheduled, handled, seen, boundVars>>
        \/ Fail(g, t, "advance")

\* _perform_ci_request_preflight: it passes only while the branch stands at the
\* commit, and may fail for any reason
Preflight(g, t) ==
    LET q == handled[g][t]
    IN  /\ \/ Step(g, t, "preflight", "dispatch") /\ head[BranchOf(q)] = q
           \/ Step(g, t, "preflight", "reject")
        /\ UNCHANGED <<allVars, backlog, scheduled, handled, seen, boundVars>>

\* _mark_preflight_failed
Reject(g, t) ==
    LET q == handled[g][t]
    IN  \/ /\ Step(g, t, "reject", "discard")
           /\ \/ TransitionRequest(q, seen[g][t], "preflight_failed")
              \/ revision[q] # seen[g][t] /\ UNCHANGED allVars
           /\ UNCHANGED <<backlog, scheduled, handled, seen, boundVars>>
        \/ Fail(g, t, "reject")

\* dispatch_ci_request; a Request that is bound or has moved on stays
Dispatch(g, t) ==
    LET q == handled[g][t]
    IN  \/ /\ Step(g, t, "dispatch", "discard")
           /\ \/ \E j \in Jobs : DispatchRequest(q, seen[g][t], j)
              \/ revision[q] # seen[g][t] /\ UNCHANGED allVars
           /\ UNCHANGED <<backlog, scheduled, handled, seen, boundVars>>
        \/ Fail(g, t, "dispatch")

\* Leaves the Request scheduled.
FaultyDiscard(g, t) ==
    /\ Step(g, t, "discard", "free")
    /\ handled' = [handled EXCEPT ![g][t] = NoRequest]
    /\ seen' = [seen EXCEPT ![g][t] = 0]
    /\ UNCHANGED <<allVars, backlog, scheduled, boundVars>>

\* The finally of _worker_loop.
Discard(g, t) ==
    /\ Step(g, t, "discard", "free")
    /\ scheduled' = [scheduled EXCEPT ![g] = @ \ {handled[g][t]}]
    /\ handled' = [handled EXCEPT ![g][t] = NoRequest]
    /\ seen' = [seen EXCEPT ![g][t] = 0]
    /\ UNCHANGED <<allVars, backlog, boundVars>>

-----------------------------------------------------------------------------
ThreadStep(g, t) ==
    \/ \E q \in Requests : Take(g, t, q)
    \/ Read(g, t) \/ Advancing(g, t) \/ Preflight(g, t) \/ Reject(g, t)
    \/ Dispatch(g, t) \/ Discard(g, t)

ProcessStep(g) ==
    \/ Boot(g) \/ Serve(g) \/ MaintainLease(g) \/ Crash(g)
    \/ \E q \in Requests : Accept(g, q) \/ Replay(g, q)

\* Workers, clients that cancel, and attestations: see CIRequests.
JobsGoOn ==
    /\ JobStep \/ AttestationStep
    /\ UNCHANGED <<head, processVars, threadVars, boundVars>>

DispatchNext ==
    \/ \E g \in Controllers : ProcessStep(g) \/ \E t \in Threads : ThreadStep(g, t)
    \/ \E q \in Requests : Push(q)
    \/ LeaseExpires
    \/ JobsGoOn

DispatchSpec == DispatchInit /\ [][DispatchNext]_dispatchVars

\* The container runtime starts a controller when none is up, a started one
\* gets to serve, and its threads go on: network calls time out, and database
\* errors are bounded.
RunningFairness ==
    /\ WF_dispatchVars((\A g \in Controllers : proc[g] = "down")
                       /\ \E g \in Controllers : Boot(g))
    /\ \A g \in Controllers :
          /\ WF_dispatchVars(Serve(g))
          /\ \A t \in Threads : WF_dispatchVars(ThreadStep(g, t))

\* Clients ask again while their Request waits.
ReplayFairness ==
    \A q \in Requests : WF_dispatchVars(\E g \in Controllers : Replay(g, q))

FairDispatchSpec == DispatchSpec /\ RunningFairness
PatientSpec == FairDispatchSpec /\ ReplayFairness

-----------------------------------------------------------------------------
(* Properties. *)

\* In one process a Request is handled by one thread at a time, and exactly
\* the Requests that wait for a thread or are handled by one are scheduled: a
\* replay never starts a second preflight and is never swallowed for good.
OneThreadPerRequest ==
    \A g \in Controllers :
        /\ scheduled[g] = backlog[g] \cup ({handled[g][t] : t \in Threads} \ {NoRequest})
        /\ \A t, u \in Threads :
              handled[g][t] # NoRequest =>
                  /\ handled[g][t] \notin backlog[g]
                  /\ t # u => handled[g][t] # handled[g][u]

\* Every Request is dispatched or fails its preflight in the end if its client
\* keeps asking, whatever crashes, restarts and database errors came between.
WaitingEnds ==
    \A q \in Requests : reqStatus[q] \in Waiting ~> reqStatus[q] \notin Waiting

\* What recover_pending_ci_requests promises: after a restart the waiting
\* Requests are prepared without anybody asking again.
RestartResumes ==
    \A g \in Controllers, q \in Requests :
        (proc[g] = "booting" /\ reqStatus[q] \in Waiting)
            ~> reqStatus[q] \notin Waiting

\* What the design says of supersede: a new head supersedes the queued job of
\* an old one, so that the job of the commit at which the branch stands is
\* never superseded.
HeadSupersedesOld ==
    [][\A q \in Requests :
          LET j == boundJob[q]
          IN  (j # NoJob /\ head[BranchOf(q)] = q /\ status[j] = "queued")
                  => status'[j] # "superseded"]_dispatchVars
=============================================================================
