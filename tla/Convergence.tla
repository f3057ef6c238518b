----------------------------- MODULE Convergence -----------------------------
(***************************************************************************)
(* The convergence of a development task: development_converge.py over     *)
(* development_convergence_store.py, one development session, the code     *)
(* index of CodeIndex, and the CI Requests a convergence asks for.         *)
(*                                                                         *)
(* converge_task waits for nothing: each call reads, moves its Run as far  *)
(* as the facts allow, and returns; callers call again.  Calls overlap,    *)
(* each with the copies of the rows it read, and every write to a Run or   *)
(* to the session is a compare-and-set on the revision of such a copy.  A  *)
(* revision is modelled by what it is for: a call knows whether its copy   *)
(* is still the row, and every write to a row makes the other copies stale.*)
(*                                                                         *)
(* A Run is named by the idempotency key it was created under.             *)
(***************************************************************************)
EXTENDS CodeIndex

CONSTANTS
    Clients,
    Others,         \* the keys of callers that want the index only
    Mode,           \* fast or full, by key
    Stages,         \* the analysis callbacks of _ANALYSIS_CALLBACKS
    NoRun,
    MaxUpsets       \* bound of the model: faults, calls begun during another
                    \* one and moves of the branch, all together

ASSUME ConvergenceAssumption ==
    /\ Others \subseteq Keys
    /\ Mode \in [Keys -> {"fast", "full"}]
    /\ Commits \subseteq Nat /\ 0 \in Commits
    /\ "index" \notin Stages
    /\ NoRun \notin Keys
    /\ TreeOf \in [Commits -> Commits]
    /\ MaxUpsets \in Nat

AnalysisStages == {"index"} \cup Stages
Runs == Keys \ Others
Requests == Runs    \* the Request of key convergence:<id of the Run>

VARIABLES
    run,            \* the rows of development_convergences
    req,            \* the CI Requests, moved by the CI control plane
    sess,           \* the session row: its head, the Request whose evidence
                    \* it is bound to, whether it is active or pr_ready
    tip,            \* the head of the branch on GitHub
    call,           \* what each client's call is at
    upsets

convVars == <<run, req, sess, tip, call, upsets>>
vars == <<indexVars, convVars>>

-----------------------------------------------------------------------------
(* Rows.                                                                   *)

Rank(phase) ==
    CASE phase = "none" -> 0
      [] phase = "accepted" -> 1
      [] phase = "index_requested" -> 2
      [] phase = "analysis_pending" -> 3
      [] phase = "ci_requested" -> 4
      [] phase = "ci_running" -> 5
      [] phase = "post_ci_finalize" -> 6
      [] OTHER -> 7

Terminal(r) == r.phase \in {"passed", "failed", "blocked"}
Exists(k) == run[k].phase # "none"

NewRun(h) ==
    [phase |-> "accepted", status |-> "accepted", head |-> h,
     stage |-> [s \in AnalysisStages |-> "pending"],
     ijob |-> NoJob, asked |-> FALSE, cjob |-> FALSE, att |-> FALSE]

AllReady(r) == \A s \in AnalysisStages : r.stage[s] = "ready"

NoRequest == [status |-> "none", att |-> FALSE]

\* worker_job_id is written when the Request is queued.
HasJob(q) == q.status \in {"queued", "running", "passed", "failed"}
Ended(q) == q.status \in {"passed", "failed"}

Idle == [pc |-> "idle", key |-> NoRun, k |-> NoRun, snap |-> [NewRun(0) EXCEPT !.phase = "none"],
         fresh |-> FALSE, again |-> FALSE,
         seen |-> [head |-> 0, ev |-> NoRun, active |-> TRUE],
         sfresh |-> FALSE, wfresh |-> FALSE, index |-> "pending", job |-> NoJob,
         todo |-> {}, bad |-> {}, whole |-> FALSE, q |-> NoRequest]

Init ==
    /\ IndexInit({0})
    /\ run = [k \in Runs |-> Idle.snap]
    /\ req = [k \in Requests |-> NoRequest]
    /\ sess = [head |-> 0, ev |-> NoRun, active |-> TRUE]
    /\ tip = 0
    /\ call = [c \in Clients |-> Idle]
    /\ upsets = 0

-----------------------------------------------------------------------------
(* Calls, their copies, and the writes that need a fresh copy.             *)

Upset == upsets < MaxUpsets /\ upsets' = upsets + 1

At(c, pc) == call[c].pc = pc
Continue(c, rec) == call' = [call EXCEPT ![c] = rec]
Return(c) == Continue(c, Idle)

\* A MyGithub12Error: inside the CI track it is caught.
Raise(c) ==
    IF call[c].pc \in {"bindreq", "bindjob"}
      THEN Continue(c, [call[c] EXCEPT !.pc = "cifail", !.fresh = FALSE, !.again = FALSE])
      ELSE Return(c)

\* Where a call goes on; a call that has ended keeps nothing.
Onward(rec, pc) ==
    IF pc = "idle" THEN Idle ELSE [rec EXCEPT !.pc = pc, !.again = FALSE]

\* The call goes on at pc, its copy is the new row; the copies the other
\* calls have are old.
Wrote(c, me, pc) ==
    call' = [d \in Clients |->
               IF d = c THEN Onward([me EXCEPT !.fresh = TRUE], pc)
               ELSE IF call[d].k = call[c].k THEN [call[d] EXCEPT !.fresh = FALSE]
               ELSE call[d]]

\* One compare-and-set write of a call and its one repetition on a mismatch.
\* me is the call as it goes on after the write; whether a write is needed or
\* refused, and the row it makes, follow from the copy in me.
TryWrite(c, me, needed, refused, new, pc) ==
       IF ~needed
         THEN Continue(c, Onward(me, pc)) /\ UNCHANGED run
       ELSE IF me.fresh
         THEN IF refused
                THEN Raise(c) /\ UNCHANGED run
                ELSE /\ run' = [run EXCEPT ![me.k] = new]
                     /\ IF new = me.snap THEN Continue(c, Onward(me, pc))
                                         ELSE Wrote(c, [me EXCEPT !.snap = new], pc)
       ELSE IF ~me.again
         THEN /\ Continue(c, [call[c] EXCEPT !.snap = run[me.k], !.fresh = TRUE, !.again = TRUE])
              /\ UNCHANGED run
         ELSE Raise(c) /\ UNCHANGED run

\* transition_convergence: writes whatever phase it is asked for.
Transitioned(r, phase, status) == [r EXCEPT !.phase = phase, !.status = status]

\* Faulty: the phase that is asked for is not compared with the one it has.
FaultyTransition(c, phase, status, pc) ==
    LET r == call[c].snap
    IN TryWrite(c, call[c], ~Terminal(r), Terminal(r), Transitioned(r, phase, status), pc)

\* _transition_if_needed: the phase only moves forward, the status follows.
Transition(c, phase, status, pc) ==
    LET r == call[c].snap
        moves == Rank(phase) > Rank(r.phase)
    IN TryWrite(c, call[c],
                ~Terminal(r) /\ (moves \/ r.status # status),
                Terminal(r),
                Transitioned(r, IF moves THEN phase ELSE r.phase, status), pc)

\* _bind_once: the first identity stays.
Bind(c, field, unbound, value, pc) ==
    LET r == call[c].snap
    IN TryWrite(c, call[c], TRUE,
                Terminal(r) \/ r[field] \notin {unbound, value},
                [r EXCEPT ![field] = value], pc)

\* record_analysis_state
RecordStage(c, me, s, state, pc) ==
    LET r == me.snap
    IN TryWrite(c, me, r.stage[s] # state, Terminal(r), [r EXCEPT !.stage[s] = state], pc)

\* record_terminal_evidence: a terminal Run may still get it.
RecordEvidence(c, pc) ==
    LET r == call[c].snap
    IN TryWrite(c, call[c], call[c].q.att /\ ~r.att, FALSE, [r EXCEPT !.att = TRUE], pc)

\* A write to the session row: the new row, and whether it goes with a new
\* revision of the workspace.
WriteSession(new, moved, calls) ==
    /\ sess' = new
    /\ call' = [d \in Clients |->
                  [calls[d] EXCEPT !.sfresh = FALSE, !.wfresh = @ /\ ~moved]]

-----------------------------------------------------------------------------
(* converge_task up to the index: the Run, and whether it is still the     *)
(* Run of what the session and the branch are.                             *)

\* The revision gate and the session are read, nothing is locked.
Begin(c, k) ==
    /\ At(c, "idle")
    /\ Continue(c, [Idle EXCEPT !.pc = "open", !.key = k, !.seen = sess,
                               !.sfresh = TRUE, !.wfresh = TRUE])
    /\ IF \E d \in Clients : ~At(d, "idle")
         THEN Upset
         ELSE UNCHANGED upsets
    /\ UNCHANGED <<indexVars, run, req, sess, tip>>

Take(c, k, pc) ==
    Continue(c, [call[c] EXCEPT !.pc = pc, !.k = k, !.snap = run[k], !.fresh = TRUE])

\* A Run that has ended is answered, and its evidence once more offered to
\* the session.
UseRun(c, k) ==
    IF ~Terminal(run[k]) THEN Take(c, k, "verify")
    ELSE IF run[k].phase = "passed" /\ Mode[k] = "full"
      THEN Continue(c, [call[c] EXCEPT !.pc = "sync", !.k = k, !.snap = run[k],
                          !.fresh = TRUE, !.q = [req[k] EXCEPT !.att = run[k].att]])
      ELSE Return(c)

SameTask(k, c) == /\ run[k].head = call[c].seen.head
                  /\ Mode[k] = Mode[call[c].key]

ActiveRuns(c) == {k \in Runs : Exists(k) /\ ~Terminal(run[k]) /\ SameTask(k, c)}

CreateOrGet(c) ==
    LET k == call[c].key
    IN IF Exists(k)
         THEN UseRun(c, k) /\ UNCHANGED run
       ELSE IF ActiveRuns(c) # {}
         THEN (\E a \in ActiveRuns(c) : UseRun(c, a)) /\ UNCHANGED run
         ELSE LET new == NewRun(call[c].seen.head)
              IN /\ run' = [run EXCEPT ![k] = new]
                 /\ Continue(c, [call[c] EXCEPT !.pc = "verify", !.k = k,
                                               !.snap = new, !.fresh = TRUE])

\* The key belongs to a Run of another identity: that Run is blocked.
Conflict(c) ==
    LET k == call[c].key
    IN IF Terminal(run[k]) THEN Return(c) ELSE Take(c, k, "block")

Open(c) ==
    /\ At(c, "open")
    /\ \/ /\ IF Exists(call[c].key) /\ run[call[c].key].head # call[c].seen.head
              THEN Conflict(c) /\ UNCHANGED run
              ELSE CreateOrGet(c)
         /\ UNCHANGED upsets
       \/ /\ Exists(call[c].key) /\ Upset     \* asked for in another mode, or on another base
          /\ Conflict(c) /\ UNCHANGED run
    /\ UNCHANGED <<indexVars, req, sess, tip>>

\* _verify_current_identity: the copy of the session, the workspace as it
\* is now, the branch as it is now.
Verified(c) == /\ call[c].snap.head = call[c].seen.head
               /\ call[c].wfresh
               /\ tip = call[c].seen.head

Verify(c) ==
    /\ At(c, "verify")
    /\ \/ Continue(c, Onward(call[c], IF Verified(c) THEN "index" ELSE "block"))
         /\ UNCHANGED upsets
       \/ /\ Upset
          /\ Continue(c, Onward(call[c], "block"))    \* GitHub does not answer
    /\ UNCHANGED <<indexVars, run, req, sess, tip>>

Block(c) ==
    /\ At(c, "block")
    /\ Transition(c, "blocked", "blocked", "idle")
    /\ UNCHANGED <<indexVars, req, sess, tip, upsets>>

-----------------------------------------------------------------------------
(* _advance_index_and_analysis.                                            *)

IndexAnswer(j) ==
    CASE job[j] = "completed" -> "ready"
      [] job[j] \in {"failed", "cancelled"} -> "failed"
      [] OTHER -> "pending"

\* The status of the index is read first; a Run that has its job leaves it at
\* that, also when the read failed.
LookAtIndex(c, answered) ==
    /\ At(c, "index")
    /\ IF answered /\ call[c].snap.head \in ready
         THEN Continue(c, [call[c] EXCEPT !.pc = "recidx", !.index = "ready"])
       ELSE IF call[c].snap.ijob # NoJob
         THEN Continue(c, [call[c] EXCEPT !.pc = "recidx", !.index = "pending"])
         ELSE Continue(c, [call[c] EXCEPT !.pc = "askidx"])
    /\ IF answered THEN UNCHANGED upsets ELSE Upset
    /\ UNCHANGED <<indexVars, run, req, sess, tip>>

\* The index may have come in between; then there is no job to bind.
AskForIndex(c) ==
    LET h == call[c].snap.head
        j == AnsweredBy(call[c].key, h)
    IN /\ At(c, "askidx")
       /\ \/ /\ RequestIndexBuild(call[c].key, h)
             /\ Continue(c, IF j = NoJob
                   THEN [call[c] EXCEPT !.pc = "recidx", !.index = "ready"]
                   ELSE [call[c] EXCEPT !.pc = "bindidx", !.job = j, !.index = IndexAnswer(j)])
             /\ UNCHANGED upsets
          \/ /\ Upset
             /\ Continue(c, [call[c] EXCEPT !.pc = "recidx", !.index = "failed"])
             /\ UNCHANGED indexVars
       /\ UNCHANGED <<run, req, sess, tip>>

Index(c) == LookAtIndex(c, TRUE) \/ LookAtIndex(c, FALSE) \/ AskForIndex(c)

BindIndex(c) ==
    /\ At(c, "bindidx")
    /\ Bind(c, "ijob", NoJob, call[c].job, "recidx")
    /\ UNCHANGED <<indexVars, req, sess, tip, upsets>>

RecordIndex(c) ==
    /\ At(c, "recidx")
    /\ CASE call[c].index = "ready" -> RecordStage(c, call[c], "index", "ready", "stages")
         [] call[c].index = "failed" -> RecordStage(c, call[c], "index", "failed", "asked")
         [] OTHER -> Continue(c, Onward(call[c], "asked")) /\ UNCHANGED run
    /\ UNCHANGED <<indexVars, req, sess, tip, upsets>>

\* A transition that is asked for only while the copy is before a phase; its
\* repetition does not ask again.
Early(c, before, phase, status, pc) ==
    IF call[c].again \/ Rank(call[c].snap.phase) < Rank(before)
      THEN Transition(c, phase, status, pc)
      ELSE Continue(c, Onward(call[c], pc)) /\ UNCHANGED run

IndexRequested(c) ==
    /\ At(c, "asked")
    /\ Early(c, "index_requested", "index_requested", "pending", "waiting")
    /\ UNCHANGED <<indexVars, req, sess, tip, upsets>>

AnalysisPending(c) ==
    /\ At(c, "waiting")
    /\ Early(c, "analysis_pending", "analysis_pending",
             IF call[c].index = "failed" THEN "degraded" ELSE "pending", "request")
    /\ UNCHANGED <<indexVars, req, sess, tip, upsets>>

\* Analysis that counts as whole only in the call that ran the callbacks.
FaultyRunStages(c) ==
    LET pending == {s \in Stages : call[c].snap.stage[s] = "pending"}
    IN /\ At(c, "stages")
       /\ \E bad \in SUBSET pending :
            Continue(c, [call[c] EXCEPT !.pc = "record", !.todo = pending, !.bad = bad,
                                      !.whole = bad = {} /\ pending # {}])
       /\ UNCHANGED <<indexVars, run, req, sess, tip, upsets>>

\* The callbacks of the stages that are pending in the copy, and the
\* evidence resource, which may fail to be stored.
RunStages(c) ==
    LET pending == {s \in Stages : call[c].snap.stage[s] = "pending"}
    IN /\ At(c, "stages")
       /\ \E bad \in SUBSET pending, stored \in BOOLEAN :
            /\ IF stored THEN UNCHANGED upsets ELSE Upset
            /\ Continue(c, [call[c] EXCEPT !.pc = "record", !.todo = pending, !.bad = bad,
                                          !.whole = stored /\ bad = {}])
       /\ UNCHANGED <<indexVars, run, req, sess, tip>>

RecordOne(c) ==
    /\ At(c, "record") /\ call[c].todo # {}
    /\ LET s == CHOOSE s \in call[c].todo : TRUE
       IN RecordStage(c, [call[c] EXCEPT !.todo = @ \ {s}], s,
                      IF s \in call[c].bad THEN "failed" ELSE "ready", "record")
    /\ UNCHANGED <<indexVars, req, sess, tip, upsets>>

AnalysisReady(c) ==
    /\ At(c, "record") /\ call[c].todo = {}
    /\ Early(c, "ci_requested", "analysis_pending",
             IF AllReady(call[c].snap) THEN "ready"
             ELSE IF call[c].whole THEN "pending" ELSE "degraded", "request")
    /\ UNCHANGED <<indexVars, req, sess, tip, upsets>>

-----------------------------------------------------------------------------
(* _advance_ci_track.                                                      *)

\* What the analysis came to is told by the copy of now.
Onto(c, pc) ==
    Continue(c, [call[c] EXCEPT !.pc = pc, !.whole = @ /\ AllReady(call[c].snap),
                              !.todo = {}, !.bad = {}, !.job = NoJob])

\* The Request is found again by its key when an earlier call made it and
\* was not able to bind it.
CreateRequest(c) ==
    /\ At(c, "request")
    /\ IF call[c].snap.asked
         THEN Onto(c, "read") /\ UNCHANGED req
         ELSE /\ Onto(c, "bindreq")
              /\ req' = [req EXCEPT ![call[c].k] =
                           IF @.status = "none" THEN [@ EXCEPT !.status = "accepted"] ELSE @]
    /\ UNCHANGED <<indexVars, run, sess, tip, upsets>>

BindRequest(c) ==
    /\ At(c, "bindreq")
    /\ Bind(c, "asked", FALSE, TRUE, "read")
    /\ UNCHANGED <<indexVars, req, sess, tip, upsets>>

ReadRequest(c) ==
    /\ At(c, "read")
    /\ LET q == req[call[c].k]
       IN Continue(c, [call[c] EXCEPT !.q = q,
             !.pc = IF HasJob(q) /\ ~call[c].snap.cjob THEN "bindjob" ELSE "finalize"])
    /\ UNCHANGED <<indexVars, run, req, sess, tip, upsets>>

BindJob(c) ==
    /\ At(c, "bindjob")
    /\ Bind(c, "cjob", FALSE, TRUE, "finalize")
    /\ UNCHANGED <<indexVars, req, sess, tip, upsets>>

\* converge_task catches what the CI track raises, with the copy from before.
CITrackFailed(c) ==
    /\ At(c, "cifail")
    /\ Transition(c, "failed", "failed", "idle")
    /\ UNCHANGED <<indexVars, req, sess, tip, upsets>>

-----------------------------------------------------------------------------
(* _finalize_ci_state and _sync_full_ci_session_evidence.                  *)

FullGate(c) == Mode[call[c].key] = "full"

Finalize(c) ==
    /\ At(c, "finalize")
    /\ LET q == call[c].q
       IN CASE ~Ended(q) ->
                 Transition(c, IF q.status = "running" THEN "ci_running" ELSE "ci_requested",
                            q.status, "idle")
            [] q.status = "failed" -> Transition(c, "failed", "failed", "idle")
            [] q.status = "passed" /\ FullGate(c) /\ ~q.att ->
                 Transition(c, "post_ci_finalize", "pending", "idle")
            [] OTHER -> RecordEvidence(c, "proven")
    /\ UNCHANGED <<indexVars, req, sess, tip, upsets>>

Complete(c) ==
    /\ At(c, "proven")
    /\ IF call[c].whole /\ AllReady(call[c].snap)
         THEN Continue(c, Onward(call[c], "sync")) /\ UNCHANGED run
         ELSE Transition(c, "post_ci_finalize",
                         IF call[c].index = "pending" THEN "pending" ELSE "degraded", "idle")
    /\ UNCHANGED <<indexVars, req, sess, tip, upsets>>

AfterSync(c) == IF Terminal(call[c].snap) THEN "idle" ELSE "finalizing"

\* The evidence has to fit the copy of the session; record_validation wants
\* that copy to be the row.
Provable(c) ==
    LET me == call[c]
    IN /\ me.q.status = "passed" /\ me.q.att
       /\ me.seen.active /\ me.seen.head = me.snap.head

Sync(c) ==
    /\ At(c, "sync")
    /\ IF ~Provable(c) THEN Return(c)
       ELSE IF call[c].seen.ev = call[c].k
         THEN Continue(c, Onward(call[c], AfterSync(c)))
       ELSE IF call[c].sfresh
         THEN Continue(c, Onward(call[c], "bindev"))
         ELSE Return(c)
    /\ UNCHANGED <<indexVars, run, req, sess, tip, upsets>>

\* A call that lost the revision accepts its own evidence from another.
AlreadyBound(c) == sess.ev = call[c].k /\ sess.head = call[c].snap.head

\* The evidence is written whatever revision the session has by now.
FaultyBindEvidence(c) ==
    /\ At(c, "bindev")
    /\ WriteSession([sess EXCEPT !.ev = call[c].k], FALSE,
                    [call EXCEPT ![c] = Onward(call[c], AfterSync(c))])
    /\ UNCHANGED <<indexVars, run, req, tip, upsets>>

BindEvidence(c) ==
    /\ At(c, "bindev")
    /\ LET done == [call EXCEPT ![c] = Onward(call[c], AfterSync(c))]
       IN CASE call[c].sfresh ->
                 WriteSession([sess EXCEPT !.ev = call[c].k], FALSE, done)
            [] ~call[c].sfresh /\ AlreadyBound(c) -> call' = done /\ UNCHANGED sess
            [] OTHER -> Return(c) /\ UNCHANGED sess
    /\ UNCHANGED <<indexVars, run, req, tip, upsets>>

PostCIFinalize(c) ==
    /\ At(c, "finalizing")
    /\ Transition(c, "post_ci_finalize", "finalizing", "passing")
    /\ UNCHANGED <<indexVars, req, sess, tip, upsets>>

Pass(c) ==
    /\ At(c, "passing")
    /\ Transition(c, "passed", "passed", "idle")
    /\ UNCHANGED <<indexVars, req, sess, tip, upsets>>

Step(c) ==
    \/ Open(c) \/ Verify(c) \/ Block(c)
    \/ Index(c) \/ BindIndex(c) \/ RecordIndex(c)
    \/ IndexRequested(c) \/ AnalysisPending(c)
    \/ RunStages(c) \/ RecordOne(c) \/ AnalysisReady(c)
    \/ CreateRequest(c) \/ BindRequest(c) \/ ReadRequest(c) \/ BindJob(c)
    \/ CITrackFailed(c) \/ Finalize(c) \/ Complete(c)
    \/ Sync(c) \/ BindEvidence(c) \/ PostCIFinalize(c) \/ Pass(c)

-----------------------------------------------------------------------------
(* What goes on beside the calls.                                          *)

\* The CI control plane: CIRequests, CIDispatch and CIJobs.
RequestMoves(k) ==
    /\ \E next \in CASE req[k].status = "accepted" -> {"queued", "failed"}
                     [] req[k].status = "queued" -> {"running", "failed"}
                     [] req[k].status = "running" -> {"passed", "failed"}
                     [] OTHER -> {} :
         req' = [req EXCEPT ![k].status = next]
    /\ UNCHANGED <<indexVars, run, sess, tip, call, upsets>>

\* The attestation of a full gate, in a transaction after the job passed.
RequestAttested(k) ==
    /\ req[k].status = "passed" /\ Mode[k] = "full" /\ ~req[k].att
    /\ req' = [req EXCEPT ![k].att = TRUE]
    /\ UNCHANGED <<indexVars, run, sess, tip, call, upsets>>

\* The session pins its head as long as it is open; the pin lapses with the
\* lease and its grace.  What else is pinned is left open.
PruneStep(j) ==
    /\ \E pins \in SUBSET Commits :
         /\ Prune(j, pins)
         /\ IF sess.active => sess.head \in pins THEN UNCHANGED upsets ELSE Upset
    /\ UNCHANGED <<run, req, sess, tip, call>>

BuildStep(j) == PruneStep(j) \/ (Build(j) /\ UNCHANGED convVars)

\* The index tools, and the analysis tools that want an index.
OthersAsk(k, h) ==
    /\ Upset
    /\ RequestIndexBuild(k, h)
    /\ UNCHANGED <<run, req, sess, tip, call>>

\* The branch moves, by a write of the session or by anyone.
Push ==
    /\ tip + 1 \in Commits
    /\ Upset
    /\ tip' = tip + 1
    /\ UNCHANGED <<indexVars, run, req, sess, call>>

\* The session takes the head over: an ordinary write keeps its evidence, a
\* recovery clears it.
Join ==
    /\ sess.head # tip
    /\ \E ev \in {sess.ev, NoRun} :
         WriteSession([sess EXCEPT !.head = tip, !.ev = ev], TRUE, call)
    /\ UNCHANGED <<indexVars, run, req, tip, upsets>>

Fault ==
    /\ Upset
    /\ UNCHANGED <<run, req, tip>>

\* A renewal of the workspace lease.
Renew ==
    /\ Fault
    /\ WriteSession(sess, TRUE, call)
    /\ UNCHANGED indexVars

Close ==
    /\ Fault
    /\ WriteSession([sess EXCEPT !.active = FALSE], FALSE, call)
    /\ UNCHANGED indexVars

Restart ==
    /\ Fault
    /\ ThreadsDie
    /\ call' = [c \in Clients |-> Idle]
    /\ UNCHANGED sess

Recover ==
    /\ Fault
    /\ RecoverOrphanedIndexJobs
    /\ UNCHANGED <<sess, call>>

IndexTrouble(j) ==
    /\ Fault
    /\ CancelIndexJob(j) \/ FailBuild(j)
    /\ UNCHANGED <<sess, call>>

Environment ==
    \/ \E k \in Requests : RequestMoves(k) \/ RequestAttested(k)
    \/ \E j \in Jobs : BuildStep(j) \/ IndexTrouble(j)
    \/ \E k \in Others, h \in Commits : OthersAsk(k, h)
    \/ Push \/ Join \/ Renew \/ Close \/ Restart \/ Recover

Next ==
    \/ \E c \in Clients : Step(c) \/ \E k \in Runs : Begin(c, k)
    \/ Environment

\* Callers call again, a call under way ends, the builder threads and the CI
\* control plane get their turns.
Fairness ==
    /\ \A k \in Runs : SF_vars(\E c \in Clients : Exists(k) /\ Begin(c, k))
    /\ \A c \in Clients : WF_vars(Step(c))
    /\ \A j \in Jobs : WF_vars(BuildStep(j))
    /\ \A k \in Requests : WF_vars(RequestMoves(k))

Spec == Init /\ [][Next]_vars
FairSpec == Spec /\ Fairness

-----------------------------------------------------------------------------
(* Properties.                                                             *)

RunRows ==
    [phase : {"none", "accepted", "index_requested", "analysis_pending", "ci_requested",
              "ci_running", "post_ci_finalize", "passed", "failed", "blocked"},
     status : {"accepted", "pending", "degraded", "ready", "queued", "running",
               "finalizing", "passed", "failed", "blocked"},
     head : Commits, stage : [AnalysisStages -> {"pending", "ready", "failed"}],
     ijob : Jobs \cup {NoJob}, asked : BOOLEAN, cjob : BOOLEAN, att : BOOLEAN]

\* Every row has its type; a copy that no write made stale is the row, which
\* is what the compare-and-set writes rest on.
TypeOK ==
    /\ IndexTypeOK
    /\ run \in [Runs -> RunRows]
    /\ sess.head \in Commits /\ sess.ev \in Requests \cup {NoRun}
    /\ \A c \in Clients :
         /\ call[c].fresh => call[c].snap = run[call[c].k]
         /\ call[c].sfresh => call[c].seen = sess

\* A session is only ever bound to the evidence of a full Request that
\* passed, has its attestation, and ran on the head the session has at that
\* moment, however old the copies of the call are.
EvidenceBound ==
    [][sess'.ev \notin {sess.ev, NoRun} =>
         /\ req[sess'.ev].status = "passed" /\ req[sess'.ev].att
         /\ Mode[sess'.ev] = "full"
         /\ run[sess'.ev].head = sess.head /\ sess.active]_vars

\* Overlapping calls never take a Run back: its phase only advances, an end
\* stays, its head and the identities bound to it stay, and it passes only
\* with a passed Request and the attestation that a full gate needs.
RunsAdvance ==
    [][\A k \in Runs :
         Exists(k) =>
           /\ Rank(run'[k].phase) >= Rank(run[k].phase)
           /\ Terminal(run[k]) => run'[k].phase = run[k].phase
           /\ run'[k].head = run[k].head
           /\ run[k].ijob # NoJob => run'[k].ijob = run[k].ijob
           /\ run[k].cjob => run'[k].cjob /\ run[k].asked
           /\ run'[k].phase = "passed" =>
                 req[k].status = "passed" /\ run[k].cjob /\ run[k].att]_vars

\* What keeps a Run from its end: a stage that failed is not run again, a
\* lost or failed index job is not asked for again, the branch or the
\* session moved on, or CI passed without an attestation.
IndexLost(k) == run[k].ijob # NoJob /\ run[k].head \notin ready /\ thread[run[k].ijob] = "none"
Held(k) ==
    \/ \E s \in AnalysisStages : run[k].stage[s] = "failed"
    \/ IndexLost(k)
    \/ tip # run[k].head \/ ~sess.active
    \/ req[k].status = "passed" /\ ~req[k].att

\* A full Run that its callers keep calling for ends, unless it is held.
RunSettles ==
    \A k \in Runs : (Exists(k) /\ Mode[k] = "full") ~> (Terminal(run[k]) \/ Held(k))

\* "A passed fast CI needs no attestation": a fast Run whose Request passed
\* and whose stages are all ready ends.
FastSettles ==
    \A k \in Runs :
      (Mode[k] = "fast" /\ req[k].status = "passed" /\ AllReady(run[k]))
         ~> Terminal(run[k])

==============================================================================
