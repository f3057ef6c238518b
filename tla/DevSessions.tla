---------------------------- MODULE DevSessions ----------------------------
(***************************************************************************)
(* One development task of MyGitHub12: the workspace row that owns a task  *)
(* branch (mygithub12_workspace.py), the development session bound to it   *)
(* (development_session_store.py) and everything that moves the two rows:  *)
(* the calls that prepare, write, validate, prepare and merge a pull       *)
(* request and close (development_orchestrator.py, mygithub12_dx_mcp.py,   *)
(* development_managed_merge.py) and the recoveries after a drift, a base  *)
(* that moved, a changed base branch or a missing session.                 *)
(*                                                                         *)
(* A SQLite transaction is one step, and so is a call that reads rows and  *)
(* GitHub and then writes under compare-and-set on what it read: a push or *)
(* a lapse in between might as well come after.  Calls with several        *)
(* effects, or whose update goes unchecked, pause in between; call[c]      *)
(* keeps what such a call read.  Pushes from outside move the task branch  *)
(* at any time, the base branches advance, leases lapse and the process    *)
(* restarts.                                                               *)
(*                                                                         *)
(* A commit stands for its tree.  A lease is named by the revision of the  *)
(* workspace that it was granted at; lapsed tells that the current one ran *)
(* out.  Scope, path overlap and reviews are taken to be in order.  Where  *)
(* another workspace owns the branch by then, or GitHub does not answer,   *)
(* the call gives up.                                                      *)
(***************************************************************************)
EXTENDS Integers, FiniteSets

CONSTANTS
    Clients,        \* calls of several steps that may be under way at once
    Commits,
    Child,          \* pairs <<parent, child>> of commits
    Before,         \* proper ancestry: the transitive closure of Child
    Branches,       \* base branches
    Trunk,          \* the states a base branch goes through
    FirstBase,      \* the base branches when the task is prepared
    NoCommit,
    Menu,           \* bound of the model: the calls of several steps
    MaxWsRev, MaxSessRev, MaxMoves      \* bounds of the model

ASSUME CommitsAssumption ==
    /\ NoCommit \notin Commits
    /\ Child \subseteq Before
    /\ Before \subseteq Commits \X Commits
    /\ \A a \in Commits : <<a, a>> \notin Before
    /\ \A a, b, d \in Commits :
          <<a, b>> \in Before /\ <<b, d>> \in Before => <<a, d>> \in Before
    /\ Trunk \subseteq Commits
    /\ Branches # {}
    /\ FirstBase \in [Branches -> Trunk]

\* A row is created at revision 1.
ASSUME BoundsAssumption ==
    /\ MaxWsRev \in Nat \ {0} /\ MaxSessRev \in Nat \ {0}
    /\ MaxMoves \in Nat

VARIABLES
    git,            \* head of the task branch, NoCommit when there is none
    base,           \* heads of the base branches
    ws,             \* the workspace row
    sess,           \* the session row
    lapsed,         \* the lease of the workspace ran out
    req,            \* validations by the session revision they started at
    merged,         \* the head that GitHub merged, NoCommit if none
    call,           \* per client: the call under way and what it read
    moves           \* pushes from outside so far

vars == <<git, base, ws, sess, lapsed, req, merged, call, moves>>

external == <<git, base, merged, moves>>

Forward(a, b) == a = b \/ <<a, b>> \in Before

Bases == [br : Branches, sha : Trunk \cup {NoCommit}]
NoBase == [br |-> CHOOSE b \in Branches : TRUE, sha |-> NoCommit]
Heads == Commits \cup {NoCommit}

WsStatus == {"none", "active", "expired", "drifted", "closed"}
Validating == {"validating_fast", "validating_full"}
ActiveStates == {"preparing", "active", "pr_ready", "drifted", "blocked",
                 "closing"} \cup Validating
TerminalStates == {"merged", "closed", "abandoned", "prepare_failed"}
SessStatus == {"none"} \cup ActiveStates \cup TerminalStates

Idle == [op |-> "idle", w |-> 0, s |-> 0, head |-> NoCommit,
         base |-> NoBase, lease |-> 0, to |-> ""]

Init ==
    /\ git = NoCommit
    /\ base = FirstBase
    /\ ws = [status |-> "none", rev |-> 0, head |-> NoCommit, base |-> NoBase,
             lease |-> 0, drift |-> "none"]
    /\ sess = [status |-> "none", rev |-> 0, w |-> 0, head |-> NoCommit,
               base |-> NoBase, lease |-> 0, pull |-> FALSE]
    /\ lapsed = FALSE
    /\ req = [g \in 1..MaxSessRev |->
                [status |-> "none", mode |-> "", head |-> NoCommit, recorded |-> FALSE]]
    /\ merged = NoCommit
    /\ call = [c \in Clients |-> Idle]
    /\ moves = 0

-----------------------------------------------------------------------------
(* Reading and writing the two rows.                                       *)

\* The status that get_workspace reports: an active row with a lapsed lease
\* is expired.
Effective == IF ws.status = "active" /\ lapsed THEN "expired" ELSE ws.status

Managed == sess.status \in ActiveStates

\* The two rows agree on what they have in common.
SameIdentity == /\ sess.head = ws.head
                /\ sess.base = ws.base
Synced == SameIdentity /\ sess.w = ws.rev /\ sess.lease = ws.lease

\* Client c stops here, or goes on with what it read.
Return(c) == call' = [call EXCEPT ![c] = Idle]
Continue(c, r) == call' = [call EXCEPT ![c] = r]
Starts(c, op) == call[c].op = "idle" /\ op \in Menu
Read(op) == [Idle EXCEPT !.op = op, !.w = ws.rev, !.s = sess.rev]

\* The workspace row takes its next revision, under the lease it has or under
\* a new one.
WsUpdate(row) == /\ ws.rev < MaxWsRev
                 /\ ws' = [row EXCEPT !.rev = ws.rev + 1]
                 /\ UNCHANGED lapsed
\* Faulty: the lease is extended in place.
FaultyWsGrant(row) == /\ ws.rev < MaxWsRev
                      /\ ws' = [row EXCEPT !.lease = ws.rev + 1]
                      /\ lapsed' = FALSE

WsGrant(row) == /\ ws.rev < MaxWsRev
                /\ ws' = [row EXCEPT !.rev = ws.rev + 1, !.lease = ws.rev + 1]
                /\ lapsed' = FALSE

\* The session row takes its next revision.
SessUpdate(row) == /\ sess.rev < MaxSessRev
                   /\ sess' = [row EXCEPT !.rev = sess.rev + 1]

\* Compare-and-set: nobody updated the row since c read it.
WsUnmoved(c) == ws.rev = call[c].w
SessUnmoved(c) == sess.rev = call[c].s

SameRest == UNCHANGED <<req, external>>
SameWs == UNCHANGED <<ws, lapsed>>
SameRows == SameWs /\ UNCHANGED sess

\* A call ends early: a compare-and-set or the index on the owner of a branch
\* refused it, GitHub did not answer, an exception.  The rows stay as they are;
\* prepare_task cleans up instead.
GiveUp(c) ==
    /\ call[c].op \notin {"idle", "prepare", "preparing", "unprepared"}
    /\ Return(c)
    /\ SameRows /\ SameRest

-----------------------------------------------------------------------------
(* The workspace row: mygithub12_workspace.py.                             *)

\* The branch is created at the head of a base branch, or found there.
\* prepare_task goes on with a session.
CreateWorkspace(c) ==
    /\ call[c].op = "idle" /\ ws.status = "none"
    /\ \E br \in Branches, managed \in BOOLEAN :
          LET b == [br |-> br, sha |-> base[br]] IN
          /\ git' = base[br]
          /\ ws' = [status |-> "active", rev |-> 1, head |-> base[br],
                    base |-> b, lease |-> 1, drift |-> "none"]
          /\ IF managed
             THEN Continue(c, [Idle EXCEPT !.op = "prepare", !.w = 1, !.base = b,
                                           !.head = base[br], !.lease = 1])
             ELSE Return(c)
    /\ UNCHANGED <<sess, req, base, lapsed, merged, moves>>

\* The bare lease renewal of a workspace without a session, and the
\* declaration of a scope.
RenewWorkspaceLease ==
    /\ Effective = "active" /\ ~Managed
    /\ WsGrant(ws)
    /\ UNCHANGED <<sess, call>> /\ SameRest

DeclareScope ==
    /\ Effective = "active"
    /\ WsUpdate(ws)
    /\ UNCHANGED <<sess, call>> /\ SameRest

\* Only an expired lease is resumed, and only on the branch it was lost on.
ResumeWorkspace ==
    /\ Effective = "expired" /\ git = ws.head
    /\ WsGrant([ws EXCEPT !.status = "active", !.drift = "none"])
    /\ UNCHANGED <<sess, call>> /\ SameRest

\* refresh_workspace takes the head it finds, and calls it a drift when the
\* row had another one.  Asked twice, it finds the row in order.
RefreshWorkspace ==
    LET drift == CASE git = NoCommit -> "deleted"
                   [] git # NoCommit /\ git # ws.head -> "moved"
                   [] OTHER -> "none"
    IN /\ ws.status \notin {"none", "closed"}
       /\ WsUpdate([ws EXCEPT
             !.head = IF git = NoCommit THEN ws.head ELSE git,
             !.status = CASE drift # "none" -> "drifted"
                          [] drift = "none" /\ lapsed -> "expired"
                          [] OTHER -> "active",
             !.drift = drift])
       /\ UNCHANGED <<sess, call>> /\ SameRest

\* close_workspace does not look whether its update found the row.
CloseRow == [ws EXCEPT !.status = "closed", !.lease = 0]

CloseUpdate(c) == IF WsUnmoved(c) THEN WsUpdate(CloseRow) ELSE SameWs

BeginClose(c) ==
    /\ Starts(c, "close") /\ ws.status # "none"
    /\ Continue(c, Read("close"))
    /\ SameRows /\ SameRest

CloseWorkspace(c) ==
    /\ call[c].op = "close"
    /\ CloseUpdate(c)
    /\ Return(c) /\ UNCHANGED sess /\ SameRest

-----------------------------------------------------------------------------
(* prepare_task: the session of a new workspace.                           *)

CreateSession(c) ==
    /\ call[c].op = "prepare" /\ ~Managed
    /\ sess.status = "none"
    /\ sess' = [status |-> "preparing", rev |-> 1, w |-> call[c].w,
                head |-> call[c].head, base |-> call[c].base,
                lease |-> call[c].lease, pull |-> FALSE]
    /\ Continue(c, [call[c] EXCEPT !.op = "preparing", !.s = 1])
    /\ SameWs /\ SameRest

PreparationCompleted(c) ==
    /\ call[c].op = "preparing" /\ sess.status = "preparing"
    /\ SessUnmoved(c)
    /\ SessUpdate([sess EXCEPT !.status = "active"])
    /\ Return(c)
    /\ SameWs /\ SameRest

\* Index, instructions or context failed: the workspace is closed at the
\* revision it was created with, unless it moved on.
PreparationFails(c) ==
    /\ call[c].op \in {"prepare", "preparing"}
    /\ CloseUpdate(c)
    /\ IF call[c].op = "preparing"
       THEN \E checked \in BOOLEAN :    \* the other change came after the check
              LET answered == ws.rev = call[c].w \/ checked IN
              Continue(c, [call[c] EXCEPT
                 !.op = "unprepared",
                 !.w = IF answered THEN ws'.rev ELSE call[c].w,
                 !.lease = IF answered THEN 0 ELSE call[c].lease])
       ELSE Return(c)
    /\ UNCHANGED sess /\ SameRest

PreparationFailed(c) ==
    /\ call[c].op = "unprepared" /\ sess.status = "preparing"
    /\ SessUnmoved(c)
    /\ SessUpdate([sess EXCEPT !.status = "prepare_failed",
                                  !.w = call[c].w, !.lease = call[c].lease])
    /\ Return(c)
    /\ SameWs /\ SameRest

-----------------------------------------------------------------------------
(* Renewing the lease of workspace and session together, and a session     *)
(* that fell behind its workspace.                                         *)

\* The workspace is in order at the head GitHub has, and the head of the
\* session is that head or an ancestor of it.
FellBehind ==
    /\ Managed /\ Effective = "active" /\ git = ws.head
    /\ Forward(sess.head, ws.head) /\ ~Synced

\* recover_stale_session: the session takes the head, revision and lease of
\* its workspace.  While it validates, its head stays.
RecoverStaleSession ==
    /\ FellBehind /\ sess.base = ws.base
    /\ sess.status \in Validating => SameIdentity
    /\ SessUpdate([sess EXCEPT !.head = ws.head, !.w = ws.rev, !.lease = ws.lease])
    /\ SameWs /\ UNCHANGED call /\ SameRest

\* renew_workspace_lease of a managed workspace and the maintenance that
\* every call on a session starts with.  Rows that differ only in revision
\* or lease are repaired by a stale recovery first.
RenewPair ==
    /\ WsGrant(ws)
    /\ SessUpdate([sess EXCEPT !.w = ws.rev + 1, !.lease = ws.rev + 1])

AutoRenewLease ==
    /\ sess.status \in {"preparing", "active", "pr_ready"} \cup Validating
    /\ Effective = "active" /\ Synced /\ git = ws.head
    /\ RenewPair
    /\ UNCHANGED call /\ SameRest

-----------------------------------------------------------------------------
(* A change: checked against both rows, pushed to GitHub, written to the   *)
(* workspace, then to the session.                                         *)

WriteAdmitted ==
    /\ Managed /\ Effective = "active"
    /\ sess.head = ws.head /\ sess.w = ws.rev
    /\ git = ws.head

BeginWrite(c) ==
    /\ Starts(c, "write") /\ WriteAdmitted
    /\ Continue(c, [Read("write") EXCEPT !.head = ws.head])
    /\ SameRows /\ SameRest

\* The new commit has the head as its parent and the ref is not forced.
PushCommit(c) ==
    /\ call[c].op = "write"
    /\ git = call[c].head
    /\ \E new \in Commits :
          /\ <<git, new>> \in Child
          /\ git' = new
          /\ Continue(c, [call[c] EXCEPT !.op = "pushed", !.head = new])
    /\ SameRows /\ UNCHANGED <<req, base, merged, moves>>

WorkspaceWriteComplete(c) ==
    /\ call[c].op = "pushed"
    /\ WsUnmoved(c)
    /\ WsUpdate([ws EXCEPT !.head = call[c].head])
    /\ Continue(c, [call[c] EXCEPT !.op = "sync", !.w = ws.rev + 1,
                                   !.lease = ws.lease])
    /\ UNCHANGED sess /\ SameRest

\* Faulty: the session takes the revision that the workspace has by now.
FaultySyncFromWorkspace(c) ==
    /\ call[c].op = "sync" /\ Managed
    /\ SessUnmoved(c)
    /\ SessUpdate([sess EXCEPT !.status = "active", !.head = call[c].head,
                               !.w = ws.rev, !.lease = ws.lease])
    /\ Return(c)
    /\ SameWs /\ SameRest

\* after_verified_change: the session takes the workspace as the write left
\* it, and is active again.
SyncFromWorkspace(c) ==
    /\ call[c].op = "sync" /\ Managed
    /\ SessUnmoved(c)
    /\ SessUpdate([sess EXCEPT !.status = "active", !.head = call[c].head,
                                  !.w = call[c].w, !.lease = call[c].lease])
    /\ Return(c)
    /\ SameWs /\ SameRest

-----------------------------------------------------------------------------
(* Validation: validate_development_task and the CI Request it starts.     *)

ValidationStarted(c) ==
    /\ Starts(c, "validate")
    /\ sess.status \in {"active", "pr_ready"}
    /\ Effective = "active" /\ Synced /\ git = ws.head
    /\ \E mode \in Validating :
          /\ SessUpdate([sess EXCEPT !.status = mode])
          /\ req' = [req EXCEPT ![sess.rev + 1] =
                       [status |-> "started", mode |-> mode, head |-> sess.head,
                        recorded |-> FALSE]]
    /\ Continue(c, [Idle EXCEPT !.op = "start_request", !.s = sess.rev + 1,
                                !.to = sess.status])
    /\ SameWs /\ UNCHANGED external

\* The CI Request for the head of the session; correlated to its revision by
\* record_validation, a step later.
StartValidationRequest(c) ==
    /\ call[c].op = "start_request"
    /\ req' = [req EXCEPT ![call[c].s].status = "queued"]
    /\ Continue(c, [call[c] EXCEPT !.op = "record"])
    /\ SameRows /\ UNCHANGED external

\* It could not be started: back to the status before.
RollBackValidation(c) ==
    /\ call[c].op = "start_request"
    /\ sess.status \in Validating
    /\ SessUnmoved(c)
    /\ SessUpdate([sess EXCEPT !.status = call[c].to])
    /\ Return(c)
    /\ SameWs /\ SameRest

RecordValidation(c) ==
    /\ call[c].op = "record"
    /\ SessUnmoved(c) /\ Managed
    /\ req' = [req EXCEPT ![call[c].s].recorded = TRUE]
    /\ Continue(c, [call[c] EXCEPT !.op = "observe"])
    /\ SameRows /\ UNCHANGED external

\* Faulty: a fast validation is as good as a full one.
FaultyVerdict(r) == IF r.status = "passed" THEN "pr_ready" ELSE "active"

\* What a validation that ended makes of the session.
Verdict(r) == IF r.mode = "validating_full" /\ r.status = "passed"
              THEN "pr_ready" ELSE "active"
Ended(r) == r.status \in {"passed", "failed"}

\* The call that started it looks once, and notes that it looked.
ValidationObserved(c) ==
    LET r == req[call[c].s] IN
    /\ call[c].op = "observe" /\ sess.status \in Validating
    /\ SessUnmoved(c)
    /\ SessUpdate([sess EXCEPT
             !.status = IF Ended(r) THEN Verdict(r) ELSE sess.status])
    /\ Return(c)
    /\ SameWs /\ SameRest

\* The validation that owns a validating session: the last one that started.
\* The events since then must be renewals, stale recoveries and observations.
Generation == CHOOSE g \in 1..MaxSessRev :
                 /\ req[g].status # "none"
                 /\ \A h \in g + 1..MaxSessRev : req[h].status = "none"

DriftedApart == /\ ws.status = "drifted" /\ ws.drift = "moved"
                /\ sess.base = ws.base /\ sess.w < ws.rev
                /\ sess.head # ws.head
ExactPair == /\ Effective = "active" /\ ws.drift = "none"
             /\ SameIdentity /\ sess.w = ws.rev /\ git = ws.head

\* The Request is correlated to the generation, names what the session has,
\* and its job ended.
Evidence(r) == /\ r.recorded /\ Ended(r)
               /\ r.head = sess.head /\ r.mode = sess.status

\* bind_validation_request_worker: under the lock the session still validates
\* and the pair is exact, or drifted apart.
BoundPair == /\ sess.status \in Validating
             /\ DriftedApart \/ ExactPair

\* _reconcile_transient_validation, from a later call: the recorded Request
\* of the generation decides.  While the workspace drifted it proves nothing.
ReconcileValidation ==
    LET r == req[Generation] IN
    /\ BoundPair /\ Evidence(r)
    /\ SessUpdate([sess EXCEPT !.status = IF DriftedApart THEN "active" ELSE Verdict(r)])
    /\ SameWs /\ UNCHANGED call /\ SameRest

\* The worker ends the job.
RequestEnds ==
    /\ \E g \in 1..MaxSessRev, st \in {"passed", "failed"} :
          /\ req[g].status = "queued"
          /\ req' = [req EXCEPT ![g].status = st]
    /\ SameRows /\ UNCHANGED <<call, external>>

-----------------------------------------------------------------------------
(* Pull request, merge and close: finalize_development_task.               *)

PullRequestPrepared ==
    /\ sess.status \in {"active", "pr_ready"}
    /\ Effective = "active" /\ Synced
    /\ SessUpdate([sess EXCEPT !.status = "pr_ready", !.pull = TRUE])
    /\ SameWs /\ UNCHANGED call /\ SameRest

\* The gate of merge_github_pull_request: the pull request still has the
\* head that is merged, and a full validation of that head passed.
BeginMerge(c) ==
    /\ Starts(c, "merge")
    /\ sess.status \in {"active", "pr_ready"} /\ sess.pull
    /\ merged = NoCommit
    /\ Continue(c, [Read("merge") EXCEPT !.head = sess.head])
    /\ SameRows /\ SameRest

FullyPassed(head) ==
    \E g \in 1..MaxSessRev : /\ req[g].status = "passed" /\ req[g].head = head
                             /\ req[g].mode = "validating_full"

MergePullRequest(c) ==
    /\ call[c].op = "merge"
    /\ merged = NoCommit /\ git = call[c].head
    /\ FullyPassed(git)
    /\ merged' = git
    /\ Return(c)
    /\ SameRows /\ UNCHANGED <<req, git, base, moves>>

\* The pull request was merged, with the head of the session.
MergeEvidence == merged # NoCommit /\ sess.head = merged

\* Faulty: the workspace is not compared with what was merged.
FaultyMergedTask ==
    /\ MergeEvidence
    /\ sess.status \in {"active", "pr_ready"} /\ ws.status = "active"

\* The call that merged goes on to finish the rows; where it does not, because
\* they moved or the process died, resume_development_task finds the merged
\* pull request later and finishes them.
MergedTask ==
    /\ MergeEvidence
    /\ sess.status \in {"active", "pr_ready"} /\ ws.status = "active"
    /\ sess.w = ws.rev /\ SameIdentity

FinishPair ==
    /\ WsUpdate([CloseRow EXCEPT !.drift = "none"])
    /\ SessUpdate([sess EXCEPT !.status = "merged", !.w = ws.rev + 1,
                               !.lease = 0, !.pull = TRUE])

FinalizeMerged ==
    /\ MergedTask /\ FinishPair
    /\ UNCHANGED call /\ SameRest

\* The session is closing first, then the workspace is closed at the revision
\* it has now, then the session takes the revision that came of it.
SessionClosing(c) ==
    /\ Starts(c, "closing")
    /\ sess.status \in {"active", "pr_ready", "drifted", "blocked"} \cup Validating
    /\ SessUpdate([sess EXCEPT !.status = "closing"])
    /\ Continue(c, [Idle EXCEPT !.op = "closing", !.s = sess.rev + 1])
    /\ SameWs /\ SameRest

ReadForClose(c) ==
    /\ call[c].op = "closing"
    /\ Continue(c, [call[c] EXCEPT !.op = "close_ws", !.w = ws.rev])
    /\ SameRows /\ SameRest

CloseForSession(c) ==
    /\ call[c].op = "close_ws"
    /\ CloseUpdate(c)
    /\ Continue(c, [call[c] EXCEPT !.op = "closed", !.w = ws'.rev])
    /\ UNCHANGED sess /\ SameRest

SessionClosed(c) ==
    /\ call[c].op = "closed" /\ sess.status = "closing"
    /\ SessUnmoved(c)
    /\ SessUpdate([sess EXCEPT !.status = "closed", !.w = call[c].w,
                                  !.lease = 0])
    /\ Return(c)
    /\ SameWs /\ SameRest

-----------------------------------------------------------------------------
(* Recoveries that adopt a head which came from outside.  Each verifies    *)
(* GitHub and both rows, and again inside the transaction that writes them.*)

Drifted == ws.status = "drifted" /\ ws.drift = "moved"
Recoverable == sess.status \in {"active", "blocked", "drifted", "pr_ready"}

\* recover_drifted_task: a branch that only moved forward, on its pinned base.
SameBase(b) ==
    /\ Drifted /\ Recoverable
    /\ <<sess.head, ws.head>> \in Before
    /\ b = ws.base /\ sess.base = b
    /\ base[b.br] = b.sha

\* recover_base_synced_task: the head contains a later state of its base
\* branch, the last one that it shares with the branch.
LastShared(sha, br) ==
    /\ Forward(sha, ws.head) /\ Forward(sha, base[br])
    /\ \A d \in Commits : Forward(d, ws.head) /\ Forward(d, base[br])
                            => Forward(d, sha)

\* The pair as the transaction finds it: still drifted, and pinned in both rows
\* to an earlier state of that branch, or to this one when the branch was
\* synced before.
BaseSyncPair(b) ==
    /\ Drifted /\ Recoverable
    /\ b.br = ws.base.br /\ sess.base = ws.base
    /\ Forward(ws.base.sha, b.sha)

BaseSynced(b) ==
    /\ BaseSyncPair(b)
    /\ Forward(sess.head, ws.head)
    /\ LastShared(b.sha, b.br)

\* recover_retargeted_task: the old base branch was merged into another one and
\* the pull request was moved to that branch.  Both branches are where the
\* caller says, and the head contains the new one.
NewBase(old, b) ==
    /\ old.br # b.br
    /\ base[old.br] = old.sha /\ base[b.br] = b.sha

\* The pair as the transaction finds it: still drifted, and pinned in both rows
\* to the old branch, or to the new one when it was retargeted before.
RetargetPair(old, b) ==
    /\ Drifted /\ Recoverable
    /\ sess.base = ws.base /\ ws.base \in {old, b}

Retargeted(b) ==
    \E old \in Bases :
       /\ RetargetPair(old, b) /\ NewBase(old, b)
       /\ Forward(old.sha, sess.head) /\ Forward(sess.head, ws.head)
       /\ Forward(b.sha, ws.head)

\* The pinned base is still part of its branch.
PinnedBaseHolds == Forward(ws.base.sha, base[ws.base.br])

\* Faulty: the head of the session need not be an ancestor.
FaultyActiveStale ==
    /\ Effective = "active" /\ ws.drift = "none" /\ Managed
    /\ sess.w < ws.rev /\ sess.head # ws.head
    /\ sess.base = ws.base
    /\ PinnedBaseHolds

\* recover_active_workspace_stale_session: the workspace took the new head
\* already, the session did not.
ActiveStale ==
    /\ Effective = "active" /\ ws.drift = "none" /\ Managed
    /\ sess.w < ws.rev /\ <<sess.head, ws.head>> \in Before
    /\ sess.base = ws.base
    /\ PinnedBaseHolds

\* recover_sessionless_workspace: no session ever was, so that nothing was
\* written and the index is pinned where the branch began; the pinned commit
\* is the head, or an ancestor of the head the branch drifted to.
Sessionless ==
    /\ sess.status = "none"
    /\ \/ Drifted /\ <<ws.base.sha, ws.head>> \in Before
       \/ Effective = "active" /\ ws.drift = "none" /\ ws.base.sha = ws.head
    /\ PinnedBaseHolds

\* Faulty: the session keeps its base.
FaultyAdoptHead(b, pull) ==
    /\ git = ws.head
    /\ WsGrant([ws EXCEPT !.status = "active", !.drift = "none", !.base = b])
    /\ SessUpdate([sess EXCEPT !.status = "active", !.head = ws.head,
                               !.w = ws.rev + 1, !.lease = ws.rev + 1,
                               !.pull = pull])
    /\ UNCHANGED call /\ SameRest

\* The drifted pair is activated under a new lease, at the base that the
\* recovery verified.
AdoptHead(b, pull) ==
    /\ git = ws.head
    /\ WsGrant([ws EXCEPT !.status = "active", !.drift = "none", !.base = b])
    /\ SessUpdate([sess EXCEPT !.status = "active", !.head = ws.head, !.base = b,
                               !.w = ws.rev + 1, !.lease = ws.rev + 1,
                               !.pull = pull])
    /\ UNCHANGED call /\ SameRest

AdoptSynced(b) == AdoptHead(b, sess.pull)
AdoptRetargeted(b) == AdoptHead(b, TRUE)

RecoverDrifted == \E b \in Bases : SameBase(b) /\ AdoptHead(b, sess.pull)
RecoverBaseSynced == \E b \in Bases : BaseSynced(b) /\ AdoptSynced(b)
RecoverRetargeted == \E b \in Bases : Retargeted(b) /\ AdoptRetargeted(b)

\* The workspace keeps its lease, and its revision unless its scope grows.
RecoverActiveStale ==
    /\ git = ws.head
    /\ ActiveStale
    /\ \E grows \in BOOLEAN :
          /\ IF grows THEN WsUpdate(ws) ELSE SameWs
          /\ SessUpdate([sess EXCEPT !.status = "active", !.head = ws.head,
                                     !.w = ws'.rev, !.lease = ws.lease])
    /\ UNCHANGED call /\ SameRest

FirstSession ==
    /\ git = ws.head
    /\ Sessionless
    /\ WsGrant([ws EXCEPT !.status = "active", !.drift = "none"])
    /\ sess' = [status |-> "active", rev |-> 1, w |-> ws.rev + 1,
                head |-> ws.head, base |-> ws.base, lease |-> ws.rev + 1,
                pull |-> FALSE]
    /\ UNCHANGED call /\ SameRest

-----------------------------------------------------------------------------
(* The world around.                                                       *)

\* Somebody pushes, forces a push or deletes the branch.
BranchMoves ==
    /\ moves < MaxMoves /\ ws.status # "none"
    /\ moves' = moves + 1
    /\ git' \in (Commits \ Trunk) \cup {NoCommit}
    /\ SameRows /\ UNCHANGED <<req, base, merged, call>>

BaseAdvances ==
    /\ \E br \in Branches, new \in Trunk :
          /\ <<base[br], new>> \in Child
          /\ base' = [base EXCEPT ![br] = new]
    /\ SameRows /\ UNCHANGED <<req, git, merged, call, moves>>

LeaseLapses ==
    /\ ws.status \notin {"none", "closed"} /\ ~lapsed
    /\ lapsed' = TRUE
    /\ UNCHANGED <<ws, sess, call>> /\ SameRest

\* create_workspace for the branch of this task expires a lapsed owner first.
OwnerExpires ==
    /\ Effective = "expired" /\ ws.status = "active"
    /\ ws.rev < MaxWsRev
    /\ ws' = [ws EXCEPT !.status = "expired", !.rev = ws.rev + 1]
    /\ UNCHANGED <<lapsed, sess, call>> /\ SameRest

\* The process dies and comes back: recover_sessions blocks what was being
\* prepared or closed, at the head the workspace has.
Restart ==
    /\ ws.status # "none"
    /\ call' = [c \in Clients |-> Idle]
    /\ IF sess.status \in {"preparing", "closing"}
       THEN /\ sess.rev < MaxSessRev
            /\ sess' = [sess EXCEPT !.status = "blocked", !.rev = sess.rev + 1,
                                    !.w = ws.rev, !.head = ws.head]
       ELSE UNCHANGED sess
    /\ SameWs /\ SameRest

-----------------------------------------------------------------------------
WorkspaceCalls ==
    \/ RenewWorkspaceLease \/ DeclareScope \/ ResumeWorkspace \/ RefreshWorkspace
    \/ \E c \in Clients : CreateWorkspace(c) \/ BeginClose(c) \/ CloseWorkspace(c)

SessionCalls ==
    \/ RecoverStaleSession \/ AutoRenewLease
    \/ \E c \in Clients :
          \/ CreateSession(c) \/ PreparationCompleted(c)
          \/ PreparationFails(c) \/ PreparationFailed(c)
          \/ BeginWrite(c) \/ PushCommit(c) \/ WorkspaceWriteComplete(c)
          \/ SyncFromWorkspace(c)

ValidationCalls ==
    \/ ReconcileValidation
    \/ \E c \in Clients :
          \/ ValidationStarted(c) \/ StartValidationRequest(c)
          \/ RollBackValidation(c) \/ RecordValidation(c) \/ ValidationObserved(c)

FinalizeCalls ==
    \/ PullRequestPrepared \/ FinalizeMerged
    \/ \E c \in Clients :
          \/ BeginMerge(c) \/ MergePullRequest(c)
          \/ SessionClosing(c) \/ ReadForClose(c)
          \/ CloseForSession(c) \/ SessionClosed(c)

RecoveryCalls ==
    \/ RecoverDrifted \/ RecoverBaseSynced \/ RecoverRetargeted
    \/ RecoverActiveStale \/ FirstSession

World ==
    \/ RequestEnds \/ BranchMoves \/ BaseAdvances \/ LeaseLapses
    \/ OwnerExpires \/ Restart

Next ==
    \/ WorkspaceCalls \/ SessionCalls \/ ValidationCalls
    \/ FinalizeCalls \/ RecoveryCalls \/ World
    \/ \E c \in Clients : GiveUp(c)

Spec == Init /\ [][Next]_vars

-----------------------------------------------------------------------------
(* Properties.                                                             *)

WorkspaceRows ==
    [status : WsStatus, rev : 0..MaxWsRev, head : Heads, base : Bases,
     lease : 0..MaxWsRev, drift : {"none", "moved", "deleted"}]

SessionRows ==
    [status : SessStatus, rev : 0..MaxSessRev, w : 0..MaxWsRev, head : Heads,
     base : Bases, lease : 0..MaxWsRev, pull : BOOLEAN]

Requests ==
    [status : {"none", "started", "queued", "passed", "failed"},
     mode : {""} \cup Validating, head : Heads, recorded : BOOLEAN]

Ops == {"idle", "prepare", "preparing", "unprepared", "close", "write",
        "pushed", "sync", "start_request", "record", "observe", "merge",
        "closing", "close_ws", "closed"}

Calls == [op : Ops, w : 0..MaxWsRev, s : 0..MaxSessRev, head : Heads,
          base : Bases, lease : 0..MaxWsRev, to : {"", "active", "pr_ready"}]

\* Every variable has a value of its kind.
TypeOK ==
    /\ git \in Heads
    /\ base \in [Branches -> Trunk]
    /\ ws \in WorkspaceRows
    /\ sess \in SessionRows
    /\ lapsed \in BOOLEAN
    /\ req \in [1..MaxSessRev -> Requests]
    /\ merged \in Heads
    /\ call \in [Clients -> Calls]
    /\ moves \in 0..MaxMoves

\* The revision names the identity: a session that refers to the current
\* revision of its workspace has the head and the base of the workspace,
\* whatever was pushed, refreshed, recovered or restarted before.  Every
\* write is admitted on the strength of this (require_session_workspace).
RevisionNamesIdentity ==
    Managed /\ sess.w = ws.rev => SameIdentity

\* The pinned base of the pair changes in both rows or in neither, so that a
\* live session and its workspace never disagree on it.
OnePinnedBase ==
    Managed => sess.base = ws.base

\* A session is merged only with the head that GitHub merged, and its
\* workspace is closed then, at that head.
MergedIsExact ==
    sess.status = "merged" =>
        /\ ws.status = "closed"
        /\ merged # NoCommit
        /\ sess.head = merged /\ ws.head = merged

\* A session takes another head only if its own is an ancestor: neither a
\* recovery, nor a refresh that is repeated until the drift is gone, nor a
\* late answer makes it adopt a branch that was rewritten.  The restart,
\* which copies the head of the workspace, is the exception.
ForwardOnly ==
    [][ \/ sess.status = "none"
        \/ Forward(sess.head, sess'.head)
        \/ Restart ]_vars

\* A validation makes a session ready for its pull request only if the CI
\* passed for the very head that the session has at that moment.
ReadyIsProven ==
    [][ sess.status \in Validating /\ sess'.status = "pr_ready" =>
          \/ FullyPassed(sess'.head)
          \/ \E c \in Clients : RollBackValidation(c) ]_vars

WsContents == [status : WsStatus, head : Heads, base : Bases,
               lease : 0..MaxWsRev, drift : {"none", "moved", "deleted"}]
WsContent == [status |-> ws.status, head |-> ws.head, base |-> ws.base,
              lease |-> ws.lease, drift |-> ws.drift]
WsFinal(x) == x.status = "closed"

WorkspaceRow == INSTANCE Revisioned
    WITH Contents <- WsContents, Final <- WsFinal,
         content <- WsContent, rev <- ws.rev

SessContents == [status : SessStatus, w : 0..MaxWsRev, head : Heads, base : Bases,
                 lease : 0..MaxWsRev, pull : BOOLEAN]
SessContent == [status |-> sess.status, w |-> sess.w, head |-> sess.head,
                base |-> sess.base, lease |-> sess.lease, pull |-> sess.pull]
SessFinal(x) == x.status \in TerminalStates

SessionRow == INSTANCE Revisioned
    WITH Contents <- SessContents, Final <- SessFinal,
         content <- SessContent, rev <- sess.rev

\* Both rows are rows that callers can quote by revision: nothing changes
\* under the same revision, revisions are taken one by one, and a session
\* or workspace that is closed stays as it is, whichever call or recovery
\* answers late.
RowsAreRevisioned == WorkspaceRow!Spec /\ SessionRow!Spec

=============================================================================
