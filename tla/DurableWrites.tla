--------------------------- MODULE DurableWrites ---------------------------
(***************************************************************************)
(* The writes of MyGitHub10 and MyGitHub12 to one task branch: the durable *)
(* operation rows (mygithub10.py), the finalization (mcp_server.py) and    *)
(* the prepared change sets, which are claimed, written and recovered      *)
(* under an idempotency key (development_change_set_store.py,              *)
(* mygithub12_dx_mcp.py).                                                  *)
(*                                                                         *)
(* Five kinds of requests share the way to the branch:                     *)
(*   prepared   a frozen change set, written by apply_development_change_  *)
(*              set and then taken by the workspace and the session        *)
(*   direct     patches, range edits, replacements, uploads, file modes:   *)
(*              the workspace is checked before the operation starts       *)
(*   put        put_github_file(s): checked after the operation started    *)
(*   generated  put_generated_files: the workspace and the session are     *)
(*              looked up after the operation started                      *)
(*   files      commit_github_files: no key, nothing is replayed           *)
(*                                                                         *)
(* Every call to SQLite or GitHub that others can see or that can be cut   *)
(* off by a crash is a step; checks that a later compare-and-set repeats   *)
(* are part of that step.  Commits are numbered along the branch, which    *)
(* only moves forward.  A caller keeps to one key space per request and    *)
(* quotes the same revisions and head whenever it repeats a request.       *)
(* commit_github_files can do without: such a call promises nothing, and   *)
(* is what OutsidePush and TakeUnquoted do to the others.                  *)
(***************************************************************************)
EXTENDS Naturals, FiniteSets

CONSTANTS
    Clients,        \* calls that may be under way at once
    Requests,
    Kind,           \* the kind of each request
    KeysOf,         \* the idempotency keys a caller may use for it
    NoKey,
    MaxAsked,       \* bound of the model: requests made
    MaxFaults       \* bound of the model: crashes and moves of others

Keys == UNION {KeysOf[r] : r \in Requests}

ASSUME RequestsAssumption ==
    /\ Kind \in [Requests -> {"prepared", "direct", "put", "generated", "files"}]
    /\ KeysOf \in [Requests -> SUBSET Keys]
    /\ NoKey \notin Keys
    /\ \A r, q \in Requests : r # q => KeysOf[r] \cap KeysOf[q] = {}
    /\ MaxAsked \in Nat /\ MaxFaults \in Nat

VARIABLES
    head,           \* number of commits on the task branch
    made,           \* per request: the commits made for it
    ws,             \* the workspace row
    sess,           \* the session row
    op,             \* mygithub10_operations, by key
    row,            \* prepared_change_sets; what the caller quotes otherwise
    bytes,          \* prepared change sets whose artifact can be read
    call,           \* per client: the call under way
    taken, joined, told,    \* history: requests that the workspace took, that
                            \* the session joined and that were answered ok
    faults          \* crashes and moves of others so far

vars == <<head, made, ws, sess, op, row, bytes, call, taken, joined, told, faults>>

git == <<head, made>>
rows == <<ws, sess>>
sets == <<row, bytes>>
history == <<taken, joined, told>>

Idle == [pc |-> "idle", r |-> NoKey, k |-> NoKey, w |-> 0, s |-> 0,
         commit |-> 0, again |-> FALSE, ok |-> FALSE]

Init ==
    /\ head = 0
    /\ made = [r \in Requests |-> {}]
    /\ ws = [rev |-> 0, head |-> 0]
    /\ sess = [rev |-> 0, w |-> 0, head |-> 0]
    /\ op = [k \in Keys |-> [status |-> "none", commit |-> 0, old |-> FALSE]]
    /\ row = [r \in Requests |->
                [status |-> "none", key |-> NoKey, w |-> 0, s |-> 0, head |-> 0,
                 stale |-> FALSE, late |-> FALSE, ok |-> FALSE]]
    /\ bytes = {}
    /\ call = [c \in Clients |-> Idle]
    /\ taken = {} /\ joined = {} /\ told = {}
    /\ faults = 0

-----------------------------------------------------------------------------
(* Calls and rows.                                                         *)

Prepared(r) == Kind[r] = "prepared"
Replayable(r) == Kind[r] # "files"
ChangeSets == {r \in Requests : Prepared(r)}

At(c, pc) == call[c].pc = pc
Idling(c) == At(c, "idle")
Goto(c, pc) == call' = [call EXCEPT ![c].pc = pc]
Continue(c, rec) == call' = [call EXCEPT ![c] = rec]
Return(c) == call' = [call EXCEPT ![c] = Idle]

\* An exception: the call answers with it, after mark_failed_terminal when it
\* has claimed a prepared change set.
Raise(c) == IF Prepared(call[c].r) /\ ~call[c].again
              THEN Goto(c, "fail")
              ELSE Return(c)

\* _idempotent_finish: by operation id, whatever the status is by now.
SetOp(c, status) ==
    op' = IF Replayable(call[c].r)
            THEN [op EXCEPT ![call[c].k].status = status,
                            ![call[c].k].commit = call[c].commit]
            ELSE op

\* The rows and the branch agree; require_session_workspace and the
\* preflights of a write to the workspace check this.
Synced == /\ sess.w = ws.rev
          /\ sess.head = ws.head
          /\ head = ws.head

Request(r, k) == [Idle EXCEPT !.r = r, !.k = k, !.w = row[r].w, !.s = row[r].s]

-----------------------------------------------------------------------------
(* Asking for a write and claiming a prepared one.                         *)

Asked == {r \in Requests : row[r].status # "none"}

\* The row binds what is asked to the revisions and the head.
Bound(r) ==
    [row[r] EXCEPT !.status = IF Prepared(r) THEN "PREPARED" ELSE "ASKED",
                   !.w = ws.rev, !.s = sess.rev, !.head = ws.head]

\* The dry run freezes the artifact; a caller of the other kinds quotes what
\* it saw.
Artifact(r) == IF Prepared(r) THEN {r} ELSE {}

Ask(r) ==
    /\ row[r].status = "none" /\ Cardinality(Asked) < MaxAsked
    /\ Synced
    /\ row' = [row EXCEPT ![r] = Bound(r)]
    /\ bytes' = bytes \cup Artifact(r)
    /\ UNCHANGED <<op, call, git, rows, history, faults>>

\* load_prepared_bytes.
Readable(r) == row[r].status = "PREPARED" /\ ~row[r].late /\ r \in bytes

\* require_session_workspace, the strict dry run and claim_for_write.
Claimable(r) ==
    /\ Readable(r)
    /\ sess.rev = row[r].s /\ ws.rev = row[r].w
    /\ Synced /\ head = row[r].head

ClaimForWrite(c, r, k) ==
    /\ row' = [row EXCEPT ![r].status = "EXECUTING", ![r].key = k, ![r].stale = FALSE]
    /\ Continue(c, [Request(r, k) EXCEPT !.pc = "start"])

Claim(c, r, k) ==
    /\ Idling(c)
    /\ Claimable(r)
    /\ ClaimForWrite(c, r, k)
    /\ UNCHANGED <<op, bytes, git, rows, history, faults>>

\* The call that released a stale claim goes on as any other.
Reclaim(c) ==
    /\ At(c, "load")
    /\ IF Claimable(call[c].r)
         THEN ClaimForWrite(c, call[c].r, call[c].k)
         ELSE Return(c) /\ UNCHANGED row
    /\ UNCHANGED <<op, bytes, git, rows, history, faults>>

\* replay_write: the recorded result, which may be a failure after the commit.
Replay(r, k) ==
    /\ row[r].status = "COMMITTED" /\ row[r].key = k /\ ~row[r].late
    /\ told' = IF row[r].ok THEN told \cup {r} ELSE told
    /\ UNCHANGED <<op, call, git, rows, sets, taken, joined, faults>>

-----------------------------------------------------------------------------
(* recover_executing_write: a retry meets a claim under its own key.       *)

Executing(r, k) == row[r].status = "EXECUTING" /\ row[r].key = k

\* Faulty: only finished operations are resumed.
FaultyResumable(k) == op[k].status = "success_verified"

\* The operation reached GitHub: its recorded result is carried on.
Resumable(k) == op[k].status \in {"git_verified", "success_verified"}

ResumeWrite(c, r, k) ==
    /\ Idling(c) /\ Executing(r, k) /\ Resumable(k)
    /\ Continue(c, [Request(r, k) EXCEPT
          !.pc = IF op[k].status = "git_verified" THEN "hold" ELSE "sync",
          !.commit = op[k].commit, !.again = TRUE])
    /\ UNCHANGED <<op, git, rows, sets, history, faults>>

\* There is no operation and the claim is older than 300 seconds.
FindUnstarted(c, r, k) ==
    /\ Idling(c) /\ Executing(r, k)
    /\ op[k].status = "none" /\ row[r].stale
    /\ Continue(c, [Request(r, k) EXCEPT !.pc = "release"])
    /\ UNCHANGED <<op, git, rows, sets, history, faults>>

Freed(claim) == [claim EXCEPT !.status = "PREPARED", !.key = NoKey, !.stale = FALSE]

Release(c) ==
    LET r == call[c].r IN
    /\ At(c, "release")
    /\ IF Executing(r, call[c].k)
         THEN row' = [row EXCEPT ![r] = Freed(row[r])] /\ Goto(c, "load")
         ELSE Return(c) /\ UNCHANGED row
    /\ UNCHANGED <<op, bytes, git, rows, history, faults>>

-----------------------------------------------------------------------------
(* _idempotent_start and what each kind checks before and after it.        *)

\* workspace_write_preflight, with the revision that the caller quoted.
WorkspaceOk(r) == head = ws.head /\ head = row[r].head /\ ws.rev = row[r].w

BeginCall(c, r, k) ==
    /\ Idling(c) /\ row[r].status = "ASKED" /\ k \in KeysOf[r]
    /\ Continue(c, [Request(r, k) EXCEPT !.pc = "start"])
    /\ UNCHANGED <<op, git, rows, sets, history, faults>>

BeginDirect(c, r, k) == Kind[r] = "direct" /\ WorkspaceOk(r) /\ BeginCall(c, r, k)

BeginPut(c, r, k) == Kind[r] = "put" /\ BeginCall(c, r, k)

BeginGenerated(c, r, k) == Kind[r] = "generated" /\ BeginCall(c, r, k)

BeginFiles(c, r, k) == Kind[r] = "files" /\ BeginCall(c, r, k)

Started(c) ==
    Goto(c, IF Kind[call[c].r] \in {"prepared", "direct"} THEN "push" ELSE "check")

\* A call without a key always starts an operation of its own.
StartUnkeyed(c) ==
    /\ At(c, "start") /\ ~Replayable(call[c].r)
    /\ Started(c)
    /\ UNCHANGED <<op, git, rows, sets, history, faults>>

StartOperation(c) ==
    LET k == call[c].k IN
    /\ At(c, "start") /\ Replayable(call[c].r)
    /\ op[k].status = "none"
    /\ op' = [op EXCEPT ![k].status = "in_progress"]
    /\ Started(c)
    /\ UNCHANGED <<git, rows, sets, history, faults>>

\* A verified operation is answered as it is, a prepared write goes on with
\* the session.
ReplayOperation(c) ==
    LET k == call[c].k  r == call[c].r IN
    /\ At(c, "start") /\ Replayable(r)
    /\ op[k].status = "success_verified"
    /\ IF Prepared(r)
         THEN Continue(c, [call[c] EXCEPT !.pc = "sync", !.commit = op[k].commit])
              /\ UNCHANGED told
         ELSE Return(c) /\ told' = told \cup {r}
    /\ UNCHANGED <<op, git, rows, sets, taken, joined, faults>>

\* One under way is given up after 300 seconds, whoever still works on it.
RefuseOperation(c) ==
    LET k == call[c].k IN
    /\ At(c, "start") /\ Replayable(call[c].r)
    /\ op[k].status \notin {"none", "success_verified"}
    /\ op' = IF op[k].status = "in_progress" /\ op[k].old
               THEN [op EXCEPT ![k].status = "indeterminate"]
               ELSE op
    /\ Raise(c)
    /\ UNCHANGED <<git, rows, sets, history, faults>>

\* The check after the start fails the operation.
CheckWorkspace(c, ok) ==
    /\ IF ok
         THEN Continue(c, [call[c] EXCEPT !.pc = "push", !.w = ws.rev, !.s = sess.rev])
              /\ UNCHANGED op
         ELSE SetOp(c, "failed") /\ Raise(c)
    /\ UNCHANGED <<git, rows, sets, history, faults>>

CheckPut(c) ==
    /\ At(c, "check") /\ Kind[call[c].r] = "put"
    /\ CheckWorkspace(c, WorkspaceOk(call[c].r))

CheckFiles(c) ==
    /\ At(c, "check") /\ Kind[call[c].r] = "files"
    /\ CheckWorkspace(c, WorkspaceOk(call[c].r))

\* put_generated_files resolves the workspace and the session itself, and
\* bind_operation_workspace wants the operation to be in progress still.
CheckGenerated(c) ==
    LET r == call[c].r IN
    /\ At(c, "check") /\ Kind[r] = "generated"
    /\ IF Synced /\ op[call[c].k].status # "in_progress"
         THEN Raise(c) /\ UNCHANGED <<op, git, rows, sets, history, faults>>
         ELSE CheckWorkspace(c, Synced /\ head = row[r].head)

-----------------------------------------------------------------------------
(* _commit_files: the commit goes on top of the head that the caller       *)
(* quoted, or not at all.                                                  *)

\* Faulty: any later head will do.
FaultyAtQuotedHead(c) == head >= row[call[c].r].head

AtQuotedHead(c) == head = row[call[c].r].head

CommitOnTop(c) ==
    LET r == call[c].r IN
    /\ AtQuotedHead(c)
    /\ head' = head + 1
    /\ made' = [made EXCEPT ![r] = @ \cup {head + 1}]
    /\ Continue(c, [call[c] EXCEPT !.pc = "verify", !.commit = head + 1])
    /\ UNCHANGED <<op, rows, sets, history, faults>>

\* The keyed kinds compare the head and update the ref of mygithub10.py.
PushRef(c) == At(c, "push") /\ Replayable(call[c].r) /\ CommitOnTop(c)

\* GitHubService.commit_files: parent, tree, commit, ref without force.
PushFiles(c) == At(c, "push") /\ ~Replayable(call[c].r) /\ CommitOnTop(c)

PushRefused(c) ==
    /\ At(c, "push") /\ ~AtQuotedHead(c)
    /\ SetOp(c, "failed") /\ Raise(c)
    /\ UNCHANGED <<git, rows, sets, history, faults>>

Computed(r) == Kind[r] \in {"prepared", "direct"}

\* The new content cannot be computed from the file as it is, or GitHub does
\* not answer: a patch or a range edit leaves its operation in progress.
ComputeFails(c) ==
    /\ At(c, "push") /\ Computed(call[c].r)
    /\ Raise(c)
    /\ UNCHANGED <<op, git, rows, sets, history, faults>>

\* A replacement, an upload or a change of modes fails its operation.
ReplaceFails(c) ==
    /\ At(c, "push") /\ Computed(call[c].r)
    /\ SetOp(c, "failed") /\ Raise(c)
    /\ UNCHANGED <<git, rows, sets, history, faults>>

\* A put calls fail_put_operation, and so does a write of files.
PutFails(c) ==
    /\ At(c, "push") /\ ~Computed(call[c].r)
    /\ SetOp(c, "failed") /\ Raise(c)
    /\ UNCHANGED <<git, rows, sets, history, faults>>

\* post_write_verify and _idempotent_mark_git_verified.
Verify(c) ==
    /\ At(c, "verify") /\ head = call[c].commit
    /\ SetOp(c, "git_verified") /\ Goto(c, "hold")
    /\ UNCHANGED <<git, rows, sets, history, faults>>

\* The branch moved on, or GitHub does not show the commit.
VerifyFails(c) ==
    /\ At(c, "verify")
    /\ SetOp(c, "failed") /\ Raise(c)
    /\ UNCHANGED <<git, rows, sets, history, faults>>

-----------------------------------------------------------------------------
(* _finalize_durable_write: the workspace row, then the operation row.     *)

WorkspaceWriteComplete(c) ==
    /\ At(c, "hold")
    /\ IF ws.rev = call[c].w
         THEN /\ ws' = [rev |-> ws.rev + 1, head |-> call[c].commit]
              /\ taken' = taken \cup {call[c].r}
              /\ Goto(c, "finish")
         ELSE Goto(c, "give up") /\ UNCHANGED <<ws, taken>>
    /\ UNCHANGED <<op, git, sess, sets, joined, told, faults>>

Finish(c) ==
    LET r == call[c].r IN
    /\ At(c, "finish")
    /\ SetOp(c, "success_verified")
    /\ IF Kind[r] \in {"prepared", "generated"}
         THEN Goto(c, "sync") /\ UNCHANGED told
         ELSE Return(c) /\ told' = told \cup {r}
    /\ UNCHANGED <<git, rows, sets, taken, joined, faults>>

\* Another update took the revision: the operation is indeterminate, also
\* when it was finished by a retry meanwhile.
GiveUp(c) ==
    /\ At(c, "give up")
    /\ SetOp(c, "indeterminate")
    /\ IF Prepared(call[c].r) THEN Goto(c, "record") ELSE Return(c)
    /\ UNCHANGED <<git, rows, sets, history, faults>>

-----------------------------------------------------------------------------
(* The session, and the record of a prepared or a generated write.         *)

\* recover_after_verified_change also accepts a session that already joined.
AlreadyJoined(c) ==
    /\ call[c].again
    /\ sess = [rev |-> call[c].s + 1, w |-> call[c].w + 1, head |-> call[c].commit]

AfterVerifiedChange(c) ==
    LET fits == sess.rev = call[c].s
        there == AlreadyJoined(c) IN
    /\ At(c, "sync")
    /\ sess' = IF fits
                 THEN [rev |-> sess.rev + 1, w |-> call[c].w + 1, head |-> call[c].commit]
                 ELSE sess
    /\ joined' = IF fits \/ there THEN joined \cup {call[c].r} ELSE joined
    /\ Continue(c, [call[c] EXCEPT !.pc = "record", !.ok = fits \/ there])
    /\ UNCHANGED <<op, git, ws, sets, taken, told, faults>>

\* mark_committed, with the failure when the rows did not follow.
Recorded(claim, ok) == [claim EXCEPT !.status = "COMMITTED", !.ok = ok]

RecordCommitted(c) ==
    LET r == call[c].r IN
    /\ At(c, "record") /\ Prepared(r)
    /\ IF row[r].status = "EXECUTING"
         THEN /\ row' = [row EXCEPT ![r] = Recorded(row[r], call[c].ok)]
              /\ bytes' = bytes \ {r}
              /\ told' = IF call[c].ok THEN told \cup {r} ELSE told
              /\ Return(c)
         ELSE Raise(c) /\ UNCHANGED <<row, bytes, told>>
    /\ UNCHANGED <<op, git, rows, taken, joined, faults>>

\* put_generated_files writes the outcome over the finished operation.
RecordGenerated(c) ==
    LET r == call[c].r IN
    /\ At(c, "record") /\ ~Prepared(r)
    /\ SetOp(c, IF call[c].ok THEN "success_verified" ELSE "indeterminate")
    /\ told' = IF call[c].ok THEN told \cup {r} ELSE told
    /\ Return(c)
    /\ UNCHANGED <<git, rows, sets, taken, joined, faults>>

\* mark_failed_terminal consumes the artifact whether or not the row is still
\* claimed.
MarkFailed(c) ==
    LET r == call[c].r IN
    /\ At(c, "fail")
    /\ row' = IF row[r].status = "EXECUTING"
                THEN [row EXCEPT ![r].status = "FAILED_TERMINAL"]
                ELSE row
    /\ bytes' = bytes \ {r}
    /\ Return(c)
    /\ UNCHANGED <<op, git, rows, history, faults>>

-----------------------------------------------------------------------------
(* Time and the others.                                                    *)

ClaimAges(r) ==
    /\ row[r].status = "EXECUTING" /\ ~row[r].stale
    /\ row' = [row EXCEPT ![r].stale = TRUE]
    /\ UNCHANGED <<op, bytes, call, git, rows, history, faults>>

OperationAges(k) ==
    /\ op[k].status = "in_progress" /\ ~op[k].old
    /\ op' = [op EXCEPT ![k].old = TRUE]
    /\ UNCHANGED <<call, git, rows, sets, history, faults>>

\* The time to live of a prepared change set ends; cleanup_expired leaves one
\* that executes alone.
Lapse(r) ==
    /\ Prepared(r) /\ row[r].status # "none" /\ ~row[r].late
    /\ row' = [row EXCEPT ![r].late = TRUE]
    /\ UNCHANGED <<op, bytes, call, git, rows, history, faults>>

CleanupExpired(r) ==
    /\ row[r].late /\ row[r].status \in {"PREPARED", "COMMITTED", "FAILED_TERMINAL"}
    /\ row' = [row EXCEPT ![r].status = "EXPIRED"]
    /\ bytes' = bytes \ {r}
    /\ UNCHANGED <<op, call, git, rows, history, faults>>

Fault == faults < MaxFaults /\ faults' = faults + 1

\* The process restarts: calls are gone, rows and commits stay.
Crash ==
    /\ Fault
    /\ \E c \in Clients : ~Idling(c)
    /\ call' = [c \in Clients |-> Idle]
    /\ UNCHANGED <<op, git, rows, sets, history>>

OutsidePush ==
    /\ Fault
    /\ head' = head + 1
    /\ UNCHANGED <<made, op, call, rows, sets, history>>

\* A write of files that quoted the workspace and not the head: its commit is
\* an OutsidePush, then the workspace takes it, and the session knows nothing.
TakeUnquoted ==
    /\ Fault
    /\ \E n \in (ws.head + 1)..head :
         /\ \A r \in Requests : n \notin made[r]
         /\ ws' = [rev |-> ws.rev + 1, head |-> n]
    /\ UNCHANGED <<op, call, git, sess, sets, history>>

\* A renewal, a refresh or a recovery brings both rows to the branch.
Refresh ==
    /\ Fault
    /\ ws' = [rev |-> ws.rev + 1, head |-> head]
    /\ sess' = [rev |-> sess.rev + 1, w |-> ws.rev + 1, head |-> head]
    /\ UNCHANGED <<op, call, git, sets, history>>

\* The session is brought to the workspace as it is.
Rejoin ==
    /\ Fault
    /\ ~Synced
    /\ sess' = [rev |-> sess.rev + 1, w |-> ws.rev, head |-> ws.head]
    /\ UNCHANGED <<op, call, git, ws, sets, history>>

-----------------------------------------------------------------------------

Begin(c) ==
    \E r \in Requests :
       \E k \in KeysOf[r] :
          \/ Claim(c, r, k)
          \/ BeginDirect(c, r, k) \/ BeginPut(c, r, k)
          \/ BeginGenerated(c, r, k) \/ BeginFiles(c, r, k)

Retry(c) ==
    \E r \in Requests :
       \E k \in KeysOf[r] : ResumeWrite(c, r, k) \/ FindUnstarted(c, r, k)

Step(c) ==
    \/ Release(c) \/ Reclaim(c)
    \/ StartUnkeyed(c) \/ StartOperation(c) \/ ReplayOperation(c)
    \/ RefuseOperation(c)
    \/ CheckPut(c) \/ CheckFiles(c) \/ CheckGenerated(c)
    \/ PushRef(c) \/ PushFiles(c) \/ PushRefused(c)
    \/ ComputeFails(c) \/ ReplaceFails(c) \/ PutFails(c)
    \/ Verify(c) \/ VerifyFails(c)
    \/ WorkspaceWriteComplete(c) \/ Finish(c) \/ GiveUp(c)
    \/ AfterVerifiedChange(c) \/ RecordCommitted(c) \/ RecordGenerated(c)
    \/ MarkFailed(c)

Time ==
    \/ \E r \in Requests : ClaimAges(r) \/ Lapse(r) \/ CleanupExpired(r)
    \/ \E k \in Keys : OperationAges(k)

Next ==
    \/ \E r \in Requests : Ask(r)
    \/ \E r \in Requests : \E k \in KeysOf[r] : Replay(r, k)
    \/ \E c \in Clients : Begin(c) \/ Retry(c) \/ Step(c)
    \/ Time
    \/ Crash \/ OutsidePush \/ TakeUnquoted \/ Refresh \/ Rejoin

Spec == Init /\ [][Next]_vars

\* A call that is under way goes on, claims grow old, and the caller of a
\* prepared write repeats it.
Fairness ==
    /\ \A c \in Clients : WF_vars(Step(c))
    /\ \A r \in ChangeSets : WF_vars(ClaimAges(r))
    /\ WF_vars(\E c \in Clients : Retry(c))

FairSpec == Spec /\ Fairness

-----------------------------------------------------------------------------

OpStatus == {"none", "in_progress", "git_verified", "success_verified", "failed",
             "indeterminate"}
RowStatus == {"none", "ASKED", "PREPARED", "EXECUTING", "COMMITTED",
              "FAILED_TERMINAL", "EXPIRED"}
Pc == {"idle", "load", "release", "start", "check", "push", "verify", "hold",
       "finish", "give up", "sync", "record", "fail"}

\* The columns, and what a row says of its claim: it has a key exactly from
\* the claim on, and a change set that is not claimed has none.
TypeOK ==
    /\ head \in Nat
    /\ made \in [Requests -> SUBSET Nat]
    /\ ws \in [rev : Nat, head : Nat]
    /\ sess \in [rev : Nat, w : Nat, head : Nat]
    /\ op \in [Keys -> [status : OpStatus, commit : Nat, old : BOOLEAN]]
    /\ row \in [Requests -> [status : RowStatus, key : Keys \cup {NoKey},
                             w : Nat, s : Nat, head : Nat,
                             stale : BOOLEAN, late : BOOLEAN, ok : BOOLEAN]]
    /\ bytes \subseteq Requests
    /\ call \in [Clients -> [pc : Pc, r : Requests \cup {NoKey}, k : Keys \cup {NoKey},
                             w : Nat, s : Nat, commit : Nat,
                             again : BOOLEAN, ok : BOOLEAN]]
    /\ {taken, joined, told} \subseteq SUBSET Requests
    /\ faults \in 0..MaxFaults
    /\ \A r \in Requests :
          /\ row[r].status \in {"none", "ASKED", "PREPARED"} => row[r].key = NoKey
          /\ row[r].status \in {"EXECUTING", "COMMITTED", "FAILED_TERMINAL"}
                => row[r].key \in KeysOf[r]

\* Whatever is retried, cut off or done by others in between, a write makes
\* one commit at most, the workspace takes it once, and nobody is told of
\* success before the rows followed: the code implements WriteOnce.
W == INSTANCE WriteOnce WITH
        Writes <- Requests,
        Joining <- Prepared,
        commits <- [r \in Requests |-> Cardinality(made[r])]

WrittenOnce == W!Spec

\* A claimed change set does not stay claimed when its caller asks again: it
\* is committed, failed or freed, unless its operation has no outcome or a
\* bad one, which recover_executing_write leaves to a person.
Stuck(r) == op[row[r].key].status \in {"in_progress", "failed", "indeterminate"}

ClaimSettles ==
    \A r \in ChangeSets :
       row[r].status = "EXECUTING"
          ~> row[r].status # "EXECUTING" \/ Stuck(r)
=============================================================================
