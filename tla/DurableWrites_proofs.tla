----------------------- MODULE DurableWrites_proofs -----------------------
(***************************************************************************)
(* Proof that the durable writes implement WriteOnce, for any clients,     *)
(* requests, keys and faults.                                              *)
(*                                                                         *)
(* A commit is made on top of the head that the caller quoted, and the     *)
(* head only moves forward; so a request has one commit, and from then on  *)
(* its quoted head is behind.  In the same way the workspace takes a       *)
(* request at the revision its call read, and only moves forward.  What    *)
(* remains is that calls and rows say of a request only what happened:     *)
(* CallSound, OpSound and RowSound.                                        *)
(***************************************************************************)
EXTENDS DurableWrites, FiniteSetTheorems, TLAPS

-----------------------------------------------------------------------------
(* The inductive invariant.                                                *)

Calls == [pc : Pc, r : Requests \cup {NoKey}, k : Keys \cup {NoKey},
          w : Nat, s : Nat, commit : Nat, again : BOOLEAN, ok : BOOLEAN]
Ops == [status : OpStatus, commit : Nat, old : BOOLEAN]
Rows == [status : RowStatus, key : Keys \cup {NoKey}, w : Nat, s : Nat, head : Nat,
         stale : BOOLEAN, late : BOOLEAN, ok : BOOLEAN]

\* Where a call is once its commit is made, once the workspace may take it,
\* and once the workspace took it.
Pushed == {"verify", "hold", "finish", "give up", "sync", "record"}
Taking == {"verify", "hold"}
Followed == {"finish", "sync"}

\* What a call that is under way knows of its request is so.
CallSound(x) ==
    x.pc # "idle" =>
       /\ x.r \in Requests /\ x.k \in KeysOf[x.r]
       /\ row[x.r].status # "none"
       /\ x.w <= ws.rev
       /\ x.pc \in Pushed => made[x.r] # {}
       /\ x.pc \in Followed => x.r \in taken
       /\ x.pc \in Taking /\ x.r \in taken => x.w < ws.rev
       /\ x.ok => x.r \in joined

\* A request that was asked for has one commit at most, and its quoted head
\* and revision are behind when it was written and taken.
RowSound(r) ==
    /\ made[r] # {} => /\ row[r].status # "none" /\ row[r].head < head
                       /\ \E n \in made[r] : made[r] = {n}
    /\ row[r].head <= head /\ row[r].w <= ws.rev
    /\ r \in taken => made[r] # {} /\ row[r].w < ws.rev
    /\ r \in joined => r \in taken
    /\ row[r].ok => r \in joined

\* An operation is verified when its commit is made, and a success when the
\* workspace took it.
OpSound(r) ==
    \A k \in KeysOf[r] :
       /\ op[k].status \in {"git_verified", "success_verified"} => made[r] # {}
       /\ op[k].status = "success_verified" => r \in taken

WritesInv ==
    /\ TypeOK
    /\ \A c \in Clients : CallSound(call[c])
    /\ \A r \in Requests : RowSound(r) /\ OpSound(r)

-----------------------------------------------------------------------------
(* How calls move.                                                         *)

Others(c) == /\ call' \in [Clients -> Calls]
             /\ \A d \in Clients : d # c => call'[d] = call[d]

\* The call of c keeps what it knows.
Same(c) == /\ call'[c].r = call[c].r /\ call'[c].k = call[c].k
           /\ call'[c].w = call[c].w /\ call'[c].ok = call[c].ok

LEMMA IdleCall == ASSUME RequestsAssumption
                  PROVE  Idle \in Calls /\ Idle.pc = "idle"
  BY DEF Idle, Calls, Pc

LEMMA CallFields ==
    ASSUME TypeOK, NEW c \in Clients
    PROVE  /\ call \in [Clients -> Calls]
           /\ call[c].pc \in Pc /\ call[c].k \in Keys \cup {NoKey}
           /\ call[c].w \in Nat /\ call[c].s \in Nat /\ call[c].commit \in Nat
           /\ call[c].ok \in BOOLEAN /\ call[c].again \in BOOLEAN
  BY DEF TypeOK, Calls

LEMMA GoneTo ==
    ASSUME TypeOK, NEW c \in Clients, NEW q \in Pc, Goto(c, q)
    PROVE  Others(c) /\ Same(c) /\ call'[c].pc = q
  <1>1. call \in [Clients -> Calls] /\ call[c] \in Calls
    BY DEF TypeOK, Calls
  <1> DEFINE x == [call[c] EXCEPT !.pc = q]
  <1>2. x \in Calls /\ x.pc = q /\ x.r = call[c].r /\ x.k = call[c].k
                    /\ x.w = call[c].w /\ x.ok = call[c].ok
    BY <1>1 DEF Calls
  <1>3. call' = [call EXCEPT ![c] = x]
    BY DEF Goto
  <1> HIDE DEF x
  <1> QED
    BY <1>1, <1>2, <1>3 DEF Others, Same

LEMMA Continued ==
    ASSUME TypeOK, NEW c \in Clients, NEW x \in Calls, Continue(c, x)
    PROVE  Others(c) /\ call'[c] = x
  <1>1. call \in [Clients -> Calls]
    BY DEF TypeOK, Calls
  <1> QED
    BY <1>1 DEF Others, Continue

LEMMA Returned ==
    ASSUME RequestsAssumption, TypeOK, NEW c \in Clients, Return(c)
    PROVE  Others(c) /\ call'[c].pc = "idle"
  <1>1. call \in [Clients -> Calls]
    BY DEF TypeOK, Calls
  <1> QED
    BY <1>1, IdleCall DEF Others, Return

LEMMA Raised ==
    ASSUME RequestsAssumption, TypeOK, NEW c \in Clients, Raise(c)
    PROVE  /\ Others(c)
           /\ call'[c].pc = "idle" \/ (call'[c].pc = "fail" /\ Same(c))
  <1>1. Return(c) \/ Goto(c, "fail")
    BY DEF Raise
  <1>2. "fail" \in Pc
    BY DEF Pc
  <1> QED
    BY <1>1, <1>2, Returned, GoneTo

\* A call as it begins.
LEMMA RequestCall ==
    ASSUME TypeOK, NEW r \in Requests, NEW k \in KeysOf[r], NEW q \in Pc
    PROVE  /\ [Request(r, k) EXCEPT !.pc = q] \in Calls
           /\ [Request(r, k) EXCEPT !.pc = q].pc = q
           /\ [Request(r, k) EXCEPT !.pc = q].r = r
           /\ [Request(r, k) EXCEPT !.pc = q].k = k
           /\ [Request(r, k) EXCEPT !.pc = q].w = row[r].w
           /\ ~ [Request(r, k) EXCEPT !.pc = q].ok
  <1>1. k \in Keys /\ row[r].w \in Nat /\ row[r].s \in Nat
    BY DEF TypeOK, Keys
  <1> QED
    BY <1>1 DEF Request, Idle, Calls

-----------------------------------------------------------------------------
(* What every step leaves as it is.                                        *)

\* Heads and revisions grow; what was asked for, committed, taken and joined
\* stays so.
Grows ==
    /\ head \in Nat /\ head' \in Nat /\ head <= head'
    /\ ws.rev \in Nat /\ ws'.rev \in Nat /\ ws.rev <= ws'.rev
    /\ \A r \in Requests :
          /\ row[r].status # "none" =>
                /\ row'[r].status # "none"
                /\ row'[r].head = row[r].head /\ row'[r].w = row[r].w
          /\ made[r] # {} => made'[r] = made[r]
          /\ r \in taken => r \in taken'
          /\ r \in joined => r \in joined'
          /\ r \in taken' /\ r \notin taken => ws.rev < ws'.rev

\* CallSound in the next state, of a call x of this one or the next.
SoundNext(x) ==
    x.pc # "idle" =>
       /\ x.r \in Requests /\ x.k \in KeysOf[x.r]
       /\ row'[x.r].status # "none"
       /\ x.w <= ws'.rev
       /\ x.pc \in Pushed => made'[x.r] # {}
       /\ x.pc \in Followed => x.r \in taken'
       /\ x.pc \in Taking /\ x.r \in taken' => x.w < ws'.rev
       /\ x.ok => x.r \in joined'

LEMMA StaysSound ==
    ASSUME Grows, TypeOK, NEW d \in Clients, CallSound(call[d])
    PROVE  SoundNext(call[d])
  <1>1. call[d].w \in Nat
    BY CallFields
  <1> QED
    BY <1>1 DEF Grows, CallSound, SoundNext

\* A call that moves on to q and keeps what it knows.
LEMMA SoundMove ==
    ASSUME Grows, TypeOK, NEW c \in Clients, CallSound(call[c]), call[c].pc # "idle",
           Same(c), NEW q, call'[c].pc = q,
           q \in Pushed => call[c].pc \in Pushed,
           q \in Followed => call[c].r \in taken',
           q \in Taking => call[c].pc \in Taking
    PROVE  SoundNext(call'[c])
  <1>1. SoundNext(call[c])
    BY StaysSound
  <1> QED
    BY <1>1 DEF SoundNext, Same

\* What the step of an actor is to show.
Acted(c) == Others(c) /\ SoundNext(call'[c])

LEMMA ActedReturn ==
    ASSUME RequestsAssumption, TypeOK, NEW c \in Clients, Return(c)
    PROVE  Acted(c)
  BY Returned DEF Acted, SoundNext

LEMMA ActedRaise ==
    ASSUME RequestsAssumption, TypeOK, Grows, NEW c \in Clients,
           CallSound(call[c]), call[c].pc # "idle", Raise(c)
    PROVE  Acted(c)
  <1>1. CASE call'[c].pc = "idle"
    BY <1>1, Raised DEF Acted, SoundNext
  <1>2. CASE call'[c].pc = "fail" /\ Same(c)
    BY <1>2, Raised, SoundMove DEF Acted, Pushed, Followed, Taking
  <1> QED
    BY <1>1, <1>2, Raised

LEMMA ActedMove ==
    ASSUME TypeOK, Grows, NEW c \in Clients,
           CallSound(call[c]), call[c].pc # "idle", NEW q \in Pc, Goto(c, q),
           q \in Pushed => call[c].pc \in Pushed,
           q \in Followed => call[c].r \in taken',
           q \in Taking => call[c].pc \in Taking
    PROVE  Acted(c)
  BY GoneTo, SoundMove DEF Acted

-----------------------------------------------------------------------------
(* Which steps change which variable.                                      *)

LEMMA StepFrame ==
    ASSUME NEW c \in Clients, Step(c)
    PROVE  /\ UNCHANGED git \/ PushRef(c) \/ PushFiles(c)
           /\ UNCHANGED <<ws, taken>> \/ WorkspaceWriteComplete(c)
           /\ UNCHANGED joined \/ AfterVerifiedChange(c)
           /\ \/ UNCHANGED row
              \/ Release(c) \/ Reclaim(c) \/ RecordCommitted(c) \/ MarkFailed(c)
           /\ \/ UNCHANGED op
              \/ StartOperation(c) \/ RefuseOperation(c)
              \/ CheckPut(c) \/ CheckFiles(c) \/ CheckGenerated(c) \/ PushRefused(c)
              \/ ReplaceFails(c) \/ PutFails(c) \/ Verify(c) \/ VerifyFails(c)
              \/ Finish(c) \/ GiveUp(c) \/ RecordGenerated(c)
           /\ \/ UNCHANGED told
              \/ ReplayOperation(c) \/ Finish(c) \/ RecordCommitted(c)
              \/ RecordGenerated(c)
           /\ UNCHANGED sess \/ AfterVerifiedChange(c)
           /\ UNCHANGED bytes \/ RecordCommitted(c) \/ MarkFailed(c)
           /\ UNCHANGED faults
  <1>1. UNCHANGED git \/ PushRef(c) \/ PushFiles(c)
        BY DEF Step, Release, Reclaim, StartUnkeyed, StartOperation,
           ReplayOperation, RefuseOperation, CheckPut, CheckFiles,
           CheckGenerated, PushRefused, ComputeFails, ReplaceFails, PutFails,
           Verify, VerifyFails, WorkspaceWriteComplete, Finish, GiveUp,
           AfterVerifiedChange, RecordCommitted, RecordGenerated, MarkFailed,
           CheckWorkspace, git
  <1>2. UNCHANGED <<ws, taken>> \/ WorkspaceWriteComplete(c)
        BY DEF Step, Release, Reclaim, StartUnkeyed, StartOperation,
           ReplayOperation, RefuseOperation, CheckPut, CheckFiles,
           CheckGenerated, PushRef, PushFiles, PushRefused, ComputeFails,
           ReplaceFails, PutFails, Verify, VerifyFails, Finish, GiveUp,
           AfterVerifiedChange, RecordCommitted, RecordGenerated, MarkFailed,
           CheckWorkspace, CommitOnTop, rows, history
  <1>3. UNCHANGED joined \/ AfterVerifiedChange(c)
        BY DEF Step, Release, Reclaim, StartUnkeyed, StartOperation,
           ReplayOperation, RefuseOperation, CheckPut, CheckFiles,
           CheckGenerated, PushRef, PushFiles, PushRefused, ComputeFails,
           ReplaceFails, PutFails, Verify, VerifyFails, WorkspaceWriteComplete,
           Finish, GiveUp, RecordCommitted, RecordGenerated, MarkFailed,
           CheckWorkspace, CommitOnTop, history
  <1>4. \/ UNCHANGED row
         \/ Release(c) \/ Reclaim(c) \/ RecordCommitted(c) \/ MarkFailed(c)
        BY DEF Step, StartUnkeyed, StartOperation, ReplayOperation,
           RefuseOperation, CheckPut, CheckFiles, CheckGenerated, PushRef,
           PushFiles, PushRefused, ComputeFails, ReplaceFails, PutFails,
           Verify, VerifyFails, WorkspaceWriteComplete, Finish, GiveUp,
           AfterVerifiedChange, RecordGenerated, CheckWorkspace, CommitOnTop,
           sets
  <1>5. \/ UNCHANGED op
         \/ StartOperation(c) \/ RefuseOperation(c)
         \/ CheckPut(c) \/ CheckFiles(c) \/ CheckGenerated(c) \/ PushRefused(c)
         \/ ReplaceFails(c) \/ PutFails(c) \/ Verify(c) \/ VerifyFails(c)
         \/ Finish(c) \/ GiveUp(c) \/ RecordGenerated(c)
        BY DEF Step, Release, Reclaim, StartUnkeyed, ReplayOperation, PushRef,
           PushFiles, ComputeFails, WorkspaceWriteComplete,
           AfterVerifiedChange, RecordCommitted, MarkFailed, CommitOnTop
  <1>6. \/ UNCHANGED told
         \/ ReplayOperation(c) \/ Finish(c) \/ RecordCommitted(c)
         \/ RecordGenerated(c)
        BY DEF Step, Release, Reclaim, StartUnkeyed, StartOperation,
           RefuseOperation, CheckPut, CheckFiles, CheckGenerated, PushRef,
           PushFiles, PushRefused, ComputeFails, ReplaceFails, PutFails,
           Verify, VerifyFails, WorkspaceWriteComplete, GiveUp,
           AfterVerifiedChange, MarkFailed, CheckWorkspace, CommitOnTop,
           history
  <1>7. UNCHANGED sess \/ AfterVerifiedChange(c)
        BY DEF Step, Release, Reclaim, StartUnkeyed, StartOperation,
           ReplayOperation, RefuseOperation, CheckPut, CheckFiles,
           CheckGenerated, PushRef, PushFiles, PushRefused, ComputeFails,
           ReplaceFails, PutFails, Verify, VerifyFails, WorkspaceWriteComplete,
           Finish, GiveUp, RecordCommitted, RecordGenerated, MarkFailed,
           CheckWorkspace, CommitOnTop, rows
  <1>8. UNCHANGED bytes \/ RecordCommitted(c) \/ MarkFailed(c)
        BY DEF Step, Release, Reclaim, StartUnkeyed, StartOperation,
           ReplayOperation, RefuseOperation, CheckPut, CheckFiles,
           CheckGenerated, PushRef, PushFiles, PushRefused, ComputeFails,
           ReplaceFails, PutFails, Verify, VerifyFails, WorkspaceWriteComplete,
           Finish, GiveUp, AfterVerifiedChange, RecordGenerated,
           CheckWorkspace, CommitOnTop, sets
  <1>9. UNCHANGED faults
        BY DEF Step, Release, Reclaim, StartUnkeyed, StartOperation,
           ReplayOperation, RefuseOperation, CheckPut, CheckFiles,
           CheckGenerated, PushRef, PushFiles, PushRefused, ComputeFails,
           ReplaceFails, PutFails, Verify, VerifyFails, WorkspaceWriteComplete,
           Finish, GiveUp, AfterVerifiedChange, RecordCommitted,
           RecordGenerated, MarkFailed, CheckWorkspace, CommitOnTop
  <1> QED
    BY <1>1, <1>2, <1>3, <1>4, <1>5, <1>6, <1>7, <1>8, <1>9

LEMMA BeginFrame ==
    ASSUME NEW c \in Clients, NEW r \in Requests, NEW k \in KeysOf[r],
           \/ Claim(c, r, k)
           \/ BeginDirect(c, r, k) \/ BeginPut(c, r, k)
           \/ BeginGenerated(c, r, k) \/ BeginFiles(c, r, k)
           \/ ResumeWrite(c, r, k) \/ FindUnstarted(c, r, k)
    PROVE  /\ UNCHANGED <<head, made, ws, taken, joined, op, told, sess, bytes, faults>>
           /\ UNCHANGED row \/ Claim(c, r, k)
  BY DEF Claim, BeginDirect, BeginPut, BeginGenerated, BeginFiles, BeginCall,
         ResumeWrite, FindUnstarted, git, rows, sets, history

LEMMA TimeFrame ==
    ASSUME Time
    PROVE  /\ UNCHANGED <<head, made, ws, taken, joined, told, call, sess, faults>>
           /\ UNCHANGED bytes \/ \E r \in Requests : CleanupExpired(r)
           /\ UNCHANGED op \/ \E k \in Keys : OperationAges(k)
           /\ \/ UNCHANGED row
              \/ \E r \in Requests : ClaimAges(r) \/ Lapse(r) \/ CleanupExpired(r)
  BY DEF Time, ClaimAges, Lapse, CleanupExpired, OperationAges, git, rows, sets, history

LEMMA RestFrame ==
    /\ \A r \in Requests :
          /\ Ask(r) => UNCHANGED <<head, made, ws, taken, joined, told, op, call, sess,
                                   faults>>
          /\ \A k \in KeysOf[r] :
                Replay(r, k) => UNCHANGED <<head, made, ws, taken, joined, op, row, call,
                                            sess, bytes, faults>>
    /\ Crash => UNCHANGED <<head, made, ws, taken, joined, told, op, row, sess, bytes>>
    /\ OutsidePush => UNCHANGED <<made, ws, taken, joined, told, op, row, call, sess,
                                  bytes>>
    /\ TakeUnquoted => UNCHANGED <<head, made, taken, joined, told, op, row, call, sess,
                                   bytes>>
    /\ Refresh => UNCHANGED <<head, made, taken, joined, told, op, row, call, bytes>>
    /\ Rejoin => UNCHANGED <<head, made, ws, taken, joined, told, op, row, call, bytes>>
    /\ Crash \/ OutsidePush \/ TakeUnquoted \/ Refresh \/ Rejoin => Fault
  BY DEF Ask, Replay, Crash, OutsidePush, TakeUnquoted, Refresh, Rejoin, git, rows, sets,
         history

\* The same for every step of the system.
LEMMA Frame ==
    ASSUME Next
    PROVE  /\ \/ UNCHANGED git
              \/ OutsidePush
              \/ \E c \in Clients : PushRef(c) \/ PushFiles(c)
           /\ \/ UNCHANGED <<ws, taken>>
              \/ Refresh \/ TakeUnquoted
              \/ \E c \in Clients : WorkspaceWriteComplete(c)
           /\ \/ UNCHANGED joined
              \/ \E c \in Clients : AfterVerifiedChange(c)
           /\ \/ UNCHANGED row
              \/ \E r \in Requests :
                    \/ Ask(r) \/ ClaimAges(r) \/ Lapse(r) \/ CleanupExpired(r)
                    \/ \E c \in Clients, k \in KeysOf[r] : Claim(c, r, k)
              \/ \E c \in Clients : Release(c) \/ Reclaim(c) \/ RecordCommitted(c)
                                    \/ MarkFailed(c)
           /\ \/ UNCHANGED op
              \/ \E k \in Keys : OperationAges(k)
              \/ \E c \in Clients :
                    \/ StartOperation(c) \/ RefuseOperation(c)
                    \/ CheckPut(c) \/ CheckFiles(c) \/ CheckGenerated(c)
                    \/ PushRefused(c) \/ ReplaceFails(c) \/ PutFails(c)
                    \/ Verify(c) \/ VerifyFails(c)
                    \/ Finish(c) \/ GiveUp(c) \/ RecordGenerated(c)
           /\ \/ UNCHANGED told
              \/ \E r \in Requests : \E k \in KeysOf[r] : Replay(r, k)
              \/ \E c \in Clients : ReplayOperation(c) \/ Finish(c) \/ RecordCommitted(c)
                                    \/ RecordGenerated(c)
           /\ \/ UNCHANGED call
              \/ Crash
              \/ \E c \in Clients : Begin(c) \/ Retry(c) \/ Step(c)
           /\ \/ UNCHANGED sess \/ Refresh \/ Rejoin
              \/ \E c \in Clients : AfterVerifiedChange(c)
           /\ \/ UNCHANGED bytes
              \/ \E r \in Requests : Ask(r) \/ CleanupExpired(r)
              \/ \E c \in Clients : RecordCommitted(c) \/ MarkFailed(c)
           /\ UNCHANGED faults \/ Fault
  <1>1. CASE \E c \in Clients : Step(c)
    BY <1>1, StepFrame
  <1>2. CASE \E c \in Clients : Begin(c) \/ Retry(c)
    <2>1. PICK c \in Clients : Begin(c) \/ Retry(c)
      BY <1>2
    <2>2. PICK r \in Requests : \E k \in KeysOf[r] :
               \/ Claim(c, r, k)
               \/ BeginDirect(c, r, k) \/ BeginPut(c, r, k)
               \/ BeginGenerated(c, r, k) \/ BeginFiles(c, r, k)
               \/ ResumeWrite(c, r, k) \/ FindUnstarted(c, r, k)
      BY <2>1 DEF Begin, Retry
    <2>3. PICK k \in KeysOf[r] :
               \/ Claim(c, r, k)
               \/ BeginDirect(c, r, k) \/ BeginPut(c, r, k)
               \/ BeginGenerated(c, r, k) \/ BeginFiles(c, r, k)
               \/ ResumeWrite(c, r, k) \/ FindUnstarted(c, r, k)
      BY <2>2
    <2> QED
      BY <2>1, <2>3, BeginFrame DEF git
  <1>3. CASE Time
    BY <1>3, TimeFrame DEF git
  <1>4. CASE \E r \in Requests : Ask(r)
    BY <1>4, RestFrame DEF git
  <1>5. CASE \E r \in Requests : \E k \in KeysOf[r] : Replay(r, k)
    BY <1>5, RestFrame DEF git
  <1>6. CASE Crash \/ OutsidePush \/ TakeUnquoted \/ Refresh \/ Rejoin
    BY <1>6, RestFrame DEF git
  <1> QED
    BY <1>1, <1>2, <1>3, <1>4, <1>5, <1>6 DEF Next

-----------------------------------------------------------------------------
(* Git and the two rows grow.                                              *)

LEMMA PushStep ==
    ASSUME WritesInv, NEW c \in Clients, PushRef(c) \/ PushFiles(c)
    PROVE  /\ call[c].r \in Requests
           /\ row[call[c].r].head = head
           /\ made[call[c].r] = {}
           /\ head' = head + 1
           /\ made' = [made EXCEPT ![call[c].r] = {head + 1}]
           /\ UNCHANGED <<op, ws, sess, row, bytes, taken, joined, told, faults>>
           /\ Continue(c, [call[c] EXCEPT !.pc = "verify", !.commit = head + 1])
           /\ call[c].pc = "push"
  <1>1. CommitOnTop(c) /\ call[c].pc = "push"
    BY DEF PushRef, PushFiles, At
  <1>2. call[c].r \in Requests
    BY <1>1 DEF WritesInv, CallSound
  <1>3. row[call[c].r].head = head
    BY <1>1 DEF CommitOnTop, AtQuotedHead
  <1>4. made[call[c].r] = {}
    <2>1. head \in Nat
      BY DEF WritesInv, TypeOK
    <2> QED
      BY <2>1, <1>2, <1>3 DEF WritesInv, RowSound
  <1>5. made' = [made EXCEPT ![call[c].r] = made[call[c].r] \cup {head + 1}]
    BY <1>1 DEF CommitOnTop
  <1> QED
    BY <1>1, <1>2, <1>3, <1>4, <1>5 DEF CommitOnTop, rows, sets, history

LEMMA HeadGrows ==
    ASSUME WritesInv, Next
    PROVE  /\ head \in Nat /\ head' \in Nat /\ head <= head'
           /\ made' \in [Requests -> SUBSET Nat]
           /\ \A r \in Requests : made[r] # {} => made'[r] = made[r]
  <1> USE DEF WritesInv
  <1>1. head \in Nat /\ made \in [Requests -> SUBSET Nat]
    BY DEF TypeOK
  <1>2. CASE UNCHANGED git
    BY <1>1, <1>2 DEF git
  <1>3. CASE OutsidePush
    BY <1>1, <1>3 DEF OutsidePush
  <1>4. CASE \E c \in Clients : PushRef(c) \/ PushFiles(c)
    <2>1. PICK c \in Clients : PushRef(c) \/ PushFiles(c)
      BY <1>4
    <2>2. /\ call[c].r \in Requests /\ made[call[c].r] = {}
          /\ head' = head + 1
          /\ made' = [made EXCEPT ![call[c].r] = {head + 1}]
      BY <2>1, PushStep
    <2> QED
      BY <1>1, <2>2
  <1> QED
    BY <1>2, <1>3, <1>4, Frame

\* A step that takes a request is the one call that is at hold.
LEMMA TakeStep ==
    ASSUME WritesInv, NEW c \in Clients, WorkspaceWriteComplete(c)
    PROVE  /\ call[c].r \in Requests /\ made[call[c].r] # {}
           /\ UNCHANGED <<head, made, op, row, joined, told>>
           /\ \/ UNCHANGED <<ws, taken>> /\ Goto(c, "give up")
              \/ /\ call[c].r \notin taken /\ taken' = taken \cup {call[c].r}
                 /\ ws'.rev = ws.rev + 1 /\ ws'.head = call[c].commit
                 /\ ws' \in [rev : Nat, head : Nat]
                 /\ Goto(c, "finish")
  <1> USE DEF WritesInv
  <1>1. call[c].pc = "hold" /\ CallSound(call[c])
    BY DEF WorkspaceWriteComplete, At
  <1>2. call[c].r \in Requests /\ made[call[c].r] # {}
    BY <1>1 DEF CallSound, Pushed
  <1>3. UNCHANGED <<head, made, op, row, joined, told>>
    BY DEF WorkspaceWriteComplete, git, sets
  <1>4. CASE ws.rev = call[c].w
    <2>1. call[c].r \notin taken
      <3>1. ws.rev \in Nat
        BY DEF TypeOK
      <3> QED
        BY <3>1, <1>1, <1>4 DEF CallSound, Taking
    <2>2. ws' = [rev |-> ws.rev + 1, head |-> call[c].commit]
      BY <1>4 DEF WorkspaceWriteComplete
    <2>3. ws.rev \in Nat /\ call[c].commit \in Nat
      BY CallFields DEF TypeOK
    <2>4. /\ ws'.rev = ws.rev + 1 /\ ws'.head = call[c].commit
          /\ ws' \in [rev : Nat, head : Nat]
      BY <2>2, <2>3
    <2>5. taken' = taken \cup {call[c].r} /\ Goto(c, "finish")
      BY <1>4 DEF WorkspaceWriteComplete
    <2> QED
      BY <1>2, <1>3, <2>1, <2>4, <2>5
  <1>5. CASE ws.rev # call[c].w
    BY <1>2, <1>3, <1>5 DEF WorkspaceWriteComplete
  <1> QED
    BY <1>4, <1>5

LEMMA WorkspaceGrows ==
    ASSUME WritesInv, Next
    PROVE  /\ ws.rev \in Nat /\ ws'.rev \in Nat /\ ws.rev <= ws'.rev
           /\ ws' \in [rev : Nat, head : Nat]
           /\ taken' \in SUBSET Requests
           /\ taken \subseteq taken'
           /\ taken' # taken => ws.rev < ws'.rev
  <1> USE DEF WritesInv
  <1>1. ws \in [rev : Nat, head : Nat] /\ taken \in SUBSET Requests /\ head \in Nat
    BY DEF TypeOK
  <1>2. CASE UNCHANGED <<ws, taken>>
    BY <1>1, <1>2
  <1>3. CASE Refresh
    BY <1>1, <1>3 DEF Refresh, history
  <1>4. CASE TakeUnquoted
    BY <1>1, <1>4 DEF TakeUnquoted, history
  <1>5. CASE \E c \in Clients : WorkspaceWriteComplete(c)
    <2>1. PICK c \in Clients : WorkspaceWriteComplete(c)
      BY <1>5
    <2>2. /\ call[c].r \in Requests
          /\ \/ UNCHANGED <<ws, taken>>
             \/ /\ taken' = taken \cup {call[c].r}
                /\ ws'.rev = ws.rev + 1 /\ ws' \in [rev : Nat, head : Nat]
      BY <2>1, TakeStep
    <2> QED
      BY <1>1, <2>2
  <1> QED
    BY <1>2, <1>3, <1>4, <1>5, Frame

LEMMA JoinStep ==
    ASSUME WritesInv, NEW c \in Clients, AfterVerifiedChange(c)
    PROVE  /\ call[c].r \in Requests /\ call[c].r \in taken
           /\ UNCHANGED <<head, made, op, row, ws, taken, told>>
           /\ \E ok \in BOOLEAN :
                 /\ Continue(c, [call[c] EXCEPT !.pc = "record", !.ok = ok])
                 /\ joined' = IF ok THEN joined \cup {call[c].r} ELSE joined
  <1> USE DEF WritesInv
  <1>1. call[c].pc = "sync" /\ CallSound(call[c])
    BY DEF AfterVerifiedChange, At
  <1>2. call[c].r \in Requests /\ call[c].r \in taken
    BY <1>1 DEF CallSound, Followed
  <1>3. UNCHANGED <<head, made, op, row, ws, taken, told>>
    BY DEF AfterVerifiedChange, git, sets
  <1> DEFINE ok == sess.rev = call[c].s \/ AlreadyJoined(c)
  <1>4. ok \in BOOLEAN
    OBVIOUS
  <1>5. /\ Continue(c, [call[c] EXCEPT !.pc = "record", !.ok = ok])
        /\ joined' = IF ok THEN joined \cup {call[c].r} ELSE joined
    BY DEF AfterVerifiedChange
  <1> HIDE DEF ok
  <1> QED
    BY <1>2, <1>3, <1>4, <1>5

LEMMA JoinedGrows ==
    ASSUME WritesInv, Next
    PROVE  joined' \in SUBSET Requests /\ joined \subseteq joined'
  <1>1. joined \in SUBSET Requests
    BY DEF WritesInv, TypeOK
  <1> QED
    BY <1>1, Frame, JoinStep

-----------------------------------------------------------------------------
(* The rows of requests.                                                   *)

\* The row of r in the next state, whatever the step does with it.
RowNext(r) ==
    /\ row'[r] \in Rows
    /\ row[r].status # "none" =>
          /\ row'[r].status # "none"
          /\ row'[r].head = row[r].head /\ row'[r].w = row[r].w
    /\ row[r].status = "none" =>
          row'[r] = row[r] \/ (row'[r].head = head /\ row'[r].w = ws.rev)
    /\ row'[r].ok => row[r].ok \/ r \in joined
    /\ row'[r].status \in {"none", "ASKED", "PREPARED"} => row'[r].key = NoKey
    /\ row'[r].status \in {"EXECUTING", "COMMITTED", "FAILED_TERMINAL"}
          => row'[r].key \in KeysOf[r]

LEMMA RowStays ==
    ASSUME TypeOK, NEW r \in Requests, row'[r] = row[r]
    PROVE  RowNext(r)
  BY DEF TypeOK, RowNext, Rows

\* Only the row of q changes, and it changes well.
LEMMA RowSet ==
    ASSUME TypeOK, NEW q \in Requests, NEW x \in Rows,
           row' = [row EXCEPT ![q] = x], row'[q] = x => RowNext(q)
    PROVE  row' \in [Requests -> Rows] /\ \A r \in Requests : RowNext(r)
  <1>1. row \in [Requests -> Rows]
    BY DEF TypeOK, Rows
  <1>2. row' \in [Requests -> Rows] /\ row'[q] = x
    BY <1>1
  <1>3. ASSUME NEW r \in Requests, r # q PROVE RowNext(r)
    <2>1. row'[r] = row[r]
      BY <1>1, <1>3
    <2> QED
      BY <2>1, RowStays
  <1> QED
    BY <1>2, <1>3

RowsNext == row' \in [Requests -> Rows] /\ \A r \in Requests : RowNext(r)

LEMMA RowFields ==
    ASSUME TypeOK, NEW r \in Requests
    PROVE  /\ row \in [Requests -> Rows] /\ row[r] \in Rows
           /\ row[r].status \in RowStatus /\ row[r].key \in Keys \cup {NoKey}
           /\ row[r].status \in {"none", "ASKED", "PREPARED"} => row[r].key = NoKey
           /\ row[r].status \in {"EXECUTING", "COMMITTED", "FAILED_TERMINAL"}
                 => row[r].key \in KeysOf[r]
  BY DEF TypeOK, Rows

LEMMA AskRows ==
    ASSUME WritesInv, NEW r \in Requests, Ask(r)
    PROVE  RowsNext
  <1> DEFINE x == Bound(r)
  <1>1. row[r] \in Rows /\ row[r].status = "none" /\ row[r].key = NoKey
    BY RowFields DEF WritesInv, Ask
  <1>2. ws.head = head /\ ws.rev \in Nat /\ sess.rev \in Nat /\ head \in Nat
    BY DEF WritesInv, TypeOK, Ask, Synced
  <1>3. x \in Rows /\ x.status \in {"ASKED", "PREPARED"} /\ x.key = NoKey
        /\ x.head = head /\ x.w = ws.rev /\ x.ok = row[r].ok
    BY <1>1, <1>2 DEF Bound, Rows, RowStatus
  <1>4. row' = [row EXCEPT ![r] = x]
    BY DEF Ask
  <1> HIDE DEF x
  <1>5. row'[r] = x => RowNext(r)
    BY <1>1, <1>3 DEF RowNext
  <1> QED
    BY <1>3, <1>4, <1>5, RowSet DEF WritesInv, RowsNext

LEMMA ClaimRows ==
    ASSUME WritesInv, NEW r \in Requests, NEW k \in KeysOf[r], NEW c,
           row[r].status = "PREPARED", ClaimForWrite(c, r, k)
    PROVE  RowsNext
  <1> DEFINE x == [row[r] EXCEPT !.status = "EXECUTING", !.key = k, !.stale = FALSE]
  <1>1. row[r] \in Rows /\ k \in Keys
    BY RowFields DEF WritesInv, Keys
  <1>2. x \in Rows /\ x.status = "EXECUTING" /\ x.key = k
        /\ x.head = row[r].head /\ x.w = row[r].w /\ x.ok = row[r].ok
    BY <1>1 DEF Rows, RowStatus
  <1>3. row' = [row EXCEPT ![r] = x]
    BY RowFields DEF ClaimForWrite, WritesInv
  <1> HIDE DEF x
  <1>4. row'[r] = x => RowNext(r)
    BY <1>1, <1>2 DEF RowNext
  <1> QED
    BY <1>2, <1>3, <1>4, RowSet DEF WritesInv, RowsNext

\* A step that changes the status, and the flags besides, of a row that was
\* asked for.
LEMMA MarkRow ==
    ASSUME WritesInv, NEW r \in Requests, NEW x \in Rows,
           row' = [row EXCEPT ![r] = x],
           row[r].status # "none", x.status # "none",
           x.head = row[r].head, x.w = row[r].w,
           x.ok => row[r].ok \/ r \in joined,
           x.status = "PREPARED" => x.key = NoKey,
           x.status # row[r].status =>
              \/ x.status \in {"PREPARED", "EXPIRED"}
              \/ /\ row[r].status = "EXECUTING"
                 /\ x.status \in {"COMMITTED", "FAILED_TERMINAL"},
           x.status # "PREPARED" => x.key = row[r].key
    PROVE  RowsNext
  <1>1. row'[r] = x => RowNext(r)
    BY RowFields DEF RowNext, WritesInv
  <1> QED
    BY <1>1, RowSet DEF WritesInv, RowsNext

LEMMA TimeRows ==
    ASSUME WritesInv, NEW r \in Requests, ClaimAges(r) \/ Lapse(r) \/ CleanupExpired(r)
    PROVE  RowsNext
  <1>1. row[r] \in Rows /\ row \in [Requests -> Rows]
    BY RowFields DEF WritesInv
  <1>2. CASE ClaimAges(r)
    <2> DEFINE x == [row[r] EXCEPT !.stale = TRUE]
    <2>1. x \in Rows /\ x.status = row[r].status /\ x.key = row[r].key
          /\ x.head = row[r].head /\ x.w = row[r].w /\ x.ok = row[r].ok
      BY <1>1 DEF Rows
    <2>2. row' = [row EXCEPT ![r] = x] /\ row[r].status = "EXECUTING"
      BY <1>1, <1>2 DEF ClaimAges
    <2> HIDE DEF x
    <2> QED
      BY <2>1, <2>2, MarkRow
  <1>3. CASE Lapse(r)
    <2> DEFINE x == [row[r] EXCEPT !.late = TRUE]
    <2>1. x \in Rows /\ x.status = row[r].status /\ x.key = row[r].key
          /\ x.head = row[r].head /\ x.w = row[r].w /\ x.ok = row[r].ok
      BY <1>1 DEF Rows
    <2>2. row' = [row EXCEPT ![r] = x] /\ row[r].status # "none"
      BY <1>1, <1>3 DEF Lapse
    <2>3. row[r].status = "PREPARED" => row[r].key = NoKey
      BY RowFields DEF WritesInv
    <2> HIDE DEF x
    <2> QED
      BY <2>1, <2>2, <2>3, MarkRow
  <1>4. CASE CleanupExpired(r)
    <2> DEFINE x == [row[r] EXCEPT !.status = "EXPIRED"]
    <2>1. x \in Rows /\ x.status = "EXPIRED" /\ x.key = row[r].key
          /\ x.head = row[r].head /\ x.w = row[r].w /\ x.ok = row[r].ok
      BY <1>1 DEF Rows, RowStatus
    <2>2. row' = [row EXCEPT ![r] = x] /\ row[r].status # "none"
      BY <1>1, <1>4 DEF CleanupExpired
    <2> HIDE DEF x
    <2> QED
      BY <2>1, <2>2, MarkRow
  <1> QED
    BY <1>2, <1>3, <1>4

LEMMA CallRows ==
    ASSUME WritesInv, NEW c \in Clients,
           Release(c) \/ Reclaim(c) \/ RecordCommitted(c) \/ MarkFailed(c)
    PROVE  RowsNext
  <1> DEFINE r == call[c].r
  <1>1. call[c].pc # "idle" /\ CallSound(call[c])
    BY DEF WritesInv, Release, Reclaim, RecordCommitted, MarkFailed, At
  <1>2. r \in Requests /\ call[c].k \in KeysOf[r] /\ row[r].status # "none"
    BY <1>1 DEF CallSound
  <1>3. row[r] \in Rows /\ row \in [Requests -> Rows]
    BY <1>2, RowFields DEF WritesInv
  <1>4. CASE UNCHANGED row
    BY <1>3, <1>4, RowStays DEF RowsNext, WritesInv
  <1>5. CASE Release(c) /\ row' # row
    <2> DEFINE x == Freed(row[r])
    <2>1. row' = [row EXCEPT ![r] = x]
      BY <1>5 DEF Release
    <2>2. x \in Rows /\ x.status = "PREPARED" /\ x.key = NoKey
          /\ x.head = row[r].head /\ x.w = row[r].w /\ x.ok = row[r].ok
      BY <1>3 DEF Rows, RowStatus, Freed
    <2> HIDE DEF x, r
    <2> QED
      BY <1>2, <2>1, <2>2, MarkRow
  <1>6. CASE Reclaim(c) /\ row' # row
    <2>1. Claimable(r) /\ ClaimForWrite(c, r, call[c].k)
      BY <1>6 DEF Reclaim
    <2>2. row[r].status = "PREPARED"
      BY <2>1 DEF Claimable, Readable
    <2> QED
      BY <1>2, <2>1, <2>2, ClaimRows
  <1>7. CASE RecordCommitted(c) /\ row' # row
    <2> DEFINE x == Recorded(row[r], call[c].ok)
    <2>1. row' = [row EXCEPT ![r] = x] /\ row[r].status = "EXECUTING"
      BY <1>7 DEF RecordCommitted
    <2>2. call[c].ok \in BOOLEAN /\ (call[c].ok => r \in joined)
      BY <1>1, CallFields DEF CallSound, WritesInv
    <2>3. x \in Rows /\ x.status = "COMMITTED" /\ x.key = row[r].key
          /\ x.head = row[r].head /\ x.w = row[r].w /\ x.ok = call[c].ok
      BY <1>3, <2>2 DEF Rows, RowStatus, Recorded
    <2> HIDE DEF x, r
    <2> QED
      BY <1>2, <2>1, <2>2, <2>3, MarkRow
  <1>8. CASE MarkFailed(c) /\ row' # row
    <2> DEFINE x == [row[r] EXCEPT !.status = "FAILED_TERMINAL"]
    <2>1. row' = [row EXCEPT ![r] = x] /\ row[r].status = "EXECUTING"
      BY <1>3, <1>8 DEF MarkFailed
    <2>2. x \in Rows /\ x.status = "FAILED_TERMINAL" /\ x.key = row[r].key
          /\ x.head = row[r].head /\ x.w = row[r].w /\ x.ok = row[r].ok
      BY <1>3 DEF Rows, RowStatus
    <2> HIDE DEF x, r
    <2> QED
      BY <1>2, <2>1, <2>2, MarkRow
  <1> QED
    BY <1>4, <1>5, <1>6, <1>7, <1>8

LEMMA RowStep ==
    ASSUME WritesInv, Next
    PROVE  RowsNext
  <1>1. CASE UNCHANGED row
    <2>1. row \in [Requests -> Rows]
      BY DEF WritesInv, TypeOK, Rows
    <2> QED
      BY <1>1, <2>1, RowStays DEF RowsNext, WritesInv
  <1>2. ASSUME NEW r \in Requests, NEW c \in Clients, NEW k \in KeysOf[r], Claim(c, r, k)
        PROVE  RowsNext
    <2>1. row[r].status = "PREPARED" /\ ClaimForWrite(c, r, k)
      BY <1>2 DEF Claim, Claimable, Readable
    <2> QED
      BY <2>1, ClaimRows
  <1>3. ASSUME NEW r \in Requests, Ask(r)
        PROVE  RowsNext
    BY <1>3, AskRows
  <1>4. ASSUME NEW r \in Requests, ClaimAges(r) \/ Lapse(r) \/ CleanupExpired(r)
        PROVE  RowsNext
    BY <1>4, TimeRows
  <1>5. ASSUME NEW c \in Clients,
               Release(c) \/ Reclaim(c) \/ RecordCommitted(c) \/ MarkFailed(c)
        PROVE  RowsNext
    BY <1>5, CallRows
  <1>6. \/ UNCHANGED row
        \/ \E r \in Requests : Ask(r)
        \/ \E r \in Requests : ClaimAges(r) \/ Lapse(r) \/ CleanupExpired(r)
        \/ \E r \in Requests : \E c \in Clients : \E k \in KeysOf[r] : Claim(c, r, k)
        \/ \E c \in Clients : Release(c) \/ Reclaim(c) \/ RecordCommitted(c)
                              \/ MarkFailed(c)
    BY Frame
  <1> QED
    BY <1>1, <1>2, <1>3, <1>4, <1>5, <1>6

LEMMA Growing ==
    ASSUME WritesInv, Next
    PROVE  Grows
  <1>1. /\ head \in Nat /\ head' \in Nat /\ head <= head'
        /\ \A r \in Requests : made[r] # {} => made'[r] = made[r]
    BY HeadGrows
  <1>2. /\ ws.rev \in Nat /\ ws'.rev \in Nat /\ ws.rev <= ws'.rev
        /\ taken \subseteq taken' /\ (taken' # taken => ws.rev < ws'.rev)
    BY WorkspaceGrows
  <1>3. joined \subseteq joined'
    BY JoinedGrows
  <1>4. \A r \in Requests : RowNext(r)
    BY RowStep DEF RowsNext
  <1> QED
    BY <1>1, <1>2, <1>3, <1>4 DEF Grows, RowNext

-----------------------------------------------------------------------------
(* The operations.                                                         *)

Verified == {"git_verified", "success_verified"}

OpsNext ==
    /\ op' \in [Keys -> Ops]
    /\ \A r \in Requests : \A k \in KeysOf[r] :
          /\ op'[k].status \in Verified => made'[r] # {}
          /\ op'[k].status = "success_verified" => r \in taken'

LEMMA OpFields ==
    ASSUME WritesInv, NEW r \in Requests, NEW k \in KeysOf[r]
    PROVE  /\ op \in [Keys -> Ops] /\ k \in Keys /\ op[k] \in Ops
           /\ op[k].status \in Verified => made[r] # {}
           /\ op[k].status = "success_verified" => r \in taken
  BY DEF WritesInv, TypeOK, Ops, Keys, OpSound, Verified

LEMMA OpsStay ==
    ASSUME WritesInv, Grows, UNCHANGED op
    PROVE  OpsNext
  <1>1. op \in [Keys -> Ops]
    BY DEF WritesInv, TypeOK, Ops
  <1> QED
    BY <1>1, OpFields DEF OpsNext, Grows

\* One operation changes, and says of its request what is so.
LEMMA OpSet ==
    ASSUME RequestsAssumption, WritesInv, Grows,
           NEW q \in Requests, NEW key \in KeysOf[q], NEW x \in Ops,
           op' = [op EXCEPT ![key] = x],
           x.status \in Verified => made'[q] # {},
           x.status = "success_verified" => q \in taken'
    PROVE  OpsNext
  <1>1. op \in [Keys -> Ops] /\ key \in Keys
    BY OpFields
  <1>2. op' \in [Keys -> Ops] /\ op'[key] = x
    BY <1>1
  <1>3. ASSUME NEW r \in Requests, NEW k \in KeysOf[r]
        PROVE  /\ op'[k].status \in Verified => made'[r] # {}
               /\ op'[k].status = "success_verified" => r \in taken'
    <2>1. CASE k = key
      <3>1. r = q
        BY <2>1 DEF RequestsAssumption
      <3> QED
        BY <3>1, <2>1, <1>2
    <2>2. CASE k # key
      <3>1. k \in Keys
        BY DEF Keys
      <3>2. op'[k] = op[k]
        BY <3>1, <2>2, <1>1
      <3> QED
        BY <3>2, OpFields DEF Grows
    <2> QED
      BY <2>1, <2>2
  <1> QED
    BY <1>2, <1>3 DEF OpsNext

LEMMA SetOpStep ==
    ASSUME RequestsAssumption, WritesInv, Grows,
           NEW c \in Clients, call[c].pc # "idle", NEW s \in OpStatus, SetOp(c, s),
           s \in Verified => made'[call[c].r] # {},
           s = "success_verified" => call[c].r \in taken'
    PROVE  OpsNext
  <1> DEFINE r == call[c].r
             k == call[c].k
  <1>1. r \in Requests /\ k \in KeysOf[r]
    BY DEF WritesInv, CallSound
  <1>2. CASE ~Replayable(r)
    BY <1>2, OpsStay DEF SetOp
  <1>3. CASE Replayable(r)
    <2> DEFINE x == [op[k] EXCEPT !.status = s, !.commit = call[c].commit]
    <2>1. op[k] \in Ops /\ op \in [Keys -> Ops] /\ k \in Keys
      BY <1>1, OpFields
    <2>2. call[c].commit \in Nat
      BY CallFields DEF WritesInv
    <2>3. x \in Ops /\ x.status = s
      BY <2>1, <2>2 DEF Ops
    <2>4. op' = [op EXCEPT ![k] = x]
      BY <2>1, <1>3 DEF SetOp
    <2> HIDE DEF x
    <2> QED
      BY <1>1, <2>3, <2>4, OpSet
  <1> QED
    BY <1>2, <1>3

LEMMA FailedOp ==
    ASSUME RequestsAssumption, WritesInv, Grows,
           NEW c \in Clients, call[c].pc # "idle",
           SetOp(c, "failed") \/ SetOp(c, "indeterminate")
    PROVE  OpsNext
  <1>1. {"failed", "indeterminate"} \subseteq OpStatus
    BY DEF OpStatus
  <1> QED
    BY <1>1, SetOpStep DEF Verified

LEMMA OpStep ==
    ASSUME RequestsAssumption, WritesInv, Next
    PROVE  OpsNext
  <1> USE Growing
  <1>1. ASSUME NEW k \in Keys, OperationAges(k)
        PROVE  OpsNext
    <2> DEFINE x == [op[k] EXCEPT !.old = TRUE]
    <2>1. PICK r \in Requests : k \in KeysOf[r]
      BY DEF Keys
    <2>2. op[k] \in Ops /\ op \in [Keys -> Ops]
      BY <2>1, OpFields
    <2>3. x \in Ops /\ x.status = "in_progress"
      BY <2>2, <1>1 DEF Ops, OperationAges
    <2>4. op' = [op EXCEPT ![k] = x]
      BY <2>2, <1>1 DEF OperationAges
    <2> HIDE DEF x
    <2> QED
      BY <2>1, <2>3, <2>4, OpSet DEF Verified
  <1>2. ASSUME NEW c \in Clients, StartOperation(c)
        PROVE  OpsNext
    <2> DEFINE k == call[c].k
               x == [op[k] EXCEPT !.status = "in_progress"]
    <2>1. call[c].r \in Requests /\ k \in KeysOf[call[c].r]
      BY <1>2 DEF StartOperation, At, WritesInv, CallSound
    <2>2. op[k] \in Ops /\ op \in [Keys -> Ops]
      BY <2>1, OpFields
    <2>3. x \in Ops /\ x.status = "in_progress"
      BY <2>2 DEF Ops, OpStatus
    <2>4. op' = [op EXCEPT ![k] = x]
      BY <2>2, <1>2 DEF StartOperation
    <2> HIDE DEF x
    <2> QED
      BY <2>1, <2>3, <2>4, OpSet DEF Verified
  <1>3. ASSUME NEW c \in Clients, RefuseOperation(c)
        PROVE  OpsNext
    <2> DEFINE k == call[c].k
               x == [op[k] EXCEPT !.status = "indeterminate"]
    <2>1. call[c].r \in Requests /\ k \in KeysOf[call[c].r]
      BY <1>3 DEF RefuseOperation, At, WritesInv, CallSound
    <2>2. op[k] \in Ops /\ op \in [Keys -> Ops]
      BY <2>1, OpFields
    <2>3. x \in Ops /\ x.status = "indeterminate"
      BY <2>2 DEF Ops, OpStatus
    <2>4. UNCHANGED op \/ op' = [op EXCEPT ![k] = x]
      BY <2>2, <1>3 DEF RefuseOperation
    <2> HIDE DEF x
    <2> QED
      BY <2>1, <2>3, <2>4, OpSet, OpsStay DEF Verified
  <1>4. ASSUME NEW c \in Clients,
               \/ CheckPut(c) \/ CheckFiles(c) \/ CheckGenerated(c)
               \/ PushRefused(c) \/ ReplaceFails(c) \/ PutFails(c) \/ VerifyFails(c)
               \/ GiveUp(c)
        PROVE  OpsNext
    <2>1. call[c].pc # "idle"
      BY <1>4 DEF CheckPut, CheckFiles, CheckGenerated, PushRefused, ReplaceFails,
                  PutFails, VerifyFails, GiveUp, At
    <2>2. UNCHANGED op \/ SetOp(c, "failed") \/ SetOp(c, "indeterminate")
      BY <1>4 DEF CheckPut, CheckFiles, CheckGenerated, CheckWorkspace, PushRefused,
                  ReplaceFails, PutFails, VerifyFails, GiveUp
    <2> QED
      BY <2>1, <2>2, OpsStay, FailedOp
  <1>5. ASSUME NEW c \in Clients, Verify(c)
        PROVE  OpsNext
    <2>1. call[c].pc = "verify" /\ SetOp(c, "git_verified") /\ "git_verified" \in OpStatus
      BY <1>5 DEF Verify, At, OpStatus
    <2>2. call[c].r \in Requests /\ made[call[c].r] # {}
      BY <2>1 DEF WritesInv, CallSound, Pushed
    <2> QED
      BY <2>1, <2>2, SetOpStep DEF Grows
  <1>6. ASSUME NEW c \in Clients, Finish(c)
        PROVE  OpsNext
    <2>1. /\ call[c].pc = "finish" /\ SetOp(c, "success_verified")
          /\ "success_verified" \in OpStatus
      BY <1>6 DEF Finish, At, OpStatus
    <2>2. call[c].r \in Requests /\ made[call[c].r] # {} /\ call[c].r \in taken
      BY <2>1 DEF WritesInv, CallSound, Pushed, Followed
    <2> QED
      BY <2>1, <2>2, SetOpStep DEF Grows
  <1>7. ASSUME NEW c \in Clients, RecordGenerated(c)
        PROVE  OpsNext
    <2>1. call[c].pc = "record"
      BY <1>7 DEF RecordGenerated, At
    <2>2. /\ call[c].r \in Requests /\ made[call[c].r] # {}
          /\ call[c].ok => call[c].r \in joined
      BY <2>1 DEF WritesInv, CallSound, Pushed
    <2>3. CASE call[c].ok
      <3>1. SetOp(c, "success_verified") /\ "success_verified" \in OpStatus
        BY <1>7, <2>3 DEF RecordGenerated, OpStatus
      <3>2. call[c].r \in taken
        BY <2>2, <2>3 DEF WritesInv, RowSound
      <3> QED
        BY <2>1, <2>2, <3>1, <3>2, SetOpStep DEF Grows
    <2>4. CASE ~call[c].ok
      <3>1. SetOp(c, "indeterminate")
        BY <1>7, <2>4 DEF RecordGenerated
      <3> QED
        BY <2>1, <3>1, FailedOp
    <2> QED
      BY <2>3, <2>4
  <1>8. \/ UNCHANGED op
        \/ \E k \in Keys : OperationAges(k)
        \/ \E c \in Clients :
              \/ StartOperation(c) \/ RefuseOperation(c)
              \/ CheckPut(c) \/ CheckFiles(c) \/ CheckGenerated(c) \/ PushRefused(c)
              \/ ReplaceFails(c) \/ PutFails(c) \/ Verify(c) \/ VerifyFails(c)
              \/ Finish(c) \/ GiveUp(c) \/ RecordGenerated(c)
    BY Frame
  <1> QED
    BY <1>1, <1>2, <1>3, <1>4, <1>5, <1>6, <1>7, <1>8, OpsStay

-----------------------------------------------------------------------------
(* The calls.                                                              *)

LEMMA BeginsSound ==
    ASSUME RequestsAssumption, WritesInv, Grows, NEW c \in Clients,
           NEW r \in Requests, NEW k \in KeysOf[r], NEW q \in Pc \ Pushed,
           row[r].status # "none",
           Continue(c, [Request(r, k) EXCEPT !.pc = q])
    PROVE  Acted(c)
  <1> DEFINE x == [Request(r, k) EXCEPT !.pc = q]
  <1>1. /\ x \in Calls /\ x.pc = q /\ x.r = r /\ x.k = k /\ x.w = row[r].w
        /\ ~ x.ok
    BY RequestCall DEF WritesInv
  <1>2. Continue(c, x)
    OBVIOUS
  <1> HIDE DEF x
  <1>3. Others(c) /\ call'[c] = x
    BY <1>1, <1>2, Continued DEF WritesInv
  <1>4. row[r].w <= ws'.rev
    <2>1. row[r].w \in Nat /\ row[r].w <= ws.rev
      BY RowFields DEF WritesInv, RowSound, Rows
    <2> QED
      BY <2>1 DEF Grows
  <1>5. SoundNext(x)
    BY <1>1, <1>4 DEF SoundNext, Grows, Pushed, Taking, Followed
  <1> QED
    BY <1>3, <1>5 DEF Acted

LEMMA ClaimSound ==
    ASSUME RequestsAssumption, WritesInv, Grows, NEW c \in Clients,
           NEW r \in Requests, NEW k \in KeysOf[r],
           row[r].status # "none", ClaimForWrite(c, r, k)
    PROVE  Acted(c)
  <1>1. "start" \in Pc \ Pushed
    BY DEF Pc, Pushed
  <1> QED
    BY <1>1, BeginsSound DEF ClaimForWrite

\* A resumed write goes on where its operation stands.
LEMMA ResumeSound ==
    ASSUME RequestsAssumption, WritesInv, Grows, NEW c \in Clients,
           NEW r \in Requests, NEW k \in KeysOf[r], ResumeWrite(c, r, k)
    PROVE  Acted(c)
  <1> DEFINE q == IF op[k].status = "git_verified" THEN "hold" ELSE "sync"
             y == [Request(r, k) EXCEPT !.pc = q]
             x == [y EXCEPT !.commit = op[k].commit, !.again = TRUE]
  <1>1. /\ row[r].status # "none" /\ op[k].status \in Verified
        /\ Continue(c, x)
    BY DEF ResumeWrite, Executing, Resumable, Verified
  <1>2. q \in Pc /\ op[k].commit \in Nat
    BY OpFields DEF Pc, Ops
  <1>3. /\ y \in Calls /\ y.pc = q /\ y.r = r /\ y.k = k /\ y.w = row[r].w
        /\ ~ y.ok
    BY <1>2, RequestCall DEF WritesInv
  <1> HIDE DEF y
  <1>4. /\ x \in Calls /\ x.pc = q /\ x.r = r /\ x.k = k /\ x.w = row[r].w
        /\ ~ x.ok
    BY <1>2, <1>3 DEF Calls
  <1> HIDE DEF x
  <1>5. Others(c) /\ call'[c] = x
    BY <1>1, <1>4, Continued DEF WritesInv
  <1>6. /\ made[r] # {} /\ (op[k].status = "success_verified" => r \in taken)
        /\ row[r].w \in Nat /\ row[r].w <= ws.rev
        /\ r \in taken => row[r].w < ws.rev
    BY <1>1, OpFields, RowFields DEF WritesInv, RowSound, Rows
  <1>7. q = "hold" \/ (q = "sync" /\ r \in taken)
    BY <1>1, <1>6 DEF Verified
  <1> HIDE DEF q
  <1>8. /\ row'[r].status # "none" /\ made'[r] # {}
        /\ row[r].w <= ws'.rev
        /\ r \in taken => r \in taken'
        /\ r \in taken' => row[r].w < ws'.rev
    BY <1>1, <1>6 DEF Grows
  <1>9. SoundNext(x)
    BY <1>4, <1>7, <1>8 DEF SoundNext, Taking, Followed
  <1> QED
    BY <1>5, <1>9 DEF Acted

LEMMA ReplaySound ==
    ASSUME RequestsAssumption, WritesInv, Grows, NEW c \in Clients, ReplayOperation(c)
    PROVE  Acted(c)
  <1> DEFINE k == call[c].k
             x == [call[c] EXCEPT !.pc = "sync", !.commit = op[k].commit]
  <1>1. call[c].pc = "start" /\ CallSound(call[c]) /\ op[k].status = "success_verified"
    BY DEF ReplayOperation, At, WritesInv
  <1>2. call[c].r \in Requests /\ k \in KeysOf[call[c].r]
    BY <1>1 DEF CallSound
  <1>3. made[call[c].r] # {} /\ call[c].r \in taken /\ op[k].commit \in Nat
    BY <1>1, <1>2, OpFields DEF Verified, Ops
  <1>4. Return(c) \/ Continue(c, x)
    BY DEF ReplayOperation
  <1>5. CASE Return(c)
    BY <1>5, ActedReturn DEF WritesInv
  <1>6. CASE Continue(c, x)
    <2>1. call[c] \in Calls /\ "sync" \in Pc
      BY DEF WritesInv, TypeOK, Calls, Pc
    <2>2. /\ x \in Calls /\ x.pc = "sync" /\ x.r = call[c].r /\ x.k = call[c].k
          /\ x.w = call[c].w /\ x.ok = call[c].ok
      BY <2>1, <1>3 DEF Calls
    <2> HIDE DEF x
    <2>3. Others(c) /\ call'[c] = x
      BY <1>6, <2>2, Continued DEF WritesInv
    <2>4. SoundNext(call[c])
      BY <1>1, StaysSound DEF WritesInv
    <2>5. made'[call[c].r] # {} /\ call[c].r \in taken'
      BY <1>2, <1>3 DEF Grows
    <2>6. SoundNext(x)
      BY <1>1, <2>2, <2>4, <2>5 DEF SoundNext, Pushed, Taking, Followed
    <2> QED
      BY <2>3, <2>6 DEF Acted
  <1> QED
    BY <1>4, <1>5, <1>6

\* The check after the start reads the revision anew.
LEMMA CheckSound ==
    ASSUME RequestsAssumption, WritesInv, Grows, NEW c \in Clients,
           CheckPut(c) \/ CheckFiles(c) \/ CheckGenerated(c)
    PROVE  Acted(c)
  <1> DEFINE x == [call[c] EXCEPT !.pc = "push", !.w = ws.rev, !.s = sess.rev]
  <1>1. call[c].pc = "check" /\ CallSound(call[c])
    BY DEF CheckPut, CheckFiles, CheckGenerated, At, WritesInv
  <1>2. Raise(c) \/ Continue(c, x)
    BY DEF CheckPut, CheckFiles, CheckGenerated, CheckWorkspace
  <1>3. CASE Raise(c)
    BY <1>1, <1>3, ActedRaise DEF WritesInv
  <1>4. CASE Continue(c, x)
    <2>1. call[c] \in Calls /\ "push" \in Pc /\ sess.rev \in Nat /\ ws.rev \in Nat
      BY DEF WritesInv, TypeOK, Calls, Pc
    <2>2. /\ x \in Calls /\ x.pc = "push" /\ x.r = call[c].r /\ x.k = call[c].k
          /\ x.w = ws.rev /\ x.ok = call[c].ok
      BY <2>1 DEF Calls
    <2> HIDE DEF x
    <2>3. Others(c) /\ call'[c] = x
      BY <1>4, <2>2, Continued DEF WritesInv
    <2>4. SoundNext(call[c])
      BY <1>1, StaysSound DEF WritesInv
    <2>5. SoundNext(x)
      BY <1>1, <2>2, <2>4 DEF SoundNext, Pushed, Taking, Followed, Grows
    <2> QED
      BY <2>3, <2>5 DEF Acted
  <1> QED
    BY <1>2, <1>3, <1>4

LEMMA PushSound ==
    ASSUME RequestsAssumption, WritesInv, Grows, NEW c \in Clients,
           PushRef(c) \/ PushFiles(c)
    PROVE  Acted(c)
  <1> DEFINE r == call[c].r
             n == head + 1
             x == [call[c] EXCEPT !.pc = "verify", !.commit = n]
  <1>1. /\ r \in Requests /\ made[r] = {}
        /\ made' = [made EXCEPT ![r] = {n}]
        /\ UNCHANGED taken
        /\ call[c].pc = "push"
        /\ Continue(c, x)
    BY PushStep
  <1>2. /\ call[c] \in Calls /\ "verify" \in Pc /\ n \in Nat
        /\ made \in [Requests -> SUBSET Nat]
    <2>1. call[c] \in Calls /\ head \in Nat /\ made \in [Requests -> SUBSET Nat]
      BY DEF WritesInv, TypeOK, Calls
    <2> QED
      BY <2>1 DEF Pc
  <1> HIDE DEF n
  <1>3. /\ x \in Calls /\ x.pc = "verify" /\ x.r = r /\ x.k = call[c].k
        /\ x.w = call[c].w /\ x.ok = call[c].ok
    BY <1>2 DEF Calls
  <1> HIDE DEF x
  <1>4. Others(c) /\ call'[c] = x
    BY <1>1, <1>3, Continued DEF WritesInv
  <1>5. SoundNext(call[c])
    BY StaysSound DEF WritesInv
  <1>6. made'[r] # {} /\ r \notin taken'
    <2>1. r \notin taken
      BY <1>1 DEF WritesInv, RowSound
    <2> QED
      BY <2>1, <1>1, <1>2
  <1>7. SoundNext(x)
    BY <1>1, <1>3, <1>5, <1>6 DEF SoundNext, Taking, Followed
  <1> QED
    BY <1>4, <1>7 DEF Acted

LEMMA JoinSound ==
    ASSUME RequestsAssumption, WritesInv, Grows, NEW c \in Clients, AfterVerifiedChange(c)
    PROVE  Acted(c)
  <1> DEFINE r == call[c].r
  <1>1. call[c].pc = "sync" /\ CallSound(call[c])
    BY DEF AfterVerifiedChange, At, WritesInv
  <1>2. PICK ok \in BOOLEAN :
           /\ Continue(c, [call[c] EXCEPT !.pc = "record", !.ok = ok])
           /\ joined' = IF ok THEN joined \cup {r} ELSE joined
    BY JoinStep
  <1> DEFINE x == [call[c] EXCEPT !.pc = "record", !.ok = ok]
  <1>3. call[c] \in Calls /\ "record" \in Pc
    BY DEF WritesInv, TypeOK, Calls, Pc
  <1>4. /\ x \in Calls /\ x.pc = "record" /\ x.r = r /\ x.k = call[c].k
        /\ x.w = call[c].w /\ x.ok = ok
    BY <1>3 DEF Calls
  <1>5. Continue(c, x)
    BY <1>2
  <1> HIDE DEF x
  <1>6. Others(c) /\ call'[c] = x
    BY <1>4, <1>5, Continued DEF WritesInv
  <1>7. SoundNext(call[c])
    BY <1>1, StaysSound DEF WritesInv
  <1>8. ok => r \in joined'
    BY <1>2
  <1>9. SoundNext(x)
    BY <1>1, <1>4, <1>7, <1>8 DEF SoundNext, Pushed, Taking, Followed
  <1> QED
    BY <1>6, <1>9 DEF Acted

\* The steps that only move a call, answer it or raise.
LEMMA MoveSound ==
    ASSUME RequestsAssumption, WritesInv, Grows, NEW c \in Clients,
           \/ Release(c) \/ StartUnkeyed(c) \/ StartOperation(c) \/ RefuseOperation(c)
           \/ PushRefused(c) \/ ComputeFails(c) \/ ReplaceFails(c) \/ PutFails(c)
           \/ Verify(c) \/ VerifyFails(c) \/ WorkspaceWriteComplete(c) \/ Finish(c)
           \/ GiveUp(c) \/ RecordCommitted(c) \/ RecordGenerated(c) \/ MarkFailed(c)
    PROVE  Acted(c)
  <1>1. call[c].pc # "idle" /\ CallSound(call[c]) /\ TypeOK
    BY DEF Release, StartUnkeyed, StartOperation, RefuseOperation, PushRefused,
           ComputeFails, ReplaceFails, PutFails, Verify, VerifyFails,
           WorkspaceWriteComplete, Finish, GiveUp, RecordCommitted, RecordGenerated,
           MarkFailed, At, WritesInv
  <1>2. CASE Return(c)
    BY <1>1, <1>2, ActedReturn
  <1>3. CASE Raise(c)
    BY <1>1, <1>3, ActedRaise
  <1>4. ASSUME NEW q \in {"load", "push", "check"}, Goto(c, q)
        PROVE  Acted(c)
    <2>1. q \in Pc \ Pushed /\ q \notin Taking
      BY DEF Pc, Pushed, Taking
    <2> QED
      BY <1>1, <1>4, <2>1, ActedMove DEF Pushed, Followed
  <1>5. CASE Verify(c)
    <2>1. Goto(c, "hold") /\ call[c].pc = "verify" /\ "hold" \in Pc
      BY <1>5 DEF Verify, At, Pc
    <2> QED
      BY <1>1, <2>1, ActedMove DEF Pushed, Followed, Taking
  <1>6. CASE WorkspaceWriteComplete(c)
    <2>1. call[c].pc = "hold" /\ {"finish", "give up"} \subseteq Pc
      BY <1>6 DEF WorkspaceWriteComplete, At, Pc
    <2>2. Goto(c, "give up") \/ (call[c].r \in taken' /\ Goto(c, "finish"))
      BY <1>6, TakeStep
    <2> QED
      BY <1>1, <2>1, <2>2, ActedMove DEF Pushed, Followed, Taking
  <1>7. CASE Finish(c)
    <2>1. call[c].pc = "finish" /\ "sync" \in Pc
      BY <1>7 DEF Finish, At, Pc
    <2>2. Return(c) \/ Goto(c, "sync")
      BY <1>7 DEF Finish
    <2>3. call[c].r \in taken'
      BY <1>1, <2>1 DEF CallSound, Followed, Grows
    <2> QED
      BY <1>1, <1>2, <2>1, <2>2, <2>3, ActedMove DEF Pushed, Followed, Taking
  <1>8. CASE GiveUp(c)
    <2>1. call[c].pc = "give up" /\ "record" \in Pc
      BY <1>8 DEF GiveUp, At, Pc
    <2>2. Return(c) \/ Goto(c, "record")
      BY <1>8 DEF GiveUp
    <2> QED
      BY <1>1, <1>2, <2>1, <2>2, ActedMove DEF Pushed, Followed, Taking
  <1>9. \/ Return(c) \/ Raise(c)
        \/ Goto(c, "load") \/ Goto(c, "push") \/ Goto(c, "check")
        \/ Verify(c) \/ WorkspaceWriteComplete(c) \/ Finish(c) \/ GiveUp(c)
    BY DEF Release, StartUnkeyed, StartOperation, Started, RefuseOperation, PushRefused,
           ComputeFails, ReplaceFails, PutFails, VerifyFails, RecordCommitted,
           RecordGenerated, MarkFailed
  <1> QED
    BY <1>2, <1>3, <1>4, <1>5, <1>6, <1>7, <1>8, <1>9

LEMMA ActorSound ==
    ASSUME RequestsAssumption, WritesInv, Grows, NEW c \in Clients,
           Begin(c) \/ Retry(c) \/ Step(c)
    PROVE  Acted(c)
  <1>1. ASSUME NEW r \in Requests, NEW k \in KeysOf[r], Claim(c, r, k)
        PROVE  Acted(c)
    <2>1. row[r].status = "PREPARED" /\ ClaimForWrite(c, r, k)
      BY <1>1 DEF Claim, Claimable, Readable
    <2> QED
      BY <2>1, ClaimSound
  <1>2. ASSUME NEW r \in Requests, NEW k \in KeysOf[r],
               \/ BeginDirect(c, r, k) \/ BeginPut(c, r, k)
               \/ BeginGenerated(c, r, k) \/ BeginFiles(c, r, k)
        PROVE  Acted(c)
    <2>1. row[r].status = "ASKED" /\ Continue(c, [Request(r, k) EXCEPT !.pc = "start"])
      BY <1>2 DEF BeginDirect, BeginPut, BeginGenerated, BeginFiles, BeginCall
    <2>2. "start" \in Pc \ Pushed
      BY DEF Pc, Pushed
    <2> QED
      BY <2>1, <2>2, BeginsSound
  <1>3. ASSUME NEW r \in Requests, NEW k \in KeysOf[r], FindUnstarted(c, r, k)
        PROVE  Acted(c)
    <2>1. /\ row[r].status = "EXECUTING"
          /\ Continue(c, [Request(r, k) EXCEPT !.pc = "release"])
      BY <1>3 DEF FindUnstarted, Executing
    <2>2. "release" \in Pc \ Pushed
      BY DEF Pc, Pushed
    <2> QED
      BY <2>1, <2>2, BeginsSound
  <1>4. CASE Reclaim(c)
    <2>1. call[c].pc = "load"
      BY <1>4 DEF Reclaim, At
    <2>2. /\ call[c].r \in Requests /\ call[c].k \in KeysOf[call[c].r]
          /\ row[call[c].r].status # "none"
      BY <2>1 DEF WritesInv, CallSound
    <2>3. ClaimForWrite(c, call[c].r, call[c].k) \/ Return(c)
      BY <1>4 DEF Reclaim
    <2> QED
      BY <2>2, <2>3, ClaimSound, ActedReturn DEF WritesInv
  <1>5. CASE Step(c)
    BY <1>4, <1>5, ReplaySound, CheckSound, PushSound, JoinSound, MoveSound DEF Step
  <1>6. CASE Begin(c) \/ Retry(c)
    <2>1. PICK r \in Requests : \E k \in KeysOf[r] :
               \/ Claim(c, r, k)
               \/ BeginDirect(c, r, k) \/ BeginPut(c, r, k)
               \/ BeginGenerated(c, r, k) \/ BeginFiles(c, r, k)
               \/ ResumeWrite(c, r, k) \/ FindUnstarted(c, r, k)
      BY <1>6 DEF Begin, Retry
    <2> QED
      BY <2>1, <1>1, <1>2, <1>3, ResumeSound
  <1> QED
    BY <1>5, <1>6

LEMMA CallStep ==
    ASSUME RequestsAssumption, WritesInv, Next
    PROVE  /\ call' \in [Clients -> Calls]
           /\ \A d \in Clients : SoundNext(call'[d])
  <1>1. Grows
    BY Growing
  <1>2. call \in [Clients -> Calls] /\ \A d \in Clients : SoundNext(call[d])
    BY <1>1, StaysSound DEF WritesInv, TypeOK, Calls
  <1>3. CASE UNCHANGED call
    BY <1>2, <1>3
  <1>4. CASE Crash
    BY <1>4, IdleCall DEF Crash, SoundNext
  <1>5. ASSUME NEW c \in Clients, Begin(c) \/ Retry(c) \/ Step(c)
        PROVE  /\ call' \in [Clients -> Calls]
               /\ \A d \in Clients : SoundNext(call'[d])
    <2>1. Acted(c)
      BY <1>1, <1>5, ActorSound
    <2> QED
      BY <1>2, <2>1 DEF Acted, Others
  <1> QED
    BY <1>3, <1>4, <1>5, Frame

-----------------------------------------------------------------------------
(* What callers are told.                                                  *)

TellStep(r) == /\ r \in taken /\ (Prepared(r) => r \in joined)
               /\ told' = told \cup {r}
               /\ UNCHANGED <<made, taken, joined>>

LEMMA Telling ==
    ASSUME WritesInv, Next
    PROVE  UNCHANGED told \/ \E r \in Requests : TellStep(r)
  <1>1. \A r \in Requests : r \in joined => r \in taken
    BY DEF WritesInv, RowSound
  <1>2. ASSUME NEW r \in Requests, NEW k \in KeysOf[r], Replay(r, k)
        PROVE  UNCHANGED told \/ TellStep(r)
    <2>1. row[r].ok => r \in joined
      BY DEF WritesInv, RowSound
    <2> QED
      BY <1>1, <1>2, <2>1 DEF Replay, TellStep, git
  <1>3. ASSUME NEW c \in Clients, ReplayOperation(c)
        PROVE  UNCHANGED told \/ \E r \in Requests : TellStep(r)
    <2>1. call[c].pc # "idle" /\ op[call[c].k].status = "success_verified"
      BY <1>3 DEF ReplayOperation, At
    <2>2. call[c].r \in Requests /\ call[c].r \in taken
      BY <2>1, OpFields DEF WritesInv, CallSound
    <2> QED
      BY <1>3, <2>2 DEF ReplayOperation, TellStep, git
  <1>4. ASSUME NEW c \in Clients, Finish(c)
        PROVE  UNCHANGED told \/ \E r \in Requests : TellStep(r)
    <2>1. call[c].pc = "finish"
      BY <1>4 DEF Finish, At
    <2>2. call[c].r \in Requests /\ call[c].r \in taken
      BY <2>1 DEF WritesInv, CallSound, Followed
    <2> QED
      BY <1>4, <2>2 DEF Finish, TellStep, git, Prepared
  <1>5. ASSUME NEW c \in Clients, RecordCommitted(c) \/ RecordGenerated(c)
        PROVE  UNCHANGED told \/ \E r \in Requests : TellStep(r)
    <2>1. call[c].pc = "record"
      BY <1>5 DEF RecordCommitted, RecordGenerated, At
    <2>2. /\ call[c].r \in Requests
          /\ call[c].ok => call[c].r \in joined /\ call[c].r \in taken
      BY <1>1, <2>1 DEF WritesInv, CallSound
    <2> QED
      BY <1>5, <2>2 DEF RecordCommitted, RecordGenerated, TellStep, git, history
  <1>6. \/ UNCHANGED told
        \/ \E r \in Requests : \E k \in KeysOf[r] : Replay(r, k)
        \/ \E c \in Clients : ReplayOperation(c) \/ Finish(c) \/ RecordCommitted(c)
                              \/ RecordGenerated(c)
    BY Frame
  <1> QED
    BY <1>2, <1>3, <1>4, <1>5, <1>6

-----------------------------------------------------------------------------
(* The invariant.                                                          *)

LEMMA InitInv ==
    ASSUME RequestsAssumption, Init
    PROVE  WritesInv
  <1>1. TypeOK
    <2>1. Idle \in Calls
      BY IdleCall
    <2> QED
      BY <2>1 DEF Init, TypeOK, Calls, OpStatus, RowStatus, RequestsAssumption
  <1>2. \A c \in Clients : CallSound(call[c])
    BY DEF Init, CallSound, Idle
  <1>3. \A r \in Requests : RowSound(r)
    BY DEF Init, RowSound
  <1>4. \A r \in Requests : OpSound(r)
    BY DEF Init, OpSound, Keys
  <1> QED
    BY <1>1, <1>2, <1>3, <1>4 DEF WritesInv

LEMMA TypeStep ==
    ASSUME RequestsAssumption, WritesInv, Next
    PROVE  TypeOK'
  <1>1. head' \in Nat /\ made' \in [Requests -> SUBSET Nat]
    BY HeadGrows
  <1>2. ws' \in [rev : Nat, head : Nat] /\ taken' \in SUBSET Requests
    BY WorkspaceGrows
  <1>3. joined' \in SUBSET Requests
    BY JoinedGrows
  <1>4. told' \in SUBSET Requests
    BY Telling DEF TellStep, WritesInv, TypeOK
  <1>5. sess' \in [rev : Nat, w : Nat, head : Nat]
    <2>1. /\ sess \in [rev : Nat, w : Nat, head : Nat] /\ sess.rev \in Nat
          /\ ws.rev \in Nat /\ ws.head \in Nat /\ head \in Nat
      BY DEF WritesInv, TypeOK
    <2>2. CASE Refresh
      BY <2>1, <2>2 DEF Refresh
    <2>3. CASE Rejoin
      BY <2>1, <2>3 DEF Rejoin
    <2>4. ASSUME NEW c \in Clients, AfterVerifiedChange(c)
          PROVE  sess' \in [rev : Nat, w : Nat, head : Nat]
      <3>1. call[c].w \in Nat /\ call[c].commit \in Nat
        BY CallFields DEF WritesInv
      <3> QED
        BY <2>1, <2>4, <3>1 DEF AfterVerifiedChange
    <2>5. UNCHANGED sess \/ Refresh \/ Rejoin \/ \E c \in Clients : AfterVerifiedChange(c)
      BY Frame
    <2> QED
      BY <2>1, <2>2, <2>3, <2>4, <2>5
  <1>6. op' \in [Keys -> Ops]
    BY OpStep DEF OpsNext
  <1>7. /\ row' \in [Requests -> Rows]
        /\ \A r \in Requests :
              /\ row'[r].status \in {"none", "ASKED", "PREPARED"} => row'[r].key = NoKey
              /\ row'[r].status \in {"EXECUTING", "COMMITTED", "FAILED_TERMINAL"}
                    => row'[r].key \in KeysOf[r]
    BY RowStep DEF RowsNext, RowNext
  <1>8. bytes' \subseteq Requests
    <2>1. bytes \subseteq Requests
      BY DEF WritesInv, TypeOK
    <2>2. \/ UNCHANGED bytes
          \/ \E r \in Requests : Ask(r) \/ CleanupExpired(r)
          \/ \E c \in Clients : RecordCommitted(c) \/ MarkFailed(c)
      BY Frame
    <2> QED
      BY <2>1, <2>2 DEF Ask, Artifact, CleanupExpired, RecordCommitted, MarkFailed
  <1>9. call' \in [Clients -> Calls]
    BY CallStep
  <1>10. faults' \in 0 .. MaxFaults
    <2>1. faults \in 0 .. MaxFaults /\ MaxFaults \in Nat
      BY DEF WritesInv, TypeOK, RequestsAssumption
    <2>2. UNCHANGED faults \/ Fault
      BY Frame
    <2> QED
      BY <2>1, <2>2 DEF Fault
  <1> QED
    BY <1>1, <1>2, <1>3, <1>4, <1>5, <1>6, <1>7, <1>8, <1>9, <1>10
       DEF TypeOK, Ops, Rows, Calls

LEMMA RowSoundStep ==
    ASSUME RequestsAssumption, WritesInv, Next, NEW r \in Requests
    PROVE  RowSound(r)'
  <1>1. Grows /\ RowSound(r) /\ RowNext(r)
    BY Growing, RowStep DEF WritesInv, RowsNext
  <1>2. /\ row[r].head \in Nat /\ row[r].w \in Nat
        /\ row'[r].head \in Nat /\ row'[r].w \in Nat
    BY <1>1, RowFields DEF WritesInv, RowNext, Rows
  <1>3. /\ row'[r].head <= head' /\ row'[r].w <= ws'.rev
    BY <1>1, <1>2 DEF Grows, RowSound, RowNext
  <1>4. made'[r] # {} => /\ row'[r].status # "none" /\ row'[r].head < head'
                         /\ \E n \in made'[r] : made'[r] = {n}
    <2>1. CASE made[r] # {}
      BY <1>1, <1>2, <2>1 DEF Grows, RowSound
    <2>2. CASE made[r] = {} /\ made'[r] # {}
      <3>1. ~ UNCHANGED git /\ ~ OutsidePush
        BY <2>2 DEF git, OutsidePush
      <3>2. PICK c \in Clients : PushRef(c) \/ PushFiles(c)
        BY <3>1, Frame
      <3>3. /\ call[c].r \in Requests /\ row[call[c].r].head = head /\ head' = head + 1
            /\ made' = [made EXCEPT ![call[c].r] = {head + 1}]
            /\ UNCHANGED row /\ call[c].pc = "push"
        BY <3>2, PushStep
      <3>4. call[c].r = r
        BY <3>3, <2>2 DEF WritesInv, TypeOK
      <3>5. row[r].status # "none"
        BY <3>3, <3>4 DEF WritesInv, CallSound
      <3>6. made'[r] = {head + 1}
        BY <3>3, <3>4 DEF WritesInv, TypeOK
      <3>7. row'[r].head < head'
        BY <1>2, <3>3, <3>4
      <3> QED
        BY <3>3, <3>5, <3>6, <3>7
    <2> QED
      BY <2>1, <2>2
  <1>5. r \in taken' => made'[r] # {} /\ row'[r].w < ws'.rev
    <2>1. CASE r \in taken
      BY <1>1, <1>2, <2>1 DEF Grows, RowSound
    <2>2. CASE r \notin taken /\ r \in taken'
      <3>1. PICK c \in Clients : WorkspaceWriteComplete(c)
        BY <2>2, Frame DEF Refresh, TakeUnquoted, history
      <3>2. r = call[c].r /\ made[r] # {}
        BY <2>2, <3>1, TakeStep
      <3>3. row[r].status # "none"
        BY <1>1, <3>2 DEF RowSound
      <3> QED
        BY <1>1, <1>2, <2>2, <3>2, <3>3 DEF Grows, RowSound
    <2> QED
      BY <2>1, <2>2
  <1>6. r \in joined' => r \in taken'
    <2>1. CASE r \in joined
      BY <1>1, <2>1 DEF Grows, RowSound
    <2>2. CASE r \notin joined /\ r \in joined'
      <3>1. PICK c \in Clients : AfterVerifiedChange(c)
        BY <2>2, Frame
      <3> QED
        BY <2>2, <3>1, JoinStep
    <2> QED
      BY <2>1, <2>2
  <1>7. row'[r].ok => r \in joined'
    BY <1>1 DEF Grows, RowSound, RowNext
  <1> QED
    BY <1>3, <1>4, <1>5, <1>6, <1>7 DEF RowSound

LEMMA NextInv ==
    ASSUME RequestsAssumption, WritesInv, [Next]_vars
    PROVE  WritesInv'
  <1>1. CASE Next
    <2>1. TypeOK'
      BY <1>1, TypeStep
    <2>2. \A c \in Clients : CallSound(call[c])'
      BY <1>1, CallStep DEF CallSound, SoundNext
    <2>3. \A r \in Requests : RowSound(r)'
      BY <1>1, RowSoundStep
    <2>4. \A r \in Requests : OpSound(r)'
      BY <1>1, OpStep DEF OpSound, OpsNext, Verified
    <2> QED
      BY <2>1, <2>2, <2>3, <2>4 DEF WritesInv
  <1>2. CASE UNCHANGED vars
    BY <1>2 DEF vars, WritesInv, TypeOK, CallSound, RowSound, OpSound
  <1> QED
    BY <1>1, <1>2

\* The invariant of the durable writes: every row, operation and call says of
\* its request only what happened to it.
THEOREM WritesInvariance == Spec => []WritesInv
  <1>1. Init => WritesInv
    BY RequestsAssumption, InitInv
  <1>2. WritesInv /\ [Next]_vars => WritesInv'
    BY RequestsAssumption, NextInv
  <1> QED
    BY <1>1, <1>2, PTL DEF Spec

\* Every variable has a value of its kind, and a row has a key of its request
\* exactly from its claim on.
THEOREM WritesTyped == Spec => []TypeOK
  <1>1. WritesInv => TypeOK
    BY DEF WritesInv
  <1> QED
    BY <1>1, WritesInvariance, PTL

-----------------------------------------------------------------------------
(* The refinement.                                                         *)

LEMMA InitAbstract ==
    ASSUME Init
    PROVE  W!Init
  <1>1. \A r \in Requests : Cardinality(made[r]) = 0
    BY FS_EmptySet DEF Init
  <1> QED
    BY <1>1 DEF Init, W!Init

LEMMA NextAbstract ==
    ASSUME WritesInv, [Next]_vars
    PROVE  [W!Next]_(W!vars)
  <1>1. CASE UNCHANGED <<made, taken, joined, told>>
    BY <1>1 DEF W!vars
  <1>2. ASSUME Next, NEW c \in Clients, PushRef(c) \/ PushFiles(c)
        PROVE  W!Next
    <2> DEFINE r == call[c].r
    <2>1. /\ r \in Requests /\ made[r] = {}
          /\ made' = [made EXCEPT ![r] = {head + 1}]
          /\ UNCHANGED <<taken, joined, told>>
      BY <1>2, PushStep
    <2>2. made \in [Requests -> SUBSET Nat]
      BY DEF WritesInv, TypeOK
    <2>3. Cardinality(made[r]) = 0
      BY <2>1, FS_EmptySet
    <2>4. Cardinality(made'[r]) = 1
      <3>1. made'[r] = {head + 1}
        BY <2>1, <2>2
      <3> QED
        BY <3>1, FS_Singleton
    <2>5. \A q \in Requests : q # r => made'[q] = made[q]
      BY <2>1, <2>2
    <2>6. W!Push(r)
      BY <2>1, <2>3, <2>4, <2>5 DEF W!Push
    <2> QED
      BY <2>1, <2>6 DEF W!Next
  <1>3. ASSUME Next, NEW c \in Clients, WorkspaceWriteComplete(c)
        PROVE  W!Next \/ UNCHANGED <<made, taken, joined, told>>
    <2> DEFINE r == call[c].r
    <2>1. /\ r \in Requests /\ made[r] # {}
          /\ UNCHANGED <<made, joined, told>>
          /\ UNCHANGED taken \/ (r \notin taken /\ taken' = taken \cup {r})
      BY <1>3, TakeStep
    <2>2. Cardinality(made[r]) = 1
      <3>1. PICK n \in made[r] : made[r] = {n}
        BY <2>1 DEF WritesInv, RowSound
      <3> QED
        BY <3>1, FS_Singleton
    <2>3. UNCHANGED taken \/ W!Take(r)
      BY <2>1, <2>2 DEF W!Take
    <2> QED
      BY <2>1, <2>3 DEF W!Next
  <1>4. ASSUME Next, NEW c \in Clients, AfterVerifiedChange(c)
        PROVE  W!Next \/ UNCHANGED <<made, taken, joined, told>>
    <2> DEFINE r == call[c].r
    <2>1. /\ r \in Requests /\ r \in taken
          /\ UNCHANGED <<made, taken, told>>
          /\ UNCHANGED joined \/ joined' = joined \cup {r}
      BY <1>4, JoinStep
    <2>2. UNCHANGED joined \/ W!Join(r)
      BY <2>1 DEF W!Join
    <2> QED
      BY <2>1, <2>2 DEF W!Next
  <1>5. ASSUME NEW r \in Requests, TellStep(r)
        PROVE  W!Next
    <2>1. W!Tell(r)
      BY <1>5 DEF W!Tell, TellStep
    <2> QED
      BY <2>1 DEF W!Next
  <1>6. CASE Next
    <2>1. \/ UNCHANGED made
          \/ \E c \in Clients : PushRef(c) \/ PushFiles(c)
      BY <1>6, Frame DEF git, OutsidePush
    <2>2. \/ UNCHANGED taken
          \/ \E c \in Clients : WorkspaceWriteComplete(c)
      BY <1>6, Frame DEF Refresh, TakeUnquoted, history
    <2>3. UNCHANGED joined \/ \E c \in Clients : AfterVerifiedChange(c)
      BY <1>6, Frame
    <2>4. UNCHANGED told \/ \E r \in Requests : TellStep(r)
      BY <1>6, Telling
    <2> QED
      BY <1>1, <1>2, <1>3, <1>4, <1>5, <1>6, <2>1, <2>2, <2>3, <2>4
  <1>7. CASE UNCHANGED vars
    BY <1>1, <1>7 DEF vars
  <1> QED
    BY <1>6, <1>7

\* The durable writes implement WriteOnce: whatever is retried, cut off or
\* done by others in between, a request is pushed once, taken by the workspace
\* once, joined by the session afterwards, and told of as a success only then.
THEOREM WritesOnce == Spec => WrittenOnce
  <1>1. Init => W!Init
    BY InitAbstract
  <1>2. WritesInv /\ [Next]_vars => [W!Next]_(W!vars)
    BY NextAbstract
  <1> QED
    BY <1>1, <1>2, WritesInvariance, PTL DEF Spec, WrittenOnce, W!Spec
=============================================================================
