------------------------ MODULE DevSessions_proofs ------------------------
(***************************************************************************)
(* Proofs of the safety properties of DevSessions, for any commits, base   *)
(* branches and clients.                                                   *)
(*                                                                         *)
(* Both rows take a new revision with every change.  So what a call read   *)
(* together with a revision is still so as long as the row has that        *)
(* revision; when it has another, the compare-and-set refuses the call.    *)
(* CallSound says what each paused call relies on in this way.             *)
(***************************************************************************)
EXTENDS DevSessions, TLAPS

-----------------------------------------------------------------------------
(* The inductive invariant.                                                *)

Validated == {"start_request", "record", "observe"}

\* What a call that pauses knows while its revisions are the current ones.
CallSound(x) ==
    /\ x.w <= ws.rev /\ x.s <= sess.rev
    /\ x.op # "idle" => ws.status # "none"
    /\ x.op = "prepare" =>
          /\ sess.status = "none" => x.base = ws.base
          /\ x.w = ws.rev => x.head = ws.head
    /\ x.op \in {"write", "pushed"} /\ x.w = ws.rev => ws.status = "active"
    /\ x.op = "sync" /\ x.w = ws.rev => x.head = ws.head
    /\ x.op = "write" /\ x.s = sess.rev => x.head = sess.head
    /\ x.op \in {"pushed", "sync"} /\ x.s = sess.rev => <<sess.head, x.head>> \in Before
    /\ x.op \in Validated =>
          /\ x.s \in 1..MaxSessRev
          /\ req[x.s].status # "none"
          /\ x.s = sess.rev => req[x.s].head = sess.head
    /\ x.op = "start_request" => x.to \in {"active", "pr_ready"}

\* A session comes with or after its workspace and never refers to a later
\* revision of it; a closed workspace has no lease.
RowsSound ==
    /\ ws.status = "none" => sess.status = "none" /\ ws.rev = 0
    /\ sess.status = "none" => sess.rev = 0
    /\ sess.w <= ws.rev
    /\ ws.status = "closed" => ws.lease = 0

\* Validations started at revisions the session had, and a session validates
\* for the last one.
ReqSound ==
    /\ \A g \in 1..MaxSessRev : req[g].status # "none" => g <= sess.rev
    /\ sess.status \in Validating =>
          \E g \in 1..MaxSessRev :
             /\ req[g].status # "none"
             /\ \A h \in g + 1..MaxSessRev : req[h].status = "none"

SessionsInv ==
    /\ TypeOK
    /\ RowsSound /\ ReqSound
    /\ \A c \in Clients : CallSound(call[c])
    /\ RevisionNamesIdentity /\ OnePinnedBase /\ MergedIsExact

-----------------------------------------------------------------------------
(* The fields of the two rows, before and after an update.                 *)

LEMMA BaseFacts ==
    ASSUME CommitsAssumption, BoundsAssumption
    PROVE  /\ NoBase \in Bases /\ NoCommit \in Heads
           /\ MaxWsRev \in Nat /\ MaxSessRev \in Nat
           /\ MaxWsRev >= 1 /\ MaxSessRev >= 1
  <1>1. (CHOOSE b \in Branches : TRUE) \in Branches
    BY DEF CommitsAssumption
  <1> QED
    BY <1>1 DEF BoundsAssumption, NoBase, Bases, Heads

LEMMA RowFields ==
    ASSUME CommitsAssumption, BoundsAssumption, TypeOK
    PROVE  /\ ws.status \in WsStatus /\ ws.rev \in Nat /\ ws.rev <= MaxWsRev
           /\ ws.head \in Heads /\ ws.base \in Bases
           /\ ws.lease \in 0..MaxWsRev /\ ws.drift \in {"none", "moved", "deleted"}
           /\ sess.status \in SessStatus /\ sess.rev \in Nat /\ sess.rev <= MaxSessRev
           /\ sess.w \in Nat /\ sess.w \in 0..MaxWsRev
           /\ sess.head \in Heads /\ sess.base \in Bases
           /\ sess.lease \in 0..MaxWsRev /\ sess.pull \in BOOLEAN
           /\ ws \in WorkspaceRows /\ sess \in SessionRows
           /\ lapsed \in BOOLEAN /\ merged \in Heads /\ git \in Heads
  BY BaseFacts DEF TypeOK, WorkspaceRows, SessionRows

\* The workspace takes its next revision, with this content.
WsTakes(st, hd, bs, ls, dr) ==
    /\ ws' \in WorkspaceRows
    /\ ws'.rev = ws.rev + 1 /\ ws'.rev \in Nat
    /\ ws'.status = st /\ ws'.head = hd /\ ws'.base = bs
    /\ ws'.lease = ls /\ ws'.drift = dr

\* So does the session.
SessTakes(st, w, hd, bs, ls) ==
    /\ sess' \in SessionRows
    /\ sess'.rev = sess.rev + 1 /\ sess'.rev \in Nat
    /\ sess'.status = st /\ sess'.w = w /\ sess'.head = hd
    /\ sess'.base = bs /\ sess'.lease = ls

LEMMA WsTaken ==
    ASSUME CommitsAssumption, BoundsAssumption, TypeOK,
           NEW row \in WorkspaceRows, WsUpdate(row)
    PROVE  /\ WsTakes(row.status, row.head, row.base, row.lease, row.drift)
           /\ lapsed' = lapsed
  <1>1. ws.rev \in Nat /\ ws.rev < MaxWsRev /\ MaxWsRev \in Nat
    BY RowFields, BaseFacts DEF WsUpdate
  <1> DEFINE n == ws.rev + 1
  <1>2. n \in 0..MaxWsRev /\ n \in Nat
    BY <1>1
  <1>3. ws' = [row EXCEPT !.rev = n] /\ lapsed' = lapsed
    BY DEF WsUpdate
  <1>4. n = ws.rev + 1
    OBVIOUS
  <1> HIDE DEF n
  <1> QED
    BY <1>2, <1>3, <1>4 DEF WsTakes, WorkspaceRows

LEMMA WsGranted ==
    ASSUME CommitsAssumption, BoundsAssumption, TypeOK,
           NEW row \in WorkspaceRows, WsGrant(row)
    PROVE  /\ WsTakes(row.status, row.head, row.base, ws.rev + 1, row.drift)
           /\ lapsed' \in BOOLEAN
  <1>1. ws.rev \in Nat /\ ws.rev < MaxWsRev /\ MaxWsRev \in Nat
    BY RowFields, BaseFacts DEF WsGrant
  <1> DEFINE n == ws.rev + 1
  <1>2. n \in 0..MaxWsRev /\ n \in Nat
    BY <1>1
  <1>3. ws' = [row EXCEPT !.rev = n, !.lease = n] /\ lapsed' \in BOOLEAN
    BY DEF WsGrant
  <1>4. n = ws.rev + 1
    OBVIOUS
  <1> HIDE DEF n
  <1> QED
    BY <1>2, <1>3, <1>4 DEF WsTakes, WorkspaceRows

LEMMA SessTaken ==
    ASSUME CommitsAssumption, BoundsAssumption, TypeOK,
           NEW row \in SessionRows, SessUpdate(row)
    PROVE  SessTakes(row.status, row.w, row.head, row.base, row.lease)
  <1>1. sess.rev \in Nat /\ sess.rev < MaxSessRev /\ MaxSessRev \in Nat
    BY RowFields, BaseFacts DEF SessUpdate
  <1> DEFINE n == sess.rev + 1
  <1>2. n \in 0..MaxSessRev /\ n \in Nat
    BY <1>1
  <1>3. sess' = [row EXCEPT !.rev = n]
    BY DEF SessUpdate
  <1>4. n = sess.rev + 1
    OBVIOUS
  <1> HIDE DEF n
  <1> QED
    BY <1>2, <1>3, <1>4 DEF SessTakes, SessionRows

\* Only the status, or the status with what the update says.
LEMMA SessMoved ==
    ASSUME CommitsAssumption, BoundsAssumption, TypeOK, NEW st \in SessStatus,
           SessUpdate([sess EXCEPT !.status = st])
    PROVE  SessTakes(st, sess.w, sess.head, sess.base, sess.lease)
  <1> DEFINE row == [sess EXCEPT !.status = st]
  <1>1. /\ row \in SessionRows
        /\ row.status = st /\ row.w = sess.w /\ row.head = sess.head
        /\ row.base = sess.base /\ row.lease = sess.lease
    BY RowFields DEF SessionRows
  <1>2. SessUpdate(row)
    OBVIOUS
  <1> HIDE DEF row
  <1> QED
    BY <1>1, <1>2, SessTaken

LEMMA SessSet ==
    ASSUME CommitsAssumption, BoundsAssumption, TypeOK, NEW st \in SessStatus,
           NEW w \in 0..MaxWsRev, NEW hd \in Heads, NEW ls \in 0..MaxWsRev,
           SessUpdate([sess EXCEPT !.status = st, !.head = hd, !.w = w, !.lease = ls])
    PROVE  SessTakes(st, w, hd, sess.base, ls)
  <1> DEFINE row == [sess EXCEPT !.status = st, !.head = hd, !.w = w, !.lease = ls]
  <1>1. /\ row \in SessionRows
        /\ row.status = st /\ row.w = w /\ row.head = hd
        /\ row.base = sess.base /\ row.lease = ls
    BY RowFields DEF SessionRows
  <1>2. SessUpdate(row)
    OBVIOUS
  <1> HIDE DEF row
  <1> QED
    BY <1>1, <1>2, SessTaken

-----------------------------------------------------------------------------
(* What a step does to the two rows.                                       *)

\* The part of the invariant that is about the rows.
RowsInv ==
    /\ ws \in WorkspaceRows /\ sess \in SessionRows /\ lapsed \in BOOLEAN
    /\ RowsSound /\ RevisionNamesIdentity /\ OnePinnedBase /\ MergedIsExact

\* Revisions are taken one by one; a row that was created stays, and stays as
\* it is once it is closed.
Grows ==
    /\ ws' = ws \/ ws'.rev = ws.rev + 1
    /\ sess' = sess \/ sess'.rev = sess.rev + 1
    /\ ws.status # "none" => ws'.status # "none"
    /\ sess.status # "none" => sess'.status # "none"
    /\ ws.status = "closed" =>
          /\ ws'.status = "closed" /\ ws'.head = ws.head /\ ws'.base = ws.base
          /\ ws'.lease = ws.lease /\ ws'.drift = ws.drift
    /\ sess.status \in TerminalStates => sess' = sess
    /\ ws'.base = ws.base \/ ws.status = "none" \/ sess'.status # "none"

\* The session goes forward, except in a restart.
HeadForward == sess.status = "none" \/ Forward(sess.head, sess'.head)

\* It becomes ready out of a validation only if its head passed, and validates
\* only once that started.
Ready ==
    /\ sess.status \in Validating /\ sess'.status = "pr_ready" => FullyPassed(sess'.head)
    /\ sess'.status \in Validating =>
          sess.status \in Validating \/ \E c \in Clients : ValidationStarted(c)

Proven == Ready \/ \E c \in Clients : RollBackValidation(c)

RowsStep == RowsInv' /\ Grows /\ Proven /\ (HeadForward \/ Restart)

LEMMA RowsStay ==
    ASSUME CommitsAssumption, BoundsAssumption, SessionsInv,
           UNCHANGED <<ws, sess, merged>>, lapsed' \in BOOLEAN
    PROVE  RowsStep
  <1>1. RowsInv'
    BY DEF SessionsInv, TypeOK, RowsInv, RowsSound, RevisionNamesIdentity, OnePinnedBase,
           MergedIsExact, Managed, SameIdentity
  <1>2. Grows /\ HeadForward
    BY DEF Grows, HeadForward, Forward
  <1>3. Ready
    BY DEF Ready, Validating
  <1> QED
    BY <1>1, <1>2, <1>3 DEF RowsStep, Proven

\* A step of the workspace alone: it is open and keeps its base, or it is
\* closed.
LEMMA WsStep ==
    ASSUME CommitsAssumption, BoundsAssumption, SessionsInv,
           NEW st \in WsStatus \ {"none"}, NEW hd, NEW ls, NEW dr,
           WsTakes(st, hd, ws.base, ls, dr), ws.status # "none",
           ws.status = "closed" => /\ st = "closed" /\ hd = ws.head
                                   /\ ls = ws.lease /\ dr = ws.drift,
           st = "closed" => ls = 0,
           UNCHANGED <<sess, merged>>, lapsed' \in BOOLEAN
    PROVE  RowsStep
  <1> USE DEF SessionsInv
  <1>0. ws.rev \in Nat /\ sess.w \in Nat /\ sess \in SessionRows
    BY RowFields
  <1>1. RowsInv'
    <2>1. RowsSound' /\ RevisionNamesIdentity'
      BY <1>0 DEF RowsSound, RevisionNamesIdentity, WsTakes, Managed
    <2>2. OnePinnedBase' /\ MergedIsExact'
      BY DEF OnePinnedBase, MergedIsExact, WsTakes, Managed
    <2> QED
      BY <1>0, <2>1, <2>2 DEF RowsInv, WsTakes
  <1>2. Grows
    BY DEF Grows, WsTakes
  <1>3. HeadForward /\ Ready
    BY DEF HeadForward, Forward, Ready, Validating
  <1> QED
    BY <1>1, <1>2, <1>3 DEF RowsStep, Proven

\* A step of the session alone: it keeps its base and, as long as it refers to
\* the revision that its workspace has, the identity.
LEMMA SessStep ==
    ASSUME CommitsAssumption, BoundsAssumption, SessionsInv, Managed,
           NEW st \in SessStatus \ {"none", "merged"}, NEW w, NEW hd, NEW ls,
           SessTakes(st, w, hd, sess.base, ls),
           w <= ws.rev, st \in ActiveStates /\ w = ws.rev => hd = ws.head,
           Proven, Forward(sess.head, hd) \/ Restart,
           UNCHANGED <<ws, lapsed, merged>>
    PROVE  RowsStep
  <1> USE DEF SessionsInv
  <1>0. sess.status \in ActiveStates /\ sess.status # "none"
        /\ sess.status \notin TerminalStates /\ ws \in WorkspaceRows /\ lapsed \in BOOLEAN
    BY RowFields DEF Managed, ActiveStates, Validating, TerminalStates
  <1>1. RowsInv'
    <2>1. RowsSound'
      BY <1>0 DEF RowsSound, SessTakes
    <2>2. OnePinnedBase'
      BY <1>0 DEF OnePinnedBase, SessTakes, Managed
    <2>3. RevisionNamesIdentity'
      BY <1>0 DEF OnePinnedBase, RevisionNamesIdentity, SessTakes, Managed, SameIdentity
    <2>4. MergedIsExact'
      BY DEF MergedIsExact, SessTakes
    <2> QED
      BY <1>0, <2>1, <2>2, <2>3, <2>4 DEF RowsInv, SessTakes
  <1>2. Grows
    BY <1>0 DEF Grows, SessTakes
  <1> QED
    BY <1>1, <1>2 DEF RowsStep, HeadForward, SessTakes

-----------------------------------------------------------------------------
(* The steps of the workspace.                                             *)

LEMMA CreateRows ==
    ASSUME CommitsAssumption, BoundsAssumption, SessionsInv,
           NEW c \in Clients, CreateWorkspace(c)
    PROVE  RowsStep
  <1> USE DEF SessionsInv
  <1>1. PICK br \in Branches :
           ws' = [status |-> "active", rev |-> 1, head |-> base[br],
                  base |-> [br |-> br, sha |-> base[br]], lease |-> 1, drift |-> "none"]
    BY DEF CreateWorkspace
  <1>2. base[br] \in Trunk /\ base[br] \in Commits
    BY DEF TypeOK, CommitsAssumption
  <1> DEFINE b == [br |-> br, sha |-> base[br]]
  <1>3. b \in Bases /\ base[br] \in Heads
    BY <1>2 DEF Bases, Heads
  <1>4. ws' = [status |-> "active", rev |-> 1, head |-> base[br],
               base |-> b, lease |-> 1, drift |-> "none"]
    BY <1>1
  <1> HIDE DEF b
  <1>5. 1 \in 0..MaxWsRev
    BY BaseFacts
  <1>6. ws' \in WorkspaceRows /\ ws'.rev = 1 /\ ws'.status = "active"
    BY <1>3, <1>4, <1>5 DEF WorkspaceRows, WsStatus
  <1>7. /\ ws.status = "none" /\ ws.rev = 0 /\ sess.status = "none"
        /\ sess.w <= 0 /\ sess.w \in Nat
        /\ UNCHANGED <<sess, lapsed, merged>>
        /\ sess \in SessionRows /\ lapsed \in BOOLEAN /\ sess.rev = 0
    BY RowFields DEF CreateWorkspace, RowsSound
  <1>8. RowsInv'
    BY <1>6, <1>7 DEF RowsInv, RowsSound, RevisionNamesIdentity, OnePinnedBase,
                      MergedIsExact, Managed, ActiveStates, Validating
  <1>9. Grows /\ HeadForward /\ Ready
    BY <1>6, <1>7 DEF Grows, HeadForward, Ready, Validating
  <1> QED
    BY <1>8, <1>9 DEF RowsStep, Proven

LEMMA EffectiveIs ==
    /\ Effective = "active" => ws.status = "active" /\ ~lapsed
    /\ Effective = "expired" => ws.status \in {"active", "expired"}
  BY DEF Effective

LEMMA GrantRows ==
    ASSUME CommitsAssumption, BoundsAssumption, SessionsInv,
           RenewWorkspaceLease \/ DeclareScope
    PROVE  RowsStep
  <1>1. TypeOK /\ ws \in WorkspaceRows /\ ws.status = "active" /\ lapsed \in BOOLEAN
    BY RowFields, EffectiveIs DEF SessionsInv, RenewWorkspaceLease, DeclareScope
  <1>2. UNCHANGED <<sess, merged>>
    BY DEF RenewWorkspaceLease, DeclareScope, SameRest, external
  <1>3. "active" \in WsStatus \ {"none"}
    BY DEF WsStatus
  <1>4. CASE RenewWorkspaceLease
    <2>1. WsTakes("active", ws.head, ws.base, ws.rev + 1, ws.drift) /\ lapsed' \in BOOLEAN
      BY <1>1, <1>4, WsGranted DEF RenewWorkspaceLease
    <2> QED
      BY <1>1, <1>2, <1>3, <2>1, WsStep
  <1>5. CASE DeclareScope
    <2>1. WsTakes("active", ws.head, ws.base, ws.lease, ws.drift) /\ lapsed' = lapsed
      BY <1>1, <1>5, WsTaken DEF DeclareScope
    <2> QED
      BY <1>1, <1>2, <1>3, <2>1, WsStep
  <1> QED
    BY <1>4, <1>5

LEMMA ResumeRows ==
    ASSUME CommitsAssumption, BoundsAssumption, SessionsInv, ResumeWorkspace
    PROVE  RowsStep
  <1>1. TypeOK /\ ws \in WorkspaceRows /\ ws.status \in {"active", "expired"}
    BY RowFields, EffectiveIs DEF SessionsInv, ResumeWorkspace
  <1>2. UNCHANGED <<sess, merged>>
    BY DEF ResumeWorkspace, SameRest, external
  <1>3. "active" \in WsStatus \ {"none"}
    BY DEF WsStatus
  <1> DEFINE row == [ws EXCEPT !.status = "active", !.drift = "none"]
  <1>4. /\ row \in WorkspaceRows /\ row.status = "active" /\ row.head = ws.head
        /\ row.base = ws.base /\ row.drift = "none"
    BY <1>1 DEF WorkspaceRows, WsStatus
  <1>5. WsGrant(row)
    BY DEF ResumeWorkspace
  <1> HIDE DEF row
  <1>6. WsTakes("active", ws.head, ws.base, ws.rev + 1, "none") /\ lapsed' \in BOOLEAN
    BY <1>1, <1>4, <1>5, WsGranted
  <1> QED
    BY <1>1, <1>2, <1>3, <1>6, WsStep

LEMMA RefreshRows ==
    ASSUME CommitsAssumption, BoundsAssumption, SessionsInv, RefreshWorkspace
    PROVE  RowsStep
  <1>1. /\ TypeOK /\ ws \in WorkspaceRows /\ ws.status \notin {"none", "closed"}
        /\ git \in Heads /\ ws.head \in Heads /\ lapsed \in BOOLEAN
    BY RowFields DEF SessionsInv, RefreshWorkspace
  <1>2. UNCHANGED <<sess, merged>>
    BY DEF RefreshWorkspace, SameRest, external
  <1>3. PICK hd \in Heads, st \in {"drifted", "expired", "active"},
             dr \in {"none", "moved", "deleted"} :
           WsUpdate([ws EXCEPT !.head = hd, !.status = st, !.drift = dr])
    BY <1>1 DEF RefreshWorkspace
  <1> DEFINE row == [ws EXCEPT !.head = hd, !.status = st, !.drift = dr]
  <1>4. /\ row \in WorkspaceRows /\ row.status = st /\ row.head = hd
        /\ row.base = ws.base /\ row.drift = dr /\ row.lease = ws.lease
    BY <1>1 DEF WorkspaceRows, WsStatus
  <1>5. WsUpdate(row)
    BY <1>3
  <1> HIDE DEF row
  <1>6. WsTakes(st, hd, ws.base, ws.lease, dr) /\ lapsed' = lapsed
    BY <1>1, <1>4, <1>5, WsTaken
  <1>7. st \in WsStatus \ {"none"} /\ st # "closed"
    BY DEF WsStatus
  <1> QED
    BY <1>1, <1>2, <1>6, <1>7, WsStep

LEMMA ExpireRows ==
    ASSUME CommitsAssumption, BoundsAssumption, SessionsInv, OwnerExpires
    PROVE  RowsStep
  <1>1. TypeOK /\ ws \in WorkspaceRows /\ ws.status = "active" /\ lapsed \in BOOLEAN
    BY RowFields DEF SessionsInv, OwnerExpires
  <1>2. UNCHANGED <<sess, merged, lapsed>>
    BY DEF OwnerExpires, SameRest, external
  <1> DEFINE row == [ws EXCEPT !.status = "expired"]
  <1>3. /\ row \in WorkspaceRows /\ row.status = "expired" /\ row.head = ws.head
        /\ row.base = ws.base /\ row.drift = ws.drift /\ row.lease = ws.lease
    BY <1>1 DEF WorkspaceRows, WsStatus
  <1>4. WsUpdate(row)
    <2>1. ws' = [row EXCEPT !.rev = ws.rev + 1]
      BY <1>1 DEF OwnerExpires, WorkspaceRows
    <2> QED
      BY <1>2, <2>1 DEF OwnerExpires, WsUpdate
  <1> HIDE DEF row
  <1>5. WsTakes("expired", ws.head, ws.base, ws.lease, ws.drift)
    BY <1>1, <1>3, <1>4, WsTaken
  <1>6. "expired" \in WsStatus \ {"none"}
    BY DEF WsStatus
  <1> QED
    BY <1>1, <1>2, <1>5, <1>6, WsStep

\* close_workspace: closed at the next revision, or as it was.
LEMMA CloseUpdated ==
    ASSUME CommitsAssumption, BoundsAssumption, SessionsInv, NEW c \in Clients,
           CloseUpdate(c), ws.status # "none", UNCHANGED <<sess, merged>>
    PROVE  RowsStep /\ ws'.rev \in Nat
  <1>1. TypeOK /\ ws \in WorkspaceRows /\ lapsed \in BOOLEAN
    BY RowFields DEF SessionsInv
  <1>2. CASE SameWs
    BY <1>1, <1>2, RowsStay, RowFields DEF SameWs
  <1>3. CASE WsUpdate(CloseRow)
    <2> DEFINE row == CloseRow
    <2>0. 0 \in 0..MaxWsRev
      BY BaseFacts
    <2>1. /\ row \in WorkspaceRows /\ row.status = "closed" /\ row.head = ws.head
          /\ row.base = ws.base /\ row.drift = ws.drift /\ row.lease = 0
      BY <1>1, <2>0 DEF WorkspaceRows, WsStatus, CloseRow
    <2>2. WsUpdate(row)
      BY <1>3
    <2> HIDE DEF row
    <2>3. WsTakes("closed", ws.head, ws.base, 0, ws.drift) /\ lapsed' = lapsed
      BY <1>1, <2>1, <2>2, WsTaken
    <2>4. "closed" \in WsStatus \ {"none"}
      BY DEF WsStatus
    <2>5. ws.status = "closed" => ws.lease = 0
      BY DEF SessionsInv, RowsSound
    <2> QED
      BY <1>1, <2>3, <2>4, <2>5, WsStep DEF WsTakes
  <1> QED
    BY <1>2, <1>3 DEF CloseUpdate

LEMMA WriteRows ==
    ASSUME CommitsAssumption, BoundsAssumption, SessionsInv,
           NEW c \in Clients, WorkspaceWriteComplete(c)
    PROVE  RowsStep /\ ws'.rev = ws.rev + 1 /\ ws'.head = call[c].head
  <1> DEFINE hd == call[c].head
  <1>1. /\ TypeOK /\ ws \in WorkspaceRows /\ lapsed \in BOOLEAN
        /\ call[c].op = "pushed" /\ ws.rev = call[c].w /\ hd \in Heads
        /\ ws.status = "active"
    BY RowFields DEF SessionsInv, WorkspaceWriteComplete, WsUnmoved, CallSound, TypeOK,
                     Calls
  <1>2. UNCHANGED <<sess, merged>> /\ WsUpdate([ws EXCEPT !.head = hd])
    BY DEF WorkspaceWriteComplete, SameRest, external
  <1> HIDE DEF hd
  <1> DEFINE row == [ws EXCEPT !.head = hd]
  <1>3. /\ row \in WorkspaceRows /\ row.status = "active" /\ row.head = hd
        /\ row.base = ws.base /\ row.drift = ws.drift /\ row.lease = ws.lease
    BY <1>1 DEF WorkspaceRows
  <1>4. WsUpdate(row)
    BY <1>2
  <1> HIDE DEF row
  <1>5. WsTakes("active", hd, ws.base, ws.lease, ws.drift) /\ lapsed' = lapsed
    BY <1>1, <1>3, <1>4, WsTaken
  <1>6. "active" \in WsStatus \ {"none"}
    BY DEF WsStatus
  <1> QED
    BY <1>1, <1>2, <1>5, <1>6, WsStep DEF WsTakes, hd

-----------------------------------------------------------------------------
(* The steps of the session.                                               *)

LEMMA Statuses ==
    /\ ActiveStates \subseteq SessStatus \ {"none", "merged"}
    /\ TerminalStates \subseteq SessStatus \ {"none"}
    /\ Validating \subseteq ActiveStates
    /\ {"preparing", "active", "pr_ready", "drifted", "blocked", "closing"}
          \subseteq ActiveStates \ Validating
    /\ ActiveStates \cap TerminalStates = {}
    /\ "closed" \in TerminalStates /\ "prepare_failed" \in TerminalStates
    /\ "merged" \in TerminalStates
  BY DEF SessStatus, ActiveStates, TerminalStates, Validating

\* A step that neither starts a validation nor ends one well.
LEMMA NotReady ==
    ASSUME sess'.status \notin Validating,
           sess.status \notin Validating \/ sess'.status # "pr_ready"
    PROVE  Ready /\ Proven
  BY DEF Ready, Proven

LEMMA ForwardStays == \A h : Forward(h, h)
  BY DEF Forward

\* The session takes another status and keeps everything else.
LEMMA StatusStep ==
    ASSUME CommitsAssumption, BoundsAssumption, SessionsInv, Managed,
           NEW st \in ActiveStates,
           SessUpdate([sess EXCEPT !.status = st]), Proven,
           UNCHANGED <<ws, lapsed, merged>>
    PROVE  RowsStep /\ SessTakes(st, sess.w, sess.head, sess.base, sess.lease)
  <1>1. TypeOK /\ sess.w <= ws.rev
    BY DEF SessionsInv, RowsSound
  <1>2. st \in SessStatus \ {"none", "merged"}
    BY Statuses
  <1>3. SessTakes(st, sess.w, sess.head, sess.base, sess.lease)
    BY <1>1, <1>2, SessMoved
  <1>4. sess.w = ws.rev => sess.head = ws.head
    BY DEF SessionsInv, RevisionNamesIdentity, SameIdentity
  <1> QED
    BY <1>1, <1>2, <1>3, <1>4, SessStep, ForwardStays

\* The session of a workspace that was just created.
LEMMA FirstStep ==
    ASSUME CommitsAssumption, BoundsAssumption, SessionsInv,
           sess.status = "none", ws.status # "none",
           NEW st \in {"preparing", "active"},
           NEW w \in 0..MaxWsRev, NEW hd \in Heads, NEW b \in Bases,
           NEW ls \in 0..MaxWsRev,
           sess' = [status |-> st, rev |-> 1, w |-> w, head |-> hd, base |-> b,
                    lease |-> ls, pull |-> FALSE],
           ws' \in WorkspaceRows, lapsed' \in BOOLEAN,
           ws' = ws \/ ws'.rev = ws.rev + 1,
           ws'.status # "none",
           ws'.status = "closed" <=> ws.status = "closed",
           ws'.status = "closed" => ws' = ws,
           b = ws'.base, w <= ws'.rev, w = ws'.rev => hd = ws'.head,
           merged' = merged
    PROVE  RowsStep
  <1>1. 1 \in 0..MaxSessRev /\ st \in SessStatus
    BY BaseFacts DEF SessStatus, ActiveStates
  <1>2. /\ sess' \in SessionRows /\ sess'.rev = 1 /\ sess'.status = st /\ sess'.w = w
        /\ sess'.head = hd /\ sess'.base = b
    BY <1>1 DEF SessionRows
  <1>3. sess.rev = 0 /\ (ws.status = "closed" => ws.lease = 0)
    BY DEF SessionsInv, RowsSound
  <1>4. RowsSound'
    BY <1>2, <1>3 DEF RowsSound
  <1>5. RevisionNamesIdentity' /\ OnePinnedBase' /\ MergedIsExact'
    BY <1>2 DEF RevisionNamesIdentity, OnePinnedBase, MergedIsExact, SameIdentity
  <1>6. Grows /\ Ready /\ HeadForward
    BY <1>2, <1>3 DEF Grows, Ready, HeadForward, Validating, TerminalStates
  <1> QED
    BY <1>2, <1>4, <1>5, <1>6 DEF RowsStep, RowsInv, Proven

LEMMA CreateSessionRows ==
    ASSUME CommitsAssumption, BoundsAssumption, SessionsInv,
           NEW c \in Clients, CreateSession(c)
    PROVE  RowsStep /\ sess'.rev = 1
  <1> DEFINE x == call[c]
  <1>1. /\ x.w \in 0..MaxWsRev /\ x.head \in Heads /\ x.base \in Bases
        /\ x.lease \in 0..MaxWsRev /\ ws \in WorkspaceRows /\ lapsed \in BOOLEAN
    BY RowFields DEF SessionsInv, TypeOK, Calls
  <1>2. /\ sess.status = "none" /\ ws.status # "none" /\ x.w <= ws.rev
        /\ x.base = ws.base
        /\ x.w = ws.rev => x.head = ws.head
    BY DEF SessionsInv, CreateSession, CallSound
  <1>3. /\ sess' = [status |-> "preparing", rev |-> 1, w |-> x.w, head |-> x.head,
                    base |-> x.base, lease |-> x.lease, pull |-> FALSE]
        /\ UNCHANGED <<ws, lapsed, merged>>
    BY DEF CreateSession, SameWs, SameRest, external
  <1> HIDE DEF x
  <1> QED
    BY <1>1, <1>2, <1>3, FirstStep

LEMMA PreparedRows ==
    ASSUME CommitsAssumption, BoundsAssumption, SessionsInv,
           NEW c \in Clients, PreparationCompleted(c)
    PROVE  RowsStep
  <1>1. /\ Managed /\ UNCHANGED <<ws, lapsed, merged>>
        /\ SessUpdate([sess EXCEPT !.status = "active"])
    BY Statuses DEF PreparationCompleted, Managed, SameWs, SameRest, external
  <1>2. TypeOK /\ "active" \in SessStatus /\ "active" \in ActiveStates
    BY Statuses DEF SessionsInv
  <1>3. SessTakes("active", sess.w, sess.head, sess.base, sess.lease)
    BY <1>1, <1>2, SessMoved
  <1>4. Proven
    BY <1>3, NotReady DEF SessTakes, Validating
  <1> QED
    BY <1>1, <1>2, <1>4, StatusStep

\* A session that ends, other than by the merge.
LEMMA EndStep ==
    ASSUME CommitsAssumption, BoundsAssumption, SessionsInv,
           sess.status \in {"preparing", "closing"},
           NEW st \in {"prepare_failed", "closed"},
           NEW w \in 0..MaxWsRev, NEW ls \in 0..MaxWsRev, w <= ws.rev,
           SessUpdate([sess EXCEPT !.status = st, !.w = w, !.lease = ls]),
           UNCHANGED <<ws, lapsed, merged>>
    PROVE  RowsStep
  <1>1. TypeOK /\ sess \in SessionRows /\ Managed
        /\ st \in SessStatus \ {"none", "merged"} /\ st \notin ActiveStates
    BY RowFields, Statuses DEF SessionsInv, Managed
  <1> DEFINE row == [sess EXCEPT !.status = st, !.w = w, !.lease = ls]
  <1>2. /\ row \in SessionRows
        /\ row.status = st /\ row.w = w /\ row.head = sess.head
        /\ row.base = sess.base /\ row.lease = ls
    BY <1>1 DEF SessionRows
  <1>3. SessUpdate(row)
    OBVIOUS
  <1> HIDE DEF row
  <1>4. SessTakes(st, w, sess.head, sess.base, ls)
    BY <1>1, <1>2, <1>3, SessTaken
  <1>5. Ready
    BY <1>4, NotReady DEF SessTakes, Validating
  <1> QED
    BY <1>1, <1>4, <1>5, SessStep, ForwardStays DEF Proven

LEMMA EndRows ==
    ASSUME CommitsAssumption, BoundsAssumption, SessionsInv,
           NEW c \in Clients, PreparationFailed(c) \/ SessionClosed(c)
    PROVE  RowsStep
  <1>0. 0 \in 0..MaxWsRev
    BY BaseFacts
  <1>1. call[c].w \in 0..MaxWsRev /\ call[c].lease \in 0..MaxWsRev /\ call[c].w <= ws.rev
    BY DEF SessionsInv, TypeOK, Calls, CallSound
  <1>2. CASE PreparationFailed(c)
    BY <1>1, <1>2, EndStep DEF PreparationFailed, SameWs, SameRest, external
  <1>3. CASE SessionClosed(c)
    BY <1>0, <1>1, <1>3, EndStep DEF SessionClosed, SameWs, SameRest, external
  <1> QED
    BY <1>2, <1>3

\* recover_stale_session, after_verified_change and the like: the session
\* takes a head that its own leads to.
LEMMA AdoptionStep ==
    ASSUME CommitsAssumption, BoundsAssumption, SessionsInv, Managed,
           NEW st \in ActiveStates, st = "active" \/ st = sess.status,
           NEW hd \in Heads, Forward(sess.head, hd),
           NEW w \in 0..MaxWsRev, NEW ls \in 0..MaxWsRev,
           w <= ws.rev, w = ws.rev => hd = ws.head,
           SessUpdate([sess EXCEPT !.status = st, !.head = hd, !.w = w, !.lease = ls]),
           UNCHANGED <<ws, lapsed, merged>>
    PROVE  RowsStep
  <1>1. TypeOK /\ st \in SessStatus \ {"none", "merged"}
    BY Statuses DEF SessionsInv
  <1>2. SessTakes(st, w, hd, sess.base, ls)
    BY <1>1, SessSet
  <1>3. Ready
    BY <1>2 DEF Ready, Validating, SessTakes
  <1> QED
    BY <1>1, <1>2, <1>3, SessStep DEF Proven

LEMMA RecoverStaleRows ==
    ASSUME CommitsAssumption, BoundsAssumption, SessionsInv, RecoverStaleSession
    PROVE  RowsStep
  <1>1. /\ Managed /\ Forward(sess.head, ws.head) /\ sess.status \in ActiveStates
        /\ UNCHANGED <<ws, lapsed, merged>>
        /\ SessUpdate([sess EXCEPT !.head = ws.head, !.w = ws.rev, !.lease = ws.lease])
    BY DEF RecoverStaleSession, FellBehind, Managed, SameWs, SameRest, external
  <1>2. /\ ws.head \in Heads /\ ws.lease \in 0..MaxWsRev /\ ws.rev \in 0..MaxWsRev
        /\ sess \in SessionRows /\ ws.rev <= ws.rev
    BY RowFields, BaseFacts DEF SessionsInv
  <1> DEFINE st == sess.status
  <1>3. [sess EXCEPT !.head = ws.head, !.w = ws.rev, !.lease = ws.lease] =
        [sess EXCEPT !.status = st, !.head = ws.head, !.w = ws.rev, !.lease = ws.lease]
    BY <1>2 DEF SessionRows
  <1>4. SessUpdate([sess EXCEPT !.status = st, !.head = ws.head, !.w = ws.rev,
                                !.lease = ws.lease])
    BY <1>1, <1>3
  <1> HIDE DEF st
  <1>5. st \in ActiveStates /\ st = sess.status
    BY <1>1 DEF st
  <1> QED
    BY <1>1, <1>2, <1>4, <1>5, AdoptionStep

LEMMA SyncRows ==
    ASSUME CommitsAssumption, BoundsAssumption, SessionsInv,
           NEW c \in Clients, SyncFromWorkspace(c)
    PROVE  RowsStep
  <1> DEFINE hd == call[c].head
             w == call[c].w
             ls == call[c].lease
  <1>1. /\ Managed /\ UNCHANGED <<ws, lapsed, merged>>
        /\ SessUpdate([sess EXCEPT !.status = "active", !.head = hd, !.w = w, !.lease = ls])
    BY DEF SyncFromWorkspace, SameWs, SameRest, external
  <1>2. hd \in Heads /\ w \in 0..MaxWsRev /\ ls \in 0..MaxWsRev
    BY DEF SessionsInv, TypeOK, Calls
  <1>3. w <= ws.rev /\ (w = ws.rev => hd = ws.head) /\ Forward(sess.head, hd)
    BY DEF SessionsInv, CallSound, SyncFromWorkspace, SessUnmoved, Forward
  <1>4. "active" \in ActiveStates
    BY Statuses
  <1> HIDE DEF hd, w, ls
  <1> QED
    BY <1>1, <1>2, <1>3, <1>4, AdoptionStep

LEMMA StartedRows ==
    ASSUME CommitsAssumption, BoundsAssumption, SessionsInv,
           NEW c \in Clients, ValidationStarted(c)
    PROVE  RowsStep /\ sess'.rev = sess.rev + 1 /\ sess'.head = sess.head
  <1>1. /\ sess.status \in {"active", "pr_ready"} /\ Managed
        /\ UNCHANGED <<ws, lapsed, merged>>
    BY Statuses DEF ValidationStarted, Managed, SameWs, external
  <1>2. PICK mode \in Validating : SessUpdate([sess EXCEPT !.status = mode])
    BY DEF ValidationStarted
  <1>3. mode \in ActiveStates /\ Ready
    BY <1>1, Statuses DEF Ready, Validating
  <1> QED
    BY <1>1, <1>2, <1>3, StatusStep DEF SessTakes, Proven

LEMMA RollBackRows ==
    ASSUME CommitsAssumption, BoundsAssumption, SessionsInv,
           NEW c \in Clients, RollBackValidation(c)
    PROVE  RowsStep /\ sess'.status \notin Validating
  <1>1. /\ Managed /\ Proven /\ UNCHANGED <<ws, lapsed, merged>>
        /\ SessUpdate([sess EXCEPT !.status = call[c].to])
    BY Statuses DEF RollBackValidation, Managed, Proven, SameWs, SameRest, external
  <1>2. call[c].to \in {"active", "pr_ready"}
    BY DEF SessionsInv, CallSound, RollBackValidation
  <1> QED
    BY <1>1, <1>2, Statuses, StatusStep DEF SessTakes

\* A verdict that makes the session ready comes from a full validation that
\* passed, of the head it has.
LEMMA VerdictStep ==
    ASSUME CommitsAssumption, BoundsAssumption, SessionsInv,
           NEW g \in 1..MaxSessRev, req[g].head = sess.head,
           sess.status \in Validating, NEW st \in ActiveStates,
           st = "pr_ready" => Verdict(req[g]) = "pr_ready",
           SessUpdate([sess EXCEPT !.status = st]),
           UNCHANGED <<ws, lapsed, merged>>
    PROVE  RowsStep
  <1>1. Managed /\ TypeOK
    BY Statuses DEF Managed, SessionsInv
  <1>2. SessTakes(st, sess.w, sess.head, sess.base, sess.lease)
    BY <1>1, Statuses, SessMoved
  <1>3. Ready
    BY <1>2 DEF Ready, SessTakes, FullyPassed, Verdict
  <1> QED
    BY <1>1, <1>3, StatusStep DEF Proven

LEMMA ObservedRows ==
    ASSUME CommitsAssumption, BoundsAssumption, SessionsInv,
           NEW c \in Clients, ValidationObserved(c)
    PROVE  RowsStep
  <1> DEFINE g == call[c].s
             st == IF Ended(req[g]) THEN Verdict(req[g]) ELSE sess.status
  <1>1. g \in 1..MaxSessRev /\ req[g].head = sess.head
    BY DEF SessionsInv, CallSound, ValidationObserved, SessUnmoved, Validated
  <1>2. /\ sess.status \in Validating /\ UNCHANGED <<ws, lapsed, merged>>
        /\ SessUpdate([sess EXCEPT !.status = st])
    BY DEF ValidationObserved, SameWs, SameRest, external
  <1>3. /\ st \in ActiveStates
        /\ st = "pr_ready" => Verdict(req[g]) = "pr_ready"
    BY <1>2, Statuses DEF Verdict, Validating
  <1> HIDE DEF g, st
  <1> QED
    BY <1>1, <1>2, <1>3, VerdictStep

LEMMA ReconcileRows ==
    ASSUME CommitsAssumption, BoundsAssumption, SessionsInv, ReconcileValidation
    PROVE  RowsStep
  <1> DEFINE g == Generation
             st == IF DriftedApart THEN "active" ELSE Verdict(req[g])
  <1>1. /\ sess.status \in Validating /\ UNCHANGED <<ws, lapsed, merged>>
        /\ SessUpdate([sess EXCEPT !.status = st])
        /\ req[g].head = sess.head
    BY DEF ReconcileValidation, BoundPair, Evidence, SameWs, SameRest, external
  <1>2. g \in 1..MaxSessRev
    <2>1. \E h \in 1..MaxSessRev : /\ req[h].status # "none"
                                   /\ \A i \in h + 1..MaxSessRev : req[i].status = "none"
      BY <1>1 DEF SessionsInv, ReqSound
    <2> QED
      BY <2>1 DEF Generation
  <1>3. /\ st \in ActiveStates
        /\ st = "pr_ready" => Verdict(req[g]) = "pr_ready"
    BY Statuses DEF Verdict
  <1> HIDE DEF g, st
  <1> QED
    BY <1>1, <1>2, <1>3, VerdictStep

LEMMA PullRows ==
    ASSUME CommitsAssumption, BoundsAssumption, SessionsInv, PullRequestPrepared
    PROVE  RowsStep
  <1>1. /\ sess.status \in {"active", "pr_ready"} /\ Managed
        /\ UNCHANGED <<ws, lapsed, merged>>
        /\ TypeOK /\ sess \in SessionRows /\ sess.w <= ws.rev
    BY RowFields, Statuses DEF PullRequestPrepared, Managed, SameWs, SameRest, external,
                               SessionsInv, RowsSound
  <1> DEFINE row == [sess EXCEPT !.status = "pr_ready", !.pull = TRUE]
  <1>2. /\ row \in SessionRows
        /\ row.status = "pr_ready" /\ row.w = sess.w /\ row.head = sess.head
        /\ row.base = sess.base /\ row.lease = sess.lease
    BY <1>1, Statuses DEF SessionRows
  <1>3. SessUpdate(row)
    BY DEF PullRequestPrepared
  <1> HIDE DEF row
  <1>4. SessTakes("pr_ready", sess.w, sess.head, sess.base, sess.lease)
    BY <1>1, <1>2, <1>3, SessTaken
  <1>5. Proven /\ "pr_ready" \in SessStatus \ {"none", "merged"}
    BY <1>1, <1>4, Statuses, NotReady DEF SessTakes, Validating
  <1>6. sess.w = ws.rev => sess.head = ws.head
    BY <1>1 DEF SessionsInv, RevisionNamesIdentity, SameIdentity
  <1> QED
    BY <1>1, <1>4, <1>5, <1>6, SessStep, ForwardStays

LEMMA ClosingRows ==
    ASSUME CommitsAssumption, BoundsAssumption, SessionsInv,
           NEW c \in Clients, SessionClosing(c)
    PROVE  RowsStep /\ sess'.rev = sess.rev + 1
  <1>1. /\ Managed /\ UNCHANGED <<ws, lapsed, merged>>
        /\ SessUpdate([sess EXCEPT !.status = "closing"])
    BY Statuses DEF SessionClosing, Managed, SameWs, SameRest, external
  <1>2. TypeOK /\ "closing" \in SessStatus
    BY Statuses DEF SessionsInv
  <1>3. Ready
    <2>1. SessTakes("closing", sess.w, sess.head, sess.base, sess.lease)
      BY <1>1, <1>2, SessMoved
    <2> QED
      BY <2>1, NotReady DEF SessTakes, Validating
  <1> QED
    BY <1>1, <1>3, Statuses, StatusStep DEF SessTakes, Proven

LEMMA RestartRows ==
    ASSUME CommitsAssumption, BoundsAssumption, SessionsInv, Restart
    PROVE  RowsStep
  <1>1. UNCHANGED <<ws, lapsed, merged>>
    BY DEF Restart, SameWs, SameRest, external
  <1>2. CASE sess.status \in {"preparing", "closing"}
    <2>1. /\ TypeOK /\ sess \in SessionRows /\ ws.head \in Heads /\ ws.rev \in 0..MaxWsRev
          /\ ws.rev <= ws.rev
      BY RowFields, BaseFacts DEF SessionsInv
    <2> DEFINE row == [sess EXCEPT !.status = "blocked", !.w = ws.rev, !.head = ws.head]
    <2>2. /\ row \in SessionRows
          /\ row.status = "blocked" /\ row.w = ws.rev /\ row.head = ws.head
          /\ row.base = sess.base /\ row.lease = sess.lease
      BY <2>1, Statuses DEF SessionRows
    <2>3. SessUpdate(row)
      <3>1. sess' = [row EXCEPT !.rev = sess.rev + 1]
        BY <1>2, <2>1 DEF Restart, SessionRows
      <3> QED
        BY <1>2, <3>1 DEF Restart, SessUpdate
    <2> HIDE DEF row
    <2>4. SessTakes("blocked", ws.rev, ws.head, sess.base, sess.lease)
      BY <2>1, <2>2, <2>3, SessTaken
    <2>5. Proven /\ "blocked" \in SessStatus \ {"none", "merged"} /\ Managed
      BY <1>2, <2>4, Statuses, NotReady DEF SessTakes, Validating, Managed
    <2> QED
      BY <1>1, <2>1, <2>4, <2>5, SessStep
  <1>3. CASE sess.status \notin {"preparing", "closing"}
    <2>1. UNCHANGED sess /\ lapsed \in BOOLEAN
      BY <1>3, RowFields DEF Restart, SessionsInv
    <2> QED
      BY <1>1, <2>1, RowsStay
  <1> QED
    BY <1>2, <1>3

-----------------------------------------------------------------------------
(* The steps that write both rows.                                         *)

\* Both rows take their next revision with the same head and base.
LEMMA PairStep ==
    ASSUME CommitsAssumption, BoundsAssumption, SessionsInv,
           ws.status \notin {"none", "closed"}, Managed,
           NEW wst \in WsStatus \ {"none"}, NEW hd, NEW b, NEW ls, NEW dr,
           WsTakes(wst, hd, b, ls, dr), lapsed' \in BOOLEAN,
           wst = "closed" => ls = 0,
           NEW sst \in SessStatus \ {"none"}, NEW sl,
           SessTakes(sst, ws.rev + 1, hd, b, sl),
           sst = "merged" => wst = "closed" /\ merged # NoCommit /\ hd = merged,
           Ready, Forward(sess.head, hd), merged' = merged
    PROVE  RowsStep
  <1>1. ws.rev \in Nat /\ sess.status \notin TerminalStates
    BY RowFields, Statuses DEF SessionsInv, Managed
  <1>2. RowsSound'
    BY <1>1 DEF RowsSound, WsTakes, SessTakes
  <1>3. RevisionNamesIdentity' /\ OnePinnedBase' /\ MergedIsExact'
    BY DEF RevisionNamesIdentity, OnePinnedBase, MergedIsExact, SameIdentity,
           WsTakes, SessTakes
  <1>4. Grows
    BY <1>1 DEF Grows, WsTakes, SessTakes
  <1>5. HeadForward
    BY DEF HeadForward, SessTakes
  <1> QED
    BY <1>2, <1>3, <1>4, <1>5 DEF RowsStep, RowsInv, Proven, WsTakes, SessTakes

LEMMA AutoRenewRows ==
    ASSUME CommitsAssumption, BoundsAssumption, SessionsInv, AutoRenewLease
    PROVE  RowsStep
  <1>1. /\ TypeOK /\ ws \in WorkspaceRows /\ sess \in SessionRows
        /\ ws.status = "active" /\ Managed /\ merged' = merged
        /\ sess.head = ws.head /\ sess.base = ws.base
        /\ sess.status \in SessStatus \ {"none", "merged"}
    BY RowFields, EffectiveIs, Statuses
       DEF SessionsInv, AutoRenewLease, Managed, Synced, SameIdentity, SameRest, external
  <1>2. /\ ws.rev \in Nat /\ ws.rev < MaxWsRev /\ MaxWsRev \in Nat
        /\ WsGrant(ws)
        /\ SessUpdate([sess EXCEPT !.w = ws.rev + 1, !.lease = ws.rev + 1])
    BY <1>1, RowFields, BaseFacts DEF AutoRenewLease, RenewPair, WsGrant
  <1>3. WsTakes("active", ws.head, ws.base, ws.rev + 1, ws.drift) /\ lapsed' \in BOOLEAN
    BY <1>1, <1>2, WsGranted
  <1> DEFINE n == ws.rev + 1
             row == [sess EXCEPT !.w = n, !.lease = n]
  <1>4. n \in 0..MaxWsRev
    BY <1>2
  <1>5. SessUpdate(row)
    BY <1>2
  <1> HIDE DEF n
  <1>6. /\ row \in SessionRows
        /\ row.status = sess.status /\ row.w = n /\ row.head = ws.head
        /\ row.base = ws.base /\ row.lease = n
    BY <1>1, <1>4 DEF SessionRows
  <1> HIDE DEF row
  <1>7. SessTakes(sess.status, n, ws.head, ws.base, n)
    BY <1>1, <1>5, <1>6, SessTaken
  <1>8. Ready
    BY <1>7 DEF Ready, SessTakes, Validating
  <1>9. SessTakes(sess.status, ws.rev + 1, ws.head, ws.base, n)
    BY <1>7 DEF n
  <1>10. "active" \in WsStatus \ {"none"} /\ Forward(sess.head, ws.head)
    BY <1>1 DEF WsStatus, Forward
  <1> QED
    BY <1>1, <1>3, <1>8, <1>9, <1>10, PairStep

LEMMA FinalizeRows ==
    ASSUME CommitsAssumption, BoundsAssumption, SessionsInv, FinalizeMerged
    PROVE  RowsStep
  <1>1. /\ TypeOK /\ ws \in WorkspaceRows /\ sess \in SessionRows
        /\ ws.status = "active" /\ Managed /\ merged' = merged
        /\ sess.head = ws.head /\ sess.base = ws.base
        /\ merged # NoCommit /\ sess.head = merged
        /\ sess.status \in {"active", "pr_ready"}
    BY RowFields, Statuses
       DEF SessionsInv, FinalizeMerged, MergedTask, MergeEvidence, Managed, SameIdentity,
           SameRest, external
  <1>2. /\ ws.rev \in Nat /\ ws.rev < MaxWsRev /\ MaxWsRev \in Nat
        /\ WsUpdate([CloseRow EXCEPT !.drift = "none"])
        /\ SessUpdate([sess EXCEPT !.status = "merged", !.w = ws.rev + 1,
                                   !.lease = 0, !.pull = TRUE])
    BY <1>1, RowFields, BaseFacts DEF FinalizeMerged, FinishPair, WsUpdate
  <1> DEFINE n == ws.rev + 1
             row == [sess EXCEPT !.status = "merged", !.w = n, !.lease = 0, !.pull = TRUE]
             wrow == [ws EXCEPT !.status = "closed", !.lease = 0, !.drift = "none"]
  <1>3. n \in 0..MaxWsRev /\ 0 \in 0..MaxWsRev
    BY <1>2
  <1>4. SessUpdate(row)
    BY <1>2
  <1>5. WsUpdate(wrow)
    <2>1. [CloseRow EXCEPT !.drift = "none"] = wrow
      BY <1>1 DEF CloseRow, WorkspaceRows
    <2> QED
      BY <1>2, <2>1
  <1> HIDE DEF n
  <1>6. /\ row \in SessionRows
        /\ row.status = "merged" /\ row.w = n /\ row.head = ws.head
        /\ row.base = ws.base /\ row.lease = 0
    BY <1>1, <1>3, Statuses DEF SessionRows
  <1>7. /\ wrow \in WorkspaceRows
        /\ wrow.status = "closed" /\ wrow.head = ws.head /\ wrow.base = ws.base
        /\ wrow.lease = 0 /\ wrow.drift = "none"
    BY <1>1, <1>3 DEF WorkspaceRows, WsStatus
  <1> HIDE DEF row, wrow
  <1>8. WsTakes("closed", ws.head, ws.base, 0, "none") /\ lapsed' = lapsed
    BY <1>1, <1>5, <1>7, WsTaken
  <1>9. SessTakes("merged", n, ws.head, ws.base, 0)
    BY <1>1, <1>4, <1>6, SessTaken
  <1>10. SessTakes("merged", ws.rev + 1, ws.head, ws.base, 0)
    BY <1>9 DEF n
  <1>11. Ready
    BY <1>10, NotReady DEF SessTakes, Validating
  <1>12. /\ Forward(sess.head, ws.head) /\ lapsed' \in BOOLEAN
         /\ "closed" \in WsStatus \ {"none"} /\ "merged" \in SessStatus \ {"none"}
    BY <1>1, <1>8, RowFields, Statuses DEF Forward, WsStatus
  <1> QED
    BY <1>1, <1>8, <1>10, <1>11, <1>12, PairStep

LEMMA AdoptRows ==
    ASSUME CommitsAssumption, BoundsAssumption, SessionsInv,
           NEW b \in Bases, NEW pull \in BOOLEAN, AdoptHead(b, pull),
           Drifted, Recoverable, Forward(sess.head, ws.head)
    PROVE  RowsStep
  <1>1. /\ TypeOK /\ ws \in WorkspaceRows /\ sess \in SessionRows /\ ws.head \in Heads
        /\ ws.status = "drifted" /\ Managed /\ merged' = merged
        /\ sess.status \notin Validating
    BY RowFields, Statuses
       DEF SessionsInv, AdoptHead, Drifted, Recoverable, Managed, SameRest, external
  <1>2. /\ ws.rev \in Nat /\ ws.rev < MaxWsRev /\ MaxWsRev \in Nat
        /\ WsGrant([ws EXCEPT !.status = "active", !.drift = "none", !.base = b])
        /\ SessUpdate([sess EXCEPT !.status = "active", !.head = ws.head, !.base = b,
                                   !.w = ws.rev + 1, !.lease = ws.rev + 1, !.pull = pull])
    BY <1>1, RowFields, BaseFacts DEF AdoptHead, WsGrant
  <1> DEFINE n == ws.rev + 1
             row == [sess EXCEPT !.status = "active", !.head = ws.head, !.base = b,
                                 !.w = n, !.lease = n, !.pull = pull]
             wrow == [ws EXCEPT !.status = "active", !.drift = "none", !.base = b]
  <1>3. n \in 0..MaxWsRev
    BY <1>2
  <1>4. SessUpdate(row) /\ WsGrant(wrow)
    BY <1>2
  <1> HIDE DEF n
  <1>5. /\ row \in SessionRows
        /\ row.status = "active" /\ row.w = n /\ row.head = ws.head
        /\ row.base = b /\ row.lease = n
    BY <1>1, <1>3, Statuses DEF SessionRows
  <1>6. /\ wrow \in WorkspaceRows
        /\ wrow.status = "active" /\ wrow.head = ws.head /\ wrow.base = b
        /\ wrow.drift = "none"
    BY <1>1 DEF WorkspaceRows, WsStatus
  <1> HIDE DEF row, wrow
  <1>7. WsTakes("active", ws.head, b, ws.rev + 1, "none") /\ lapsed' \in BOOLEAN
    BY <1>1, <1>4, <1>6, WsGranted
  <1>8. SessTakes("active", n, ws.head, b, n)
    BY <1>1, <1>4, <1>5, SessTaken
  <1>9. SessTakes("active", ws.rev + 1, ws.head, b, n)
    BY <1>8 DEF n
  <1>10. "active" \in WsStatus \ {"none"} /\ "active" \in SessStatus \ {"none"}
    BY Statuses DEF WsStatus
  <1>11. Ready
    BY <1>9, NotReady DEF SessTakes, Validating
  <1> QED
    BY <1>1, <1>7, <1>9, <1>10, <1>11, PairStep

LEMMA RecoveryRows ==
    ASSUME CommitsAssumption, BoundsAssumption, SessionsInv,
           RecoverDrifted \/ RecoverBaseSynced \/ RecoverRetargeted
    PROVE  RowsStep
  <1>0. sess.pull \in BOOLEAN
    BY RowFields DEF SessionsInv
  <1>1. CASE RecoverDrifted
    <2>1. PICK b \in Bases : SameBase(b) /\ AdoptHead(b, sess.pull)
      BY <1>1 DEF RecoverDrifted
    <2> QED
      BY <1>0, <2>1, AdoptRows DEF SameBase, Forward
  <1>2. CASE RecoverBaseSynced
    <2>1. PICK b \in Bases : BaseSynced(b) /\ AdoptHead(b, sess.pull)
      BY <1>2 DEF RecoverBaseSynced, AdoptSynced
    <2> QED
      BY <1>0, <2>1, AdoptRows DEF BaseSynced, BaseSyncPair
  <1>3. CASE RecoverRetargeted
    <2>1. PICK b \in Bases : Retargeted(b) /\ AdoptHead(b, TRUE)
      BY <1>3 DEF RecoverRetargeted, AdoptRetargeted
    <2>2. Drifted /\ Recoverable /\ Forward(sess.head, ws.head)
      BY <2>1 DEF Retargeted, RetargetPair
    <2>3. TRUE \in BOOLEAN
      OBVIOUS
    <2> QED
      BY <2>1, <2>2, <2>3, AdoptRows
  <1> QED
    BY <1>1, <1>2, <1>3

LEMMA ActiveStaleRows ==
    ASSUME CommitsAssumption, BoundsAssumption, SessionsInv, RecoverActiveStale
    PROVE  RowsStep
  <1>1. /\ TypeOK /\ ws \in WorkspaceRows /\ ws.head \in Heads
        /\ ws.lease \in 0..MaxWsRev /\ ws.rev \in 0..MaxWsRev /\ ws.rev <= ws.rev
        /\ ws.status = "active" /\ Managed /\ merged' = merged /\ lapsed \in BOOLEAN
        /\ Forward(sess.head, ws.head) /\ sess.base = ws.base
    BY RowFields, BaseFacts, EffectiveIs
       DEF SessionsInv, RecoverActiveStale, ActiveStale, Forward, SameRest, external
  <1>2. "active" \in ActiveStates /\ "active" \in SessStatus \ {"none", "merged"}
        /\ "active" \in WsStatus \ {"none"}
    BY Statuses DEF WsStatus
  <1>3. CASE SameWs /\ SessUpdate([sess EXCEPT !.status = "active", !.head = ws.head,
                                               !.w = ws'.rev, !.lease = ws.lease])
    <2>1. SessUpdate([sess EXCEPT !.status = "active", !.head = ws.head,
                                  !.w = ws.rev, !.lease = ws.lease])
          /\ UNCHANGED <<ws, lapsed, merged>>
      BY <1>1, <1>3 DEF SameWs
    <2> QED
      BY <1>1, <1>2, <2>1, AdoptionStep
  <1>4. CASE WsUpdate(ws) /\ SessUpdate([sess EXCEPT !.status = "active", !.head = ws.head,
                                               !.w = ws'.rev, !.lease = ws.lease])
    <2>1. WsTakes("active", ws.head, ws.base, ws.lease, ws.drift) /\ lapsed' = lapsed
      BY <1>1, <1>4, WsTaken
    <2> DEFINE n == ws'.rev
               ls == ws.lease
    <2>2. n \in 0..MaxWsRev /\ n = ws.rev + 1
      BY <2>1 DEF WsTakes, WorkspaceRows
    <2>3. SessUpdate([sess EXCEPT !.status = "active", !.head = ws.head, !.w = n,
                                  !.lease = ls])
          /\ ls \in 0..MaxWsRev
      BY <1>1, <1>4
    <2> HIDE DEF n, ls
    <2>4. SessTakes("active", n, ws.head, ws.base, ls)
      BY <1>1, <1>2, <2>2, <2>3, SessSet
    <2>5. SessTakes("active", ws.rev + 1, ws.head, ws.base, ls)
      BY <2>2, <2>4
    <2>6. Ready /\ lapsed' \in BOOLEAN
      BY <1>1, <2>1, <2>5, NotReady DEF SessTakes, Validating
    <2> QED
      BY <1>1, <1>2, <2>1, <2>5, <2>6, PairStep
  <1> QED
    BY <1>3, <1>4 DEF RecoverActiveStale

LEMMA FirstSessionRows ==
    ASSUME CommitsAssumption, BoundsAssumption, SessionsInv, FirstSession
    PROVE  RowsStep
  <1>1. /\ TypeOK /\ ws \in WorkspaceRows /\ ws.head \in Heads /\ ws.base \in Bases
        /\ ws.status \in {"active", "drifted"}
        /\ sess.status = "none" /\ merged' = merged
    BY RowFields, EffectiveIs
       DEF SessionsInv, FirstSession, Sessionless, Drifted, SameRest, external
  <1> DEFINE wrow == [ws EXCEPT !.status = "active", !.drift = "none"]
             n == ws.rev + 1
  <1>2. /\ wrow \in WorkspaceRows
        /\ wrow.status = "active" /\ wrow.head = ws.head /\ wrow.base = ws.base
        /\ wrow.drift = "none"
    BY <1>1 DEF WorkspaceRows, WsStatus
  <1>3. /\ WsGrant(wrow)
        /\ sess' = [status |-> "active", rev |-> 1, w |-> n, head |-> ws.head,
                    base |-> ws.base, lease |-> n, pull |-> FALSE]
    BY DEF FirstSession
  <1>4. n \in 0..MaxWsRev /\ n <= n /\ n = ws.rev + 1
    BY <1>1, RowFields, BaseFacts DEF FirstSession, WsGrant
  <1> HIDE DEF wrow, n
  <1>5. WsTakes("active", ws.head, ws.base, ws.rev + 1, "none") /\ lapsed' \in BOOLEAN
    BY <1>1, <1>2, <1>3, WsGranted
  <1>6. /\ ws' \in WorkspaceRows /\ ws'.rev = n /\ ws'.status = "active"
        /\ ws'.head = ws.head /\ ws'.base = ws.base /\ ws'.rev = ws.rev + 1
        /\ n <= ws'.rev
    BY <1>4, <1>5 DEF WsTakes
  <1> QED
    BY <1>1, <1>3, <1>4, <1>5, <1>6, FirstStep

-----------------------------------------------------------------------------
(* Every step moves the rows well.                                         *)

LEMMA StillRows ==
    ASSUME CommitsAssumption, BoundsAssumption, SessionsInv, SameRows, merged' = merged
    PROVE  RowsStep
  BY RowsStay, RowFields DEF SameRows, SameWs, SessionsInv

LEMMA MergeRows ==
    ASSUME CommitsAssumption, BoundsAssumption, SessionsInv,
           NEW c \in Clients, MergePullRequest(c)
    PROVE  RowsStep
  <1>1. UNCHANGED <<ws, sess, lapsed>> /\ merged = NoCommit
    BY DEF MergePullRequest, SameRows, SameWs
  <1>2. sess.status # "merged" /\ ws \in WorkspaceRows /\ sess \in SessionRows
        /\ lapsed \in BOOLEAN
    BY <1>1, RowFields DEF SessionsInv, MergedIsExact
  <1>3. RowsInv'
    BY <1>1, <1>2 DEF SessionsInv, RowsInv, RowsSound, RevisionNamesIdentity, OnePinnedBase,
           MergedIsExact, Managed, SameIdentity
  <1>4. Grows /\ HeadForward /\ Ready
    BY <1>1 DEF Grows, HeadForward, Forward, Ready, Validating
  <1> QED
    BY <1>3, <1>4 DEF RowsStep, Proven

LEMMA LapseRows ==
    ASSUME CommitsAssumption, BoundsAssumption, SessionsInv, LeaseLapses
    PROVE  RowsStep
  <1>1. UNCHANGED <<ws, sess, merged>> /\ lapsed' \in BOOLEAN
    BY DEF LeaseLapses, SameRest, external
  <1> QED
    BY <1>1, RowsStay

LEMMA WorkspaceCallRows ==
    ASSUME CommitsAssumption, BoundsAssumption, SessionsInv, WorkspaceCalls
    PROVE  RowsStep
  <1>1. CASE RenewWorkspaceLease \/ DeclareScope \/ ResumeWorkspace \/ RefreshWorkspace
    BY <1>1, GrantRows, ResumeRows, RefreshRows
  <1>2. ASSUME NEW c \in Clients, CreateWorkspace(c) PROVE RowsStep
    BY <1>2, CreateRows
  <1>3. ASSUME NEW c \in Clients, BeginClose(c) PROVE RowsStep
    BY <1>3, StillRows DEF BeginClose, SameRest, external
  <1>4. ASSUME NEW c \in Clients, CloseWorkspace(c) PROVE RowsStep
    <2>1. ws.status # "none"
      BY <1>4 DEF CloseWorkspace, SessionsInv, CallSound
    <2> QED
      BY <2>1, <1>4, CloseUpdated DEF CloseWorkspace, SameRest, external
  <1> QED
    BY <1>1, <1>2, <1>3, <1>4 DEF WorkspaceCalls

LEMMA FailsRows ==
    ASSUME CommitsAssumption, BoundsAssumption, SessionsInv,
           NEW c \in Clients, PreparationFails(c) \/ CloseForSession(c)
    PROVE  RowsStep /\ ws'.rev \in Nat
  <1>1. ws.status # "none"
    BY DEF PreparationFails, CloseForSession, SessionsInv, CallSound
  <1>2. CloseUpdate(c) /\ UNCHANGED <<sess, merged>>
    BY DEF PreparationFails, CloseForSession, SameRest, external
  <1> QED
    BY <1>1, <1>2, CloseUpdated

LEMMA SessionCallRows ==
    ASSUME CommitsAssumption, BoundsAssumption, SessionsInv, SessionCalls
    PROVE  RowsStep
  <1>1. CASE RecoverStaleSession \/ AutoRenewLease
    BY <1>1, RecoverStaleRows, AutoRenewRows
  <1>2. ASSUME NEW c \in Clients,
               CreateSession(c) \/ PreparationCompleted(c)
               \/ PreparationFails(c) \/ PreparationFailed(c)
        PROVE  RowsStep
    BY <1>2, CreateSessionRows, PreparedRows, FailsRows, EndRows
  <1>3. ASSUME NEW c \in Clients, BeginWrite(c) \/ PushCommit(c)
        PROVE  RowsStep
    BY <1>3, StillRows DEF BeginWrite, PushCommit, SameRest, external
  <1>4. ASSUME NEW c \in Clients, WorkspaceWriteComplete(c) \/ SyncFromWorkspace(c)
        PROVE  RowsStep
    BY <1>4, WriteRows, SyncRows
  <1> QED
    BY <1>1, <1>2, <1>3, <1>4 DEF SessionCalls

LEMMA ValidationCallRows ==
    ASSUME CommitsAssumption, BoundsAssumption, SessionsInv, ValidationCalls
    PROVE  RowsStep
  <1>1. ASSUME NEW c \in Clients, StartValidationRequest(c) \/ RecordValidation(c)
        PROVE  RowsStep
    BY <1>1, StillRows DEF StartValidationRequest, RecordValidation, external
  <1>2. ASSUME NEW c \in Clients,
               ValidationStarted(c) \/ RollBackValidation(c) \/ ValidationObserved(c)
        PROVE  RowsStep
    BY <1>2, StartedRows, RollBackRows, ObservedRows
  <1> QED
    BY <1>1, <1>2, ReconcileRows DEF ValidationCalls

LEMMA FinalizeCallRows ==
    ASSUME CommitsAssumption, BoundsAssumption, SessionsInv, FinalizeCalls
    PROVE  RowsStep
  <1>1. ASSUME NEW c \in Clients, BeginMerge(c) \/ ReadForClose(c)
        PROVE  RowsStep
    BY <1>1, StillRows DEF BeginMerge, ReadForClose, SameRest, external
  <1>2. ASSUME NEW c \in Clients,
               MergePullRequest(c) \/ SessionClosing(c)
               \/ CloseForSession(c) \/ SessionClosed(c)
        PROVE  RowsStep
    BY <1>2, MergeRows, ClosingRows, FailsRows, EndRows
  <1> QED
    BY <1>1, <1>2, PullRows, FinalizeRows DEF FinalizeCalls

LEMMA RowsMove ==
    ASSUME CommitsAssumption, BoundsAssumption, SessionsInv, Next
    PROVE  RowsStep
  <1>1. CASE RecoveryCalls
    BY <1>1, RecoveryRows, ActiveStaleRows, FirstSessionRows DEF RecoveryCalls
  <1>2. CASE RequestEnds \/ BranchMoves \/ BaseAdvances
    BY <1>2, StillRows DEF RequestEnds, BranchMoves, BaseAdvances, external
  <1>3. CASE World
    BY <1>2, <1>3, LapseRows, ExpireRows, RestartRows DEF World
  <1>4. ASSUME NEW c \in Clients, GiveUp(c) PROVE RowsStep
    BY <1>4, StillRows DEF GiveUp, SameRest, external
  <1> QED
    BY <1>1, <1>3, <1>4, WorkspaceCallRows, SessionCallRows, ValidationCallRows,
       FinalizeCallRows DEF Next

-----------------------------------------------------------------------------
(* Validations.                                                            *)

\* A validation that started keeps the head it started for.
ReqStep ==
    /\ req' \in [1..MaxSessRev -> Requests]
    /\ \A g \in 1..MaxSessRev :
          req[g].status # "none" =>
             req'[g].status # "none" /\ req'[g].head = req[g].head

LEMMA ReqFrame ==
    ASSUME Next
    PROVE  \/ UNCHANGED req
           \/ RequestEnds
           \/ \E c \in Clients : \/ ValidationStarted(c)
                                 \/ StartValidationRequest(c) \/ RecordValidation(c)
  <1>1. CASE WorkspaceCalls
    BY <1>1 DEF WorkspaceCalls, RenewWorkspaceLease, DeclareScope, ResumeWorkspace,
                RefreshWorkspace, CreateWorkspace, BeginClose, CloseWorkspace, SameRest
  <1>2. CASE SessionCalls
    BY <1>2 DEF SessionCalls, RecoverStaleSession, AutoRenewLease, CreateSession,
                PreparationCompleted, PreparationFails, PreparationFailed, BeginWrite,
                PushCommit, WorkspaceWriteComplete, SyncFromWorkspace, SameRest
  <1>3. CASE ValidationCalls
    BY <1>3 DEF ValidationCalls, ReconcileValidation, RollBackValidation,
                ValidationObserved, SameRest
  <1>4. CASE FinalizeCalls
    BY <1>4 DEF FinalizeCalls, PullRequestPrepared, FinalizeMerged, BeginMerge,
                MergePullRequest, SessionClosing, ReadForClose, CloseForSession,
                SessionClosed, SameRest
  <1>5. CASE RecoveryCalls
    BY <1>5 DEF RecoveryCalls, RecoverDrifted, RecoverBaseSynced, RecoverRetargeted,
                AdoptSynced, AdoptRetargeted, AdoptHead, RecoverActiveStale, FirstSession,
                SameRest
  <1>6. CASE World
    BY <1>6 DEF World, BranchMoves, BaseAdvances, LeaseLapses, OwnerExpires, Restart,
                SameRest
  <1>7. CASE \E c \in Clients : GiveUp(c)
    BY <1>7 DEF GiveUp, SameRest
  <1> QED
    BY <1>1, <1>2, <1>3, <1>4, <1>5, <1>6, <1>7 DEF Next

\* A step that starts no validation: the same ones started before.
LEMMA ReqSame ==
    ASSUME CommitsAssumption, BoundsAssumption, SessionsInv, RowsStep,
           \A c \in Clients : ~ValidationStarted(c),
           \A g \in 1..MaxSessRev : req'[g].status = "none" <=> req[g].status = "none"
    PROVE  ReqSound'
  <1>1. sess.rev \in Nat /\ sess' \in SessionRows /\ sess'.rev \in Nat
        /\ (sess'.rev = sess.rev \/ sess'.rev = sess.rev + 1)
    BY RowFields, BaseFacts DEF SessionsInv, RowsStep, RowsInv, Grows, SessionRows
  <1>2. \A g \in 1..MaxSessRev : req'[g].status # "none" => g <= sess'.rev
    BY <1>1 DEF SessionsInv, ReqSound
  <1>3. ASSUME sess'.status \in Validating
        PROVE  \E g \in 1..MaxSessRev :
                  /\ req'[g].status # "none"
                  /\ \A h \in g + 1..MaxSessRev : req'[h].status = "none"
    <2>1. sess.status \in Validating
      BY <1>3 DEF RowsStep, Proven, Ready, RollBackValidation
    <2>2. PICK g \in 1..MaxSessRev :
             /\ req[g].status # "none"
             /\ \A h \in g + 1..MaxSessRev : req[h].status = "none"
      BY <2>1 DEF SessionsInv, ReqSound
    <2>3. \A h \in g + 1..MaxSessRev : h \in 1..MaxSessRev
      BY BaseFacts
    <2> QED
      BY <2>2, <2>3
  <1> QED
    BY <1>2, <1>3 DEF ReqSound

\* A validation takes another status than none, and keeps its head.
LEMMA ReqMoved ==
    ASSUME CommitsAssumption, BoundsAssumption, SessionsInv, RowsStep,
           \A c \in Clients : ~ValidationStarted(c),
           NEW g \in 1..MaxSessRev, req[g].status # "none",
           NEW r \in Requests, r.status # "none", r.head = req[g].head,
           req' = [req EXCEPT ![g] = r]
    PROVE  ReqStep /\ ReqSound'
  <1>1. req \in [1..MaxSessRev -> Requests]
    BY DEF SessionsInv, TypeOK
  <1>2. /\ req' \in [1..MaxSessRev -> Requests]
        /\ req'[g] = r
        /\ \A h \in 1..MaxSessRev : h # g => req'[h] = req[h]
    BY <1>1
  <1>3. ReqStep
    BY <1>2 DEF ReqStep
  <1>4. \A h \in 1..MaxSessRev : req'[h].status = "none" <=> req[h].status = "none"
    BY <1>2
  <1> QED
    BY <1>3, <1>4, ReqSame

LEMMA StartedReq ==
    ASSUME CommitsAssumption, BoundsAssumption, SessionsInv,
           NEW c \in Clients, ValidationStarted(c)
    PROVE  /\ ReqStep /\ ReqSound'
           /\ sess.rev + 1 \in 1..MaxSessRev
           /\ req'[sess.rev + 1].status # "none"
           /\ req'[sess.rev + 1].head = sess.head
  <1>1. /\ req \in [1..MaxSessRev -> Requests] /\ sess.rev \in Nat /\ sess.head \in Heads
        /\ MaxSessRev \in Nat /\ sess'.rev = sess.rev + 1
    BY RowFields, BaseFacts, StartedRows DEF SessionsInv, TypeOK
  <1>2. PICK mode \in Validating :
           /\ SessUpdate([sess EXCEPT !.status = mode])
           /\ req' = [req EXCEPT ![sess.rev + 1] =
                        [status |-> "started", mode |-> mode, head |-> sess.head,
                         recorded |-> FALSE]]
    BY DEF ValidationStarted
  <1> DEFINE n == sess.rev + 1
             r == [status |-> "started", mode |-> mode, head |-> sess.head,
                   recorded |-> FALSE]
  <1>3. n \in 1..MaxSessRev /\ \A h \in n + 1..MaxSessRev : h \in 1..MaxSessRev
    BY <1>1, <1>2 DEF SessUpdate
  <1>4. r \in Requests /\ r.status = "started" /\ r.head = sess.head
    BY <1>1 DEF Requests
  <1>5. req' = [req EXCEPT ![n] = r]
    BY <1>2
  <1>6. \A h \in 1..MaxSessRev : req[h].status # "none" => h <= sess.rev
    BY DEF SessionsInv, ReqSound
  <1>7. n = sess.rev + 1
    OBVIOUS
  <1> HIDE DEF n, r
  <1>8. /\ req' \in [1..MaxSessRev -> Requests]
        /\ req'[n] = r
        /\ \A h \in 1..MaxSessRev : h # n => req'[h] = req[h]
    BY <1>1, <1>3, <1>4, <1>5
  <1>9. req[n].status = "none" /\ \A h \in 1..MaxSessRev : h > n => req[h].status = "none"
    BY <1>1, <1>3, <1>6, <1>7
  <1>10. ReqStep
    BY <1>8, <1>9 DEF ReqStep
  <1>11. \A h \in 1..MaxSessRev : req'[h].status # "none" => h <= n
    BY <1>1, <1>3, <1>6, <1>7, <1>8
  <1>12. \A h \in n + 1..MaxSessRev : req'[h].status = "none"
    BY <1>1, <1>3, <1>7, <1>8, <1>9
  <1>13. ReqSound'
    BY <1>1, <1>3, <1>4, <1>7, <1>8, <1>11, <1>12 DEF ReqSound
  <1> QED
    BY <1>3, <1>4, <1>7, <1>8, <1>10, <1>13

LEMMA RequestFields ==
    ASSUME NEW r \in Requests
    PROVE  /\ \A st \in {"queued", "passed", "failed"} :
                 /\ [r EXCEPT !.status = st] \in Requests
                 /\ [r EXCEPT !.status = st].status = st
                 /\ [r EXCEPT !.status = st].head = r.head
           /\ [r EXCEPT !.recorded = TRUE] \in Requests
           /\ [r EXCEPT !.recorded = TRUE].status = r.status
           /\ [r EXCEPT !.recorded = TRUE].head = r.head
  BY DEF Requests

LEMMA ReqMoves ==
    ASSUME CommitsAssumption, BoundsAssumption, SessionsInv, Next
    PROVE  ReqStep /\ ReqSound'
  <1>1. CASE \E c \in Clients : ValidationStarted(c)
    BY <1>1, StartedReq
  <1>2. CASE \A c \in Clients : ~ValidationStarted(c)
    <2>0. RowsStep /\ req \in [1..MaxSessRev -> Requests]
      BY RowsMove DEF SessionsInv, TypeOK
    <2>1. CASE UNCHANGED req
      BY <1>2, <2>0, <2>1, ReqSame DEF ReqStep
    <2>2. CASE RequestEnds
      <3>1. PICK g \in 1..MaxSessRev, st \in {"passed", "failed"} :
               req[g].status = "queued" /\ req' = [req EXCEPT ![g].status = st]
        BY <2>2 DEF RequestEnds
      <3> DEFINE r == [req[g] EXCEPT !.status = st]
      <3>2. r \in Requests /\ r.status # "none" /\ r.head = req[g].head
        <4>1. req[g] \in Requests /\ st \in {"queued", "passed", "failed"} /\ st # "none"
          BY <2>0
        <4>2. /\ [req[g] EXCEPT !.status = st] \in Requests
              /\ [req[g] EXCEPT !.status = st].status = st
              /\ [req[g] EXCEPT !.status = st].head = req[g].head
          BY <4>1, RequestFields
        <4> QED
          BY <4>1, <4>2
      <3>3. req' = [req EXCEPT ![g] = r]
        BY <3>1
      <3> HIDE DEF r
      <3> QED
        BY <1>2, <2>0, <3>1, <3>2, <3>3, ReqMoved
    <2>3. ASSUME NEW c \in Clients, StartValidationRequest(c)
          PROVE  ReqStep /\ ReqSound'
      <3> DEFINE g == call[c].s
                 r == [req[g] EXCEPT !.status = "queued"]
      <3>1. g \in 1..MaxSessRev /\ req[g].status # "none"
        BY <2>3 DEF StartValidationRequest, SessionsInv, CallSound, Validated
      <3>2. r \in Requests /\ r.status = "queued" /\ r.head = req[g].head
        BY <2>0, <3>1, RequestFields
      <3>3. req' = [req EXCEPT ![g] = r]
        BY <2>3 DEF StartValidationRequest
      <3> HIDE DEF r, g
      <3> QED
        BY <1>2, <2>0, <3>1, <3>2, <3>3, ReqMoved
    <2>4. ASSUME NEW c \in Clients, RecordValidation(c)
          PROVE  ReqStep /\ ReqSound'
      <3> DEFINE g == call[c].s
                 r == [req[g] EXCEPT !.recorded = TRUE]
      <3>1. g \in 1..MaxSessRev /\ req[g].status # "none"
        BY <2>4 DEF RecordValidation, SessionsInv, CallSound, Validated
      <3>2. r \in Requests /\ r.status = req[g].status /\ r.head = req[g].head
        BY <2>0, <3>1, RequestFields
      <3>3. req' = [req EXCEPT ![g] = r]
        BY <2>4 DEF RecordValidation
      <3> HIDE DEF r, g
      <3> QED
        BY <1>2, <2>0, <3>1, <3>2, <3>3, ReqMoved
    <2> QED
      BY <1>2, <2>1, <2>2, <2>3, <2>4, ReqFrame
  <1> QED
    BY <1>1, <1>2

-----------------------------------------------------------------------------
(* Calls.                                                                  *)

\* CallSound in the next state, of a call x of this one or the next.
SoundNext(x) ==
    /\ x.w <= ws'.rev /\ x.s <= sess'.rev
    /\ x.op # "idle" => ws'.status # "none"
    /\ x.op = "prepare" =>
          /\ sess'.status = "none" => x.base = ws'.base
          /\ x.w = ws'.rev => x.head = ws'.head
    /\ x.op \in {"write", "pushed"} /\ x.w = ws'.rev => ws'.status = "active"
    /\ x.op = "sync" /\ x.w = ws'.rev => x.head = ws'.head
    /\ x.op = "write" /\ x.s = sess'.rev => x.head = sess'.head
    /\ x.op \in {"pushed", "sync"} /\ x.s = sess'.rev =>
          <<sess'.head, x.head>> \in Before
    /\ x.op \in Validated =>
          /\ x.s \in 1..MaxSessRev
          /\ req'[x.s].status # "none"
          /\ x.s = sess'.rev => req'[x.s].head = sess'.head
    /\ x.op = "start_request" => x.to \in {"active", "pr_ready"}

LEMMA CallFields ==
    ASSUME TypeOK, NEW c \in Clients
    PROVE  /\ call \in [Clients -> Calls] /\ call[c] \in Calls
           /\ call[c].op \in Ops /\ call[c].w \in 0..MaxWsRev /\ call[c].w \in Nat
           /\ call[c].s \in 0..MaxSessRev /\ call[c].s \in Nat
           /\ call[c].head \in Heads /\ call[c].base \in Bases
           /\ call[c].lease \in 0..MaxWsRev /\ call[c].to \in {"", "active", "pr_ready"}
  <1>1. call \in [Clients -> Calls] /\ call[c] \in Calls
    BY DEF TypeOK
  <1>2. /\ call[c].op \in Ops /\ call[c].w \in 0..MaxWsRev
        /\ call[c].s \in 0..MaxSessRev /\ call[c].lease \in 0..MaxWsRev
        /\ call[c].head \in Heads /\ call[c].base \in Bases
    BY <1>1 DEF Calls
  <1>3. call[c].to \in {"", "active", "pr_ready"}
    BY <1>1 DEF Calls
  <1>4. call[c].w \in Nat /\ call[c].s \in Nat
    BY <1>2
  <1> QED
    BY <1>1, <1>2, <1>3, <1>4

\* Revisions in the next state.
LEMMA NextFields ==
    ASSUME CommitsAssumption, BoundsAssumption, SessionsInv, RowsStep
    PROVE  /\ ws.rev \in Nat /\ ws'.rev \in Nat /\ sess.rev \in Nat /\ sess'.rev \in Nat
           /\ ws'.rev \in 0..MaxWsRev /\ sess'.rev \in 0..MaxSessRev
           /\ ws' = ws \/ ws'.rev = ws.rev + 1
           /\ sess' = sess \/ sess'.rev = sess.rev + 1
           /\ ws.rev <= ws'.rev /\ sess.rev <= sess'.rev
  <1>1. /\ ws' \in WorkspaceRows /\ sess' \in SessionRows
        /\ ws' = ws \/ ws'.rev = ws.rev + 1
        /\ sess' = sess \/ sess'.rev = sess.rev + 1
    BY DEF RowsStep, RowsInv, Grows
  <1>2. ws'.rev \in 0..MaxWsRev /\ sess'.rev \in 0..MaxSessRev
    BY <1>1 DEF WorkspaceRows, SessionRows
  <1>3. /\ ws.rev \in Nat /\ sess.rev \in Nat /\ ws'.rev \in Nat /\ sess'.rev \in Nat
    BY <1>2, RowFields, BaseFacts DEF SessionsInv
  <1>4. ws.rev <= ws'.rev
    BY <1>1, <1>3
  <1>5. sess.rev <= sess'.rev
    BY <1>1, <1>3
  <1> QED
    BY <1>1, <1>2, <1>3, <1>4, <1>5

\* What a call relies on stays so, whatever others do.
LEMMA StaysSound ==
    ASSUME CommitsAssumption, BoundsAssumption, SessionsInv, RowsStep, ReqStep,
           NEW d \in Clients
    PROVE  SoundNext(call[d])
  <1> DEFINE x == call[d]
  <1>1. CallSound(x) /\ x.w \in Nat /\ x.s \in Nat
    BY CallFields DEF SessionsInv
  <1> HIDE DEF x
  <1>2. x.w <= ws.rev /\ x.s <= sess.rev
    BY <1>1 DEF CallSound
  <1>3. /\ x.w = ws'.rev => ws' = ws
        /\ x.s = sess'.rev => sess' = sess
        /\ x.w <= ws'.rev /\ x.s <= sess'.rev
    BY <1>1, <1>2, NextFields
  <1>4. /\ ws.status # "none" => ws'.status # "none"
        /\ sess.status # "none" => sess'.status # "none"
        /\ ws'.base = ws.base \/ ws.status = "none" \/ sess'.status # "none"
    BY DEF RowsStep, Grows
  <1>5. x.op # "idle" => ws'.status # "none"
    BY <1>1, <1>4 DEF CallSound
  <1>6. x.op = "prepare" =>
          /\ sess'.status = "none" => x.base = ws'.base
          /\ x.w = ws'.rev => x.head = ws'.head
    BY <1>1, <1>3, <1>4 DEF CallSound
  <1>7. /\ x.op \in {"write", "pushed"} /\ x.w = ws'.rev => ws'.status = "active"
        /\ x.op = "sync" /\ x.w = ws'.rev => x.head = ws'.head
    BY <1>1, <1>3 DEF CallSound
  <1>8. /\ x.op = "write" /\ x.s = sess'.rev => x.head = sess'.head
        /\ x.op \in {"pushed", "sync"} /\ x.s = sess'.rev =>
              <<sess'.head, x.head>> \in Before
    BY <1>1, <1>3 DEF CallSound
  <1>9. x.op \in Validated =>
          /\ x.s \in 1..MaxSessRev
          /\ req'[x.s].status # "none"
          /\ x.s = sess'.rev => req'[x.s].head = sess'.head
    BY <1>1, <1>3 DEF CallSound, ReqStep
  <1>10. x.op = "start_request" => x.to \in {"active", "pr_ready"}
    BY <1>1 DEF CallSound
  <1> QED
    BY <1>3, <1>5, <1>6, <1>7, <1>8, <1>9, <1>10 DEF SoundNext, x

\* What the step of a client is to show.
Acted(c) == /\ call' \in [Clients -> Calls]
            /\ \A d \in Clients : d # c => call'[d] = call[d]
            /\ SoundNext(call'[c])

LEMMA Continued ==
    ASSUME TypeOK, NEW c \in Clients, NEW x \in Calls, Continue(c, x), SoundNext(x)
    PROVE  Acted(c)
  <1>1. call \in [Clients -> Calls]
    BY CallFields
  <1>2. /\ call' \in [Clients -> Calls] /\ call'[c] = x
        /\ \A d \in Clients : d # c => call'[d] = call[d]
    BY <1>1 DEF Continue
  <1> QED
    BY <1>2 DEF Acted

LEMMA IdleCall ==
    ASSUME CommitsAssumption, BoundsAssumption
    PROVE  /\ Idle \in Calls /\ Idle.op = "idle" /\ Idle.w = 0 /\ Idle.s = 0
           /\ Idle.head = NoCommit /\ Idle.base = NoBase
  <1>1. 0 \in 0..MaxWsRev /\ 0 \in 0..MaxSessRev
    BY BaseFacts
  <1>2. "idle" \in Ops
    BY DEF Ops
  <1>3. NoBase \in Bases /\ NoCommit \in Heads
    BY BaseFacts
  <1>4. Idle \in Calls
    BY <1>1, <1>2, <1>3 DEF Idle, Calls
  <1> QED
    BY <1>4 DEF Idle

LEMMA IdleSound ==
    ASSUME CommitsAssumption, BoundsAssumption, SessionsInv, RowsStep
    PROVE  SoundNext(Idle)
  <1>1. 0 <= ws'.rev /\ 0 <= sess'.rev
    BY NextFields
  <1> QED
    BY <1>1, IdleCall DEF SoundNext, Validated

LEMMA ActedReturn ==
    ASSUME CommitsAssumption, BoundsAssumption, SessionsInv, RowsStep,
           NEW c \in Clients, Return(c)
    PROVE  Acted(c)
  <1>1. Continue(c, Idle) /\ TypeOK
    BY DEF Return, Continue, SessionsInv
  <1> QED
    BY <1>1, IdleCall, IdleSound, Continued

\* Calls that rely on no more than their revisions.
Plain == {"close", "merge", "closing", "close_ws", "closed", "preparing", "unprepared"}

LEMMA PlainSound ==
    ASSUME NEW x, x.op \in Plain, x.w <= ws'.rev, x.s <= sess'.rev, ws'.status # "none"
    PROVE  SoundNext(x)
  BY DEF SoundNext, Plain, Validated

LEMMA ReadFields ==
    ASSUME CommitsAssumption, BoundsAssumption, SessionsInv,
           NEW op \in Ops, NEW hd \in Heads
    PROVE  /\ Read(op) \in Calls
           /\ Read(op).op = op /\ Read(op).w = ws.rev /\ Read(op).s = sess.rev
           /\ [Read(op) EXCEPT !.head = hd] \in Calls
           /\ [Read(op) EXCEPT !.head = hd].op = op
           /\ [Read(op) EXCEPT !.head = hd].w = ws.rev
           /\ [Read(op) EXCEPT !.head = hd].s = sess.rev
           /\ [Read(op) EXCEPT !.head = hd].head = hd
  <1> DEFINE m == ws.rev
             n == sess.rev
             x == [Idle EXCEPT !.op = op, !.w = m, !.s = n]
  <1>1. m \in 0..MaxWsRev /\ n \in 0..MaxSessRev
    BY RowFields, BaseFacts DEF SessionsInv
  <1>2. x = Read(op)
    BY DEF Read
  <1>3. m = ws.rev /\ n = sess.rev
    OBVIOUS
  <1> HIDE DEF m, n
  <1>4. x \in Calls /\ x.op = op /\ x.w = m /\ x.s = n
    BY <1>1, IdleCall DEF Calls
  <1> HIDE DEF x
  <1>5. /\ [x EXCEPT !.head = hd] \in Calls /\ [x EXCEPT !.head = hd].op = op
        /\ [x EXCEPT !.head = hd].w = m /\ [x EXCEPT !.head = hd].s = n
        /\ [x EXCEPT !.head = hd].head = hd
    BY <1>4 DEF Calls
  <1> QED
    BY <1>2, <1>3, <1>4, <1>5

LEMMA CreateCall ==
    ASSUME CommitsAssumption, BoundsAssumption, SessionsInv, RowsStep,
           NEW c \in Clients, CreateWorkspace(c)
    PROVE  Acted(c)
  <1>1. PICK br \in Branches, managed \in BOOLEAN :
           LET b == [br |-> br, sha |-> base[br]] IN
           /\ ws' = [status |-> "active", rev |-> 1, head |-> base[br],
                     base |-> b, lease |-> 1, drift |-> "none"]
           /\ IF managed
              THEN Continue(c, [Idle EXCEPT !.op = "prepare", !.w = 1, !.base = b,
                                            !.head = base[br], !.lease = 1])
              ELSE Return(c)
    BY DEF CreateWorkspace
  <1> DEFINE b == [br |-> br, sha |-> base[br]]
             hd == base[br]
             x == [Idle EXCEPT !.op = "prepare", !.w = 1, !.base = b, !.head = hd,
                               !.lease = 1]
  <1>2. base[br] \in Trunk /\ base[br] \in Commits
    BY DEF SessionsInv, TypeOK, CommitsAssumption
  <1>3. b \in Bases /\ hd \in Heads /\ 1 \in 0..MaxWsRev
    BY <1>2, BaseFacts DEF Bases, Heads
  <1>4. /\ ws' = [status |-> "active", rev |-> 1, head |-> hd,
                  base |-> b, lease |-> 1, drift |-> "none"]
        /\ managed => Continue(c, x)
        /\ ~managed => Return(c)
    BY <1>1
  <1> HIDE DEF b, hd
  <1>5. /\ x \in Calls /\ x.op = "prepare" /\ x.w = 1 /\ x.s = 0 /\ x.base = b
        /\ x.head = hd
    BY <1>3, IdleCall DEF Calls, Ops
  <1> HIDE DEF x
  <1>6. ws'.status = "active" /\ ws'.rev = 1 /\ ws'.head = hd /\ ws'.base = b
    BY <1>4
  <1>7. 0 <= sess'.rev
    BY NextFields
  <1>8. SoundNext(x)
    BY <1>5, <1>6, <1>7 DEF SoundNext, Validated
  <1> QED
    BY <1>4, <1>5, <1>8, ActedReturn, Continued DEF SessionsInv

LEMMA BeginPlain ==
    ASSUME CommitsAssumption, BoundsAssumption, SessionsInv, RowsStep,
           NEW c \in Clients, BeginClose(c) \/ BeginMerge(c)
    PROVE  Acted(c)
  <1>1. ws.rev <= ws'.rev /\ sess.rev <= sess'.rev /\ TypeOK
    BY NextFields DEF SessionsInv
  <1>2. ws.status # "none" => ws'.status # "none"
    BY DEF RowsStep, Grows
  <1>3. CASE BeginClose(c)
    <2> DEFINE x == Read("close")
    <2>1. x \in Calls /\ x.op = "close" /\ x.w = ws.rev /\ x.s = sess.rev
      BY ReadFields, BaseFacts DEF Ops
    <2>2. Continue(c, x) /\ ws.status # "none"
      BY <1>3 DEF BeginClose
    <2> HIDE DEF x
    <2>3. SoundNext(x)
      BY <1>1, <1>2, <2>1, <2>2, PlainSound DEF Plain
    <2> QED
      BY <1>1, <2>1, <2>2, <2>3, Continued
  <1>4. CASE BeginMerge(c)
    <2> DEFINE x == [Read("merge") EXCEPT !.head = sess.head]
    <2>1. x \in Calls /\ x.op = "merge" /\ x.w = ws.rev /\ x.s = sess.rev
      <3>1. sess.head \in Heads /\ "merge" \in Ops
        BY RowFields DEF Ops, SessionsInv
      <3> QED
        BY <3>1, ReadFields
    <2>2. Continue(c, x) /\ ws.status # "none"
      BY <1>4 DEF BeginMerge, SessionsInv, RowsSound
    <2> HIDE DEF x
    <2>3. SoundNext(x)
      BY <1>1, <1>2, <2>1, <2>2, PlainSound DEF Plain
    <2> QED
      BY <1>1, <2>1, <2>2, <2>3, Continued
  <1> QED
    BY <1>3, <1>4

\* A call that goes on as a plain one, at other revisions perhaps.
LEMMA PlainMove ==
    ASSUME CommitsAssumption, BoundsAssumption, SessionsInv, RowsStep,
           NEW c \in Clients, call[c].op # "idle",
           NEW x \in Calls, x.op \in Plain, x.w <= ws'.rev, x.s <= sess'.rev,
           Continue(c, x)
    PROVE  Acted(c)
  <1>1. ws'.status # "none" /\ TypeOK
    BY DEF SessionsInv, CallSound, RowsStep, Grows
  <1>2. SoundNext(x)
    BY <1>1, PlainSound
  <1> QED
    BY <1>1, <1>2, Continued

LEMMA CallKnows ==
    ASSUME CommitsAssumption, BoundsAssumption, SessionsInv, RowsStep, NEW c \in Clients
    PROVE  call[c].w <= ws'.rev /\ call[c].s <= sess'.rev /\ ws'.rev <= ws'.rev
  <1> DEFINE m == call[c].w
             n == call[c].s
  <1>1. m <= ws.rev /\ n <= sess.rev /\ m \in Nat /\ n \in Nat
    BY CallFields DEF SessionsInv, CallSound
  <1> HIDE DEF m, n
  <1>2. m <= ws'.rev /\ n <= sess'.rev /\ ws'.rev <= ws'.rev
    BY <1>1, NextFields
  <1> QED
    BY <1>2 DEF m, n

LEMMA CreateSessionCall ==
    ASSUME CommitsAssumption, BoundsAssumption, SessionsInv, RowsStep,
           NEW c \in Clients, CreateSession(c)
    PROVE  Acted(c)
  <1> DEFINE z == call[c]
             x == [z EXCEPT !.op = "preparing", !.s = 1]
  <1>1. 1 \in 0..MaxSessRev /\ 1 <= sess'.rev
    BY BaseFacts, CreateSessionRows
  <1>2. z \in Calls /\ z.w <= ws'.rev
    BY CallFields, CallKnows DEF SessionsInv
  <1>3. Continue(c, x) /\ call[c].op # "idle"
    BY DEF CreateSession
  <1> HIDE DEF z
  <1>4. x \in Calls /\ x.op = "preparing" /\ x.s = 1 /\ x.w = z.w
    BY <1>1, <1>2 DEF Calls, Ops
  <1> HIDE DEF x
  <1> QED
    BY <1>1, <1>2, <1>3, <1>4, PlainMove DEF Plain

LEMMA FailsCall ==
    ASSUME CommitsAssumption, BoundsAssumption, SessionsInv, RowsStep,
           NEW c \in Clients, PreparationFails(c)
    PROVE  Acted(c)
  <1>1. CASE Return(c)
    BY <1>1, ActedReturn
  <1>2. CASE ~Return(c)
    <2>1. PICK m \in {ws'.rev, call[c].w}, ls \in {0, call[c].lease} :
             Continue(c, [call[c] EXCEPT !.op = "unprepared", !.w = m, !.lease = ls])
      BY <1>2 DEF PreparationFails
    <2> DEFINE z == call[c]
               x == [z EXCEPT !.op = "unprepared", !.w = m, !.lease = ls]
    <2>2. m \in 0..MaxWsRev /\ ls \in 0..MaxWsRev /\ m <= ws'.rev
      <3>1. /\ ws'.rev \in 0..MaxWsRev /\ 0 \in 0..MaxWsRev /\ ws'.rev <= ws'.rev
            /\ call[c].w <= ws'.rev
        BY CallKnows, NextFields, BaseFacts
      <3>2. call[c].w \in 0..MaxWsRev /\ call[c].lease \in 0..MaxWsRev
        BY CallFields DEF SessionsInv
      <3> QED
        BY <2>1, <3>1, <3>2
    <2>3. z \in Calls /\ z.s <= sess'.rev
      BY CallFields, CallKnows DEF SessionsInv
    <2>4. Continue(c, x) /\ call[c].op # "idle"
      BY <2>1 DEF PreparationFails
    <2> HIDE DEF z
    <2>5. x \in Calls /\ x.op = "unprepared" /\ x.w = m /\ x.s = z.s
      BY <2>2, <2>3 DEF Calls, Ops
    <2> HIDE DEF x
    <2> QED
      BY <2>2, <2>3, <2>4, <2>5, PlainMove DEF Plain
  <1> QED
    BY <1>1, <1>2

LEMMA ClosingCalls ==
    ASSUME CommitsAssumption, BoundsAssumption, SessionsInv, RowsStep,
           NEW c \in Clients, ReadForClose(c) \/ CloseForSession(c)
    PROVE  Acted(c)
  <1>1. PICK m \in {ws.rev, ws'.rev}, op \in {"close_ws", "closed"} :
           Continue(c, [call[c] EXCEPT !.op = op, !.w = m])
    BY DEF ReadForClose, CloseForSession
  <1> DEFINE z == call[c]
             x == [z EXCEPT !.op = op, !.w = m]
  <1>2. m \in 0..MaxWsRev /\ m <= ws'.rev
    BY NextFields, RowFields, BaseFacts DEF SessionsInv
  <1>3. z \in Calls /\ z.s <= sess'.rev
    BY CallFields, CallKnows DEF SessionsInv
  <1>4. Continue(c, x) /\ call[c].op # "idle"
    BY <1>1 DEF ReadForClose, CloseForSession
  <1> HIDE DEF z
  <1>5. x \in Calls /\ x.op = op /\ x.w = m /\ x.s = z.s
    BY <1>2, <1>3 DEF Calls, Ops
  <1> HIDE DEF x
  <1> QED
    BY <1>2, <1>3, <1>4, <1>5, PlainMove DEF Plain

LEMMA SessionClosingCall ==
    ASSUME CommitsAssumption, BoundsAssumption, SessionsInv, RowsStep,
           NEW c \in Clients, SessionClosing(c)
    PROVE  Acted(c)
  <1> DEFINE n == sess.rev + 1
             x == [Idle EXCEPT !.op = "closing", !.s = n]
  <1>1. n \in 0..MaxSessRev /\ n <= sess'.rev
    BY ClosingRows, NextFields
  <1>2. Continue(c, x) /\ ws.status # "none" /\ TypeOK
    <2>1. sess.status # "none"
      BY DEF SessionClosing, Validating
    <2> QED
      BY <2>1 DEF SessionClosing, SessionsInv, RowsSound
  <1> HIDE DEF n
  <1>3. x \in Calls /\ x.op = "closing" /\ x.w = 0 /\ x.s = n
    BY <1>1, IdleCall DEF Calls, Ops
  <1> HIDE DEF x
  <1>4. ws'.status # "none" /\ 0 <= ws'.rev
    BY <1>2, NextFields DEF RowsStep, Grows
  <1>5. SoundNext(x)
    BY <1>1, <1>3, <1>4, PlainSound DEF Plain
  <1> QED
    BY <1>2, <1>3, <1>5, Continued

LEMMA BeginWriteCall ==
    ASSUME CommitsAssumption, BoundsAssumption, SessionsInv, RowsStep,
           NEW c \in Clients, BeginWrite(c)
    PROVE  Acted(c)
  <1> DEFINE x == [Read("write") EXCEPT !.head = ws.head]
  <1>1. ws.head \in Heads /\ "write" \in Ops /\ TypeOK
    BY RowFields DEF Ops, SessionsInv
  <1>2. x \in Calls /\ x.op = "write" /\ x.w = ws.rev /\ x.s = sess.rev /\ x.head = ws.head
    BY <1>1, ReadFields
  <1>3. Continue(c, x) /\ UNCHANGED <<ws, sess>>
    BY DEF BeginWrite, SameRows, SameWs
  <1>4. ws.status = "active" /\ sess.head = ws.head
    BY EffectiveIs DEF BeginWrite, WriteAdmitted
  <1> HIDE DEF x
  <1>5. SoundNext(x)
    BY <1>2, <1>3, <1>4, NextFields DEF SoundNext, Validated
  <1> QED
    BY <1>1, <1>2, <1>3, <1>5, Continued

LEMMA PushCall ==
    ASSUME CommitsAssumption, BoundsAssumption, SessionsInv, RowsStep,
           NEW c \in Clients, PushCommit(c)
    PROVE  Acted(c)
  <1> DEFINE z == call[c]
  <1>1. PICK new \in Commits :
           <<git, new>> \in Child /\ Continue(c, [z EXCEPT !.op = "pushed", !.head = new])
    BY DEF PushCommit
  <1> DEFINE x == [z EXCEPT !.op = "pushed", !.head = new]
  <1>2. z \in Calls /\ CallSound(z) /\ TypeOK
    BY CallFields DEF SessionsInv
  <1>3. z.op = "write" /\ git = z.head /\ UNCHANGED <<ws, sess>> /\ Continue(c, x)
    BY <1>1 DEF PushCommit, SameRows, SameWs
  <1>4. z.w <= ws'.rev /\ z.s <= sess'.rev
    BY CallKnows
  <1> HIDE DEF z
  <1>5. new \in Heads
    BY DEF Heads
  <1>6. /\ x \in Calls /\ x.op = "pushed" /\ x.w = z.w /\ x.s = z.s /\ x.head = new
    BY <1>2, <1>5 DEF Calls, Ops
  <1> HIDE DEF x
  <1>7. z.s = sess.rev => <<sess.head, new>> \in Before
    BY <1>1, <1>2, <1>3 DEF CallSound, CommitsAssumption
  <1>8. ws.status # "none" /\ (z.w = ws.rev => ws.status = "active")
    BY <1>2, <1>3 DEF CallSound
  <1>9. SoundNext(x)
    BY <1>3, <1>4, <1>6, <1>7, <1>8 DEF SoundNext, Validated
  <1> QED
    BY <1>2, <1>3, <1>6, <1>9, Continued

LEMMA WriteCall ==
    ASSUME CommitsAssumption, BoundsAssumption, SessionsInv, RowsStep,
           NEW c \in Clients, WorkspaceWriteComplete(c)
    PROVE  Acted(c)
  <1> DEFINE z == call[c]
             n == ws.rev + 1
             ls == ws.lease
             x == [z EXCEPT !.op = "sync", !.w = n, !.lease = ls]
  <1>1. z \in Calls /\ CallSound(z) /\ TypeOK
    BY CallFields DEF SessionsInv
  <1>2. z.op = "pushed" /\ UNCHANGED sess /\ Continue(c, x)
    BY DEF WorkspaceWriteComplete
  <1>3. /\ ws'.rev = n /\ ws'.head = z.head /\ n \in 0..MaxWsRev /\ n <= ws'.rev
        /\ ls \in 0..MaxWsRev /\ z.s <= sess'.rev
    BY WriteRows, NextFields, RowFields, CallKnows DEF SessionsInv
  <1> HIDE DEF z, n, ls
  <1>4. x \in Calls /\ x.op = "sync" /\ x.w = n /\ x.s = z.s /\ x.head = z.head
    BY <1>1, <1>3 DEF Calls, Ops
  <1> HIDE DEF x
  <1>5. ws'.status # "none"
    BY <1>1, <1>2 DEF CallSound, RowsStep, Grows
  <1>6. z.s = sess.rev => <<sess.head, z.head>> \in Before
    BY <1>1, <1>2 DEF CallSound
  <1>7. SoundNext(x)
    BY <1>2, <1>3, <1>4, <1>5, <1>6 DEF SoundNext, Validated
  <1> QED
    BY <1>1, <1>2, <1>4, <1>7, Continued

LEMMA StartedCall ==
    ASSUME CommitsAssumption, BoundsAssumption, SessionsInv, RowsStep,
           NEW c \in Clients, ValidationStarted(c)
    PROVE  Acted(c)
  <1> DEFINE n == sess.rev + 1
             st == sess.status
             x == [Idle EXCEPT !.op = "start_request", !.s = n, !.to = st]
  <1>1. st \in {"active", "pr_ready"} /\ Continue(c, x) /\ TypeOK /\ ws.status # "none"
    BY EffectiveIs DEF ValidationStarted, SessionsInv
  <1>2. /\ n \in 1..MaxSessRev /\ n \in 0..MaxSessRev
        /\ req'[n].status # "none" /\ req'[n].head = sess.head
    BY StartedReq, NextFields
  <1>3. sess'.rev = n /\ sess'.head = sess.head /\ n <= sess'.rev
    BY StartedRows, NextFields
  <1> HIDE DEF n, st
  <1>4. /\ x \in Calls /\ x.op = "start_request" /\ x.w = 0 /\ x.s = n
        /\ x.to \in {"active", "pr_ready"}
    BY <1>1, <1>2, IdleCall DEF Calls, Ops
  <1> HIDE DEF x
  <1>5. ws'.status # "none" /\ 0 <= ws'.rev
    BY <1>1, NextFields DEF RowsStep, Grows
  <1>6. SoundNext(x)
    BY <1>2, <1>3, <1>4, <1>5 DEF SoundNext, Validated
  <1> QED
    BY <1>1, <1>4, <1>6, Continued

\* A call that follows its validation.
LEMMA ValidatedMove ==
    ASSUME CommitsAssumption, BoundsAssumption, SessionsInv, RowsStep, ReqStep,
           NEW c \in Clients, call[c].op \in Validated,
           NEW op \in {"record", "observe"},
           Continue(c, [call[c] EXCEPT !.op = op])
    PROVE  Acted(c)
  <1> DEFINE z == call[c]
             x == [z EXCEPT !.op = op]
  <1>1. z \in Calls /\ TypeOK /\ SoundNext(z) /\ z.op \in Validated
    BY CallFields, StaysSound DEF SessionsInv
  <1>2. Continue(c, x)
    OBVIOUS
  <1> HIDE DEF z
  <1>3. x \in Calls /\ x.op = op /\ x.w = z.w /\ x.s = z.s
    BY <1>1 DEF Calls, Ops
  <1> HIDE DEF x
  <1>4. SoundNext(x)
    <2>1. z.op # "idle"
      BY <1>1 DEF Validated
    <2> QED
      BY <1>1, <1>3, <2>1 DEF SoundNext, Validated
  <1> QED
    BY <1>1, <1>2, <1>3, <1>4, Continued

LEMMA ValidationCallsAct ==
    ASSUME CommitsAssumption, BoundsAssumption, SessionsInv, RowsStep, ReqStep,
           NEW c \in Clients, StartValidationRequest(c) \/ RecordValidation(c)
    PROVE  Acted(c)
  <1>1. CASE StartValidationRequest(c)
    BY <1>1, ValidatedMove DEF StartValidationRequest, Validated
  <1>2. CASE RecordValidation(c)
    BY <1>2, ValidatedMove DEF RecordValidation, Validated
  <1> QED
    BY <1>1, <1>2

LEMMA ReturningCalls ==
    ASSUME CommitsAssumption, BoundsAssumption, SessionsInv, RowsStep, NEW c \in Clients,
           \/ CloseWorkspace(c) \/ PreparationCompleted(c) \/ PreparationFailed(c)
           \/ SyncFromWorkspace(c) \/ RollBackValidation(c) \/ ValidationObserved(c)
           \/ MergePullRequest(c) \/ SessionClosed(c) \/ GiveUp(c)
    PROVE  Acted(c)
  <1>1. Return(c)
    BY DEF CloseWorkspace, PreparationCompleted, PreparationFailed, SyncFromWorkspace,
           RollBackValidation, ValidationObserved, MergePullRequest, SessionClosed, GiveUp
  <1> QED
    BY <1>1, ActedReturn

LEMMA CallFrame ==
    ASSUME Next
    PROVE  \/ UNCHANGED call \/ Restart
           \/ \E c \in Clients :
                 \/ CreateWorkspace(c) \/ BeginClose(c) \/ CloseWorkspace(c)
                 \/ CreateSession(c) \/ PreparationCompleted(c)
                 \/ PreparationFails(c) \/ PreparationFailed(c)
                 \/ BeginWrite(c) \/ PushCommit(c) \/ WorkspaceWriteComplete(c)
                 \/ SyncFromWorkspace(c)
                 \/ ValidationStarted(c) \/ StartValidationRequest(c)
                 \/ RollBackValidation(c) \/ RecordValidation(c) \/ ValidationObserved(c)
                 \/ BeginMerge(c) \/ MergePullRequest(c)
                 \/ SessionClosing(c) \/ ReadForClose(c)
                 \/ CloseForSession(c) \/ SessionClosed(c) \/ GiveUp(c)
  <1>1. CASE WorkspaceCalls
    BY <1>1 DEF WorkspaceCalls, RenewWorkspaceLease, DeclareScope, ResumeWorkspace,
                RefreshWorkspace
  <1>2. CASE SessionCalls
    BY <1>2 DEF SessionCalls, RecoverStaleSession, AutoRenewLease
  <1>3. CASE ValidationCalls
    BY <1>3 DEF ValidationCalls, ReconcileValidation
  <1>4. CASE FinalizeCalls
    BY <1>4 DEF FinalizeCalls, PullRequestPrepared, FinalizeMerged
  <1>5. CASE RecoveryCalls
    BY <1>5 DEF RecoveryCalls, RecoverDrifted, RecoverBaseSynced, RecoverRetargeted,
                AdoptSynced, AdoptRetargeted, AdoptHead, RecoverActiveStale, FirstSession
  <1>6. CASE World
    BY <1>6 DEF World, RequestEnds, BranchMoves, BaseAdvances, LeaseLapses, OwnerExpires
  <1> QED
    BY <1>1, <1>2, <1>3, <1>4, <1>5, <1>6 DEF Next

LEMMA CallsMove ==
    ASSUME CommitsAssumption, BoundsAssumption, SessionsInv, Next
    PROVE  call' \in [Clients -> Calls] /\ \A d \in Clients : SoundNext(call'[d])
  <1>0. RowsStep /\ ReqStep /\ call \in [Clients -> Calls]
    BY RowsMove, ReqMoves DEF SessionsInv, TypeOK
  <1>1. ASSUME NEW c \in Clients, Acted(c)
        PROVE  call' \in [Clients -> Calls] /\ \A d \in Clients : SoundNext(call'[d])
    BY <1>0, <1>1, StaysSound DEF Acted
  <1>2. CASE UNCHANGED call
    BY <1>0, <1>2, StaysSound
  <1>3. CASE Restart
    BY <1>0, <1>3, IdleCall, IdleSound DEF Restart
  <1>4. ASSUME NEW c \in Clients,
               \/ CreateWorkspace(c) \/ BeginClose(c) \/ CloseWorkspace(c)
               \/ CreateSession(c) \/ PreparationCompleted(c)
               \/ PreparationFails(c) \/ PreparationFailed(c)
               \/ BeginWrite(c) \/ PushCommit(c) \/ WorkspaceWriteComplete(c)
               \/ SyncFromWorkspace(c)
        PROVE  Acted(c)
    BY <1>0, <1>4, CreateCall, BeginPlain, ReturningCalls, CreateSessionCall, FailsCall,
       BeginWriteCall, PushCall, WriteCall
  <1>5. ASSUME NEW c \in Clients,
               \/ ValidationStarted(c) \/ StartValidationRequest(c)
               \/ RollBackValidation(c) \/ RecordValidation(c) \/ ValidationObserved(c)
               \/ BeginMerge(c) \/ MergePullRequest(c)
               \/ SessionClosing(c) \/ ReadForClose(c)
               \/ CloseForSession(c) \/ SessionClosed(c) \/ GiveUp(c)
        PROVE  Acted(c)
    BY <1>0, <1>5, StartedCall, ValidationCallsAct, ReturningCalls, BeginPlain,
       SessionClosingCall, ClosingCalls
  <1> QED
    BY <1>1, <1>2, <1>3, <1>4, <1>5, CallFrame

-----------------------------------------------------------------------------
(* The invariant.                                                          *)

\* The task branch, the base branches and what GitHub merged.
LEMMA GitFrame ==
    ASSUME Next
    PROVE  /\ UNCHANGED git \/ BranchMoves
              \/ \E c \in Clients : CreateWorkspace(c) \/ PushCommit(c)
           /\ UNCHANGED base \/ BaseAdvances
           /\ UNCHANGED merged \/ \E c \in Clients : MergePullRequest(c)
           /\ UNCHANGED moves \/ BranchMoves
  <1>1. CASE WorkspaceCalls
    BY <1>1 DEF WorkspaceCalls, RenewWorkspaceLease, DeclareScope, ResumeWorkspace,
                RefreshWorkspace, CreateWorkspace, BeginClose, CloseWorkspace, SameRest,
                external
  <1>2. CASE SessionCalls
    BY <1>2 DEF SessionCalls, RecoverStaleSession, AutoRenewLease, CreateSession,
                PreparationCompleted, PreparationFails, PreparationFailed, BeginWrite,
                PushCommit, WorkspaceWriteComplete, SyncFromWorkspace, SameRest, external
  <1>3. CASE ValidationCalls
    BY <1>3 DEF ValidationCalls, ReconcileValidation, ValidationStarted,
                StartValidationRequest, RollBackValidation, RecordValidation,
                ValidationObserved, SameRest, external
  <1>4. CASE FinalizeCalls
    BY <1>4 DEF FinalizeCalls, PullRequestPrepared, FinalizeMerged, BeginMerge,
                MergePullRequest, SessionClosing, ReadForClose, CloseForSession,
                SessionClosed, SameRest, external
  <1>5. CASE RecoveryCalls
    BY <1>5 DEF RecoveryCalls, RecoverDrifted, RecoverBaseSynced, RecoverRetargeted,
                AdoptSynced, AdoptRetargeted, AdoptHead, RecoverActiveStale, FirstSession,
                SameRest, external
  <1>6. CASE World
    BY <1>6 DEF World, RequestEnds, BranchMoves, BaseAdvances, LeaseLapses, OwnerExpires,
                Restart, SameRest, external
  <1>7. CASE \E c \in Clients : GiveUp(c)
    BY <1>7 DEF GiveUp, SameRest, external
  <1> QED
    BY <1>1, <1>2, <1>3, <1>4, <1>5, <1>6, <1>7 DEF Next

LEMMA GitMoves ==
    ASSUME CommitsAssumption, BoundsAssumption, SessionsInv, Next
    PROVE  /\ git' \in Heads /\ base' \in [Branches -> Trunk]
           /\ merged' \in Heads /\ moves' \in 0..MaxMoves
  <1>1. /\ git \in Heads /\ base \in [Branches -> Trunk]
        /\ merged \in Heads /\ moves \in 0..MaxMoves
    BY DEF SessionsInv, TypeOK
  <1>2. git' \in Heads
    <2>1. CASE BranchMoves
      BY <2>1 DEF BranchMoves, Heads
    <2>2. ASSUME NEW c \in Clients, CreateWorkspace(c) PROVE git' \in Heads
      <3>1. PICK br \in Branches : git' = base[br]
        BY <2>2 DEF CreateWorkspace
      <3> QED
        BY <1>1, <3>1 DEF Heads, CommitsAssumption
    <2>3. ASSUME NEW c \in Clients, PushCommit(c) PROVE git' \in Heads
      BY <2>3 DEF PushCommit, Heads
    <2> QED
      BY <1>1, <2>1, <2>2, <2>3, GitFrame
  <1>3. base' \in [Branches -> Trunk]
    BY <1>1, GitFrame DEF BaseAdvances
  <1>4. merged' \in Heads
    BY <1>1, <1>2, GitFrame DEF MergePullRequest
  <1>5. moves' \in 0..MaxMoves
    BY <1>1, GitFrame DEF BranchMoves, BoundsAssumption
  <1> QED
    BY <1>2, <1>3, <1>4, <1>5

LEMMA InitInv ==
    ASSUME CommitsAssumption, BoundsAssumption, Init
    PROVE  SessionsInv
  <1>1. 0 \in 0..MaxWsRev /\ 0 \in 0..MaxSessRev /\ 0 \in 0..MaxMoves
    BY BaseFacts DEF BoundsAssumption
  <1>2. NoCommit \in Heads /\ NoBase \in Bases /\ Idle \in Calls
    BY BaseFacts, IdleCall
  <1>3. ws \in WorkspaceRows
    BY <1>1, <1>2 DEF Init, WorkspaceRows, WsStatus
  <1>4. sess \in SessionRows
    BY <1>1, <1>2 DEF Init, SessionRows, SessStatus
  <1>5. req \in [1..MaxSessRev -> Requests]
    <2>1. [status |-> "none", mode |-> "", head |-> NoCommit, recorded |-> FALSE] \in Requests
      BY <1>2 DEF Requests
    <2> QED
      BY <2>1 DEF Init
  <1>6. TypeOK
    BY <1>1, <1>2, <1>3, <1>4, <1>5 DEF TypeOK, Init, CommitsAssumption
  <1>7. /\ ws.status = "none" /\ ws.rev = 0 /\ sess.status = "none" /\ sess.rev = 0
        /\ sess.w = 0
    BY DEF Init
  <1>8. RowsSound /\ RevisionNamesIdentity /\ OnePinnedBase /\ MergedIsExact
    BY <1>7 DEF RowsSound, RevisionNamesIdentity, OnePinnedBase, MergedIsExact, Managed,
                ActiveStates, Validating
  <1>9. \A g \in 1..MaxSessRev : req[g].status = "none"
    BY DEF Init
  <1>10. ReqSound
    BY <1>7, <1>9 DEF ReqSound, Validating
  <1>11. \A c \in Clients : CallSound(call[c])
    <2>1. \A c \in Clients : call[c] = Idle
      BY DEF Init
    <2>2. CallSound(Idle)
      BY <1>7, IdleCall DEF CallSound, Validated
    <2> QED
      BY <2>1, <2>2
  <1> QED
    BY <1>6, <1>8, <1>10, <1>11 DEF SessionsInv

LEMMA NextInv ==
    ASSUME CommitsAssumption, BoundsAssumption, SessionsInv, [Next]_vars
    PROVE  SessionsInv'
  <1>1. CASE Next
    <2>1. RowsInv' /\ ReqSound' /\ req' \in [1..MaxSessRev -> Requests]
      BY <1>1, RowsMove, ReqMoves DEF RowsStep, ReqStep
    <2>2. call' \in [Clients -> Calls] /\ \A d \in Clients : SoundNext(call'[d])
      BY <1>1, CallsMove
    <2>3. \A d \in Clients : CallSound(call[d])'
      BY <2>2 DEF SoundNext, CallSound
    <2>4. TypeOK'
      BY <1>1, <2>1, <2>2, GitMoves DEF TypeOK, RowsInv
    <2> QED
      BY <2>1, <2>3, <2>4 DEF SessionsInv, RowsInv
  <1>2. CASE UNCHANGED vars
    BY <1>2 DEF vars, SessionsInv, TypeOK, RowsSound, ReqSound, CallSound, Managed,
                SameIdentity, RevisionNamesIdentity, OnePinnedBase, MergedIsExact
  <1> QED
    BY <1>1, <1>2

\* The inductive invariant, and with it that every variable keeps its kind.
THEOREM SessionsInvariance == Spec => []SessionsInv
  <1>1. Init => SessionsInv
    BY CommitsAssumption, BoundsAssumption, InitInv
  <1>2. SessionsInv /\ [Next]_vars => SessionsInv'
    BY CommitsAssumption, BoundsAssumption, NextInv
  <1> QED
    BY <1>1, <1>2, PTL DEF Spec

THEOREM SessionsTyped == Spec => []TypeOK
  <1>1. SessionsInv => TypeOK
    BY DEF SessionsInv
  <1> QED
    BY <1>1, SessionsInvariance, PTL

-----------------------------------------------------------------------------
(* The properties.                                                         *)

\* require_session_workspace admits a write when the session refers to the
\* current revision of its workspace: the heads and bases then agree.
THEOREM RevisionIsIdentity == Spec => []RevisionNamesIdentity
  <1>1. SessionsInv => RevisionNamesIdentity
    BY DEF SessionsInv
  <1> QED
    BY <1>1, SessionsInvariance, PTL

\* A live session and its workspace are pinned to one base, through every
\* recovery that adopts another one.
THEOREM BaseIsOne == Spec => []OnePinnedBase
  <1>1. SessionsInv => OnePinnedBase
    BY DEF SessionsInv
  <1> QED
    BY <1>1, SessionsInvariance, PTL

\* finalize_development_task: a merged session has the head that GitHub merged,
\* and so has its closed workspace.
THEOREM MergeIsExact == Spec => []MergedIsExact
  <1>1. SessionsInv => MergedIsExact
    BY DEF SessionsInv
  <1> QED
    BY <1>1, SessionsInvariance, PTL

\* Except for the restart, a session never takes a head that its own does not
\* lead to, whichever recovery or late answer writes it.
THEOREM SessionGoesForward == Spec => ForwardOnly
  <1> DEFINE A == \/ sess.status = "none"
                  \/ Forward(sess.head, sess'.head)
                  \/ Restart
  <1>1. SessionsInv /\ [Next]_vars => [A]_vars
    <2>1. ASSUME SessionsInv, Next PROVE A
      BY <2>1, CommitsAssumption, BoundsAssumption, RowsMove DEF RowsStep, HeadForward
    <2> QED
      BY <2>1
  <1> QED
    BY <1>1, SessionsInvariance, PTL DEF Spec, ForwardOnly

\* A validating session becomes ready only with a full validation that passed
\* for the head it has, or by the roll back of one that could not start.
THEOREM ReadyHasProof == Spec => ReadyIsProven
  <1> DEFINE A == sess.status \in Validating /\ sess'.status = "pr_ready" =>
                     \/ FullyPassed(sess'.head)
                     \/ \E c \in Clients : RollBackValidation(c)
  <1>1. SessionsInv /\ [Next]_vars => [A]_vars
    <2>1. ASSUME SessionsInv, Next PROVE A
      BY <2>1, CommitsAssumption, BoundsAssumption, RowsMove DEF RowsStep, Proven, Ready
    <2> QED
      BY <2>1
  <1> QED
    BY <1>1, SessionsInvariance, PTL DEF Spec, ReadyIsProven

-----------------------------------------------------------------------------
(* Both rows implement Revisioned.                                         *)

LEMMA WorkspaceStep ==
    ASSUME CommitsAssumption, BoundsAssumption, SessionsInv, [Next]_vars
    PROVE  [WorkspaceRow!Change]_(WorkspaceRow!vars)
  <1>1. CASE UNCHANGED ws
    BY <1>1 DEF WorkspaceRow!vars, WsContent
  <1>2. CASE ws' # ws
    <2>1. Next
      BY <1>2 DEF vars
    <2>2. /\ ws' \in WorkspaceRows /\ ws'.rev = ws.rev + 1
          /\ ws.status = "closed" =>
                /\ ws'.status = "closed" /\ ws'.head = ws.head /\ ws'.base = ws.base
                /\ ws'.lease = ws.lease /\ ws'.drift = ws.drift
      BY <1>2, <2>1, RowsMove DEF RowsStep, RowsInv, Grows
    <2>3. WsContent' \in WsContents
      BY <2>2 DEF WsContent, WsContents, WorkspaceRows
    <2>4. WsFinal(WsContent) => WsContent' = WsContent
      BY <2>2 DEF WsFinal, WsContent
    <2> QED
      BY <2>2, <2>3, <2>4 DEF WorkspaceRow!Change
  <1> QED
    BY <1>1, <1>2

LEMMA SessionStep ==
    ASSUME CommitsAssumption, BoundsAssumption, SessionsInv, [Next]_vars
    PROVE  [SessionRow!Change]_(SessionRow!vars)
  <1>1. CASE UNCHANGED sess
    BY <1>1 DEF SessionRow!vars, SessContent
  <1>2. CASE sess' # sess
    <2>1. Next
      BY <1>2 DEF vars
    <2>2. /\ sess' \in SessionRows /\ sess'.rev = sess.rev + 1
          /\ sess.status \notin TerminalStates
      BY <1>2, <2>1, RowsMove DEF RowsStep, RowsInv, Grows
    <2>3. SessContent' \in SessContents
      BY <2>2 DEF SessContent, SessContents, SessionRows
    <2>4. ~SessFinal(SessContent)
      BY <2>2 DEF SessFinal, SessContent
    <2> QED
      BY <2>2, <2>3, <2>4 DEF SessionRow!Change
  <1> QED
    BY <1>1, <1>2

\* The rows of the workspace and of the session change only with their next
\* revision, and not at all once they are closed.
THEOREM RowsImplementRevisioned == Spec => RowsAreRevisioned
  <1>1. Init => WorkspaceRow!Init
    <2>1. ASSUME Init PROVE WorkspaceRow!Init
      <3>1. SessionsInv /\ ws.rev = 0
        BY <2>1, CommitsAssumption, BoundsAssumption, InitInv DEF Init
      <3>2. ws \in WorkspaceRows
        BY <3>1 DEF SessionsInv, TypeOK
      <3>3. WsContent \in WsContents
        BY <3>2 DEF WsContent, WsContents, WorkspaceRows
      <3> QED
        BY <3>1, <3>3 DEF WorkspaceRow!Init
    <2> QED
      BY <2>1
  <1>2. Init => SessionRow!Init
    <2>1. ASSUME Init PROVE SessionRow!Init
      <3>1. SessionsInv /\ sess.rev = 0
        BY <2>1, CommitsAssumption, BoundsAssumption, InitInv DEF Init
      <3>2. sess \in SessionRows
        BY <3>1 DEF SessionsInv, TypeOK
      <3>3. SessContent \in SessContents
        BY <3>2 DEF SessContent, SessContents, SessionRows
      <3> QED
        BY <3>1, <3>3 DEF SessionRow!Init
    <2> QED
      BY <2>1
  <1>3. SessionsInv /\ [Next]_vars => [WorkspaceRow!Change]_(WorkspaceRow!vars)
    BY CommitsAssumption, BoundsAssumption, WorkspaceStep
  <1>4. SessionsInv /\ [Next]_vars => [SessionRow!Change]_(SessionRow!vars)
    BY CommitsAssumption, BoundsAssumption, SessionStep
  <1> QED
    BY <1>1, <1>2, <1>3, <1>4, SessionsInvariance, PTL
       DEF Spec, RowsAreRevisioned, WorkspaceRow!Spec, SessionRow!Spec
=============================================================================
